---------------------------- MODULE RlSysProofs ----------------------------
(***************************************************************************)
(* Theorems about rlsys, in the composition with the other components: the *)
(* usage of the CPU, the readings, the paths; and the types of all.        *)
(***************************************************************************)
EXTENDS RlHostProofs, FiniteSetTheorems

-----------------------------------------------------------------------------
(* The CPU usage                                                           *)

(* A number has only one remainder.                                        *)
LEMMA OneRemainder ==
  ASSUME NEW W \in Nat \ {0}, NEW q \in Int, NEW r \in 0 .. (W - 1)
  PROVE  (W * q + r) % W = r
<1> DEFINE y == W * q + r
           p == y \div W
           s == y % W
<1>1. y \in Int /\ p \in Int /\ s \in 0 .. (W - 1)
  OBVIOUS
<1>2. y = W * p + s
  BY <1>1
<1> HIDE DEF p, s
<1>3. W * (q - p) = s - r
  BY <1>1, <1>2
<1>4. s - r < W /\ s - r > -W
  BY <1>1
<1>5. q - p < 1
  BY <1>1, <1>3, <1>4
<1>6. q - p > -1
  BY <1>1, <1>3, <1>4
<1>7. q = p
  BY <1>1, <1>5, <1>6
<1> QED
  BY <1>1, <1>3, <1>7 DEF s, y

(* The difference of two counters survives their wrap if it fits a word.   *)
LEMMA DiffExact ==
  ASSUME NEW a \in Int, NEW b \in Int, 0 <= a - b, a - b < Word
  PROVE  Diff(a % Word, b % Word) = a - b
<1>1. Word \in Nat \ {0}
  BY RlSysAssumption
<1>2. PICK p \in Int, q \in Int :
        a = Word * p + (a % Word) /\ b = Word * q + (b % Word)
  <2>1. a = Word * (a \div Word) + (a % Word) /\ (a \div Word) \in Int
    BY <1>1
  <2>2. b = Word * (b \div Word) + (b % Word) /\ (b \div Word) \in Int
    BY <1>1
  <2> QED
    BY <2>1, <2>2
<1> DEFINE r == a % Word
           s == b % Word
<1>3. r \in Int /\ s \in Int /\ a = Word * p + r /\ b = Word * q + s
  BY <1>1, <1>2
<1> HIDE DEF r, s
<1>4. r - s = Word * (q - p) + (a - b)
  BY <1>1, <1>3
<1>5. (Word * (q - p) + (a - b)) % Word = a - b
  BY <1>1, OneRemainder
<1> QED
  BY <1>4, <1>5 DEF Diff, r, s

(* A number that fits is its own remainder.                                *)
LEMMA FitsWord ==
  ASSUME NEW a \in Nat, a < Word
  PROVE  a % Word = a
BY RlSysAssumption

(* The counters of the kernel move within one of two windows.              *)
Window(b, m) ==
  /\ m.busy \in b .. b + MaxJiffies /\ m.idle \in 0 .. MaxJiffies
  /\ b \in {0, Word - 2}

(* The usage, in terms of how the kernel's counters have moved.            *)
LEMMA UsageExact ==
  ASSUME NEW b, NEW k, NEW m, Window(b, k), Window(b, m),
         sample.total = (k.busy + k.idle) % Word, sample.idle = k.idle % Word,
         tracker.valid,
         tracker.last_total = (m.busy + m.idle) % Word, tracker.last_idle = m.idle % Word,
         k.busy - m.busy >= 0, k.idle - m.idle >= 0
  PROVE  LET gb  == k.busy - m.busy
             all == (k.busy - m.busy) + (k.idle - m.idle)
         IN  Usage = IF all = 0 THEN 0 ELSE (gb * Permille) \div all
<1>1. PICK W \in Nat \ {0}, P \in Nat \ {0}, M \in Nat :
        /\ W = Word /\ P = Permille /\ M = MaxJiffies
        /\ 2 * M * P < W
  BY RlSysAssumption
<1>2. PICK kb \in Int, ki \in Int, mb \in Int, mi \in Int :
        /\ kb = k.busy /\ ki = k.idle /\ mb = m.busy /\ mi = m.idle
        /\ kb - mb >= 0 /\ kb - mb <= M /\ ki - mi >= 0 /\ ki - mi <= M
  <2>1. b \in Int
    BY RlSysAssumption DEF Window
  <2>2. /\ k.busy \in Int /\ b <= k.busy /\ k.busy <= b + M
        /\ k.idle \in Int /\ 0 <= k.idle /\ k.idle <= M
    BY <1>1, <2>1 DEF Window
  <2>3. /\ m.busy \in Int /\ b <= m.busy /\ m.busy <= b + M
        /\ m.idle \in Int /\ 0 <= m.idle /\ m.idle <= M
    BY <1>1, <2>1 DEF Window
  <2>4. k.busy - m.busy <= M /\ k.idle - m.idle <= M
    BY <1>1, <2>1, <2>2, <2>3
  <2> QED
    BY <2>2, <2>3, <2>4
<1>a. kb - mb \in Nat /\ ki - mi \in Nat /\ kb - mb <= M /\ ki - mi <= M
  BY <1>2
<1>3. PICK gb \in Nat, gi \in Nat : gb = kb - mb /\ gi = ki - mi /\ gb <= M /\ gi <= M
  BY <1>a
<1>4. gb + gi < W /\ gb * P \in Nat /\ gb * P < W
  <2>1. gb * P <= M * P /\ M * P \in Nat /\ M <= M * P
    BY <1>1, <1>3
  <2>2. 2 * (M * P) < W
    BY <1>1
  <2> QED
    BY <1>1, <1>3, <2>1, <2>2
<1>5. Diff(sample.total, tracker.last_total) = gb + gi
  <2>1. (kb + ki) - (mb + mi) = gb + gi
    BY <1>3
  <2>2. kb + ki \in Int /\ mb + mi \in Int
    OBVIOUS
  <2>4. 0 <= (kb + ki) - (mb + mi) /\ (kb + ki) - (mb + mi) < Word
    BY <1>1, <1>3, <1>4, <2>1
  <2>3. Diff((kb + ki) % Word, (mb + mi) % Word) = (kb + ki) - (mb + mi)
    BY <2>2, <2>4, DiffExact
  <2> QED
    BY <1>2, <2>1, <2>3
<1>6. Diff(sample.idle, tracker.last_idle) = gi
  <2>2. 0 <= ki - mi /\ ki - mi < Word
    BY <1>1, <1>3, <1>4
  <2>1. Diff(ki % Word, mi % Word) = ki - mi
    BY <2>2, DiffExact
  <2> QED
    BY <1>2, <1>3, <2>1
<1>7. Diff(gb + gi, gi) = gb
  <2>1. (gb + gi) - gi = gb /\ gb < Word
    BY <1>1, <1>3, <1>4
  <2> QED
    BY <1>3, <2>1, FitsWord DEF Diff
<1>8. (gb * Permille) % Word = gb * Permille
  BY <1>1, <1>4, FitsWord
<1> QED
  BY <1>2, <1>3, <1>5, <1>6, <1>7, <1>8 DEF Usage

(* The counters as the kernel has them, as the call has read them and as   *)
(* the last sample did lie in one window; the tracker holds the last       *)
(* sample, a reading waits in sample until it is converted.                *)
Snapshots == \E b : Window(b, machine) /\ Window(b, truth.read) /\ Window(b, truth.sampled)

Converting == spc = "convert" /\ sfn = "usage"

Read    == /\ sample.total = (truth.read.busy + truth.read.idle) % Word
           /\ sample.idle = truth.read.idle % Word
Tracked == /\ tracker.last_total = (truth.sampled.busy + truth.sampled.idle) % Word
           /\ tracker.last_idle = truth.sampled.idle % Word

CpuInv ==
  /\ DOMAIN truth = {"read", "sampled", "growth", "value", "elapsed", "file",
                     "wrote", "always", "ever"}
  /\ Snapshots
  /\ Converting => Read
  /\ tracker.valid => Tracked
  /\ CpuUsageExact

(* A step that is not one of the usage's, or only opens its file, keeps    *)
(* CpuInv.                                                                 *)
LEMMA CpuStays ==
  ASSUME CpuInv, UNCHANGED <<machine, tracker>>, DOMAIN truth' = DOMAIN truth,
         truth'.read = truth.read, truth'.sampled = truth.sampled,
         Converting' => (Converting /\ sample' = sample),
         Gave("usage")' => (Gave("usage") /\ sret' = sret /\ truth'.growth = truth.growth)
  PROVE  CpuInv'
<1>1. Snapshots' /\ (tracker.valid => Tracked)'
  BY DEF CpuInv, Snapshots, Tracked
<1>2. (Converting => Read)'
  <2>1. SUFFICES ASSUME Converting' PROVE Read'
    OBVIOUS
  <2>2. Read /\ sample' = sample
    BY <2>1 DEF CpuInv
  <2> QED
    BY <2>2 DEF Read
<1>3. CpuUsageExact'
  <2>1. CASE ~Gave("usage")'
    BY <2>1 DEF CpuUsageExact
  <2>2. CASE Gave("usage")'
    <3>1. CpuUsageExact /\ Gave("usage") /\ sret' = sret /\ truth'.growth = truth.growth
      BY <2>2 DEF CpuInv
    <3> QED
      BY <3>1 DEF CpuUsageExact
  <2> QED
    BY <2>1, <2>2
<1> QED
  BY <1>1, <1>2, <1>3 DEF CpuInv

(* A new history has what was read and sampled.                            *)
LEMMA FreshKeeps ==
  ASSUME CpuInv
  PROVE  /\ DOMAIN Fresh = DOMAIN truth
         /\ Fresh.read = truth.read /\ Fresh.sampled = truth.sampled
BY DEF CpuInv, Fresh

(* The work on other files keeps it.                                       *)
LEMMA CpuFiles ==
  ASSUME CpuInv, FileNext
  PROVE  CpuInv'
<1>1. CASE rl_get_cpu_temperature \/ rl_get_memory_usage
  <2>1. PICK f \in {"temperature", "memory"} :
          sfn' = f /\ truth' = Fresh /\ UNCHANGED <<machine, tracker>>
    BY <1>1 DEF rl_get_cpu_temperature, rl_get_memory_usage, OpenFile, usagevars
  <2>2. ~Converting' /\ ~Gave("usage")'
    BY <2>1 DEF Converting, Gave
  <2> QED
    BY <2>1, <2>2, CpuStays, FreshKeeps
<1>2. CASE temperature_read \/ memory_read
  <2>1. PICK f \in {"temperature", "memory"} :
          sfn' = f /\ UNCHANGED <<machine, tracker>>
    BY <1>2 DEF temperature_read, memory_read, ReadFile, usagevars
  <2>2. ~Converting' /\ ~Gave("usage")'
    BY <2>1 DEF Converting, Gave
  <2>3. DOMAIN truth' = DOMAIN truth /\ truth'.read = truth.read
        /\ truth'.sampled = truth.sampled
    BY <1>2 DEF temperature_read, memory_read, CpuInv
  <2> QED
    BY <2>1, <2>2, <2>3, CpuStays
<1>3. CASE temperature_convert \/ memory_close \/ close_dir
  <2>1. PICK f \in {"temperature", "memory", "fds"} :
          sfn' = f /\ UNCHANGED <<machine, tracker, truth>>
    BY <1>3 DEF temperature_convert, memory_close, close_dir, CloseFile, usagevars
  <2>2. ~Converting' /\ ~Gave("usage")'
    BY <2>1 DEF Converting, Gave
  <2> QED
    BY <2>1, <2>2, CpuStays
<1>4. CASE rl_get_fd_count
  <2>1. sfn' = "fds" /\ UNCHANGED <<machine, tracker>>
    BY <1>4 DEF rl_get_fd_count, usagevars
  <2>2. ~Converting' /\ ~Gave("usage")'
    BY <2>1 DEF Converting, Gave
  <2>3. DOMAIN truth' = DOMAIN Fresh /\ truth'.read = Fresh.read
        /\ truth'.sampled = Fresh.sampled
    BY <1>4, FreshKeeps DEF rl_get_fd_count, CpuInv
  <2> QED
    BY <2>1, <2>2, <2>3, CpuStays, FreshKeeps
<1>5. CASE read_entry
  <2>1. spc' \in {"scan", "closedir"} /\ UNCHANGED <<machine, tracker, truth>>
    BY <1>5 DEF read_entry, usagevars
  <2>2. ~Converting' /\ ~Gave("usage")'
    BY <2>1 DEF Converting, Gave
  <2> QED
    BY <2>1, <2>2, CpuStays
<1>6. CASE host_files
  <2>1. UNCHANGED <<spc, sfn, sret, machine, tracker, sample>>
    BY <1>6 DEF host_files, usagevars
  <2>2. DOMAIN truth' = DOMAIN truth /\ truth'.read = truth.read
        /\ truth'.sampled = truth.sampled /\ truth'.growth = truth.growth
    BY <1>6 DEF host_files, CpuInv
  <2>3. Converting' = Converting /\ Gave("usage")' = Gave("usage")
    BY <2>1 DEF Converting, Gave
  <2> QED
    BY <2>1, <2>2, <2>3, CpuStays
<1> QED
  BY <1>1, <1>2, <1>3, <1>4, <1>5, <1>6 DEF FileNext

(* So do names, paths and times.                                           *)
LEMMA CpuPaths ==
  ASSUME CpuInv, PathNext
  PROVE  CpuInv'
<1>1. CASE \/ rl_get_proc_name \/ rl_get_proc_path \/ rl_get_proc_dir
           \/ rl_get_file_abs_path \/ rl_calcuate_run_time_ms
  <2>1. sfn' \in {"name", "path", "dir", "abs", "time"} /\ UNCHANGED <<machine, tracker>>
    BY <1>1 DEF rl_get_proc_name, rl_get_proc_path, rl_get_proc_dir, OpenFile,
                rl_get_file_abs_path, rl_calcuate_run_time_ms, Returns, usagevars
  <2>2. ~Converting' /\ ~Gave("usage")'
    BY <2>1 DEF Converting, Gave
  <2>3. DOMAIN truth' = DOMAIN Fresh /\ truth'.read = Fresh.read
        /\ truth'.sampled = Fresh.sampled
    <3>1. DOMAIN Fresh = {"read", "sampled", "growth", "value", "elapsed", "file",
                          "wrote", "always", "ever"}
      BY FreshKeeps DEF CpuInv
    <3>2. \/ truth' = Fresh
          \/ \E f : truth' = [Fresh EXCEPT !.wrote = TRUE, !.file = f]
          \/ \E e : truth' = [Fresh EXCEPT !.elapsed = e]
      BY <1>1 DEF rl_get_proc_name, rl_get_proc_path, rl_get_proc_dir,
                  rl_get_file_abs_path, rl_calcuate_run_time_ms, Writes, WritesNothing
    <3> QED
      BY <3>1, <3>2
  <2> QED
    BY <2>1, <2>2, <2>3, CpuStays, FreshKeeps
<1>2. CASE name_read \/ name_close
  <2>1. sfn' = "name" /\ UNCHANGED <<machine, tracker, truth>>
    BY <1>2 DEF name_read, name_close, ReadFile, CloseFile, usagevars
  <2>2. ~Converting' /\ ~Gave("usage")'
    BY <2>1 DEF Converting, Gave
  <2> QED
    BY <2>1, <2>2, CpuStays
<1>3. CASE time_passes
  <2>1. UNCHANGED <<spc, sfn, sret, machine, tracker, sample, truth>>
    BY <1>3 DEF time_passes, usagevars
  <2>2. Converting' = Converting /\ Gave("usage")' = Gave("usage")
    BY <2>1 DEF Converting, Gave
  <2> QED
    BY <2>1, <2>2, CpuStays
<1> QED
  BY <1>1, <1>2, <1>3 DEF PathNext

(* A jiffy leaves the counters in their window.                            *)
LEMMA WindowStays ==
  ASSUME jiffy, NEW b, Window(b, machine)
  PROVE  Window(b, machine')
<1>1. PICK W \in Nat, M \in Nat : W = Word /\ M = MaxJiffies /\ M + 3 < W
  BY RlSysAssumption
<1>2. PICK d \in {0, 1}, i \in {-1, 0, 1} :
        machine' = [busy |-> machine.busy + d, idle |-> machine.idle + i]
  BY DEF jiffy
<1>3. machine'.busy = machine.busy + d
  BY <1>2
<1>4. machine'.busy \in 0 .. M \/ machine'.busy \in W - 2 .. W - 2 + M
  BY <1>1 DEF jiffy
<1>5. machine'.idle \in 0 .. M
  BY <1>1 DEF jiffy
<1>6. b \in {0, W - 2} /\ machine.busy \in b .. b + M
  BY <1>1 DEF Window
<1>7. machine'.busy \in b .. b + M
  <2>1. CASE b = 0
    <3>1. machine.busy \in Int /\ machine.busy >= 0 /\ machine.busy <= M
      BY <1>1, <1>6, <2>1
    <3>2. machine'.busy <= M + 1 /\ machine'.busy >= 0 /\ machine'.busy \in Int
      BY <1>1, <1>3, <3>1
    <3>3. ~(machine'.busy >= W - 2)
      BY <1>1, <3>2
    <3> QED
      BY <1>1, <1>4, <2>1, <3>2, <3>3
  <2>2. CASE b = W - 2
    <3>1. machine.busy \in Int /\ machine.busy >= W - 2
      BY <1>1, <1>6, <2>2
    <3>2. machine'.busy >= W - 2 /\ machine'.busy \in Int
      BY <1>1, <1>3, <3>1
    <3>3. ~(machine'.busy <= M)
      BY <1>1, <3>2
    <3> QED
      BY <1>1, <1>4, <2>2, <3>2, <3>3
  <2> QED
    BY <1>6, <2>1, <2>2
<1> QED
  BY <1>1, <1>5, <1>6, <1>7 DEF Window

(* The usage itself.                                                       *)
LEMMA CpuUsage ==
  ASSUME CpuInv, UsageNext
  PROVE  CpuInv'
<1>0. PICK b : Window(b, machine) /\ Window(b, truth.read) /\ Window(b, truth.sampled)
  BY DEF CpuInv, Snapshots
<1>1. CASE rl_get_cpu_usage
  <2>1. /\ UNCHANGED <<machine, tracker>> /\ truth' = Fresh
        /\ spc' = "read" \/ (spc' = "idle" /\ sret' = RL_FAILED)
    BY <1>1 DEF rl_get_cpu_usage, OpenFile, usagevars
  <2>2. ~Converting' /\ ~Gave("usage")'
    BY <2>1 DEF Converting, Gave
  <2> QED
    BY <2>1, <2>2, CpuStays, FreshKeeps
<1>2. CASE usage_read
  <2>1. CASE /\ ReadFile("usage", "convert")
             /\ sample' = [total |-> (machine.busy + machine.idle) % Word,
                           idle  |-> machine.idle % Word]
             /\ truth' = [truth EXCEPT !.read = machine]
             /\ UNCHANGED <<machine, tracker, readervars>>
    <3>1. spc' = "convert" /\ UNCHANGED <<machine, tracker>>
      BY <2>1 DEF ReadFile
    <3>2. DOMAIN truth' = DOMAIN truth /\ truth'.read = machine
          /\ truth'.sampled = truth.sampled
      BY <2>1 DEF CpuInv
    <3>3. sample'.total = (machine.busy + machine.idle) % Word
          /\ sample'.idle = machine.idle % Word
      BY <2>1
    <3>4. Snapshots'
      BY <1>0, <3>1, <3>2 DEF Snapshots
    <3>5. Read'
      BY <3>2, <3>3 DEF Read
    <3>6. (tracker.valid => Tracked)'
      BY <3>1, <3>2 DEF CpuInv, Tracked
    <3>7. CpuUsageExact'
      BY <3>1 DEF CpuUsageExact, Gave
    <3> QED
      BY <3>2, <3>4, <3>5, <3>6, <3>7 DEF CpuInv
  <2>2. CASE ReadFile("usage", "close") /\ UNCHANGED <<usagevars, readervars, truth>>
    <3>1. spc' = "close" /\ UNCHANGED <<machine, tracker, truth>>
      BY <2>2 DEF ReadFile, usagevars
    <3>2. ~Converting' /\ ~Gave("usage")'
      BY <3>1 DEF Converting, Gave
    <3> QED
      BY <3>1, <3>2, CpuStays
  <2> QED
    BY <1>2, <2>1, <2>2 DEF usage_read
<1>3. CASE usage_failed
  <2>1. /\ spc' = "idle" /\ sret' = RL_FAILED /\ UNCHANGED <<machine, tracker>>
        /\ truth' = [truth EXCEPT !.read = truth.sampled]
    BY <1>3 DEF usage_failed, CloseFile
  <2>2. DOMAIN truth' = DOMAIN truth /\ truth'.read = truth.sampled
        /\ truth'.sampled = truth.sampled
    BY <2>1 DEF CpuInv
  <2>3. Snapshots'
    BY <1>0, <2>1, <2>2 DEF Snapshots
  <2>4. ~Converting' /\ ~Gave("usage")'
    BY <2>1 DEF Converting, Gave
  <2>5. (tracker.valid => Tracked)'
    BY <2>1, <2>2 DEF CpuInv, Tracked
  <2>6. CpuUsageExact'
    BY <2>4 DEF CpuUsageExact
  <2> QED
    BY <2>2, <2>3, <2>4, <2>5, <2>6 DEF CpuInv
<1>4. CASE usage_convert
  <2>1. /\ Converting /\ spc' = "idle" /\ sret' = Usage /\ UNCHANGED machine
        /\ tracker' = [last_total |-> sample.total, last_idle |-> sample.idle,
                       valid |-> TRUE]
        /\ truth' = [truth EXCEPT !.sampled = truth.read,
                                  !.growth = [busy |-> Moved("busy"),
                                              idle |-> Moved("idle")]]
    BY <1>4 DEF usage_convert, CloseFile, Converting
  <2>2. /\ DOMAIN truth' = DOMAIN truth /\ truth'.read = truth.read
        /\ truth'.sampled = truth.read
        /\ truth'.growth.busy = Moved("busy") /\ truth'.growth.idle = Moved("idle")
    BY <2>1 DEF CpuInv
  <2>3. Snapshots'
    BY <1>0, <2>1, <2>2 DEF Snapshots
  <2>4. ~Converting'
    BY <2>1 DEF Converting
  <2>5. Read
    BY <2>1 DEF CpuInv
  <2>6. Tracked'
    <3>1. tracker'.last_total = sample.total /\ tracker'.last_idle = sample.idle
      BY <2>1
    <3> QED
      BY <2>2, <2>5, <3>1 DEF Read, Tracked
  <2>7. CpuUsageExact'
    <3>1. CASE ~tracker.valid
      <4>1. Moved("busy") = 0 /\ Moved("idle") = 0 /\ Usage = 0
        BY <3>1 DEF Moved, Usage
      <4>2. truth'.growth.busy + truth'.growth.idle = 0 /\ sret' = 0
        BY <2>1, <2>2, <4>1
      <4> QED
        BY <4>2 DEF CpuUsageExact
    <3>2. CASE tracker.valid
      <4>1. Tracked
        BY <3>2 DEF CpuInv
      <4>2. Moved("busy") = truth.read.busy - truth.sampled.busy
            /\ Moved("idle") = truth.read.idle - truth.sampled.idle
        BY <3>2 DEF Moved
      <4>3. ASSUME Moved("busy") >= 0, Moved("idle") >= 0
            PROVE  LET all == Moved("busy") + Moved("idle")
                   IN  Usage = IF all = 0 THEN 0 ELSE (Moved("busy") * Permille) \div all
        BY <1>0, <2>5, <3>2, <4>1, <4>2, <4>3, UsageExact DEF Read, Tracked
      <4> QED
        BY <2>1, <2>2, <4>3 DEF CpuUsageExact
    <3> QED
      BY <3>1, <3>2
  <2> QED
    BY <2>2, <2>3, <2>4, <2>6, <2>7 DEF CpuInv
<1>5. CASE jiffy
  <2>1. UNCHANGED <<spc, sfn, sret, tracker, sample, truth>>
    BY <1>5 DEF jiffy
  <2>2. Window(b, machine')
    BY <1>0, <1>5, WindowStays
  <2>3. Snapshots'
    BY <1>0, <2>1, <2>2 DEF Snapshots
  <2>4. (Converting => Read)'
    BY <2>1 DEF CpuInv, Converting, Read
  <2>5. (tracker.valid => Tracked)'
    BY <2>1 DEF CpuInv, Tracked
  <2>6. CpuUsageExact'
    BY <2>1 DEF CpuInv, CpuUsageExact, Gave
  <2> QED
    BY <2>1, <2>3, <2>4, <2>5, <2>6 DEF CpuInv
<1> QED
  BY <1>1, <1>2, <1>3, <1>4, <1>5 DEF UsageNext

(* CpuInv holds throughout.                                                *)
LEMMA CpuAlways == HostSpec => []CpuInv
<1>1. HostInit => CpuInv
  <2>1. SUFFICES ASSUME SysInit PROVE CpuInv
    BY DEF HostInit
  <2>2. PICK b \in {0, Word - 2} : machine = [busy |-> b, idle |-> 0]
    BY <2>1 DEF SysInit
  <2>3. Window(b, machine)
    <3>1. machine.busy = b /\ machine.idle = 0 /\ b \in Int /\ MaxJiffies \in Nat
      BY <2>2, RlSysAssumption
    <3> QED
      BY <3>1 DEF Window
  <2>4. truth.read = machine /\ truth.sampled = machine /\ tracker.valid = FALSE
    BY <2>1 DEF SysInit
  <2>5. DOMAIN truth = {"read", "sampled", "growth", "value", "elapsed", "file",
                        "wrote", "always", "ever"}
    BY <2>1 DEF SysInit
  <2>6. ~Converting /\ ~Gave("usage")
    BY <2>1 DEF SysInit, Converting, Gave
  <2>7. Snapshots
    BY <2>3, <2>4 DEF Snapshots
  <2> QED
    BY <2>4, <2>5, <2>6, <2>7 DEF CpuInv, CpuUsageExact
<1>2. ASSUME CpuInv, [HostNext]_hostvars PROVE CpuInv'
  <2>1. CASE UsageNext \/ FileNext \/ PathNext
    BY <1>2, <2>1, CpuUsage, CpuFiles, CpuPaths
  <2>2. CASE UNCHANGED sysvars
    <3>1. UNCHANGED <<spc, sfn, sret, machine, tracker, sample, truth>>
      BY <2>2 DEF sysvars, usagevars
    <3>2. Converting' = Converting /\ Gave("usage")' = Gave("usage")
      BY <3>1 DEF Converting, Gave
    <3> QED
      BY <1>2, <3>1, <3>2, CpuStays
  <2> QED
    BY <1>2, <2>1, <2>2
       DEF HostNext, hostvars, probe, fetch, set, usage, files, paths, OtherThreads
<1> QED
  BY <1>1, <1>2, PTL DEF HostSpec

(* For any number of jiffies between calls, and a word that holds them:    *)
(* rl_get_cpu_usage answers with the usage since the last call that        *)
(* succeeded, across the wrap of the counters and failed calls.            *)
THEOREM HostCpuUsageExact == HostSpec => []CpuUsageExact
<1>1. CpuInv => CpuUsageExact
  BY DEF CpuInv
<1> QED
  BY <1>1, CpuAlways, PTL

-----------------------------------------------------------------------------
(* The readings                                                            *)

(* A finite set of numbers that is not empty has a greatest one.           *)
LEMMA GreatestExists ==
  ASSUME NEW S \in SUBSET Int, IsFiniteSet(S), S # {}
  PROVE  Max(S) \in S /\ \A x \in S : x <= Max(S)
<1> DEFINE Top(T) == \E x \in T : \A y \in T : y <= x
           Sizes0 == {n \in Nat : \E T \in SUBSET S : T # {} /\ ~Top(T) /\ Cardinality(T) = n}
<1>1. ASSUME Sizes0 # {} PROVE FALSE
  <2>1. Sizes0 \in SUBSET Nat
    OBVIOUS
  <2>2. PICK n \in Sizes0 : \A k \in Sizes0 : n <= k
    BY <1>1, <2>1, LeastExists
  <2>3. PICK T \in SUBSET S : T # {} /\ ~Top(T) /\ Cardinality(T) = n
    BY <2>2
  <2>4. PICK x \in T : TRUE
    BY <2>3
  <2>5. IsFiniteSet(T)
    BY FS_Subset
  <2>6. Cardinality(T \ {x}) = n - 1 /\ IsFiniteSet(T \ {x}) /\ n \in Nat
    BY <2>2, <2>3, <2>5, FS_RemoveElement, FS_CardinalityType
  <2>7. T \ {x} # {}
    <3>1. SUFFICES ASSUME T = {x} PROVE FALSE
      OBVIOUS
    <3>2. Top(T)
      BY <3>1, <2>4
    <3> QED
      BY <2>3, <3>2
  <2>8. Top(T \ {x})
    <3>1. SUFFICES ASSUME ~Top(T \ {x}) PROVE FALSE
      OBVIOUS
    <3>2. n - 1 \in Nat
      BY <2>6, FS_CardinalityType
    <3>3. n - 1 \in Sizes0
      BY <2>6, <2>7, <3>1, <3>2
    <3> QED
      BY <2>2, <2>6, <3>3
  <2>9. PICK y \in T \ {x} : \A z \in T \ {x} : z <= y
    BY <2>8
  <2>10. x \in Int /\ y \in Int /\ \A z \in T : z = x \/ z <= y
    BY <2>9
  <2>11. CASE x <= y
    BY <2>3, <2>9, <2>10, <2>11
  <2>12. CASE ~(x <= y)
    <3>1. \A z \in T : z <= x
      BY <2>10, <2>12
    <3> QED
      BY <2>3, <3>1
  <2> QED
    BY <2>11, <2>12
<1>2. Top(S)
  <2>1. Cardinality(S) \in Nat
    BY FS_CardinalityType
  <2> QED
    BY <1>1, <2>1
<1> QED
  BY <1>2 DEF Max

(* The difference of two times.                                            *)
LEMMA ElapsedExact ==
  ASSUME NEW b \in Int, NEW e \in Int
  PROVE  Elapsed(b, e) = e - b
<1>1. PICK s \in Nat \ {0} : s = Second
  BY RlSysAssumption
<1>2. e = s * (e \div s) + (e % s) /\ (e \div s) \in Int /\ (e % s) \in Int
  BY <1>1
<1>3. b = s * (b \div s) + (b % s) /\ (b \div s) \in Int /\ (b % s) \in Int
  BY <1>1
<1>4. PICK p \in Int, q \in Int, t \in Int, u \in Int :
        /\ p = e \div s /\ t = e % s /\ q = b \div s /\ u = b % s
  BY <1>2, <1>3
<1>5. e = s * p + t /\ b = s * q + u
  BY <1>2, <1>3, <1>4
<1>6. Elapsed(b, e) = IF t - u < 0 THEN ((p - q) - 1) * s + (t - u) + s
                                   ELSE (p - q) * s + (t - u)
  BY <1>1, <1>4 DEF Elapsed
<1>7. (p - q) * s = s * p - s * q /\ ((p - q) - 1) * s = s * p - s * q - s
  BY <1>1
<1> QED
  BY <1>1, <1>5, <1>6, <1>7

(* buf as read leaves it: the text, what the stack held, and one code.     *)
Buffer(text, g) ==
  [i \in 0 .. TempBuf |->
     IF i = TempBuf THEN NUL ELSE IF i < Len(text) THEN text[i + 1] ELSE g[i + 1]]

(* The first of the numbers with a property.                               *)
LEMMA LeastIs ==
  ASSUME NEW S \in SUBSET Nat, NEW n \in S, \A x \in S : n <= x
  PROVE  Min(S) = n
<1>1. PICK l \in S : l = Min(S) /\ \A x \in S : l <= x
  BY LeastExists
<1>2. l \in Nat /\ n \in Nat /\ l <= n /\ n <= l
  BY <1>1
<1>3. l = n
  BY <1>2
<1> QED
  BY <1>1, <1>3

(* Whatever the stack held: the value is that of the text.                 *)
LEMMA TemperatureExact ==
  ASSUME NEW r \in Readings, NEW g
  PROVE  Temperature(Buffer(r.text, g)) \in {r.value, RL_FAILED}
<1>0. IsReading(r) /\ TempBuf \in Nat \ {0}
  BY RlSysAssumption
<1> DEFINE text == r.text
           m == Buffer(r.text, g)
<1>1. PICK n \in Nat : n = Len(text) - 1 /\ n + 1 < TempBuf
  <2>1. text \in Seq(Nat) /\ Len(text) \in 1 .. TempBuf - 1
    BY <1>0 DEF IsReading
  <2>2. Len(text) - 1 \in Nat /\ (Len(text) - 1) + 1 < TempBuf
    BY <1>0, <2>1
  <2> QED
    BY <2>2
<1>2. /\ text \in Seq(Nat) /\ Len(text) = n + 1
      /\ \A i \in 1 .. n : text[i] \in Nat /\ text[i] # NUL /\ text[i] # NEWLINE
      /\ text[n + 1] = NEWLINE
  BY <1>0, <1>1 DEF IsReading, Last
<1>3. /\ DOMAIN m = 0 .. TempBuf /\ m[TempBuf] = NUL
      /\ \A i \in 0 .. n : m[i] = text[i + 1]
  BY <1>0, <1>1, <1>2 DEF Buffer
<1> HIDE DEF m, text
<1>4. \A i \in 0 .. n - 1 : m[i] # NUL /\ m[i] # NEWLINE
  <2>1. \A i \in 0 .. n - 1 : i \in 0 .. n /\ i + 1 \in 1 .. n
    BY <1>1
  <2> QED
    BY <1>2, <1>3, <2>1
<1>5. m[n] = NEWLINE /\ NEWLINE # NUL
  BY <1>1, <1>2, <1>3 DEF NEWLINE, NUL
<1>6. strlen(m) \in Nat /\ n < strlen(m)
  <2> DEFINE Z == {i \in DOMAIN m : m[i] = NUL}
  <2>1. Z \in SUBSET Nat /\ TempBuf \in Z
    BY <1>0, <1>3
  <2>2. Min(Z) \in Z
    BY <2>1, LeastExists
  <2>3. Min(Z) \notin 0 .. n
    BY <1>1, <1>4, <1>5, <2>2
  <2> QED
    BY <1>1, <2>1, <2>2, <2>3 DEF strlen
<1>7. rl_str_rm_line(m).mem = [m EXCEPT ![n] = NUL]
  <2> DEFINE lines == {i \in 0 .. strlen(m) - 1 : m[i] = NEWLINE}
  <2>1. lines \in SUBSET Nat /\ n \in lines
    BY <1>1, <1>5, <1>6
  <2>2. \A i \in lines : n <= i
    BY <1>1, <1>4, <1>6
  <2>3. Min(lines) = n
    BY <2>1, <2>2, LeastIs
  <2>4. lines # {} /\ strlen(m) # 0
    BY <1>1, <1>6, <2>1
  <2> QED
    BY <2>3, <2>4 DEF rl_str_rm_line, Done
<1> DEFINE c == [m EXCEPT ![n] = NUL]
<1>8. /\ DOMAIN c = 0 .. TempBuf /\ c[n] = NUL
      /\ \A i \in 0 .. n - 1 : c[i] = text[i + 1] /\ c[i] # NUL
  <2>1. n \in 0 .. TempBuf /\ \A i \in 0 .. n - 1 : i \in 0 .. TempBuf /\ i # n /\ i \in 0 .. n
    BY <1>0, <1>1
  <2> QED
    BY <1>3, <1>4, <2>1
<1> HIDE DEF c
<1>9. strlen(c) = n
  <2> DEFINE Z == {i \in DOMAIN c : c[i] = NUL}
  <2>1. Z \in SUBSET Nat /\ n \in Z
    BY <1>0, <1>1, <1>8
  <2>2. \A i \in Z : n <= i
    BY <1>0, <1>1, <1>8
  <2> QED
    BY <2>1, <2>2, LeastIs DEF strlen
<1>10. Str(c) = Front(text)
  <2>1. Front(text) = SubSeq(text, 1, n)
    BY <1>1, <1>2 DEF Front
  <2>2. SubSeq(text, 1, n) = [i \in 1 .. n |-> text[i]]
    BY <1>1, <1>2
  <2>3. Str(c) = [i \in 1 .. n |-> c[i - 1]]
    BY <1>9 DEF Str
  <2>4. \A i \in 1 .. n : c[i - 1] = text[i]
    <3>1. \A i \in 1 .. n : i - 1 \in 0 .. n - 1 /\ (i - 1) + 1 = i
      BY <1>1
    <3> QED
      BY <1>8, <3>1
  <2> QED
    BY <2>1, <2>2, <2>3, <2>4
<1>11. Temperature(m) = IF rl_str_isdigit(Front(text)) = RL_TRUE
                        THEN rl_str_atoi(Front(text)) ELSE RL_FAILED
  BY <1>7, <1>10 DEF Temperature, c
<1> QED
  BY <1>0, <1>11 DEF IsReading, m, text

Upto(S, n) == {d \in S : d < n}

(* The count is that of the entries before n, as far as they stayed open   *)
(* all the time, and at most of those that were ever open.                 *)
Tally(always, ever, count, n) ==
  /\ always \subseteq Fds /\ ever \subseteq Fds
  /\ count \in Nat /\ n \in Int
  /\ Cardinality(Upto(always, n)) <= count
  /\ count <= Cardinality(Upto(ever, n))

(* The sets of descriptors are finite, and counted in order.               *)
LEMMA UptoFinite ==
  ASSUME NEW S \in SUBSET Fds, NEW n \in Int
  PROVE  IsFiniteSet(Upto(S, n)) /\ Cardinality(Upto(S, n)) \in Nat
<1>1. Upto(S, n) \subseteq Fds /\ IsFiniteSet(Fds)
  BY DescriptorsAssumption DEF Upto
<1> QED
  BY <1>1, FS_Subset, FS_CardinalityType

(* More descriptors, a greater number.                                     *)
LEMMA UptoGrows ==
  ASSUME NEW S \in SUBSET Fds, NEW T \in SUBSET S, NEW n \in Int
  PROVE  Cardinality(Upto(T, n)) <= Cardinality(Upto(S, n))
<1>1. Upto(T, n) \subseteq Upto(S, n)
  BY DEF Upto
<1>2. IsFiniteSet(Upto(S, n))
  BY UptoFinite
<1> QED
  BY <1>1, <1>2, FS_Subset

(* The next entry adds one, if it is in the set.                           *)
LEMMA UptoNext ==
  ASSUME NEW S \in SUBSET Fds, NEW n \in Int
  PROVE  Cardinality(Upto(S, n + 1)) = Cardinality(Upto(S, n)) + IF n \in S THEN 1 ELSE 0
<1>0. Fds \subseteq Int /\ S \subseteq Int
  BY DescriptorsAssumption
<1>1. IsFiniteSet(Upto(S, n)) /\ n \notin Upto(S, n) /\ Cardinality(Upto(S, n)) \in Nat
  BY UptoFinite DEF Upto
<1>2. CASE n \in S
  <2>1. \A d \in S : d < n + 1 <=> d < n \/ d = n
    BY <1>0
  <2>2. Upto(S, n + 1) = Upto(S, n) \cup {n}
    BY <1>2, <2>1 DEF Upto
  <2> QED
    BY <1>1, <1>2, <2>2, FS_AddElement
<1>3. CASE n \notin S
  <2>1. \A d \in S : d < n + 1 <=> d < n
    BY <1>0, <1>3
  <2>2. Upto(S, n + 1) = Upto(S, n)
    BY <2>1 DEF Upto
  <2> QED
    BY <1>1, <1>3, <2>2
<1> QED
  BY <1>2, <1>3

(* The first entry: nothing is counted yet.                                *)
LEMMA TallyBegins ==
  ASSUME NEW A \in SUBSET Fds, NEW E \in SUBSET Fds
  PROVE  Tally(A, E, 0, -2)
<1>1. \A d \in Fds : ~(d < -2)
  <2>1. SUFFICES ASSUME NEW d \in Fds PROVE ~(d < -2)
    OBVIOUS
  <2>2. d \in Nat
    BY DescriptorsAssumption
  <2> QED
    BY <2>2
<1>2. Upto(A, -2) = {} /\ Upto(E, -2) = {}
  BY <1>1 DEF Upto
<1>3. Cardinality({}) = 0
  BY FS_EmptySet
<1>4. -2 \in Int /\ 0 \in Nat /\ 0 <= 0
  OBVIOUS
<1> QED
  BY <1>2, <1>3, <1>4 DEF Tally

(* An entry that is counted exactly when it is open.                       *)
LEMMA TallyStep ==
  ASSUME NEW A, NEW E, NEW c, NEW n, Tally(A, E, c, n), NEW O, A \subseteq O, O \subseteq E
  PROVE  Tally(A, E, c + IF n \in O THEN 1 ELSE 0, n + 1)
<1>1. /\ A \in SUBSET Fds /\ E \in SUBSET Fds /\ c \in Nat /\ n \in Int
      /\ Cardinality(Upto(A, n)) <= c /\ c <= Cardinality(Upto(E, n))
  BY DEF Tally
<1>2. PICK a \in Nat, e \in Nat :
        a = Cardinality(Upto(A, n)) /\ e = Cardinality(Upto(E, n))
  BY <1>1, UptoFinite
<1>3. /\ Cardinality(Upto(A, n + 1)) = a + IF n \in A THEN 1 ELSE 0
      /\ Cardinality(Upto(E, n + 1)) = e + IF n \in E THEN 1 ELSE 0
  BY <1>1, <1>2, UptoNext
<1>4. CASE n \in O
  BY <1>1, <1>2, <1>3, <1>4 DEF Tally
<1>5. CASE n \notin O
  BY <1>1, <1>2, <1>3, <1>5 DEF Tally
<1> QED
  BY <1>4, <1>5

(* Other threads may only take from the one set and add to the other.      *)
LEMMA TallyMoves ==
  ASSUME NEW A, NEW E, NEW c, NEW n, Tally(A, E, c, n),
         NEW B \in SUBSET A, NEW F \in SUBSET Fds, E \subseteq F
  PROVE  Tally(B, F, c, n)
<1>1. /\ A \in SUBSET Fds /\ E \in SUBSET F /\ c \in Nat /\ n \in Int
      /\ Cardinality(Upto(A, n)) <= c /\ c <= Cardinality(Upto(E, n))
  BY DEF Tally
<1>2. /\ Cardinality(Upto(A, n)) \in Nat /\ Cardinality(Upto(B, n)) \in Nat
      /\ Cardinality(Upto(E, n)) \in Nat /\ Cardinality(Upto(F, n)) \in Nat
  <2>1. B \in SUBSET Fds /\ E \in SUBSET Fds
    BY <1>1
  <2> QED
    BY <1>1, <2>1, UptoFinite
<1>3. Cardinality(Upto(B, n)) <= Cardinality(Upto(A, n))
  BY <1>1, UptoGrows
<1>4. Cardinality(Upto(E, n)) <= Cardinality(Upto(F, n))
  BY <1>1, UptoGrows
<1> QED
  BY <1>1, <1>2, <1>3, <1>4 DEF Tally

(* Behind the last number the count is that of the whole walk.             *)
LEMMA TallyEnds ==
  ASSUME NEW A, NEW E, NEW c, NEW n, Tally(A, E, c, n), n > Max(Fds)
  PROVE  Cardinality(A) <= c /\ c <= Cardinality(E)
<1>1. A \in SUBSET Fds /\ E \in SUBSET Fds /\ n \in Int
  BY DEF Tally
<1>2. \A d \in Fds : d < n
  <2>1. SUFFICES ASSUME Fds # {} PROVE \A d \in Fds : d < n
    OBVIOUS
  <2>2. PICK t \in Fds : t = Max(Fds) /\ \A d \in Fds : d <= t
    <3>1. Fds \in SUBSET Int /\ IsFiniteSet(Fds)
      BY DescriptorsAssumption
    <3>2. Max(Fds) \in Fds /\ \A d \in Fds : d <= Max(Fds)
      BY <2>1, <3>1, GreatestExists
    <3> QED
      BY <3>2
  <2>3. Fds \subseteq Int /\ t < n
    BY <1>1, <2>2, DescriptorsAssumption
  <2> QED
    BY <1>1, <2>2, <2>3
<1>3. Upto(A, n) = A /\ Upto(E, n) = E
  BY <1>1, <1>2 DEF Upto
<1> QED
  BY <1>3 DEF Tally

Walking == spc \in {"scan", "closedir"}
Reading == spc = "convert" /\ sfn = "temperature"

Times == mono \in Int /\ start \in Int

(* What was read lies in buf, before whatever the stack held.              *)
Loaded == \E r \in Readings : /\ \E g : cells = Buffer(r.text, g)
                              /\ truth.value = r.value

(* The walk has counted the entries before the next one.                   *)
Walked ==
  /\ sfn = "fds" /\ job = "files"
  /\ Tally(truth.always, truth.ever, scan.count, scan.entry)
  /\ spc = "scan" => truth.always \subseteq OpenFds /\ OpenFds \subseteq truth.ever
  /\ spc = "closedir" => scan.entry > Max(Fds)

ReadingInv ==
  /\ Times
  /\ Reading => Loaded
  /\ Walking => Walked
  /\ ReadingsExact

(* Nothing of a reading is left or answered.                               *)
Quiet == /\ ~Walking /\ ~Reading
         /\ ~Gave("temperature") /\ ~Gave("fds") /\ ~Gave("time")

LEMMA QuietReadings ==
  ASSUME Times', Quiet'
  PROVE  ReadingInv'
BY DEF ReadingInv, Quiet, ReadingsExact

(* A step that leaves the call where it is.                                *)
LEMMA ReadingStays ==
  ASSUME ReadingInv, Times', UNCHANGED <<spc, sfn, sret, cells, scan, truth, job>>,
         spc = "scan" => OpenFds' = OpenFds
  PROVE  ReadingInv'
<1>1. (Reading => Loaded)'
  BY DEF ReadingInv, Reading, Loaded
<1>2. (Walking => Walked)'
  BY DEF ReadingInv, Walking, Walked
<1>3. ReadingsExact'
  BY DEF ReadingInv, ReadingsExact, Gave
<1> QED
  BY <1>1, <1>2, <1>3 DEF ReadingInv

(* The usage reads nothing of the kind.                                    *)
LEMMA ReadingUsage ==
  ASSUME ReadingInv, UsageNext, UNCHANGED job
  PROVE  ReadingInv'
<1>1. Times'
  <2>1. UNCHANGED <<mono, start>>
    BY DEF UsageNext, rl_get_cpu_usage, usage_read, usage_failed, usage_convert, jiffy,
           readervars
  <2> QED
    BY <2>1 DEF ReadingInv, Times
<1>2. CASE rl_get_cpu_usage
  <2>1. sfn' = "usage" /\ spc' \in {"read", "idle"}
    BY <1>2 DEF rl_get_cpu_usage, OpenFile
  <2> QED
    BY <1>1, <2>1, QuietReadings DEF Quiet, Walking, Reading, Gave
<1>3. CASE usage_read
  <2>1. sfn' = "usage" /\ spc' \in {"convert", "close"}
    BY <1>3 DEF usage_read, ReadFile
  <2> QED
    BY <1>1, <2>1, QuietReadings DEF Quiet, Walking, Reading, Gave
<1>4. CASE usage_failed \/ usage_convert
  <2>1. sfn' = "usage" /\ spc' = "idle"
    BY <1>4 DEF usage_failed, usage_convert, CloseFile
  <2> QED
    BY <1>1, <2>1, QuietReadings DEF Quiet, Walking, Reading, Gave
<1>5. CASE jiffy
  <2>1. UNCHANGED <<spc, sfn, sret, cells, scan, truth, fdtab>>
    BY <1>5 DEF jiffy, readervars
  <2>2. OpenFds' = OpenFds
    BY <2>1 DEF OpenFds
  <2> QED
    BY <1>1, <2>1, <2>2, ReadingStays
<1> QED
  BY <1>2, <1>3, <1>4, <1>5 DEF UsageNext

(* Names and paths neither; the elapsed time is the difference.            *)
LEMMA ReadingPaths ==
  ASSUME ReadingInv, CpuInv, PathNext, UNCHANGED job
  PROVE  ReadingInv'
<1>1. CASE rl_get_proc_name \/ rl_get_proc_path \/ rl_get_proc_dir \/ rl_get_file_abs_path
  <2>1. sfn' \in {"name", "path", "dir", "abs"} /\ spc' \in {"read", "idle"}
    BY <1>1 DEF rl_get_proc_name, rl_get_proc_path, rl_get_proc_dir, rl_get_file_abs_path,
                OpenFile, Returns
  <2>2. UNCHANGED <<mono, start>>
    BY <1>1 DEF rl_get_proc_name, rl_get_proc_path, rl_get_proc_dir, rl_get_file_abs_path,
                OpenFile, Returns, readervars
  <2>3. Times'
    BY <2>2 DEF ReadingInv, Times
  <2> QED
    BY <2>1, <2>3, QuietReadings DEF Quiet, Walking, Reading, Gave
<1>2. CASE name_read \/ name_close
  <2>1. sfn' = "name" /\ spc' \in {"convert", "close", "idle"}
    BY <1>2 DEF name_read, name_close, ReadFile, CloseFile
  <2>2. UNCHANGED <<mono, start>>
    BY <1>2 DEF name_read, name_close, readervars
  <2>3. Times'
    BY <2>2 DEF ReadingInv, Times
  <2> QED
    BY <2>1, <2>3, QuietReadings DEF Quiet, Walking, Reading, Gave
<1>3. CASE rl_calcuate_run_time_ms
  <2>1. spc' = "idle" /\ sfn' = "time" /\ UNCHANGED <<mono, start>>
    BY <1>3 DEF rl_calcuate_run_time_ms, readervars
  <2>2. Times'
    BY <2>1 DEF ReadingInv, Times
  <2>3. sret' = mono - start
    BY <1>3, ElapsedExact DEF rl_calcuate_run_time_ms, ReadingInv, Times
  <2>4. "elapsed" \in DOMAIN Fresh
    BY FreshKeeps DEF CpuInv
  <2>5. truth'.elapsed = mono - start
    BY <1>3, <2>4 DEF rl_calcuate_run_time_ms
  <2>6. ~Walking' /\ ~Reading'
    BY <2>1 DEF Walking, Reading
  <2>7. ReadingsExact'
    BY <2>1, <2>3, <2>5 DEF ReadingsExact, Gave
  <2> QED
    BY <2>2, <2>6, <2>7 DEF ReadingInv
<1>4. CASE time_passes
  <2>1. UNCHANGED <<spc, sfn, sret, cells, scan, truth, fdtab>>
    BY <1>4 DEF time_passes
  <2>2. Times'
    BY <1>4 DEF time_passes, ReadingInv, Times
  <2>3. OpenFds' = OpenFds
    BY <2>1 DEF OpenFds
  <2> QED
    BY <2>1, <2>2, <2>3, ReadingStays
<1> QED
  BY <1>1, <1>2, <1>3, <1>4 DEF PathNext

(* The files: the temperature and the walk.                                *)
LEMMA ReadingFiles ==
  ASSUME ReadingInv, CpuInv, FileNext, UNCHANGED job, job = "files"
  PROVE  ReadingInv'
<1>1. Times'
  <2>1. UNCHANGED <<mono, start>>
    BY DEF FileNext, rl_get_cpu_temperature, temperature_read, temperature_convert,
           rl_get_memory_usage, memory_read, memory_close, rl_get_fd_count, read_entry,
           close_dir, host_files, readervars
  <2> QED
    BY <2>1 DEF ReadingInv, Times
<1>2. CASE rl_get_cpu_temperature \/ rl_get_memory_usage
  <2>1. PICK f \in {"temperature", "memory"} :
          sfn' = f /\ (spc' = "read" \/ (spc' = "idle" /\ sret' = RL_FAILED))
    BY <1>2 DEF rl_get_cpu_temperature, rl_get_memory_usage, OpenFile
  <2> QED
    BY <1>1, <2>1, QuietReadings DEF Quiet, Walking, Reading, Gave
<1>3. CASE temperature_read
  <2>1. CASE ReadFile("temperature", "close")
    BY <1>1, <2>1, QuietReadings DEF ReadFile, Quiet, Walking, Reading, Gave
  <2>2. CASE ~ReadFile("temperature", "close")
    <3>1. PICK r, g :
            /\ r \in Readings
            /\ ReadFile("temperature", "convert")
            /\ cells' = Buffer(r.text, g)
            /\ truth' = [truth EXCEPT !.value = r.value]
      BY <1>3, <2>2 DEF temperature_read, Buffer
    <3>2. truth'.value = r.value
      BY <3>1 DEF CpuInv
    <3>3. spc' = "convert" /\ sfn' = "temperature"
      BY <3>1 DEF ReadFile
    <3>4. ~Walking' /\ ReadingsExact'
      BY <3>3 DEF Walking, ReadingsExact, Gave
    <3>5. Loaded'
      BY <3>1, <3>2 DEF Loaded
    <3> QED
      BY <1>1, <3>4, <3>5 DEF ReadingInv
  <2> QED
    BY <2>1, <2>2
<1>4. CASE temperature_convert
  <2>1. spc' = "idle" /\ sfn' = "temperature" /\ truth' = truth
    BY <1>4 DEF temperature_convert, CloseFile
  <2>2. sret' \in {truth.value, RL_FAILED}
    <3>1. CASE CloseFile("temperature", "close", RL_FAILED)
      BY <3>1 DEF CloseFile
    <3>2. CASE CloseFile("temperature", "convert", Temperature(cells))
      <4>1. Loaded /\ sret' = Temperature(cells)
        BY <3>2 DEF CloseFile, ReadingInv, Reading
      <4> QED
        BY <4>1, TemperatureExact DEF Loaded
    <3> QED
      BY <1>4, <3>1, <3>2 DEF temperature_convert
  <2>3. ~Walking' /\ ~Reading' /\ ReadingsExact'
    BY <2>1, <2>2 DEF Walking, Reading, ReadingsExact, Gave
  <2> QED
    BY <1>1, <2>3 DEF ReadingInv
<1>5. CASE memory_read \/ memory_close
  <2>1. sfn' = "memory" /\ spc' \in {"close", "idle"}
    BY <1>5 DEF memory_read, memory_close, ReadFile, CloseFile
  <2> QED
    BY <1>1, <2>1, QuietReadings DEF Quiet, Walking, Reading, Gave
<1>6. CASE rl_get_fd_count
  <2>1. sfn' = "fds"
    BY <1>6 DEF rl_get_fd_count
  <2>2. CASE spc' = "idle"
    <3>1. sret' = RL_FAILED
      BY <1>6, <2>2 DEF rl_get_fd_count
    <3> QED
      BY <1>1, <2>1, <2>2, <3>1, QuietReadings DEF Quiet, Walking, Reading, Gave
  <2>3. CASE spc' # "idle"
    <3>1. /\ spc' = "scan"
          /\ scan' = [entry |-> -2, count |-> 0]
          /\ truth' = [Fresh EXCEPT !.always = OpenFds', !.ever = OpenFds']
      BY <1>6, <2>3 DEF rl_get_fd_count
    <3>2. truth'.always = OpenFds' /\ truth'.ever = OpenFds'
      BY <3>1, FreshKeeps DEF CpuInv
    <3>3. OpenFds' \in SUBSET Fds
      BY DEF OpenFds
    <3>4. scan'.entry = -2 /\ scan'.count = 0
      BY <3>1
    <3>5. Tally(truth'.always, truth'.ever, scan'.count, scan'.entry)
      BY <3>2, <3>3, <3>4, TallyBegins
    <3>6. Walked'
      BY <2>1, <3>1, <3>2, <3>5 DEF Walked
    <3>7. ~Reading' /\ ReadingsExact'
      BY <3>1 DEF Reading, ReadingsExact, Gave
    <3> QED
      BY <1>1, <3>6, <3>7 DEF ReadingInv
  <2> QED
    BY <2>2, <2>3
<1>7. CASE read_entry
  <2>1. Walked /\ spc = "scan" /\ UNCHANGED <<fdtab, sfn, truth>>
    BY <1>7 DEF read_entry, ReadingInv, Walking
  <2>2. OpenFds' = OpenFds
    BY <2>1 DEF OpenFds
  <2>3. CASE spc' = "scan"
    <3>1. scan' = [entry |-> scan.entry + 1,
                   count |-> scan.count + IF Counted(scan.entry) THEN 1 ELSE 0]
      BY <1>7, <2>3 DEF read_entry
    <3>2. /\ scan'.entry = scan.entry + 1
          /\ scan'.count = scan.count + IF scan.entry \in OpenFds THEN 1 ELSE 0
      BY <3>1 DEF Counted
    <3>3. Tally(truth.always, truth.ever, scan'.count, scan'.entry)
      BY <2>1, <3>2, TallyStep DEF Walked
    <3>4. Walked'
      BY <2>1, <2>2, <2>3, <3>3 DEF Walked
    <3>5. ~Reading' /\ ReadingsExact'
      BY <2>3 DEF Reading, ReadingsExact, Gave
    <3> QED
      BY <1>1, <3>4, <3>5 DEF ReadingInv
  <2>4. CASE spc' # "scan"
    <3>1. spc' = "closedir" /\ scan' = scan /\ scan.entry > Max(Fds)
      BY <1>7, <2>1, <2>4 DEF read_entry
    <3>2. Walked'
      BY <2>1, <3>1 DEF Walked
    <3>3. ~Reading' /\ ReadingsExact'
      BY <3>1 DEF Reading, ReadingsExact, Gave
    <3> QED
      BY <1>1, <3>2, <3>3 DEF ReadingInv
  <2> QED
    BY <2>3, <2>4
<1>8. CASE close_dir
  <2>1. /\ spc = "closedir" /\ spc' = "idle" /\ sfn' = "fds" /\ truth' = truth
        /\ sret' \in {scan.count, RL_FAILED}
    BY <1>8 DEF close_dir, CloseFile
  <2>2. Walked /\ scan.entry > Max(Fds)
    BY <2>1 DEF ReadingInv, Walking, Walked
  <2>3. Cardinality(truth.always) <= scan.count /\ scan.count <= Cardinality(truth.ever)
    BY <2>2, TallyEnds DEF Walked
  <2>4. ~Walking' /\ ~Reading' /\ ReadingsExact'
    BY <2>1, <2>3 DEF Walking, Reading, ReadingsExact, Gave
  <2> QED
    BY <1>1, <2>4 DEF ReadingInv
<1>9. CASE host_files
  <2>1. UNCHANGED <<spc, sfn, sret, cells, scan>>
    BY <1>9 DEF host_files, readervars
  <2>2. CASE spc # "scan"
    <3>1. truth' = truth
      BY <1>9, <2>2 DEF host_files
    <3> QED
      BY <1>1, <2>1, <2>2, <3>1, ReadingStays
  <2>3. CASE spc = "scan"
    <3>1. truth' = [truth EXCEPT !.always = @ \cap OpenFds', !.ever = @ \cup OpenFds']
      BY <1>9, <2>3 DEF host_files
    <3>2. truth'.always = truth.always \cap OpenFds' /\ truth'.ever = truth.ever \cup OpenFds'
      BY <3>1 DEF CpuInv
    <3>3. Walked
      BY <2>3 DEF ReadingInv, Walking
    <3>4. OpenFds' \subseteq Fds
      BY DEF OpenFds
    <3>5. Tally(truth'.always, truth'.ever, scan.count, scan.entry)
      <4>1. Tally(truth.always, truth.ever, scan.count, scan.entry)
        BY <3>3 DEF Walked
      <4>2. /\ truth'.always \in SUBSET truth.always
            /\ truth'.ever \in SUBSET Fds /\ truth.ever \subseteq truth'.ever
        BY <3>2, <3>4, <4>1 DEF Tally
      <4> QED
        BY <4>1, <4>2, TallyMoves
    <3>6. Walked'
      BY <2>1, <2>3, <3>2, <3>3, <3>5 DEF Walked
    <3>7. ~Reading' /\ ReadingsExact'
      BY <2>1, <2>3 DEF Reading, ReadingsExact, Gave
    <3> QED
      BY <1>1, <3>6, <3>7 DEF ReadingInv
  <2> QED
    BY <2>2, <2>3
<1> QED
  BY <1>2, <1>3, <1>4, <1>5, <1>6, <1>7, <1>8, <1>9 DEF FileNext

(* The invariant of the readings holds always.                             *)
LEMMA ReadingsAlways == HostSpec => []ReadingInv
<1>1. HostInit => ReadingInv
  <2>1. SUFFICES ASSUME SysInit PROVE ReadingInv
    BY DEF HostInit
  <2>2. spc = "idle" /\ sfn = "none" /\ mono = 0 /\ start = 0
    BY <2>1 DEF SysInit
  <2> QED
    BY <2>2 DEF ReadingInv, Times, Reading, Walking, ReadingsExact, Gave
<1>2. ASSUME ReadingInv, CpuInv, [HostNext]_hostvars PROVE ReadingInv'
  <2>1. CASE job = "files" /\ files
    BY <1>2, <2>1, ReadingFiles DEF HostNext, hostvars, files
  <2>2. CASE job # "files" /\ (UsageNext \/ PathNext)
    BY <1>2, <2>2, ReadingUsage, ReadingPaths DEF HostNext, hostvars
  <2>3. CASE UNCHANGED <<sysvars, job>> /\ (job # "files" \/ UNCHANGED fdtab)
    <3>1. UNCHANGED <<spc, sfn, sret, cells, scan, truth, job>>
      BY <2>3 DEF sysvars, readervars
    <3>2. Times'
      BY <1>2, <2>3 DEF sysvars, readervars, ReadingInv, Times
    <3>3. spc = "scan" => OpenFds' = OpenFds
      BY <1>2, <2>3 DEF ReadingInv, Walking, Walked, OpenFds
    <3> QED
      BY <1>2, <3>1, <3>2, <3>3, ReadingStays
  <2> QED
    BY <1>2, <2>1, <2>2, <2>3
       DEF HostNext, hostvars, probe, fetch, set, usage, files, paths, OtherThreads
<1> QED
  BY <1>1, <1>2, CpuAlways, PTL DEF HostSpec

(* For any descriptors, readings and times, and whatever the other threads *)
(* open and close during the walk: what rlsys says of the machine and the  *)
(* process is so.                                                          *)
THEOREM HostReadingsExact == HostSpec => []ReadingsExact
<1>1. ReadingInv => ReadingsExact
  BY DEF ReadingInv
<1> QED
  BY <1>1, ReadingsAlways, PTL

-----------------------------------------------------------------------------
(* Paths                                                                   *)

(* The first codes of a text.                                              *)
LEMMA HeadIs ==
  ASSUME NEW s, s \in Seq(Nat), NEW l \in Nat, l <= Len(s)
  PROVE  /\ SubSeq(s, 1, l) \in Seq(Nat) /\ Len(SubSeq(s, 1, l)) = l
         /\ \A i \in 1 .. l : SubSeq(s, 1, l)[i] = s[i]
<1>1. \A i \in 1 .. l : s[i] \in Nat
  OBVIOUS
<1>2. /\ SubSeq(s, 1, l) \in Seq(Nat)
      /\ Len(SubSeq(s, 1, l)) = IF 1 <= l THEN l - 1 + 1 ELSE 0
      /\ \A i \in 1 .. l - 1 + 1 : SubSeq(s, 1, l)[i] = s[1 + i - 1]
  BY <1>1, SubSeqProperties
<1>3. \A i \in 1 .. l : i \in 1 .. l - 1 + 1 /\ 1 + i - 1 = i
  OBVIOUS
<1>4. \A i \in 1 .. l : SubSeq(s, 1, l)[i] = s[i]
  BY <1>2, <1>3
<1>5. Len(SubSeq(s, 1, l)) = l
  BY <1>2
<1> QED
  BY <1>2, <1>4, <1>5

(* s cut off: its length, its codes.                                       *)
LEMMA CutIs ==
  ASSUME NEW s, s \in Seq(Nat), NEW k \in Nat
  PROVE  \E l \in Nat : /\ Cut(s, k) = SubSeq(s, 1, l)
                        /\ l <= k /\ l <= Len(s) /\ (l = k \/ l = Len(s))
                        /\ Len(Cut(s, k)) = l /\ Cut(s, k) \in Seq(Nat)
                        /\ \A i \in 1 .. l : Cut(s, k)[i] = s[i]
<1>1. PICK n \in Nat : n = Len(s)
  OBVIOUS
<1>2. Min({n, k}) \in {n, k} /\ \A x \in {n, k} : Min({n, k}) <= x
  BY LeastExists
<1>3. PICK l \in Nat : l = Min({n, k}) /\ l <= n /\ l <= k /\ (l = k \/ l = n)
  BY <1>2
<1>4. Cut(s, k) = SubSeq(s, 1, l)
  BY <1>1, <1>3 DEF Cut
<1>5. /\ SubSeq(s, 1, l) \in Seq(Nat) /\ Len(SubSeq(s, 1, l)) = l
      /\ \A i \in 1 .. l : SubSeq(s, 1, l)[i] = s[i]
  BY <1>1, <1>3, HeadIs
<1> QED
  BY <1>1, <1>3, <1>4, <1>5

(* The directories above a path end before a slash of it.                  *)
LEMMA AboveAt ==
  ASSUME NEW p, IsPath(p), NEW n \in Nat, 1 <= n, n <= Len(p)
  PROVE  Above(SubSeq(p, 1, n), p) <=> n = 1 \/ (n < Len(p) /\ p[n + 1] = SLASH)
<1>1. PICK l \in Nat : l = Len(p)
  BY DEF IsPath
<1>2. PICK d : d = SubSeq(p, 1, n)
  OBVIOUS
<1>3. /\ p \in Seq(Nat) /\ p[1] = SLASH
      /\ \A i \in 1 .. l - 1 : p[i] = SLASH => p[i + 1] # SLASH
  BY <1>1 DEF IsPath
<1>4. d \in Seq(Nat) /\ Len(d) = n /\ \A i \in 1 .. n : d[i] = p[i]
  BY <1>1, <1>2, <1>3
<1>5. CASE n = 1
  <2>1. d = <<SLASH>>
    BY <1>3, <1>4, <1>5
  <2> QED
    BY <1>2, <1>5, <2>1 DEF Above
<1>6. CASE n # 1
  <2>1. d # <<SLASH>>
    <3>1. Len(<<SLASH>>) = 1
      OBVIOUS
    <3> QED
      BY <1>4, <1>6, <3>1
  <2> DEFINE e == d \o <<SLASH>>
  <2>2. e \in Seq(Nat) /\ Len(e) = n + 1 /\ e[n + 1] = SLASH
        /\ \A i \in 1 .. n : e[i] = p[i]
    BY <1>4 DEF SLASH
  <2> HIDE DEF e
  <2>3. ASSUME IsPrefix(e, p) PROVE n < l /\ p[n + 1] = SLASH
    <3>1. n + 1 <= l /\ SubSeq(e, 1, n + 1) = SubSeq(p, 1, n + 1)
      BY <1>1, <2>2, <2>3 DEF IsPrefix
    <3>2. SubSeq(e, 1, n + 1)[n + 1] = e[n + 1] /\ SubSeq(p, 1, n + 1)[n + 1] = p[n + 1]
      BY <1>1, <1>3, <2>2, <3>1
    <3> QED
      BY <2>2, <3>1, <3>2
  <2>4. ASSUME n < l, p[n + 1] = SLASH PROVE IsPrefix(e, p) /\ Last(d) # SLASH
    <3>1. n \in 1 .. l - 1
      BY <2>4
    <3>2. p[n] # SLASH
      BY <1>3, <2>4, <3>1
    <3>3. Last(d) = p[n]
      BY <1>4 DEF Last
    <3>4. \A i \in 1 .. n + 1 : e[i] = p[i]
      BY <2>2, <2>4
    <3>5. SubSeq(e, 1, n + 1) = SubSeq(p, 1, n + 1)
      BY <1>1, <1>3, <2>2, <2>4, <3>4
    <3> QED
      BY <1>1, <2>2, <2>4, <3>2, <3>3, <3>5 DEF IsPrefix
  <2> QED
    BY <1>1, <1>2, <1>6, <2>1, <2>3, <2>4 DEF Above, e
<1> QED
  BY <1>5, <1>6

(* Where the last name of a path begins, the directory ends.               *)
LastOf(p, n) == \A j \in n + 1 .. Len(p) - 1 : p[j + 1] # SLASH

LEMMA DirectoryAt ==
  ASSUME NEW p, IsPath(p), NEW n \in Nat, 1 <= n, n <= Len(p),
         Above(SubSeq(p, 1, n), p), LastOf(p, n)
  PROVE  Directory(p) = SubSeq(p, 1, n)
<1> DEFINE Heads == {SubSeq(p, 1, i) : i \in 1 .. Len(p)}
           Low(d) == /\ Above(d, p)
                     /\ \A i \in Len(d) + 1 .. Len(p) : ~Above(SubSeq(p, 1, i), p)
<1>1. p \in Seq(Nat) /\ Len(p) \in Nat
  BY DEF IsPath
<1>2. \A i \in 1 .. Len(p) : Len(SubSeq(p, 1, i)) = i
  BY <1>1
<1>3. Low(SubSeq(p, 1, n))
  <2>1. SUFFICES ASSUME NEW i \in n + 1 .. Len(p) PROVE ~Above(SubSeq(p, 1, i), p)
    BY <1>2
  <2>2. i \in Nat /\ 1 <= i /\ i <= Len(p) /\ i # 1
    BY <1>1
  <2>3. i < Len(p) => i \in n + 1 .. Len(p) - 1
    BY <1>1
  <2> QED
    BY <2>2, <2>3, AboveAt DEF LastOf
<1>4. ASSUME NEW d \in Heads, Low(d) PROVE d = SubSeq(p, 1, n)
  <2>1. PICK i \in 1 .. Len(p) : d = SubSeq(p, 1, i) /\ Len(d) = i
    BY <1>2
  <2>2. ~(i < n)
    BY <1>1, <1>4, <2>1
  <2>3. ~(n < i)
    BY <1>1, <1>2, <1>3, <1>4, <2>1
  <2> QED
    BY <1>1, <2>1, <2>2, <2>3
<1>5. SubSeq(p, 1, n) \in Heads
  BY <1>1
<1> QED
  BY <1>3, <1>4, <1>5 DEF Directory

(* The path of the program, cut off anywhere: its dirname is a directory   *)
(* above the program, and the program's own when nothing is cut off.       *)
LEMMA DirnameAt ==
  ASSUME NEW p, IsPath(p), NEW k \in Nat, 1 <= k
  PROVE  \E n \in Nat : /\ 1 <= n /\ n <= Len(p) /\ n <= k
                        /\ dirname(Cut(p, k)) = SubSeq(p, 1, n)
                        /\ Above(SubSeq(p, 1, n), p)
                        /\ k >= Len(p) => SubSeq(p, 1, n) = Directory(p)
<1>1. PICK L \in Nat : L = Len(p) /\ 1 <= L
  BY DEF IsPath
<1>2. /\ p \in Seq(Nat) /\ p[1] = SLASH /\ p[L] # SLASH
      /\ \A i \in 1 .. L - 1 : p[i] = SLASH => p[i + 1] # SLASH
  BY <1>1 DEF IsPath, Last
<1>3. PICK c : c = Cut(p, k)
  OBVIOUS
<1>4. PICK l \in Nat : /\ c \in Seq(Nat) /\ Len(c) = l /\ c = SubSeq(p, 1, l)
                       /\ 1 <= l /\ l <= k /\ l <= L /\ (k >= L => l = L)
                       /\ \A i \in 1 .. l : c[i] = p[i]
  <2>1. PICK l \in Nat : /\ c = SubSeq(p, 1, l)
                         /\ l <= k /\ l <= L /\ (l = k \/ l = L)
                         /\ Len(c) = l /\ c \in Seq(Nat)
                         /\ \A i \in 1 .. l : c[i] = p[i]
    BY <1>1, <1>2, <1>3, CutIs
  <2>2. 1 <= l /\ (k >= L => l = L)
    BY <1>1, <2>1
  <2> QED
    BY <2>1, <2>2
<1> DEFINE q == IF Len(c) > 1 /\ Last(c) = SLASH THEN Front(c) ELSE c
<1>5. PICK m \in Nat : /\ q \in Seq(Nat) /\ Len(q) = m
                       /\ 1 <= m /\ m <= l /\ (k >= L => m = L)
                       /\ \A i \in 1 .. m : q[i] = p[i]
  <2>1. CASE Len(c) > 1 /\ Last(c) = SLASH
    <3>1. q = SubSeq(c, 1, l - 1) /\ l > 1 /\ c[l] = SLASH
      BY <1>4, <2>1 DEF Front, Last
    <3>2. l # L
      BY <1>2, <1>4, <3>1
    <3>3. PICK m \in Nat : m = l - 1
      BY <3>1
    <3>4. SubSeq(c, 1, m) \in Seq(Nat) /\ Len(SubSeq(c, 1, m)) = m
          /\ \A i \in 1 .. m : SubSeq(c, 1, m)[i] = c[i]
      <4>1. m <= Len(c)
        BY <1>4, <3>3
      <4> QED
        BY <1>4, <4>1, HeadIs
    <3>5. \A i \in 1 .. m : i \in 1 .. l
      BY <3>3
    <3>6. q = SubSeq(c, 1, m)
      BY <3>1, <3>3
    <3> HIDE DEF q
    <3>7. 1 <= m /\ m <= l /\ (k >= L => m = L)
      BY <1>1, <1>4, <3>1, <3>2, <3>3
    <3>8. \A i \in 1 .. m : q[i] = p[i]
      BY <1>4, <3>4, <3>5, <3>6
    <3> QED
      BY <3>4, <3>6, <3>7, <3>8
  <2>2. CASE ~(Len(c) > 1 /\ Last(c) = SLASH)
    BY <1>2, <1>4, <2>2 DEF Last
  <2> QED
    BY <2>1, <2>2
<1> HIDE DEF q
<1> DEFINE S == {i \in DOMAIN q : q[i] = SLASH}
<1>6. /\ S \in SUBSET Int /\ IsFiniteSet(S) /\ 1 \in S
      /\ \A i : i \in S <=> i \in 1 .. m /\ p[i] = SLASH
  <2>1. DOMAIN q = 1 .. m
    BY <1>5
  <2>2. \A i : i \in S <=> i \in 1 .. m /\ p[i] = SLASH
    BY <1>5, <2>1
  <2>3. 1 \in S
    BY <1>2, <1>5, <2>2
  <2>4. S \subseteq 1 .. m /\ IsFiniteSet(1 .. m)
    BY <2>2, FS_Interval
  <2> QED
    BY <2>2, <2>3, <2>4, FS_Subset
<1>7. dirname(c) = SubSeq(q, 1, Max({1, Max(S) - 1}))
  BY DEF dirname, q
<1> HIDE DEF S
<1>8. PICK s \in Int : s = Max(S) /\ s \in S /\ \A i \in S : i <= s
  BY <1>6, GreatestExists
<1>9. 1 <= s /\ s <= m /\ p[s] = SLASH
  BY <1>6, <1>8
<1>10. PICK n \in Nat : n = Max({1, s - 1}) /\ n = (IF s = 1 THEN 1 ELSE s - 1)
  <2>1. PICK t : t = Max({1, s - 1})
    OBVIOUS
  <2>2. {1, s - 1} \in SUBSET Int /\ IsFiniteSet({1, s - 1}) /\ {1, s - 1} # {}
    <3>1. IsFiniteSet({1}) /\ {1, s - 1} = {1} \cup {s - 1}
      BY FS_Singleton
    <3> QED
      BY <3>1, FS_AddElement
  <2>3. t \in {1, s - 1} /\ 1 <= t /\ s - 1 <= t
    BY <2>1, <2>2, GreatestExists
  <2> QED
    BY <1>9, <2>1, <2>3
<1>11. 1 <= n /\ n <= m /\ n <= L /\ n <= k
  BY <1>4, <1>5, <1>9, <1>10
<1>12. dirname(c) = SubSeq(p, 1, n)
  <2>1. dirname(c) = SubSeq(q, 1, n)
    BY <1>7, <1>8, <1>10
  <2>2. SubSeq(q, 1, n) = [i \in 1 .. n |-> q[i]]
    BY <1>5, <1>11
  <2>3. SubSeq(p, 1, n) = [i \in 1 .. n |-> p[i]]
    BY <1>1, <1>2, <1>11
  <2>4. \A i \in 1 .. n : q[i] = p[i]
    BY <1>5, <1>11
  <2> QED
    BY <2>1, <2>2, <2>3, <2>4
<1>13. n = 1 \/ (n < L /\ p[n + 1] = SLASH)
  BY <1>4, <1>5, <1>9, <1>10
<1>14. Above(SubSeq(p, 1, n), p)
  BY <1>1, <1>11, <1>13, AboveAt
<1>15. ASSUME k >= L PROVE LastOf(p, n)
  <2>1. SUFFICES ASSUME NEW j \in n + 1 .. L - 1, p[j + 1] = SLASH PROVE FALSE
    BY <1>1 DEF LastOf
  <2>2. j + 1 \in 1 .. m
    BY <1>5, <1>11, <1>15
  <2>3. j + 1 <= s
    BY <1>6, <1>8, <2>1, <2>2
  <2> QED
    BY <1>9, <1>10, <2>1, <2>3
<1>16. k >= L => SubSeq(p, 1, n) = Directory(p)
  BY <1>1, <1>11, <1>14, <1>15, DirectoryAt
<1> QED
  BY <1>1, <1>3, <1>11, <1>12, <1>14, <1>16

(* A name on its way to the caller fits its buffer.                        *)
Naming == spc # "idle" /\ sfn = "name"

PathInv ==
  /\ exe \in Exes
  /\ Naming => plen \in Nat /\ plen > 0 /\ (spc = "convert" => Len(path) < plen)
  /\ PathSound

Textual == {"path", "dir", "abs", "name"}

(* A call that gives no text.                                              *)
LEMMA NoText ==
  ASSUME PathInv, exe' = exe, sfn' \notin Textual
  PROVE  PathInv'
<1>1. exe' \in Exes /\ ~Naming'
  BY DEF PathInv, Naming, Textual
<1>2. PathSound'
  BY DEF PathSound, Gave, Textual
<1> QED
  BY <1>1, <1>2 DEF PathInv

(* A step that leaves the call where it is.                                *)
LEMMA PathStays ==
  ASSUME PathInv, UNCHANGED <<spc, sfn, sret, exe, path, plen>>, truth'.file = truth.file,
         truth'.wrote = truth.wrote
  PROVE  PathInv'
<1>1. exe' \in Exes
  BY DEF PathInv
<1>2. (Naming => plen \in Nat /\ plen > 0 /\ (spc = "convert" => Len(path) < plen))'
  BY DEF PathInv, Naming
<1>3. PathSound'
  BY DEF PathInv, PathSound, Gave
<1> QED
  BY <1>1, <1>2, <1>3 DEF PathInv

(* The length of what is cut off to fit.                                   *)
LEMMA CutFits ==
  ASSUME NEW s, s \in Seq(Nat), NEW len \in Nat, len > 0
  PROVE  Len(Cut(s, len - 1)) < len
<1>1. PICK k \in Nat : k = len - 1
  OBVIOUS
<1>2. PICK l \in Nat : l <= k /\ Len(Cut(s, k)) = l
  BY CutIs
<1> QED
  BY <1>1, <1>2

(* What readlink gives of the path of the program.                         *)
LEMMA LinkIs ==
  ASSUME NEW len \in Nat, len > 0, NEW target \in ReadLink(len), target # <<>>, exe \in Exes
  PROVE  \E k \in Nat : k = len - 1 /\ 1 <= k /\ target = Cut(exe, k)
<1>1. len # 1
  BY DEF ReadLink
<1>2. target = Cut(exe, len - 1)
  BY <1>1 DEF ReadLink
<1> QED
  BY <1>1, <1>2

(* The history of a call that writes.                                      *)
LEMMA WrittenFile ==
  ASSUME CpuInv, NEW text, NEW f, Writes(text, f)
  PROVE  truth'.file = f
BY FreshKeeps DEF Writes, CpuInv

(* The history of a call that writes nothing.                              *)
LEMMA NotWritten ==
  ASSUME CpuInv, WritesNothing
  PROVE  ~truth'.wrote
BY DEF WritesNothing, Fresh, CpuInv

(* The path, the directory, a file in it.                                  *)
LEMMA PathCalls ==
  ASSUME PathInv, CpuInv,
         rl_get_proc_path \/ rl_get_proc_dir \/ rl_get_file_abs_path
  PROVE  PathInv'
<1>0. /\ Lens \subseteq Nat /\ IsPath(exe) /\ Files \subseteq Seq(Nat)
      /\ DirBuf \in Nat /\ DirBuf > 0
  <2>1. DirBuf \in Nat \ {0} /\ Lens \subseteq Nat /\ Files \subseteq Seq(Nat)
    BY RlSysAssumption
  <2>2. IsPath(exe)
    BY RlSysAssumption DEF PathInv
  <2> QED
    BY <2>1, <2>2
<1>1. exe \in Seq(Nat) /\ Len(exe) \in Nat
  BY <1>0 DEF IsPath
<1>2. exe' = exe /\ exe' \in Exes /\ spc' = "idle" /\ ~Naming'
  BY DEF rl_get_proc_path, rl_get_proc_dir, rl_get_file_abs_path, Returns, PathInv, Naming
<1>3. CASE rl_get_proc_path
  <2>1. PICK len \in Lens :
          \/ len = 0 /\ Returns("path", len, RL_FAILED) /\ WritesNothing
          \/ /\ len > 0
             /\ \E target \in ReadLink(len) :
                  /\ Returns("path", len, IF target = <<>> THEN RL_FAILED ELSE RL_SUCCESS)
                  /\ Writes(target, <<>>)
    BY <1>3 DEF rl_get_proc_path
  <2>2. len \in Nat /\ plen' = len /\ sfn' = "path"
    BY <1>0, <2>1 DEF Returns
  <2>3. CASE len = 0 \/ path' = <<>>
    <3>1. sret' = RL_FAILED
      BY <2>1, <2>3 DEF Returns, Writes
    <3>2. (len = 0 /\ ~truth'.wrote) \/ (len > 0 /\ Len(path') = 0)
      <4>1. CASE len = 0
        BY <2>1, <4>1, NotWritten
      <4>2. CASE len # 0
        BY <2>2, <2>3, <4>2
      <4> QED
        BY <4>1, <4>2
    <3>3. PathSound'
      BY <2>2, <3>1, <3>2 DEF PathSound, Gave
    <3> QED
      BY <1>2, <3>3 DEF PathInv
  <2>4. CASE len # 0 /\ path' # <<>>
    <3>1. PICK k \in Nat : k = len - 1 /\ 1 <= k /\ path' = Cut(exe, k)
      BY <2>1, <2>2, <2>4, LinkIs DEF Writes, PathInv
    <3>2. PICK l \in Nat : /\ path' = SubSeq(exe, 1, l)
                           /\ l <= k /\ l <= Len(exe) /\ (l = k \/ l = Len(exe))
                           /\ Len(path') = l
      <4>1. PICK l \in Nat : /\ Cut(exe, k) = SubSeq(exe, 1, l)
                             /\ l <= k /\ l <= Len(exe) /\ (l = k \/ l = Len(exe))
                             /\ Len(Cut(exe, k)) = l
        BY <1>1, CutIs
      <4> QED
        BY <3>1, <4>1
    <3>3. IsPrefix(path', exe)
      BY <3>2 DEF IsPrefix
    <3>4. len > Len(exe) => path' = exe
      <4>1. len > Len(exe) => l = Len(exe)
        BY <1>1, <2>2, <3>1, <3>2
      <4>2. SubSeq(exe, 1, Len(exe)) = exe
        BY <1>1
      <4> QED
        BY <3>2, <4>1, <4>2
    <3>5. Len(path') < len
      BY <2>2, <3>1, <3>2
    <3>6. PathSound'
      BY <1>2, <2>2, <3>3, <3>4, <3>5 DEF PathSound, Gave
    <3> QED
      BY <1>2, <3>6 DEF PathInv
  <2> QED
    BY <2>3, <2>4
<1>4. CASE rl_get_proc_dir
  <2>1. PICK len \in Lens :
          \/ len = 0 /\ Returns("dir", len, RL_FAILED) /\ WritesNothing
          \/ /\ len > 0
             /\ \E target \in ReadLink(len) :
                  \/ target = <<>> /\ Returns("dir", len, RL_FAILED) /\ Writes(<<>>, <<>>)
                  \/ /\ target # <<>> /\ Returns("dir", len, RL_SUCCESS)
                     /\ Writes(dirname(target), <<>>)
    BY <1>4 DEF rl_get_proc_dir
  <2>2. len \in Nat /\ plen' = len /\ sfn' = "dir"
    BY <1>0, <2>1 DEF Returns
  <2>3. CASE len = 0 \/ sret' = RL_FAILED
    <3>1. sret' = RL_FAILED
      BY <2>1, <2>3 DEF Returns
    <3>2. (len = 0 /\ ~truth'.wrote) \/ (len > 0 /\ Len(path') = 0)
      <4>1. CASE len = 0
        BY <2>1, <4>1, NotWritten
      <4>2. CASE len # 0
        <5>1. RL_FAILED # RL_SUCCESS
          BY DEF RL_FAILED, RL_SUCCESS
        <5>2. path' = <<>>
          BY <2>1, <3>1, <4>2, <5>1 DEF Returns, Writes
        <5> QED
          BY <2>2, <4>2, <5>2
      <4> QED
        BY <4>1, <4>2
    <3>3. PathSound'
      BY <2>2, <3>1, <3>2 DEF PathSound, Gave
    <3> QED
      BY <1>2, <3>3 DEF PathInv
  <2>4. CASE len # 0 /\ sret' # RL_FAILED
    <3>1. PICK target \in ReadLink(len) : target # <<>> /\ path' = dirname(target)
      BY <2>1, <2>4 DEF Returns, Writes
    <3>2. PICK k \in Nat : k = len - 1 /\ 1 <= k /\ target = Cut(exe, k)
      BY <2>2, <2>4, <3>1, LinkIs DEF PathInv
    <3>3. PICK n \in Nat :
            /\ 1 <= n /\ n <= Len(exe) /\ n <= k
            /\ dirname(target) = SubSeq(exe, 1, n)
            /\ Above(SubSeq(exe, 1, n), exe)
            /\ k >= Len(exe) => SubSeq(exe, 1, n) = Directory(exe)
      BY <1>0, <3>2, DirnameAt
    <3>4. Len(path') = n
      BY <1>1, <3>1, <3>3, HeadIs
    <3>5. Len(path') < len /\ (len > Len(exe) => k >= Len(exe))
      BY <1>1, <2>2, <3>2, <3>3, <3>4
    <3>6. Above(path', exe) /\ (len > Len(exe) => path' = Directory(exe))
      BY <3>1, <3>3, <3>5
    <3>7. PathSound'
      BY <1>2, <2>2, <3>5, <3>6 DEF PathSound, Gave
    <3> QED
      BY <1>2, <3>7 DEF PathInv
  <2> QED
    BY <2>3, <2>4
<1>5. CASE rl_get_file_abs_path
  <2>1. PICK len \in Lens, file \in Files, target \in ReadLink(DirBuf) :
          \/ target = <<>> /\ Returns("abs", len, RL_FAILED) /\ Writes(<<>>, file)
          \/ /\ target # <<>>
             /\ Returns("abs", len, RL_SUCCESS)
             /\ \/ len = 0 /\ WritesNothing
                \/ len > 0 /\ Writes(Cut(dirname(target) \o <<SLASH>> \o file, len - 1), file)
    BY <1>5 DEF rl_get_file_abs_path
  <2>2. len \in Nat /\ plen' = len /\ sfn' = "abs" /\ file \in Seq(Nat)
    BY <1>0, <2>1 DEF Returns
  <2>4. CASE target = <<>>
    <3>1. sret' = RL_FAILED /\ path' = <<>>
      BY <2>1, <2>4 DEF Returns, Writes
    <3>2. Len(path') < len \/ len = 0
      BY <2>2, <3>1
    <3>3. PathSound'
      BY <2>2, <3>1, <3>2 DEF PathSound, Gave
    <3> QED
      BY <1>2, <3>3 DEF PathInv
  <2>5. CASE target # <<>> /\ len = 0
    <3>1. ~truth'.wrote
      BY <2>1, <2>5, NotWritten
    <3>2. PathSound'
      BY <2>2, <2>5, <3>1 DEF PathSound, Gave
    <3> QED
      BY <1>2, <3>2 DEF PathInv
  <2>6. CASE target # <<>> /\ len # 0
    <3>1. path' = Cut(dirname(target) \o <<SLASH>> \o file, len - 1) /\ truth'.file = file
      <4>1. Writes(Cut(dirname(target) \o <<SLASH>> \o file, len - 1), file)
        BY <2>1, <2>6
      <4> QED
        BY <4>1, WrittenFile DEF Writes
    <3>2. PICK k \in Nat : k = DirBuf - 1 /\ 1 <= k /\ target = Cut(exe, k)
      BY <1>0, <2>6, LinkIs DEF PathInv
    <3>3. PICK n \in Nat :
            /\ 1 <= n /\ n <= Len(exe)
            /\ dirname(target) = SubSeq(exe, 1, n)
            /\ Above(SubSeq(exe, 1, n), exe)
            /\ k >= Len(exe) => SubSeq(exe, 1, n) = Directory(exe)
      BY <1>0, <3>2, DirnameAt
    <3>4. n \in 1 .. Len(exe) /\ (DirBuf > Len(exe) => k >= Len(exe))
      BY <1>0, <1>1, <3>2, <3>3
    <3>5. SubSeq(exe, 1, n) \o <<SLASH>> \o file \in Seq(Nat)
      <4>1. SubSeq(exe, 1, n) \in Seq(Nat) /\ <<SLASH>> \in Seq(Nat)
        BY <1>1, <3>3, HeadIs DEF SLASH
      <4> QED
        BY <2>2, <4>1
    <3>6. Len(path') < len
      <4>1. PICK s : s = SubSeq(exe, 1, n) \o <<SLASH>> \o file /\ s \in Seq(Nat)
        BY <3>5
      <4>2. path' = Cut(s, len - 1) /\ len > 0
        BY <2>2, <2>6, <3>1, <3>3, <4>1
      <4> QED
        BY <2>2, <4>1, <4>2, CutFits
    <3>7. \E i \in 1 .. Len(exe) :
            LET d == SubSeq(exe, 1, i)
            IN  /\ Above(d, exe)
                /\ DirBuf > Len(exe) => d = Directory(exe)
                /\ path' = Cut(d \o <<SLASH>> \o truth'.file, len - 1)
      BY <3>1, <3>3, <3>4
    <3>8. PathSound'
      BY <1>2, <2>2, <3>6, <3>7 DEF PathSound, Gave
    <3> QED
      BY <1>2, <3>8 DEF PathInv
  <2> QED
    BY <2>4, <2>5, <2>6
<1> QED
  BY <1>3, <1>4, <1>5

(* The name of the process.                                                *)
LEMMA NameCalls ==
  ASSUME PathInv, rl_get_proc_name \/ name_read \/ name_close
  PROVE  PathInv'
<1>0. Lens \subseteq Nat /\ Names \subseteq Seq(Nat)
  BY RlSysAssumption
<1>1. sfn' = "name" /\ exe' = exe /\ exe' \in Exes
  BY DEF rl_get_proc_name, name_read, name_close, OpenFile, ReadFile, CloseFile,
         readervars, pathvars, PathInv
<1>2. ASSUME spc' = "idle", sret' = RL_FAILED PROVE PathInv'
  <2>1. ~Naming' /\ PathSound'
    BY <1>1, <1>2 DEF Naming, PathSound, Gave
  <2> QED
    BY <1>1, <2>1 DEF PathInv
<1>3. ASSUME spc' # "idle", plen' \in Nat, plen' > 0,
             spc' = "convert" => Len(path') < plen'
      PROVE  PathInv'
  <2>1. PathSound'
    BY <1>1, <1>3 DEF PathSound, Gave
  <2> QED
    BY <1>1, <1>3, <2>1 DEF PathInv
<1>4. CASE rl_get_proc_name
  <2>1. CASE spc' = "idle"
    BY <1>2, <1>4, <2>1 DEF rl_get_proc_name, OpenFile
  <2>2. CASE spc' # "idle"
    <3>1. spc' = "read" /\ plen' \in Lens \ {0}
      BY <1>4, <2>2 DEF rl_get_proc_name, OpenFile
    <3> QED
      BY <1>0, <1>3, <3>1
  <2> QED
    BY <2>1, <2>2
<1>5. CASE name_read
  <2>1. spc = "read" /\ sfn = "name" /\ plen' = plen /\ spc' \in {"convert", "close"}
    BY <1>5 DEF name_read, ReadFile, readervars, pathvars
  <2>2. plen \in Nat /\ plen > 0
    BY <2>1 DEF PathInv, Naming
  <2>3. ASSUME spc' = "convert" PROVE Len(path') < plen
    <3>1. PICK n \in Names : path' = Cut(n, plen - 1)
      BY <1>5, <2>3 DEF name_read, ReadFile
    <3> QED
      BY <1>0, <2>2, <3>1, CutFits
  <2> QED
    BY <1>3, <2>1, <2>2, <2>3
<1>6. CASE name_close
  <2>1. CASE CloseFile("name", "close", RL_FAILED)
    BY <1>2, <2>1 DEF CloseFile
  <2>2. CASE CloseFile("name", "convert", RL_SUCCESS)
    <3>1. /\ spc = "convert" /\ sfn = "name" /\ spc' = "idle"
          /\ path' = path /\ plen' = plen
      BY <1>6, <2>2 DEF CloseFile, name_close, readervars, pathvars
    <3>2. Len(path) < plen
      BY <3>1 DEF PathInv, Naming
    <3>3. ~Naming' /\ PathSound'
      BY <1>1, <3>1, <3>2 DEF Naming, PathSound, Gave
    <3> QED
      BY <1>1, <3>3 DEF PathInv
  <2> QED
    BY <1>6, <2>1, <2>2 DEF name_close
<1> QED
  BY <1>4, <1>5, <1>6

(* The work on the usage and on other files gives no text.                 *)
LEMMA PathOther ==
  ASSUME PathInv, CpuInv, ReadingInv,
         UsageNext \/ FileNext \/ rl_calcuate_run_time_ms \/ time_passes
  PROVE  PathInv'
<1>1. CASE \/ rl_get_cpu_usage \/ usage_read \/ usage_failed \/ usage_convert
           \/ rl_get_cpu_temperature \/ temperature_read \/ temperature_convert
           \/ rl_get_memory_usage \/ memory_read \/ memory_close
           \/ rl_get_fd_count \/ close_dir \/ rl_calcuate_run_time_ms
  <2>1. sfn' \in {"usage", "temperature", "memory", "fds", "time"}
    BY <1>1 DEF rl_get_cpu_usage, usage_read, usage_failed, usage_convert,
                rl_get_cpu_temperature, temperature_read, temperature_convert,
                rl_get_memory_usage, memory_read, memory_close, rl_get_fd_count, close_dir,
                rl_calcuate_run_time_ms, OpenFile, ReadFile, CloseFile
  <2>2. exe' = exe
    BY <1>1 DEF rl_get_cpu_usage, usage_read, usage_failed, usage_convert,
                rl_get_cpu_temperature, temperature_read, temperature_convert,
                rl_get_memory_usage, memory_read, memory_close, rl_get_fd_count, close_dir,
                rl_calcuate_run_time_ms, readervars, pathvars
  <2>3. sfn' \notin Textual
    BY <2>1 DEF Textual
  <2> QED
    BY <2>2, <2>3, NoText
<1>2. CASE read_entry
  <2>1. sfn' = "fds" /\ exe' = exe
    BY <1>2 DEF read_entry, pathvars, ReadingInv, Walking, Walked
  <2> QED
    BY <2>1, NoText DEF Textual
<1>3. CASE jiffy \/ time_passes \/ host_files
  <2>1. UNCHANGED <<spc, sfn, sret, exe, path, plen>>
    BY <1>3 DEF jiffy, time_passes, host_files, readervars, pathvars
  <2>2. truth'.file = truth.file /\ truth'.wrote = truth.wrote
    BY <1>3 DEF jiffy, time_passes, host_files, CpuInv
  <2> QED
    BY <2>1, <2>2, PathStays
<1> QED
  BY <1>1, <1>2, <1>3 DEF UsageNext, FileNext

(* For any path of the program, any file and any size of the buffer: a     *)
(* text is written with its terminator into the size given, the failure of *)
(* rl_get_file_abs_path for a size of 0 excepted, and a directory is one   *)
(* above the program's, however much of its path fits.                     *)
THEOREM HostPathSound == HostSpec => []PathSound
<1>1. HostInit => PathInv
  <2>1. SUFFICES ASSUME SysInit PROVE PathInv
    BY DEF HostInit
  <2>2. spc = "idle" /\ sfn = "none" /\ exe \in Exes
    BY <2>1 DEF SysInit
  <2> QED
    BY <2>2 DEF PathInv, Naming, PathSound, Gave
<1>2. ASSUME PathInv, CpuInv, ReadingInv, [HostNext]_hostvars PROVE PathInv'
  <2>1. CASE UsageNext \/ FileNext
    BY <1>2, <2>1, PathOther
  <2>2. CASE PathNext
    BY <1>2, <2>2, PathOther, PathCalls, NameCalls DEF PathNext
  <2>3. CASE UNCHANGED sysvars
    BY <1>2, <2>3, PathStays DEF sysvars, readervars, pathvars
  <2> QED
    BY <1>2, <2>1, <2>2, <2>3
       DEF HostNext, hostvars, probe, fetch, set, usage, files, paths, OtherThreads
<1>3. PathInv => PathSound
  BY DEF PathInv
<1> QED
  BY <1>1, <1>2, <1>3, CpuAlways, ReadingsAlways, PTL DEF HostSpec

-----------------------------------------------------------------------------
(* The types of rleth                                                      *)

(* Only a query asks the card for an address.                              *)
EthTypes == EthTypeOK /\ (ethpc = "address" => fn \in Queries)

(* A counter that starts anywhere and counts down.                         *)
LEMMA CountsDown ==
  ASSUME NEW S, S \subseteq Int, NEW t \in Int, NEW u, u = t \/ u = t - 1 \/ u \in S
  PROVE  u \in Int
<1>1. CASE u = t \/ u = t - 1
  BY <1>1
<1>2. CASE u \in S
  BY <1>2
<1> QED
  BY <1>1, <1>2

(* What a step notes of a call is a note.                                  *)
LEMMA SeenNoted ==
  ASSUME NEW s \in Seen, NEW u,
         \/ u = [s EXCEPT !.looks = @ + 1]
         \/ u = [s EXCEPT !.looks = @ + 1, !.fault = TRUE]
         \/ u = [s EXCEPT !.fault = TRUE]
         \/ u = [s EXCEPT !.asked = TRUE]
         \/ u = [s EXCEPT !.down = TRUE]
         \/ u = [s EXCEPT !.up = TRUE]
  PROVE  u \in Seen
<1>1. s.looks + 1 \in Nat
  BY DEF Seen
<1>2. CASE u = [s EXCEPT !.looks = @ + 1]
  BY <1>1, <1>2 DEF Seen
<1>3. CASE u = [s EXCEPT !.looks = @ + 1, !.fault = TRUE]
  BY <1>1, <1>3 DEF Seen
<1>4. CASE u = [s EXCEPT !.fault = TRUE]
  BY <1>4 DEF Seen
<1>5. CASE u = [s EXCEPT !.asked = TRUE]
  BY <1>5 DEF Seen
<1>6. CASE u = [s EXCEPT !.down = TRUE]
  BY <1>6 DEF Seen
<1>7. CASE u = [s EXCEPT !.up = TRUE]
  BY <1>7 DEF Seen
<1> QED
  BY <1>2, <1>3, <1>4, <1>5, <1>6, <1>7

(* What the history of a call begins with.                                 *)
LEMMA SeenBegun ==
  ASSUME NEW l \in BOOLEAN, NEW b \in Texts
  PROVE  [looks |-> 0, up |-> l, down |-> ~l, fault |-> FALSE,
          asked |-> FALSE, before |-> b] \in Seen
BY DEF Seen

(* Every step of rleth keeps the types.                                    *)
LEMMA EthTypesNext ==
  ASSUME EthTypes, EthNext
  PROVE  EthTypes'
<1> USE DEF EthNext, EthCall, EthStep, eth_close,
        rl_get_ethernet_card_state, card_try, card_query, card_close,
        rl_get_ethernet_connect_tcp, rl_get_ethernet_connect_tcp_sel,
        rl_get_ethernet_connect_udp, Probe, Fails, tcp_timeout, sel_nonblock, resolve,
        tcp_connect, tcp_wait, sel_connect, sel_wait, sel_error, udp_timeout, udp_send,
        udp_wait, rl_get_dhcp, find_mode, Query, rl_get_ip_address, rl_get_subnet_mask,
        rl_get_gateway, get_address, find_gateway, link_changes, peer_answers,
        EthGoto, Enter, Obtain, Refuse, Decide, Proceed, EthTypes, EthTypeOK
<1>1. ethpc' \in {"idle", "close", "card_try", "card_query", "card_close",
                "tcp_timeout", "sel_nonblock", "udp_timeout", "resolve",
                "tcp_connect", "tcp_wait", "sel_connect", "sel_wait",
                "sel_error", "udp_send", "udp_wait", "stanzas", "address",
                "routes"}
  OBVIOUS
<1>2. fn' \in Probes \cup Queries \cup {"card", "dhcp", "none"}
  BY DEF Probes, Queries
<1>3. arg' \in Retries \cup TrySecs \cup {0}
  OBVIOUS
<1>4. room' \in Rooms
  BY DEF Rooms
<1>5. sockfd' \in Fds \cup {NoFd}
  OBVIOUS
<1>6. tries' \in Int
  <2>1. tries' = tries \/ tries' = tries - 1 \/ tries' \in Retries
    OBVIOUS
  <2>2. tries \in Int
    OBVIOUS
  <2>3. Retries \subseteq Int
    BY RlEthAssumption
  <2> HIDE DEF EthTypes, EthNext
  <2> QED
    BY <2>1, <2>2, <2>3, CountsDown
<1>7. limit' \in BOOLEAN
  <2>1. limit \in BOOLEAN
    OBVIOUS
  <2>2. CASE tcp_timeout \/ udp_timeout
    <3>1. limit' = limit \/ limit' = FALSE \/ limit' = (arg > 0)
      BY <2>2
    <3> HIDE DEF EthTypes, EthNext
    <3> DEFINE more == arg > 0
    <3>2. more = TRUE \/ more = FALSE
      OBVIOUS
    <3>3. limit' = limit \/ limit' = FALSE \/ limit' = more
      BY <3>1
    <3> HIDE DEF more
    <3> QED
      BY <2>1, <3>2, <3>3, Zenon
  <2>3. CASE ~(tcp_timeout \/ udp_timeout)
    <3>1. limit' = limit \/ limit' = FALSE
      BY <2>3
    <3> HIDE DEF EthTypes, EthNext
    <3> QED
      BY <2>1, <3>1
  <2> QED
    BY <2>2, <2>3
<1>8. link' \in BOOLEAN
  OBVIOUS
<1>9. conn' \in {"none", "pending", "open", "refused"}
  OBVIOUS
<1>10. ebuf' \in Texts
  BY DEF Texts, Queries
<1>11. verdict' \in {RL_SUCCESS, RL_FAILED, RL_TRUE}
  BY DEF RL_SUCCESS, RL_FAILED, RL_TRUE, RL_FALSE
<1>12. ethret' \in {RL_SUCCESS, RL_FAILED, RL_TRUE, Busy}
  OBVIOUS
<1>13. seen' \in Seen
  <2>1. seen \in Seen /\ link \in BOOLEAN /\ ebuf \in Texts
    OBVIOUS
  <2>2. \/ seen' = seen
        \/ seen' = [looks |-> 0, up |-> link, down |-> ~link, fault |-> FALSE,
                    asked |-> FALSE, before |-> ebuf]
        \/ seen' = [seen EXCEPT !.looks = @ + 1]
        \/ seen' = [seen EXCEPT !.looks = @ + 1, !.fault = TRUE]
        \/ seen' = [seen EXCEPT !.fault = TRUE]
        \/ seen' = [seen EXCEPT !.asked = TRUE]
        \/ seen' = [seen EXCEPT !.down = TRUE]
        \/ seen' = [seen EXCEPT !.up = TRUE]
    OBVIOUS
  <2> HIDE DEF EthTypes, EthNext
  <2> QED
    BY <2>1, <2>2, SeenNoted, SeenBegun
<1>14. (ethpc = "address" => fn \in Queries)'
  BY DEF Queries
<1> QED
  BY <1>1, <1>2, <1>3, <1>4, <1>5, <1>6, <1>7, <1>8, <1>9, <1>10, <1>11, <1>12, <1>13, <1>14

-----------------------------------------------------------------------------
(* The types of rltime                                                     *)

(* A sequence of at most two.                                              *)
LEMMA NoCommand == <<>> \in BoundedSeq(Outcomes, 2)
<1>1. <<>> \in [1 .. 0 -> Outcomes] /\ 0 \in 0 .. 2
  OBVIOUS
<1> QED
  BY <1>1 DEF BoundedSeq, SeqOf

(* The first or the second command.                                        *)
LEMMA OneMoreCommand ==
  ASSUME NEW s \in Seq(Outcomes), Len(s) <= 1, NEW c \in Outcomes
  PROVE  Append(s, c) \in BoundedSeq(Outcomes, 2)
<1>1. PICK n \in Nat : n = Len(s) + 1 /\ n \in 0 .. 2
  OBVIOUS
<1>2. Append(s, c) \in Seq(Outcomes) /\ Len(Append(s, c)) = n
  BY <1>1
<1>3. Append(s, c) \in [1 .. n -> Outcomes]
  BY <1>2, LenProperties
<1> QED
  BY <1>1, <1>3 DEF BoundedSeq, SeqOf

(* Before a command at most one has been run.                              *)
LEMMA FewCommands ==
  ASSUME ClocksInStep, tpc \in {"set_clock", "set_rtc"}
  PROVE  cmds \in Seq(Outcomes) /\ Len(cmds) <= 1
<1>1. CASE tpc = "set_clock"
  <2>1. cmds = <<>>
    BY <1>1 DEF ClocksInStep
  <2> QED
    BY <2>1, EmptySeq
<1>2. CASE tpc = "set_rtc"
  <2>1. cmds \in Seq(Outcomes)
    BY <1>2 DEF ClocksInStep
  <2>2. Len(cmds) = 1
    BY <1>2 DEF ClocksInStep
  <2> QED
    BY <2>1, <2>2
<1> QED
  BY <1>1, <1>2

(* The exchange keeps the types.                                           *)
LEMMA TimeTypesExchange ==
  ASSUME TimeTypeOK, ReplyInv, ExchangeNext
  PROVE  TimeTypeOK'
<1> USE DEF ExchangeNext, ExchangeCall, ExchangeStep, TimeWait, rl_get_time_from_server,
        prepare, connect_server, send_request, recv_piece, recv_end, recv_fails,
        check_status, read_date, close_socket, Begin, Continue, Answer, exchange, clocks
<1>1. tpc' \in {"idle", "rcvtimeo", "sndtimeo", "getaddrinfo", "connect", "send",
                "recv", "status", "date", "close", "set_clock", "set_rtc"}
  BY DEF TimeTypeOK
<1>2. tfn' \in {"none", "server", "update", "zone", "time", "stamp"}
  BY DEF TimeTypeOK
<1>3. tsock' \in Fds \cup {-1}
  BY DEF TimeTypeOK, Opened
<1>4. tlimit' \in BOOLEAN
  BY DEF TimeTypeOK
<1>5. reply' \in Replies \cup {NoReply}
  BY DEF TimeTypeOK
<1>6. got' \in 0 .. Cap
  <2>1. /\ Cap \in Nat /\ got \in Nat /\ got <= Cap /\ Len(reply) \in Nat
    BY RlTimeAssumption DEF TimeTypeOK, ReplyInv
  <2>2. \/ got' = 0 \/ got' = got
        \/ got' \in got + 1 .. Min({Len(reply), Cap})
    OBVIOUS
  <2>3. PICK k \in Nat : k = Min({Len(reply), Cap}) /\ k <= Cap
    BY <2>1, LesserOfTwo
  <2> HIDE DEF ExchangeNext
  <2>4. CASE got' = 0 \/ got' = got
    BY <2>1, <2>4
  <2>5. CASE got' \in got + 1 .. Min({Len(reply), Cap})
    BY <2>1, <2>3, <2>5
  <2> QED
    BY <2>2, <2>4, <2>5
<1>7. tm' \in {"unset", "partial", "host"} \cup Dates \cup Zones
  BY DEF TimeTypeOK, Readable
<1>8. tret' \in {RL_SUCCESS, RL_FAILED, RL_TRUE}
  BY DEF TimeTypeOK, RL_SUCCESS, RL_FALSE, RL_FAILED, RL_TRUE
<1>9. UNCHANGED <<clock, rtc, asked, cmds, tz>>
  OBVIOUS
<1>10. past'.fault \in BOOLEAN
  <2>1. \/ past' = past
        \/ past' = [past EXCEPT !.fault = TRUE]
        \/ past' = [tm |-> tm, clock |-> clock, rtc |-> rtc, fault |-> FALSE]
    OBVIOUS
  <2>2. past.fault \in BOOLEAN /\ DOMAIN past = {"tm", "clock", "rtc", "fault"}
    BY DEF TimeTypeOK, ReplyInv
  <2> HIDE DEF ExchangeNext
  <2>3. CASE past' = past
    BY <2>2, <2>3
  <2>4. CASE past' = [past EXCEPT !.fault = TRUE]
    BY <2>2, <2>4
  <2>5. CASE past' = [tm |-> tm, clock |-> clock, rtc |-> rtc, fault |-> FALSE]
    BY <2>5
  <2> QED
    BY <2>1, <2>3, <2>4, <2>5
<1> HIDE DEF ExchangeNext
<1> QED
  BY <1>1, <1>2, <1>3, <1>4, <1>5, <1>6, <1>7, <1>8, <1>9, <1>10 DEF TimeTypeOK

(* So does the work on the clocks.                                         *)
LEMMA TimeTypesClock ==
  ASSUME TimeTypeOK, ClocksInStep, ClockNext
  PROVE  TimeTypeOK'
<1> USE DEF ClockNext, ClockCall, ClockStep, rl_update_sys_time, rl_set_timezone,
        rl_get_time, rl_get_time_stamp, LocalTime, set_clock, set_rtc, Command, Begin,
        exchange, clocks
<1>1. tpc' \in {"idle", "rcvtimeo", "sndtimeo", "getaddrinfo", "connect", "send",
                "recv", "status", "date", "close", "set_clock", "set_rtc"}
  BY DEF TimeTypeOK
<1>2. tfn' \in {"none", "server", "update", "zone", "time", "stamp"}
  BY DEF TimeTypeOK
<1>3. UNCHANGED <<tsock, tlimit, reply, got>>
  OBVIOUS
<1>4. tm' \in {"unset", "partial", "host"} \cup Dates \cup Zones
  BY DEF TimeTypeOK
<1>5. tret' \in {RL_SUCCESS, RL_FAILED, RL_TRUE}
  BY DEF TimeTypeOK
<1>6. clock' \in {clock, asked} /\ rtc' \in {rtc, clock} /\ asked' \in Requests \cup {asked}
  OBVIOUS
<1>7. tz' \in [env : Zones \cup {"host"}, libc : Zones \cup {"host"}]
  <2>1. tz' = tz \/ \E z \in Zones : tz' = [env |-> z, libc |-> z]
    OBVIOUS
  <2> HIDE DEF ClockNext
  <2> QED
    BY <2>1 DEF TimeTypeOK
<1>8. cmds' \in BoundedSeq(Outcomes, 2)
  <2>1. CASE set_clock \/ set_rtc
    <3>1. PICK c \in Outcomes : cmds' = Append(cmds, c) /\ tpc \in {"set_clock", "set_rtc"}
      BY <2>1
    <3>2. cmds \in Seq(Outcomes) /\ Len(cmds) <= 1
      BY <3>1, FewCommands
    <3> HIDE DEF ClockNext
    <3> QED
      BY <3>1, <3>2, OneMoreCommand
  <2>2. CASE ~(set_clock \/ set_rtc)
    <3>1. cmds' = cmds \/ cmds' = <<>>
      BY <2>2
    <3> HIDE DEF ClockNext
    <3> QED
      BY <3>1, NoCommand DEF TimeTypeOK
  <2> QED
    BY <2>1, <2>2
<1>9. past'.fault \in BOOLEAN
  <2>1. \/ past' = past
        \/ past' = [tm |-> tm, clock |-> clock, rtc |-> rtc, fault |-> FALSE]
    OBVIOUS
  <2> HIDE DEF ClockNext
  <2>2. CASE past' = past
    BY <2>2 DEF TimeTypeOK
  <2>3. CASE past' = [tm |-> tm, clock |-> clock, rtc |-> rtc, fault |-> FALSE]
    BY <2>3
  <2> QED
    BY <2>1, <2>2, <2>3
<1> HIDE DEF ClockNext
<1> QED
  BY <1>1, <1>2, <1>3, <1>4, <1>5, <1>6, <1>7, <1>8, <1>9 DEF TimeTypeOK

-----------------------------------------------------------------------------
(* The types of rlsys                                                      *)

(* The steps of a call and what they hold in hand.                         *)
LEMMA SysTypesReaders ==
  ASSUME SysTypeOK, CpuInv, ReadingInv, UsageNext \/ FileNext \/ PathNext
  PROVE  /\ spc' \in {"idle", "read", "convert", "close", "scan", "closedir"}
         /\ sfn' \in {"none", "usage", "temperature", "memory", "name", "path", "dir",
                      "abs", "fds", "time"}
         /\ sfd' \in Fds \cup {-1}
         /\ rss' \in Sizes \cup {-1}
         /\ exe' \in Exes
         /\ plen' \in Lens \cup {0}
<1> USE DEF UsageNext, FileNext, PathNext, rl_get_cpu_usage, usage_read, usage_failed,
        usage_convert, jiffy, rl_get_cpu_temperature, temperature_read, temperature_convert,
        rl_get_memory_usage, memory_read, memory_close, rl_get_fd_count, read_entry,
        close_dir, host_files, rl_get_proc_name, name_read, name_close, rl_get_proc_path,
        rl_get_proc_dir, rl_get_file_abs_path, rl_calcuate_run_time_ms, time_passes,
        OpenFile, ReadFile, CloseFile, Returns, Writes, WritesNothing, usagevars, pathvars, readervars
<1>1. spc' \in {"idle", "read", "convert", "close", "scan", "closedir"}
  BY DEF SysTypeOK
<1>2. sfn' \in {"none", "usage", "temperature", "memory", "name", "path", "dir",
                "abs", "fds", "time"}
  BY DEF SysTypeOK
<1>3. sfd' \in Fds \cup {-1}
  BY DEF SysTypeOK
<1>4. rss' \in Sizes \cup {-1}
  BY DEF SysTypeOK
<1>5. exe' \in Exes
  BY DEF SysTypeOK
<1>6. plen' \in Lens \cup {0}
  BY DEF SysTypeOK
<1> QED
  BY <1>1, <1>2, <1>3, <1>4, <1>5, <1>6

(* The counters: what is read of them fits a word.                         *)
LEMMA SysTypesUsage ==
  ASSUME SysTypeOK, UsageNext
  PROVE  /\ machine' \in Kernel /\ sample' \in Counters
         /\ tracker' \in [last_total : 0 .. Word - 1, last_idle : 0 .. Word - 1,
                          valid : BOOLEAN]
<1>0. Word \in Nat \ {0}
  BY RlSysAssumption
<1>1. machine' \in Kernel
  <2>1. machine.busy \in Int /\ machine.idle \in Int /\ machine \in Kernel
    BY DEF SysTypeOK, Kernel
  <2>2. CASE jiffy
    <3>1. PICK b \in {-1, 0, 1}, i \in {-1, 0, 1} :
            machine' = [busy |-> machine.busy + b, idle |-> machine.idle + i]
      BY <2>2 DEF jiffy
    <3>2. machine.busy + b \in Int /\ machine.idle + i \in Int
      BY <2>1
    <3> QED
      BY <3>1, <3>2 DEF Kernel
  <2>3. CASE ~jiffy
    <3>1. machine' = machine
      BY <2>3 DEF UsageNext, rl_get_cpu_usage, usage_read, usage_failed, usage_convert,
                  usagevars
    <3> QED
      BY <2>1, <3>1
  <2> QED
    BY <2>2, <2>3
<1>2. sample' \in Counters
  <2>1. \/ sample' = sample \/ sample' = NoSample
        \/ sample' = [total |-> (machine.busy + machine.idle) % Word,
                      idle  |-> machine.idle % Word]
    BY DEF UsageNext, rl_get_cpu_usage, usage_read, usage_failed, usage_convert, jiffy,
           usagevars
  <2>2. /\ (machine.busy + machine.idle) % Word \in 0 .. Word - 1
        /\ machine.idle % Word \in 0 .. Word - 1
    <3>1. machine.busy \in Int /\ machine.idle \in Int
      BY DEF SysTypeOK, Kernel
    <3> QED
      BY <1>0, <3>1
  <2>3. 0 \in 0 .. Word - 1 /\ sample \in Counters
    BY <1>0 DEF SysTypeOK
  <2> QED
    BY <2>1, <2>2, <2>3 DEF Counters, NoSample
<1>3. tracker' \in [last_total : 0 .. Word - 1, last_idle : 0 .. Word - 1, valid : BOOLEAN]
  <2>1. \/ tracker' = tracker
        \/ tracker' = [last_total |-> sample.total, last_idle |-> sample.idle, valid |-> TRUE]
    BY DEF UsageNext, rl_get_cpu_usage, usage_read, usage_failed, usage_convert, jiffy,
           usagevars
  <2>2. sample.total \in 0 .. Word - 1 /\ sample.idle \in 0 .. Word - 1
    BY DEF SysTypeOK, Counters
  <2>3. CASE tracker' = tracker
    BY <2>3 DEF SysTypeOK
  <2>4. CASE tracker' = [last_total |-> sample.total, last_idle |-> sample.idle, valid |-> TRUE]
    BY <2>2, <2>4
  <2> QED
    BY <2>1, <2>3, <2>4
<1> QED
  BY <1>1, <1>2, <1>3

(* The difference of two counters fits a word, and the usage is a number.  *)
LEMMA UsageNumber ==
  ASSUME SysTypeOK
  PROVE  Usage \in Int
<1>0. PICK W \in Nat : W = Word /\ W > 0
  BY RlSysAssumption
<1>1. /\ sample.total \in Int /\ sample.idle \in Int
      /\ tracker.last_total \in Int /\ tracker.last_idle \in Int /\ Permille \in Int
  BY RlSysAssumption DEF SysTypeOK, Counters
<1>2. \A a, b \in Int : Diff(a, b) \in Int /\ Diff(a, b) >= 0
  BY <1>0 DEF Diff
<1>3. PICK t \in Int : t = Diff(sample.total, tracker.last_total) /\ t >= 0
  BY <1>1, <1>2
<1>4. PICK i \in Int : i = Diff(sample.idle, tracker.last_idle)
  BY <1>1, <1>2
<1>5. PICK u \in Int : u = Diff(t, i)
  BY <1>1, <1>2
<1>6. Usage = IF ~tracker.valid \/ t = 0 THEN 0 ELSE ((u * Permille) % W) \div t
  BY <1>0, <1>3, <1>4, <1>5 DEF Usage
<1>7. PICK x \in Int : x = (u * Permille) % W
  BY <1>0, <1>1
<1>8. t # 0 => x \div t \in Int
  BY <1>3
<1> QED
  BY <1>6, <1>7, <1>8

(* Every answer is a number.                                               *)
LEMMA SysTypesAnswer ==
  ASSUME SysTypeOK, CpuInv, ReadingInv, UsageNext \/ FileNext \/ PathNext
  PROVE  sret' \in Int
<1>1. \/ sret' = sret \/ sret' = RL_FAILED \/ sret' = RL_SUCCESS
      \/ sret' = Usage \/ sret' = rss \/ sret' = scan.count
      \/ sret' = Elapsed(start, mono)
      \/ sret' = Temperature(cells) /\ spc = "convert" /\ sfn = "temperature"
  BY DEF UsageNext, FileNext, PathNext, rl_get_cpu_usage, usage_read, usage_failed,
        usage_convert, jiffy, rl_get_cpu_temperature, temperature_read, temperature_convert,
        rl_get_memory_usage, memory_read, memory_close, rl_get_fd_count, read_entry,
        close_dir, host_files, rl_get_proc_name, name_read, name_close, rl_get_proc_path,
        rl_get_proc_dir, rl_get_file_abs_path, rl_calcuate_run_time_ms, time_passes,
        OpenFile, ReadFile, CloseFile, Returns, Writes, WritesNothing
<1>2. CASE sret' = sret \/ sret' = RL_FAILED \/ sret' = RL_SUCCESS \/ sret' = Usage
  BY <1>2, UsageNumber DEF SysTypeOK, RL_FAILED, RL_SUCCESS
<1>3. CASE sret' = rss \/ sret' = scan.count
  <2>1. rss \in Int /\ scan.count \in Int
    <3>1. Sizes \subseteq Nat
      BY RlSysAssumption
    <3> QED
      BY <3>1 DEF SysTypeOK
  <2> QED
    BY <1>3, <2>1
<1>4. CASE sret' = Elapsed(start, mono)
  BY <1>4, ElapsedExact DEF ReadingInv, Times
<1>5. CASE sret' = Temperature(cells) /\ spc = "convert" /\ sfn = "temperature"
  <2>1. PICK r, g : r \in Readings /\ cells = Buffer(r.text, g)
    BY <1>5 DEF ReadingInv, Reading, Loaded
  <2>2. sret' \in {r.value, RL_FAILED} /\ r.value \in Int
    BY <1>5, <2>1, TemperatureExact, RlSysAssumption DEF IsReading
  <2> QED
    BY <2>2 DEF RL_FAILED
<1> QED
  BY <1>1, <1>2, <1>3, <1>4, <1>5

(* The buffer, the clock, the walk.                                        *)
LEMMA SysTypesBuffers ==
  ASSUME SysTypeOK, UsageNext \/ FileNext \/ PathNext
  PROVE  /\ DOMAIN cells' = 0 .. TempBuf /\ cells'[TempBuf] = NUL
         /\ mono' \in 0 .. MaxTime /\ start' \in 0 .. mono'
         /\ scan' \in [entry : Int, count : Nat]
<1> USE DEF UsageNext, FileNext, PathNext, rl_get_cpu_usage, usage_read, usage_failed,
        usage_convert, jiffy, rl_get_cpu_temperature, temperature_read, temperature_convert,
        rl_get_memory_usage, memory_read, memory_close, rl_get_fd_count, read_entry,
        close_dir, host_files, rl_get_proc_name, name_read, name_close, rl_get_proc_path,
        rl_get_proc_dir, rl_get_file_abs_path, rl_calcuate_run_time_ms, time_passes,
        OpenFile, ReadFile, CloseFile, Returns, Writes, WritesNothing, usagevars, pathvars, readervars
<1>1. DOMAIN cells' = 0 .. TempBuf /\ cells'[TempBuf] = NUL
  <2>1. \/ cells' = cells \/ cells' = Blank
        \/ \E t, g : cells' = Buffer(t, g)
    <3>1. CASE temperature_read
      <4>1. CASE cells' = cells
        BY <4>1
      <4>2. CASE cells' # cells
        <5>1. PICK r \in Readings, g \in [1 .. TempBuf -> Garbage] :
                cells' = [i \in 0 .. TempBuf |->
                            IF i = TempBuf THEN NUL
                            ELSE IF i < Len(r.text) THEN r.text[i + 1] ELSE g[i + 1]]
          BY <3>1, <4>2
        <5>2. cells' = Buffer(r.text, g)
          BY <5>1 DEF Buffer
        <5> QED
          BY <5>2
      <4> QED
        BY <4>1, <4>2
    <3>2. CASE ~temperature_read
      <4>1. cells' = cells \/ cells' = Blank
        BY <3>2
      <4> QED
        BY <4>1
    <3> QED
      BY <3>1, <3>2
  <2> HIDE DEF UsageNext, FileNext, PathNext
  <2>2. TempBuf \in Nat /\ TempBuf \in 0 .. TempBuf
    BY RlSysAssumption
  <2>3. CASE cells' = cells
    BY <2>3 DEF SysTypeOK
  <2>4. CASE cells' = Blank
    BY <2>2, <2>4 DEF Blank
  <2>5. CASE \E t, g : cells' = Buffer(t, g)
    BY <2>2, <2>5 DEF Buffer
  <2> QED
    BY <2>1, <2>3, <2>4, <2>5
<1>2. mono' \in 0 .. MaxTime /\ start' \in 0 .. mono'
  <2>1. \/ mono' = mono /\ start' = start
        \/ mono < MaxTime /\ mono' = mono + 1 /\ start' \in {start, mono}
    OBVIOUS
  <2> HIDE DEF UsageNext, FileNext, PathNext
  <2>2. MaxTime \in Nat /\ mono \in 0 .. MaxTime /\ start \in 0 .. mono
    BY RlSysAssumption DEF SysTypeOK
  <2>3. CASE mono' = mono /\ start' = start
    BY <2>2, <2>3
  <2>4. CASE mono < MaxTime /\ mono' = mono + 1 /\ start' \in {start, mono}
    BY <2>2, <2>4
  <2> QED
    BY <2>1, <2>3, <2>4
<1>3. scan' \in [entry : Int, count : Nat]
  <2>1. \/ scan' = scan
        \/ \E e \in {-2, 0} : scan' = [entry |-> e, count |-> 0]
        \/ \E n \in {0, 1} : scan' = [entry |-> scan.entry + 1, count |-> scan.count + n]
    OBVIOUS
  <2> HIDE DEF UsageNext, FileNext, PathNext
  <2>2. scan.entry \in Int /\ scan.count \in Nat /\ scan \in [entry : Int, count : Nat]
    BY DEF SysTypeOK
  <2>3. CASE \E n \in {0, 1} : scan' = [entry |-> scan.entry + 1, count |-> scan.count + n]
    <3>1. PICK n \in {0, 1} : scan' = [entry |-> scan.entry + 1, count |-> scan.count + n]
      BY <2>3
    <3>2. scan.entry + 1 \in Int /\ scan.count + n \in Nat
      BY <2>2
    <3> QED
      BY <3>1, <3>2
  <2>4. CASE \E e \in {-2, 0} : scan' = [entry |-> e, count |-> 0]
    BY <2>4
  <2> QED
    BY <2>1, <2>2, <2>3, <2>4
<1> QED
  BY <1>1, <1>2, <1>3

(* A call begins a history of the same kind.                               *)
LEMMA FreshTyped ==
  ASSUME truth \in Truth
  PROVE  Fresh \in Truth
<1>1. /\ [busy |-> 0, idle |-> 0] \in Kernel /\ 0 \in Int /\ 0 \in Nat
      /\ <<>> \in Files \cup {<<>>} /\ {} \in SUBSET Fds
  BY DEF Kernel
<1> QED
  BY <1>1 DEF Fresh, Truth

(* The history is one.                                                     *)
LEMMA SysTypesTruth ==
  ASSUME SysTypeOK, UsageNext \/ FileNext \/ PathNext
  PROVE  truth' \in Truth
<1>1. /\ truth \in Truth /\ Fresh \in Truth /\ machine \in Kernel
      /\ truth.read \in Kernel /\ truth.sampled \in Kernel
  BY FreshTyped DEF SysTypeOK, Truth
<1>2. OpenFds' \in SUBSET Fds
  BY DEF OpenFds
<1>3. CASE rl_get_cpu_usage \/ rl_get_cpu_temperature \/ rl_get_memory_usage
           \/ rl_get_proc_name
  BY <1>1, <1>3 DEF rl_get_cpu_usage, rl_get_cpu_temperature, rl_get_memory_usage,
                    rl_get_proc_name
<1>4. CASE memory_read \/ memory_close \/ temperature_convert \/ read_entry \/ close_dir
           \/ name_read \/ name_close \/ time_passes \/ jiffy
  BY <1>1, <1>4 DEF memory_read, memory_close, temperature_convert, read_entry, close_dir,
                    name_read, name_close, time_passes, jiffy
<1>5. CASE usage_read
  <2>1. truth' = [truth EXCEPT !.read = machine] \/ truth' = truth
    BY <1>5 DEF usage_read
  <2> QED
    BY <1>1, <2>1 DEF Truth
<1>6. CASE usage_failed
  BY <1>1, <1>6 DEF usage_failed, Truth
<1>7. CASE usage_convert
  <2>1. [busy |-> Moved("busy"), idle |-> Moved("idle")] \in Kernel
    BY <1>1 DEF Moved, Kernel
  <2>2. PICK g \in Kernel : truth' = [truth EXCEPT !.sampled = truth.read, !.growth = g]
    BY <1>7, <2>1 DEF usage_convert
  <2> QED
    BY <1>1, <2>2 DEF Truth
<1>8. CASE temperature_read
  <2>1. truth' = truth \/ \E r \in Readings : truth' = [truth EXCEPT !.value = r.value]
    BY <1>8 DEF temperature_read
  <2>2. \A r \in Readings : r.value \in Int
    BY RlSysAssumption DEF IsReading
  <2> QED
    BY <1>1, <2>1, <2>2 DEF Truth
<1>9. CASE rl_get_fd_count
  <2>1. truth' = Fresh \/ truth' = [Fresh EXCEPT !.always = OpenFds', !.ever = OpenFds']
    BY <1>9 DEF rl_get_fd_count
  <2> QED
    BY <1>1, <1>2, <2>1 DEF Truth
<1>10. CASE host_files
  <2>1. \/ truth' = truth
        \/ truth' = [truth EXCEPT !.always = @ \cap OpenFds', !.ever = @ \cup OpenFds']
    BY <1>10 DEF host_files
  <2>2. truth.always \cap OpenFds' \in SUBSET Fds /\ truth.ever \cup OpenFds' \in SUBSET Fds
    BY <1>1, <1>2 DEF Truth
  <2> QED
    BY <1>1, <2>1, <2>2 DEF Truth
<1>11. CASE rl_get_file_abs_path \/ rl_get_proc_path \/ rl_get_proc_dir
  <2>1. PICK f \in Files \cup {<<>>} :
          truth' = [Fresh EXCEPT !.wrote = TRUE, !.file = f] \/ truth' = Fresh
    BY <1>11 DEF rl_get_file_abs_path, rl_get_proc_path, rl_get_proc_dir, Writes, WritesNothing
  <2> QED
    BY <1>1, <2>1 DEF Truth
<1>12. CASE rl_calcuate_run_time_ms
  <2>1. truth' = [Fresh EXCEPT !.elapsed = mono - start]
    BY <1>12 DEF rl_calcuate_run_time_ms
  <2>2. mono - start \in Nat
    BY RlSysAssumption DEF SysTypeOK
  <2> QED
    BY <1>1, <2>1, <2>2 DEF Truth
<1> QED
  BY <1>3, <1>4, <1>5, <1>6, <1>7, <1>8, <1>9, <1>10, <1>11, <1>12
     DEF UsageNext, FileNext, PathNext

(* Only the usage moves the counters.                                      *)
LEMMA SysTypesNext ==
  ASSUME SysTypeOK, CpuInv, ReadingInv, UsageNext \/ FileNext \/ PathNext
  PROVE  SysTypeOK'
<1>1. /\ machine' \in Kernel /\ sample' \in Counters
      /\ tracker' \in [last_total : 0 .. Word - 1, last_idle : 0 .. Word - 1,
                       valid : BOOLEAN]
  <2>1. CASE UsageNext
    BY <2>1, SysTypesUsage
  <2>2. CASE FileNext \/ PathNext
    <3>1. UNCHANGED usagevars
      BY <2>2 DEF FileNext, PathNext, rl_get_cpu_temperature, temperature_read,
        temperature_convert, rl_get_memory_usage, memory_read, memory_close,
        rl_get_fd_count, read_entry, close_dir, host_files, rl_get_proc_name, name_read,
        name_close, rl_get_proc_path, rl_get_proc_dir, rl_get_file_abs_path, Returns,
        rl_calcuate_run_time_ms, time_passes
    <3> QED
      BY <3>1 DEF usagevars, SysTypeOK
  <2> QED
    BY <2>1, <2>2
<1> QED
  BY <1>1, SysTypesReaders, SysTypesAnswer, SysTypesBuffers, SysTypesTruth DEF SysTypeOK

(* Every component begins with what its variables are meant to hold.       *)
LEMMA TypesInit == HostInit => EthTypes /\ TimeTypeOK /\ SysTypeOK /\ job \in Jobs
<1> SUFFICES ASSUME HostInit PROVE EthTypes /\ TimeTypeOK /\ SysTypeOK /\ job \in Jobs
  OBVIOUS
<1>1. EthTypes
  <2>1. link \in BOOLEAN /\ ebuf \in Texts
    BY DEF HostInit, EthInit, Texts
  <2>2. seen \in Seen
    BY <2>1, SeenBegun DEF HostInit, EthInit
  <2>3. /\ fn = "none" /\ ethpc = "idle" /\ room = "none" /\ conn = "none"
        /\ arg = 0 /\ tries = 0 /\ sockfd = NoFd
        /\ verdict = RL_FAILED /\ ethret = RL_SUCCESS
    BY DEF HostInit, EthInit
  <2>4. limit \in BOOLEAN
    BY DEF HostInit, EthInit
  <2>5. room \in Rooms
    BY <2>3 DEF Rooms
  <2>6. tries \in Int
    BY <2>3
  <2> QED
    BY <2>1, <2>2, <2>3, <2>4, <2>5, <2>6 DEF EthTypes, EthTypeOK
<1>2. TimeTypeOK
  <2>1. cmds \in BoundedSeq(Outcomes, 2)
    BY NoCommand DEF HostInit, TimeInit
  <2>2. got \in 0 .. Cap
    BY RlTimeAssumption DEF HostInit, TimeInit
  <2>3. past.fault \in BOOLEAN
    BY DEF HostInit, TimeInit
  <2> QED
    BY <2>1, <2>2, <2>3 DEF HostInit, TimeInit, TimeTypeOK
<1>3. SysTypeOK
  <2>1. PICK b \in Int : machine = [busy |-> b, idle |-> 0]
    BY RlSysAssumption DEF HostInit, SysInit
  <2>2. machine \in Kernel /\ [busy |-> 0, idle |-> 0] \in Kernel
    BY <2>1 DEF Kernel
  <2>3. 0 \in 0 .. Word - 1 /\ 0 \in 0 .. MaxTime /\ 0 \in 0 .. 0
    BY RlSysAssumption
  <2>4. TempBuf \in 0 .. TempBuf
    BY RlSysAssumption
  <2>5. truth \in Truth
    BY <2>2 DEF HostInit, SysInit, Truth
  <2>6. sample \in Counters
    BY <2>3 DEF HostInit, SysInit, NoSample, Counters
  <2>7. DOMAIN cells = 0 .. TempBuf /\ cells[TempBuf] = NUL
    BY <2>4 DEF HostInit, SysInit, Blank
  <2>8. tracker \in [last_total : 0 .. Word - 1, last_idle : 0 .. Word - 1, valid : BOOLEAN]
    BY <2>3 DEF HostInit, SysInit
  <2>9. scan \in [entry : Int, count : Nat]
    BY DEF HostInit, SysInit
  <2> QED
    BY <2>2, <2>3, <2>5, <2>6, <2>7, <2>8, <2>9 DEF HostInit, SysInit, SysTypeOK
<1> QED
  BY <1>1, <1>2, <1>3 DEF HostInit

(* For all values of the constants: every variable of the composition      *)
(* keeps its type.                                                         *)
THEOREM HostTypes == HostSpec => []HostTypeOK
<1> DEFINE Types == EthTypes /\ TimeTypeOK /\ SysTypeOK /\ job \in Jobs
<1>1. ASSUME Types, ClocksInStep, ReplyInv, CpuInv, ReadingInv, [HostNext]_hostvars
      PROVE  Types'
  <2>1. EthTypes'
    <3>1. CASE EthNext
      BY <1>1, <3>1, EthTypesNext
    <3>2. CASE UNCHANGED ethvars
      BY <1>1, <3>2 DEF EthTypes, EthTypeOK, ethvars
    <3> QED
      BY <1>1, <3>1, <3>2, EthOrNothing
  <2>2. TimeTypeOK'
    <3>1. CASE ExchangeNext \/ ClockNext
      BY <1>1, <3>1, TimeTypesExchange, TimeTypesClock
    <3>2. CASE UNCHANGED timevars
      BY <1>1, <3>2 DEF TimeTypeOK, timevars, exchange, clocks
    <3> QED
      BY <1>1, <3>1, <3>2
         DEF HostNext, hostvars, probe, fetch, set, usage, files, paths, OtherThreads
  <2>3. SysTypeOK'
    <3>1. CASE UsageNext \/ FileNext \/ PathNext
      BY <1>1, <3>1, SysTypesNext
    <3>2. CASE UNCHANGED sysvars
      BY <1>1, <3>2 DEF SysTypeOK, sysvars, usagevars, readervars, pathvars
    <3> QED
      BY <1>1, <3>1, <3>2
         DEF HostNext, hostvars, probe, fetch, set, usage, files, paths, OtherThreads
  <2>4. job' \in Jobs
    BY <1>1 DEF HostNext, hostvars
  <2> QED
    BY <2>1, <2>2, <2>3, <2>4
<1>2. HostInit => Types
  BY TypesInit
<1>3. Types /\ HostBalanced => HostTypeOK
  BY DEF HostTypeOK, EthTypes, HostBalanced
<1> QED
  BY <1>1, <1>2, <1>3, BalancedInit, BalancedNext, ClocksAlways, ReplyAlways, CpuAlways,
     ReadingsAlways, PTL DEF HostSpec
=============================================================================
