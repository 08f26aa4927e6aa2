# TLA+ models of CustomPublicLibrary_rl

The repository is a C library of seven small components for an embedded Linux
host program (32-bit ARM; the shipped objects give `RL_SUCCESS = 0`,
`RL_FAILED = -1`, `RL_TRUE = 1`, `RL_FALSE = 0`, 32-bit `unsigned int` and
`size_t`; `public.h` is not in the repository). It has no documentation and no
tests: what a function should do is stated by its comments and by its log
messages, and these are quoted where a run is about them.

## 1. Inventory

### rlmem - allocation wrappers with a leak trace (`src/rlmem`)

*State* (process-wide): `rl_memory_trace_state`, `mem_lock`, the singly linked
list `g_mem_header` of `MEM_NODE_T` (block, size, call site), the counters
`g_alloc_block_count` and `g_alloc_total_bytes` (`unsigned int`).

*Operations*: `rl_memory_trace_init`, `rl_memory_trace_deinit` (writes a leak
report, frees the nodes), `rl_malloc`, `rl_calloc`, `rl_realloc`, `rl_free`.

*Hard*: the flag is read without the lock; libc is called outside the lock, in
`rl_realloc` before the list is looked at, so an address can be given to another
thread while its old node is still there; every wrapper has an error path after
it has changed something; counters wrap, and survive the end of tracing.

*Correct when*: no block is lost, handed out twice or freed by a stranger; the
list says what is allocated; the counters follow the list; the mutex is used
only while it is initialised and is always given back.

### rllog - the shared log file (`src/rllog`)

*State*: per process `log_file_fd`, `rl_log_mutex`, `cur_rl_log_level`,
`proc_name`; for the whole system the file `/tmp/Messages`.

*Operations*: `rl_log_init`, `rl_log_deint`, the five level functions over
`rl_log_generic` and `write_rl_log` (stat the path, empty the file when it is over
`RL_LOG_FILE_SIZE`, write the line in as many `write` calls as needed).

*Hard*: the mutex is one per process, the file one for all; `log_file_fd` is read
before the mutex is taken, and `rl_log_deint` takes no mutex; a descriptor number
that is closed is soon reused; the size is that of the path, the write goes to
the descriptor; `write` may be short or fail in the middle of a line.

*Correct when*: lines stay whole, the size stays near the limit, `RL_SUCCESS` means
the line is in the file, no line is thrown away except from a full file, no other
file is touched, the mutex is given back.

### rlcmd - shell commands with timeout and retry (`src/rlcmd`)

*State*: none of its own, but the process's dispositions of SIGINT, SIGQUIT and
SIGCHLD, the calling thread's signal mask, and a child process.

*Operation*: `rl_system_100ms_ex`.

*Hard*: dispositions are shared by all threads; the child ends at any moment
between poll, sleep, kill and wait; when SIGCHLD is ignored the kernel reaps it;
early returns leave signals changed; `fork` failure ends the host.

*Correct when*: the host's signals come back, the host is shielded while a command
runs, the answer says what happened to the command, no child is left behind, the
number of attempts is right and the call ends.

### rltime - clocks and the time of a server (`src/rltime`)

*State*: none of its own; the system clock, the hardware clock, the zone in the
environment and the one libc has read, a socket, the caller's `rl_time_t`.

*Operations*: `rl_set_timezone`, `rl_get_time`, `rl_get_time_stamp`, `rl_update_sys_time`
(calendar check, `date`, `hwclock`), `rl_get_time_from_server` (HTTP over TCP).

*Hard*: a reply arrives in pieces that may cut its head anywhere, and may be longer than
the buffer; any call may fail with the socket open; the clocks are set by two commands of
which the second can fail alone; failures after `connect` answer `RL_FALSE`, which is
`RL_SUCCESS`.

*Correct when*: the answer depends on the reply and not on its pieces; no other date
than the one in this reply gets into the caller's structure; a date is taken exactly when
it exists; the clocks end up as the answer says.

### rleth - link, connectivity, addresses (`src/rleth`)

*State*: none of its own; a socket or file during a call, the caller's buffer.

*Operations*: `rl_get_ethernet_card_state` with retries, three probes (blocking TCP, TCP by
`select`, UDP), `rl_get_dhcp`, `rl_get_ip_address`, `rl_get_subnet_mask`, `rl_get_gateway`,
`rl_is_ipv4`.

*Hard*: the link changes between attempts, and an attempt may fail by itself; a timeout
races with the answer; each function has up to six returns, all of which must close; the
queries differ in what a failure leaves in the buffer.

*Correct when*: a verdict follows from what happened during the call; a timeout is no
answer; no descriptor is left open or closed twice; a buffer never shows the wrong address.

### rlsys - the process and the machine (`src/rlsys`)

*State*: the caller's `cpu_usage_t`; a file or directory during a call.

*Operations*: CPU usage and temperature, memory, name, path and directory of the program,
path of a file beside it, number of descriptors, elapsed time.

*Hard*: differences of counters that wrap and, for iowait, fall; calls that fail between two
samples; texts that just fit; a buffer that `read` does not terminate; a directory that
changes while it is read, whose own descriptor is in it.

*Correct when*: the numbers are those of the machine, a cut path is still a path above the
program's, and no text runs out of its buffer.

### rlstr - C strings (`src/rlstr`)

*State*: none. *Operations*: functions that edit a string in place or copy it, tests,
conversions, and wrappers of `memset`, `memcpy`, `strcmp`, `memcmp`, `strtol`.

*Hard*: sizes 0 and just enough, overlapping moves, stale characters behind the terminator.

*Correct when*: each editing function is the sequence operation it is named for, and writes
nowhere else.

### Build files - not modelled

Makefiles and shipped objects; nothing in them runs.

### How the components interact

Every component logs through rllog and uses rlstr for its argument checks. rlmem asks
rlsys for the program's path and name and rltime for the time when it writes its report;
rllog reads the process name itself. Nothing in the library calls `rl_system_100ms_ex`:
`rl_update_sys_time` uses libc's `system`, which a host may run beside it. rleth, rltime and
rlsys, and the host itself, share the table of descriptors: a number closed by one is given
to the next who opens, so that a second close, or a close of the wrong number, hits
somebody else. This is what `RlHost` composes.

rlmem logs from its report while it holds `mem_lock`, and otherwise after it has released
it. So the only nesting of the two mutexes is `rl_log_mutex` inside `mem_lock`, never the
reverse, as rllog calls nothing of rlmem. No component starts a thread; all concurrency is
the host's. No branch of any function depends on what a log call answers, so rllog
is checked by itself; and so are rlmem and rlcmd, which share no state with the others.

## 2. Modules

| module | what it is |
|---|---|
| `HeapContract` | what any allocator promises: abstract specification |
| `RlMem` | rlmem, detailed |
| `RlMemProofs` | types, the mutex, the block counter, and that RlMem implements HeapContract |
| `RlMemRecords` | the trace list: balance, exactness, the byte counter |
| `RlLog` | rllog, threads and processes |
| `RlLogProofs` | theorems about RlLog |
| `RlCmd` | rlcmd, callers and their children |
| `RlCmdProofs` | theorems about RlCmd |
| `RlPublic` | the return codes |
| `Descriptors` | the descriptor table of a process and who owns what in it |
| `RlEth`, `RlTime`, `RlSys` | rleth, rltime, rlsys over that table |
| `RlHost` | the three of them and the other threads of the host in one process |
| `RlStr` | rlstr as operators on memory, used by `RlSys` too |
| `StrEdit` | a host that edits one array with RlStr, call after call |
| `StrEditProofs` | theorems about RlStr and StrEdit |
| `RlEthProofs` | what a step does to the table; the invariants behind the verdicts of rleth |
| `RlHostProofs` | theorems about RlHost: descriptors, verdicts, clocks, dates, replies |
| `RlSysProofs` | theorems about rlsys in RlHost, and the types of all of RlHost |
| `MCRlMem`, `MCRlLog`, `MCRlCmd`, `MCRlHost`, `MCStrEdit` | instances for TLC |

Definitions keep the C names of what they model; the comment `Mutant:` marks a
plausible wrong version of the definition below it, which is not part of any
specification and serves to see that a property notices the mistake.

### RlMem

`heap` is libc's view of the addresses; `header` is the list with its head first;
`pc`, `ptr`, `old`, `size` are the local state of a thread's call; `owned`,
`foreign` (blocks of libc's own `malloc` that the list has not taken over) and
`reported` are history. A call is cut at the points
where threads can interleave:

| code | actions |
|---|---|
| `rl_malloc`, `rl_calloc` | `rl_malloc` / `rl_calloc` (libc call), `alloc_check` (flag), `alloc_node` (libc call for the node, or the block is freed), `push_node`, `push_unlock` |
| `rl_free` | `rl_free`, `free_check` (flag), `free_record` (lock, search, unlink), `free_unlock`, then `free_libc`; or `free_refuse` when there is no node |
| `rl_realloc` | `rl_realloc` (libc call), `realloc_check`, `realloc_record`, `realloc_unlock`, and for an unknown block `realloc_node`, `push_node`, `push_unlock` |
| trace start, report | `rl_memory_trace_init`, `rl_memory_trace_deinit` (both only while no call is under way: the comments say that they belong to program start and end) |

A critical section is one step that takes the lock and does the work and one that
releases it: nobody else reads or writes what it touches in between. `Free` and
`external_malloc` are libc.

### RlLog

`content` holds the bytes of each file, each named by its writer and its place in
the line; `path` is the file `/tmp/Messages` names; `fdtab` a process's descriptors.
`rl_log` is a front function up to the mutex, `stat_log` the lock and size check,
`clear_log` ftruncate and lseek, `write_log` one turn of the write loop,
`write_done` and `write_failed` the two ways out. `rl_log_deint` is fsync and close,
`deint_done` the reset of `log_file_fd`, a step later. `host_open`, `host_close` and
`unlink_log` are the rest of the system. `Ops` says which failures and which
behaviour of the host an instance has.

### RlCmd

Each system call is a step. `ignore_signal` (twice), `block_chld`, `default_chld`;
the loop `fork_child` / `fork_fails`, `poll_child`, `sleep_100ms`, `kill_child`,
`reap_child`, `loop_exit`; then `unblock_chld`, `restore_chld`, `restore_int`,
`restore_quit` with the return value (`Answer`). `child_end` and `child_die` are the
child: it becomes a zombie, or is gone at once when SIGCHLD is ignored at that
moment. `Failures` says which system calls may fail.

`strays` holds the states of the children that a caller's calls have left unreaped: one
whose `kill` was refused runs on, beside the retry and after the call, until it ends by
itself (`stray_end`); one whose `waitpid` was interrupted dies and stays a zombie. `timeouts`
counts, as history, the attempts that their timeout has stopped.

### Descriptors, RlEth, RlTime, RlSys, RlHost

`fdtab` gives each descriptor its owner; `Opened` takes the lowest closed number and
`Closed` closes a number whoever has it, as the kernel does. A function is cut at
every system call. In RlEth a call `Enter`s, `Obtain`s a socket or file or is `Refuse`d, and
then each step `Proceed`s or `Decide`s the answer, after which `eth_close` closes and
returns; each attempt of `rl_get_ethernet_card_state` is `card_try`, `card_query`,
`card_close`. RlTime has the same shape: `Continue`, `Answer`, `close_socket`; one turn of its
loop around `recv` is `recv_piece`, which takes any number of tokens. In RlSys a reader is
`OpenFile`, `ReadFile`, `CloseFile`, and the descriptor directory is read entry by entry
(`read_entry`). `link_changes`, `peer_answers`, `jiffy`, `time_passes`, `host_opens` and
`host_closes` are the world outside. A wait that has a time limit may end at any moment;
the results of `setsockopt` count where the code looks at them.

Data are named, not spelled: a reply is a sequence of the tokens the code tells apart, a
buffer holds the name of the query that filled it, the clocks hold a date. The seven
counters of `/proc/stat` are two, busy and idle, modulo `Word`; `machine` has them without
wrap, so that the usage can be compared with the truth.

`seen`, `past` and `truth` are history: what happened during the call.

In `RlHost` one thread does one `job`, call after call: the probes, the exchange, the
clocks, the CPU usage, the other files, or the paths. The jobs share nothing but the table, in
which the other threads open and close at any moment, and a call of one component has no
effect on another: interleaving two jobs would show each of them only descriptors
that somebody else has, as `host_opens` and `host_closes` do already.

### RlStr, StrEdit

Memory is a function from offsets to codes, and a string ends at its first NUL. In
`StrEdit` a host uses one array again and again, so that the operations meet the remains of
earlier strings; two codes behind the array belong to somebody else. A call that writes
outside what it has answers `UNDEFINED` (`Overrun`), and the host's history ends there, in
`undefined`: nothing can be said of what it does then.

## 3. Runs

All passing runs complete the state space of their instance.

| run | instance | shows |
|---|---|---|
| `mem_lifecycle` | 2 threads, 2 addresses, sizes of one unit, `Wrap` 4, everything the host may do | `TypeOK`, `HeapAgrees`, `CountMatches`, `BytesMatch`, `LockUsable`, and `ContractHeld`: RlMem implements HeapContract |
| `mem_traced` | 2 threads, 3 addresses, sizes 1 and 2, `Wrap` 8, wrappers only, tracing on | `RecordsBalance`: nodes per address equal claims per address even during races of `rl_realloc` |
| `mem_single` | 1 thread, 3 addresses, libc blocks too | `RecordsExact`, `MissedIsForeign`: only blocks the list never had are refused or given up; and `LockReleased` under fairness |
| `mem_realloc_race` | 2 threads that resize | **violates** `RecordsExact` |
| `log_threads` | 1 process, 2 threads, short writes, errors, host files, limit 3, lines up to 2 bytes | `TypeOK`, `LinesIntact`, `SuccessIsLogged`, `NoStray`, `ClearedOnlyWhenFull`, and `LogLockReleased` under fairness |
| `log_procs` | 2 processes, failures of calls and of close, file removed and made anew, log closed under calls | `SizeBound`, `LinesIntact` |
| `cmd_single` | 1 caller, 0 to 2 polls, -1 to 2 retries, both host dispositions of SIGCHLD, refused kills, interrupted waits | `TypeOK`, `SignalsRestored`, `ProtectedWhileRunning`, `FailedMeansTimeout`, `RetriesExact`, `CallReturns` |
| `cmd_pair` | 2 callers, failing sigaction, sigprocmask and fork | `SuccessMeansRan`, `AllReaped` |
| `cmd_pair_signals` | 2 callers | **violates** `SignalsRestored` |
| `host` | 3 descriptors, every operation of rleth, rltime and rlsys, other threads of the host | `HostTypeOK`; `DescriptorsBalanced`; for rleth `CardVerdict`, `OnlineMeansAnswered`, `BufferHonest`; for rltime `ReplyDecides`, `UpdateOutcome`, `CalendarExact`; for rlsys `CpuUsageExact`, `PathSound`, `ReadingsExact`; and `CallsEnd` under fairness |
| `time_failure` | as `host` | **violates** `SuccessMeansServerTime` |
| `str` | an array of 5, 6 source strings, sizes 0, 1, 3, 4, 5 | `EditExact`: every call makes of the text what a reference definition on sequences says, or refuses and writes nothing; `InBounds`: two kinds of call overrun, and no other writes outside |

### Bounds, and why they are enough

- *Threads, processes, callers: 2.* The races found are between two; a third one can
  only repeat the part of the second, as no code waits for, or counts, more than one.
- *Addresses: 2 or 3.* One more than the threads, so that a block can move while both
  hold one. `Wrap` is 4 or 8, so that counters and products wrap within a few steps;
  a product that is a multiple of `Wrap` is among the arguments of `rl_calloc`.
- *Limit 1 to 3, lines of at most 2 bytes*: a line can be cut in two, and a file be
  under, at and over the limit. `MaxFile` stops new calls once a file is longer; it is
  needed only where a removed file has no bound (`log_procs`), and is larger than the
  limit there, so emptying happens. Elsewhere it is 100 and never reached.
- *Timeouts 0, 1, 2 and retries -1, 0, 1, 2* (polls of 100 ms): none, the last, and one
  before the last; nothing started at all. `attempts` is bounded by the retries, and of the
  children left behind only the set of their states is kept.
- Symmetry is used for threads, addresses and callers in the runs without liveness.

- *Descriptors: 3.* One for the call and one for the host, and one more so that the table
  can be full or have a hole. With fewer a leak would only show as refused calls.
- *Retries -1, 0, 2; seconds 0 and 1*: refused, no attempt, a first and a last one; without
  and with a time limit, of which only the presence matters.
- *Replies: 7, buffer of 8 tokens.* A head that fits, one that fills the buffer to the last
  token, one whose date is cut off by it, an error with "200 OK" in its body, a date that
  cannot be read, a date in the body, a head that ends too soon; each in all its
  divisions into pieces. Interface files and route tables have up to 4 lines, with lines of
  another card before those of `eth0`.
- *Dates: 17*, at both ends of every range and just beyond, in leap years of three kinds.
  (For all other dates there is the theorem `HostCalendarExact`.)
- *CPU counters* start at 0 or 2 below the wrap at 64 and move by at most 3 (`MaxJiffies`), so
  that they wrap between samples; the usage is in tenths (`Permille` 10), and products of
  a difference with it do not wrap, as in the code they do not within any uptime
  (`RlSysAssumption`: what happens between two samples fits a word, also times `Permille`).
  Readings are one line that leaves room in the buffer; the program's path is absolute and has
  no doubled slashes, as the kernel gives it.
- *Texts*: paths of 2, 5 and 7 codes, lengths 0, 1, 2, 3, 6, 8: nothing, the terminator only, cut
  inside a name, at a slash, and large enough; `TempBuf` 4 holds a number and its newline
  with one code of stack behind it, which is NUL, a newline or a digit.
- *Strings*: the array of 5 is reached by full, just too long and empty texts, and the sources
  contain each other, so that a search finds the first of several. Size 0 and old texts longer
  than the size named are among the arguments, so that the calls that overrun happen.

### Fairness

`FairSpec` of RlMem and RlLog asks only that the OS runs a thread whose call can go on
(weak fairness of `Step(t)`; a thread at the mutex counts as able only while the mutex
is free, so nothing is assumed of the order in which it is granted). No call is
forced to begin. RlCmd asks the same and that a process sent SIGKILL dies. The command
itself may run forever. `CallReturns` is therefore claimed only for calls with a timeout
or after the command has ended: without a timeout the code polls for as long as the
command runs, by design.

`FairHostSpec` asks that the thread in a call of rleth or rltime runs whenever it can,
and that a wait which has a time limit ends (in the code: `SO_SNDTIMEO`, `SO_RCVTIMEO`,
`select`). It asks nothing of the peer, the link or the other threads. `CallsEnd` is
therefore claimed only for probes that are not in a wait without a limit (`try_sec` 0, or a
`setsockopt` in the UDP probe that failed unnoticed) and for exchanges with a limit. The name
service comes back with an answer or without one, as the resolver has a limit of its
own. That a server which sends a token at a time stops is not assumed: the buffer fills.

## 4. Theorems

Every safety invariant and action property that a passing run checks is also proved, for
every value of the constants that the modules' assumptions allow; the runs show the same on
a small instance, and the proofs were begun only after TLC had found no counterexample to
the inductive invariant.

### rlmem

For any set of threads, any set of addresses, any sizes and any `Wrap > 0`, under
`RlMemAssumption` (sizes fit `unsigned int` and are not 0; `NULL` is no address):

| theorem | statement | besides |
|---|---|---|
| `RlMemProofs!TypeCorrect` | `Spec => []TypeOK` | |
| `RlMemProofs!LockAlwaysUsable` | `Spec => []LockUsable` | |
| `RlMemProofs!CountAlwaysMatches` | `Spec => []CountMatches` | |
| `RlMemProofs!HeapAlwaysAgrees` | `Spec => []HeapAgrees` | |
| `RlMemProofs!ImplementsContract` | `Spec => ContractHeld` | |
| `RlMemRecords!BytesAlwaysMatch` | `Spec => []BytesMatch` | |
| `RlMemRecords!RecordsAlwaysBalance` | `Spec => []RecordsBalance` | traced, wrappers only |
| `RlMemRecords!RecordsAlwaysExact` | `Spec => []RecordsExact` | traced, one thread |
| `RlMemRecords!MissedAlwaysForeign` | `Spec => []MissedIsForeign` | traced, one thread |

*Traced* is a host that keeps to the comments at `rl_memory_trace_init` and
`rl_memory_trace_deinit`: tracing starts before its first call, and the program ends with the
report. *Wrappers only* means that no block comes from libc's own `malloc` (and that the
threads are finitely many). `RecordsExact` and `MissedIsForeign` need one thread: section 5
has the counterexample for each.

*Types.* `TypeOK` is not inductive: `alloc_node` frees the address in `ptr`, which TypeOK
allows to be `NULL`. `TypeInv` adds `CallInv`: a call has a block exactly while it is under
way, and in `rl_realloc` also the pointer it was given.

*Lock and counters.* `TraceInv` adds to `TypeInv` that tracing is on exactly while the mutex
is initialised and that the list is empty while tracing is off. The flag is read
without the lock, so `LockUsable` holds only because starting and ending tracing wait for
a quiet process; the proof shows that this is all that is needed. `CountMatches` needs
modular arithmetic, proved from the definition of `%` (`ModUnique`, `ModPlus`). `BytesMatch` is
about a sum over the list, which the library defines by a recursion on sets: that the
recursion has a solution, and that it does not depend on the order of the elements
(`SumFacts`), is shown by taking a smallest counterexample; what a push, an unlink and a
change of a node do to the sum follows by matching positions (`SumMoved`).

*Refinement.* `HeapInv` adds that a call's block is not also among its thread's own
(`PtrApart`), and that no block is with two threads (`Disjoint`). Every step of a thread
is shown to be of one of four kinds (`Kind`): it keeps, adds, drops or exchanges one block,
in libc's heap and in what the thread holds alike. The invariant and the step of
HeapContract follow from the kind alone.

*The list.* `OnceOn`: before tracing starts no block is in use. `BalanceInv` adds to
`RecordsBalance` that no search fails and that the pointer given to `rl_realloc` is no longer its
caller's; each step changes the number of nodes for an address by as much as its thread's
claim (`BalanceMove`), which is counted with `ConsCount`, `RemoveCount`, `RenameCount`. `ExactInv`
holds in the middle of a call too: the list has a node with the right size for each
`Recorded` block and besides only the one that a `rl_realloc` is about to move, and the call
knows its block's size until the node has it.

### rllog

For any threads, processes, descriptors, limits and lengths of lines, whatever of `Ops` can
happen except what the last column rules out:

| theorem | statement | besides |
|---|---|---|
| `RlLogProofs!LogTypes` | `Spec => []TypeOK` | |
| `RlLogProofs!NeverStray` | `Spec => []NoStray` | steady |
| `RlLogProofs!SuccessAlwaysLogged` | `Spec => []SuccessIsLogged` | steady, one process |
| `RlLogProofs!LinesAlwaysIntact` | `Spec => []LinesIntact` | no short writes; or steady, one process |
| `RlLogProofs!ClearedOnlyOverLimit` | `Spec => ClearedOnlyWhenFull` | steady, one process |
| `RlLogProofs!SizeAlwaysBounded` | `Spec => []SizeBound` | steady; or no files of the host |

*Steady* is a host that has no call under way when it ends the log (`rl_log_deint` takes no
mutex) and whose `close` does not fail. *One process* means that all the threads that log are
in one, as the mutex is. Section 5 shows what happens otherwise.

`HolderInv`: a thread is between `stat` and the return exactly while it has its process's mutex,
and has written nothing before. `OpenInv`: the descriptor is on a log file unless the log is
being ended, and then nobody logs. From there each property has its own invariant. `SuffixInv`:
the file ends with what the call in its write loop has written so far. `TailInv`, `WholeInv`:
the same for its last byte, and that without short writes nothing is half written. `FullInv`:
the path names the open file, none, or an empty one, so what `stat` found too large is what is
emptied. `SizeInv`: the file exceeds the limit by no more than what is `Spent`, the bytes of one
line for each process that have been written or that no call can write any more; a process
becomes able to write only by finding the file small enough, which starts its part anew.

### rlcmd

For any set of callers, any timeouts and numbers of retries, whatever fails except what the
last column rules out:

| theorem | statement | besides |
|---|---|---|
| `RlCmdProofs!CommandTypes` | `Spec => []TypeOK` | |
| `RlCmdProofs!RetriesAlwaysExact` | `Spec => []RetriesExact` | |
| `RlCmdProofs!SuccessAlwaysRan` | `Spec => []SuccessMeansRan` | retries not negative |
| `RlCmdProofs!ChildrenAlwaysReaped` | `Spec => []AllReaped` | `kill` not refused, wait not interrupted |
| `RlCmdProofs!FailedAlwaysTimeout` | `Spec => []FailedMeansTimeout` | `sigaction` does not fail; one caller, or a host that does not ignore SIGCHLD |
| `RlCmdProofs!OnlyRefusedRunsOn` | no command runs on past its attempt | `kill` not refused |
| `RlCmdProofs!AlwaysProtected` | `Spec => []ProtectedWhileRunning` | one caller |
| `RlCmdProofs!SignalsAlwaysRestored` | `Spec => []SignalsRestored` | one caller, `sigaction` does not fail |

Each of these conditions is one that section 5 or the run `cmd_pair_signals` shows to be needed.

`TypeInv` adds the countdown of `leftTime`, which is unsigned. `ChildInv`: a call has a child
exactly in its poll loop. `RanInv`: the way out is taken only after a command, and the status
there is the last command's. `RetriesInv` relates, at each step, the attempts made to the
timeouts that stopped them. `StraysInv`: a child is left behind only by a refused kill or an
interrupted wait, and runs only in the first case. `DefaultInv`: SIGCHLD has its default while a child runs, so that
no child vanishes from the poll (`FailedInv`). `GuardInv`, `RestoreInv`: at each step, which of
the host's dispositions is in force and which is in what the call has saved.

### rleth, rltime, rlsys

About RlHost, for any finite set of descriptors, any numbers of retries, and any replies,
route tables, files, dates, paths, readings and sizes of buffers, under the assumptions of the
modules (numbers are numbers, tables are sequences of lines; for rlsys see section 3), and
with no further hypothesis (three of the properties name, in their own text, calls of which
they claim less: `UpdateOutcome` a command that was refused, `ReplyDecides` replies with misplaced
words, `PathSound` a failing `rl_get_file_abs_path` of size 0; section 5):

| theorem | statement |
|---|---|
| `RlHostProofs!HostDescriptorsBalanced` | `HostSpec => []DescriptorsBalanced` |
| `RlHostProofs!HostOnlineMeansAnswered` | `HostSpec => []OnlineMeansAnswered` |
| `RlHostProofs!HostCardVerdict` | `HostSpec => []CardVerdict` |
| `RlHostProofs!HostBufferHonest` | `HostSpec => []BufferHonest` |
| `RlHostProofs!HostUpdateOutcome` | `HostSpec => []UpdateOutcome` |
| `RlHostProofs!HostReplyDecides` | `HostSpec => []ReplyDecides` |
| `RlHostProofs!HostCalendarExact` | `HostSpec => []CalendarExact` |
| `RlSysProofs!HostCpuUsageExact` | `HostSpec => []CpuUsageExact` |
| `RlSysProofs!HostReadingsExact` | `HostSpec => []ReadingsExact` |
| `RlSysProofs!HostPathSound` | `HostSpec => []PathSound` |
| `RlSysProofs!HostTypes` | `HostSpec => []HostTypeOK` |

*Descriptors.* `DescriptorsBalanced` is not inductive: it does not say that a call which is
about to close has a descriptor. `HostBalanced` adds that a component has one exactly at the
program counters where it should (`Balanced`). Every step of a component is shown to keep
its descriptor, take one or give it back (`EthKinds`, `ExchangeKinds`, `ClockKinds`, `UsageKinds`,
`FileKinds`, `PathKinds`); `StepBalanced` does the rest for all of them, and shows that a step
of one component moves no descriptor of another.

*Verdicts of rleth.* Each property speaks of the return, and its invariant carries back
to the call what the answer is based on. `EthOnline`: a decision `RL_SUCCESS` of a probe has
an answered peer. It needs `HostBalanced`, as a peer can only act on a call that still has its
socket. `EthCard`: the attempts begun and those left make up `retry_count`, and a failed one has
seen the link down or a system call fail. `EthBuffer`: until the query is decided the
buffer is the caller's, and the decision writes it in the same step.

*Clocks and dates.* `ClocksInStep` says what the two clocks show between the commands.
`CalendarInv` carries the verdict on a date through the commands; that the code's arithmetic on
leap years and lengths of months finds exactly the dates that exist is `DatesExist` and
`DateFound`, for every integer in every field.

*Replies.* `ReplyInv`: the loop goes on as long as the head is not whole and the buffer not
full, and has ended with one of the two (`Whole`); `VerdictSame` shows that all ends it may
come to, which differ with the pieces, give the same verdict for a `Tidy` reply. `tm` is the caller's until a date
has been found, and once the answer is decided it is what `ReplyDecides` says (`Told`).

*rlsys.* `CpuInv`: the reading and the last sample are, modulo the word, the kernel's counters at
moments that the history remembers, all in a stretch of `MaxJiffies` that fits the word
(`Snapshots`, `Window`); `UsageExact` is the arithmetic.
`ReadingInv`: what the buffer holds after the read (`Loaded`), and, of a walk through the
directory, that the entries counted so far lie between those of descriptors open all the time
and those open at some moment (`Walked`, `Tally`). What `rl_str_atoi` makes of a line of digits is
not proved: that it is the reading's value is part of `RlSysAssumption`, which TLC evaluates for the
readings of the instance; the theorem is about what surrounds the line in the buffer. `PathInv` adds to `PathSound` that a name on
its way to the caller fits its buffer; that the last slash of a cut path ends a directory
above the program's is `DirnameAt`, `AboveAt` and `DirectoryAt`.

### rlstr

About StrEdit, for any array, texts, characters and history of calls up to the first that
overruns, under `StrEditAssumption` (the array is within the address space, 1 to `Wrap` bytes;
sizes passed are from 0 to its size):

| theorem | statement |
|---|---|
| `StrEditProofs!TextsAlwaysExact` | `EditSpec => []EditExact` |
| `StrEditProofs!EditsAlwaysInBounds` | `EditSpec => []InBounds` |

`EditInv` adds to the two that the array holds a string (`Holds`). For each function a lemma says
what its stores and copies make of the memory when it holds a string, stale bytes behind
the terminator included; `FoundIs` is the one they share: the first place where `strstr` finds a text
in memory is the first where the operation on sequences finds it.

### Only model-checked

The liveness properties `LockReleased`, `LogLockReleased`, `CallReturns` and `CallsEnd`: the proof
system has no rules for fairness. No theorem is about a recursive operator; what the code
computes in a loop over data is stated with the first place, the least number or the sum,
and proved with a least counterexample.

## 5. What the runs found

The three violation runs are findings in PROJECT.json:

1. `mem_realloc_race`: `rl_realloc` calls libc before it locks the list (`rlmem.c:291`). Another
   thread can be given the old address first; the search then updates the wrong node, and
   two blocks have their sizes exchanged in the trace.
2. `cmd_pair_signals`: overlapping `rl_system_100ms_ex` calls leave SIGINT and SIGQUIT ignored
   for good (`rlcmd.c:141`): the second call has saved the first one's SIG_IGN.
3. `time_failure`: `rl_get_time_from_server` answers `RL_FALSE` when it cannot connect, send or
   receive, or when the status is not 200 (`rltime.c:175`); that is the number of `RL_SUCCESS`, and
   the caller's structure has not been written.

Further observations, each reproduced by a small change of an instance:

- Two processes both find the log full (`rllog.c:67`); the second empties what the first has
  just written. `ClearedOnlyWhenFull` fails with `Procs <- TwoProcs`, `ProcOf <- EachOwn`, limit 2
  and `Ops = {}` in `log_threads.cfg`.
- `rl_log_deint` closes the descriptor without the mutex (`rllog.c:156`); a call under way
  writes its line into the next file the host opens. `NoStray` fails with
  `Ops = {"host_file", "late"}` in `log_threads.cfg`.
- A negative `try_count` gives `RL_SUCCESS` without running the command (`rlcmd.c:63`):
  `SuccessMeansRan` fails when `FewTries` has -1.
- Add `"external"` to `Ops` in `mem_realloc_race.cfg` and check `MissedIsForeign`: adoption of a
  libc block by `rl_realloc` can take over another thread's node, and `rl_free` then
  refuses a block that the wrappers allocated (`rlmem.c:325`, message at `:223`).
- When the node of an adopted block cannot be allocated, `rl_realloc` frees the moved block and
  answers NULL (`rlmem.c:330`, `realloc_node`), which for libc's realloc means that the old block is
  intact. `MissedIsForeign` says which blocks that can befall.
- A file that is removed while open grows without bound: `stat` of the path fails, and
  that counts as small enough (`rllog.c:67`). `SizeBound` is about the file the path names.
- With 2 callers, `ProtectedWhileRunning` fails too (the first to return restores the host's
  dispositions), and so does `FailedMeansTimeout` in a host that ignores SIGCHLD: the
  first to return restores SIG_IGN and the other's child is reaped by the kernel.
- With `"eintr"` or `"kill"` in `Failures`, `AllReaped` fails: the `waitpid` after the kill is not
  repeated (`rlcmd.c:120`), and a refused kill leaves the child running.
- A command that could not be killed runs on beside its own retry and after the call. As long
  as the call is in its loop the host is shielded (`ProtectedWhileRunning`); once the signals are
  restored it is not. Drop the conjunct on `pc` and the property fails in `cmd_single`; the call may
  even have answered `RL_SUCCESS`, for the retry.
- With `"sig"` in `Failures`, `SignalsRestored` fails: the early returns undo nothing.
- A command that dies of SIGHUP is answered with `-WTERMSIG(status)` = -1 = `RL_FAILED`, as a
  timeout is (`rlcmd.c:160`).
- rltime: `system` is compared with -1 only (`rltime.c:111`, `:116`), so a `sudo`, `date` or `hwclock`
  that is refused counts as success; `UpdateOutcome` therefore says which commands ran, and
  leaves the rest of that success open. -1 as a time stamp is also a time.
- rltime: the comment at `rltime.c:221` says that the status code is checked, but the words "200 OK" are
  looked for in all that was received (`:222`), and "Date: " too (`:232`). A 404 with "200 OK" in a body
  that arrives with the head answers `RL_SUCCESS` and its date; how such a reply is judged
  depends on its pieces. `OnlyFor200`, which says what the comment says, fails as an `INVARIANT` of
  `host.cfg`. `ReplyDecides` names these replies (`Deceptive`) and claims less of them; in
  particular it claims independence of the pieces for `Tidy` replies.
- rleth: the address of the server is copied from the list of pointers, not from what
  they point to (`rleth.c:113`, `:162`; `host->h_addr_list` for `host->h_addr_list[0]`): the bytes of a
  pointer are taken for the address. The comment at `:234` says 33 bytes, the query has 32, and
  any datagram counts as the answer (`:262`). `timeout_ms * 1000` wraps above 4294967 (`:70`).
- rlsys: a temperature of -1 degree is `RL_FAILED`. `rl_get_file_abs_path` does not look at its length
  (`rlsys.c:158`): with 0 it answers `RL_SUCCESS` and writes nothing, or fails and writes `buf[0]`, which
  is outside (`:164`, `:171`). `PathSound` names this one call; without the exception it fails in `host`.
  A program path that is longer than the buffer gives
  the directory of its beginning. When iowait has fallen by more than the rest has grown, or idle
  has fallen, the usage is not within 0 .. 1000.
- rlstr: `rl_strcpy_s` with size 0 copies without a bound (`rlstr.c:55`: `dst_len - 1` wraps);
  `rl_replace_substr` copies the old string into `buffer[len]` before it is cut (`:237`), which
  overruns it when the old string is longer than `len`; `rl_strcmp` answers `RL_FAILED`, a
  difference, for two empty strings. The first two are in the model, as calls that answer
  `UNDEFINED`: `InBounds` says that exactly these overrun, and `EditExact` claims nothing of them.
- Comments and values that disagree: `rllog.h:13` says 10 MB for 50 MB, `rllog.c:66` says KB for
  bytes; `rlcmd.c:54` says that SIG_DFL keeps children from becoming zombies, which SIG_IGN does.

## 6. Not modelled

Of all components: text (log prefixes, the report file, call sites, requests and addresses);
the length of a log prefix is bounded by its format, so `log_buf` is not overrun. Steps that
change nothing: refused arguments, libc out of memory before a block exists, messages to
stderr.

- rlmem: nodes do not use up addresses. Trace start and end do not overlap wrapper calls
  (the code gives no protection; its comments place them at program start and end).
- rllog: a host that starts the log twice without ending it.
- rlcmd: `fork` copies no locks: the child calls only sigaction, sigprocmask and execl.
- rleth: `rl_is_ipv4`, which is `inet_pton` after a check. Signals that interrupt a wait: the
  call fails, as it does at a timeout. Lengths of time.
- rltime: clocks do not tick; a zone name that libc does not know.
- rlsys: the contents of `/proc` and `/sys` have the kernel's form.
- rlstr: `rl_memset`, `rl_memcpy`, `rl_strcmp`, `rl_memcmp`, `rl_str_strtol`: one libc call each after a
  check for NULL or emptiness. Texts are short; NULL is treated by the code like an empty string.
- Makefiles, shipped objects: nothing that runs.

## 7. Plan

1. Done: all components but the parts listed above; HeapContract and its refinement; the
   composition over the descriptor table; theorems for all safety properties that the runs
   check.
2. An abstract specification of a log (append whole lines, sometimes empty) that RlLog
   implements for one process, and of a command call (ran, timed out) for RlCmd, with
   their refinement proofs from `SuffixInv`, `FullInv` and from `RanInv`, `FailedInv`.
3. Weaker hypotheses where the code justifies them: `SizeBound` with `"late"` and files of the host.
