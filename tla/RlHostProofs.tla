---------------------------- MODULE RlHostProofs ----------------------------
(***************************************************************************)
(* Theorems about the components that share the descriptor table of a      *)
(* process. Every step of a call keeps its descriptor, takes one or gives  *)
(* it back; so each call holds exactly what it is working with, whatever   *)
(* the other threads of the host open and close, for any number of         *)
(* descriptors. With that, the verdicts of rleth, of an update of the      *)
(* clocks, of an exchange with a time server, of the calendar and of the   *)
(* usage of the CPU are invariants of the composition.                     *)
(***************************************************************************)
EXTENDS RlHost, RlEthProofs, SequenceTheorems, WellFoundedInduction

(* rltime has a socket from its creation to its close; not at these steps. *)
TimeFree == {"idle", "set_clock", "set_rtc"}

TimeBalanced == Balanced("rltime", tsock, tpc, TimeFree)

TimeKept     == Kept(tsock, tsock', tpc, tpc', TimeFree)
TimeTook     == Took("rltime", tsock, tsock', tpc, tpc', TimeFree)
TimeGaveBack == GaveBack(tsock, tsock', tpc, tpc', TimeFree)

(* rlsys has a file or a directory until it returns.                       *)
SysFree == {"idle"}

SysBalanced == Balanced("rlsys", sfd, spc, SysFree)

SysKept     == Kept(sfd, sfd', spc, spc', SysFree)
SysTook     == Took("rlsys", sfd, sfd', spc, spc', SysFree)
SysGaveBack == GaveBack(sfd, sfd', spc, spc', SysFree)

-----------------------------------------------------------------------------
(* The steps of rltime                                                     *)

(* A step of the exchange that goes on, or knows its answer, keeps.        *)
LEMMA ContinueKeeps ==
  ASSUME NEW from, NEW to, Continue(from, to),
         from \notin {"idle", "set_clock", "set_rtc"},
         to \notin {"idle", "set_clock", "set_rtc"}
  PROVE  TimeKept
BY DEF Continue, TimeKept, Kept, TimeFree

(* An answer of the exchange is known while the socket is still open.      *)
LEMMA AnswerKeeps ==
  ASSUME NEW from, NEW v, Answer(from, v), from \notin {"idle", "set_clock", "set_rtc"}
  PROVE  TimeKept
BY DEF Answer, exchange, TimeKept, Kept, TimeFree

(* The exchange opens one socket and closes it.                            *)
LEMMA ExchangeKinds == ExchangeNext => TimeKept \/ TimeTook \/ TimeGaveBack
<1>1. CASE rl_get_time_from_server
  <2>1. tpc = "idle"
    BY <1>1 DEF rl_get_time_from_server, Begin
  <2>2. CASE UNCHANGED <<fdtab, tpc, tsock, tlimit>>
    BY <2>2 DEF TimeKept, Kept, TimeFree
  <2>3. CASE (\E d \in Fds : Opened("rltime", d) /\ tsock' = d) /\ tpc' = "rcvtimeo"
    BY <2>1, <2>3 DEF TimeTook, Took, TimeFree
  <2> QED
    BY <1>1, <2>2, <2>3 DEF rl_get_time_from_server
<1>2. CASE \/ prepare("rcvtimeo", "sndtimeo") \/ prepare("sndtimeo", "getaddrinfo")
           \/ prepare("getaddrinfo", "connect")
  BY <1>2, ContinueKeeps, AnswerKeeps DEF prepare
<1>3. CASE send_request \/ connect_server
  BY <1>3, ContinueKeeps, AnswerKeeps DEF send_request, connect_server
<1>4. CASE recv_piece
  <2>1. PICK to \in {"status", "recv"} : Continue("recv", to)
    BY <1>4 DEF recv_piece
  <2> QED
    BY <2>1, ContinueKeeps
<1>5. CASE recv_end
  BY <1>5, AnswerKeeps DEF recv_end
<1>6. CASE recv_fails
  BY <1>6 DEF recv_fails, exchange, TimeKept, Kept, TimeFree
<1>7. CASE check_status \/ read_date
  BY <1>7, ContinueKeeps, AnswerKeeps DEF check_status, read_date
<1>8. CASE close_socket
  BY <1>8 DEF close_socket, TimeGaveBack, GaveBack, TimeFree
<1> QED
  BY <1>1, <1>2, <1>3, <1>4, <1>5, <1>6, <1>7, <1>8
     DEF ExchangeNext, ExchangeCall, ExchangeStep, TimeWait

(* The clocks and the zone need no descriptor.                             *)
LEMMA ClockKinds == ClockNext => TimeKept
<1>1. rl_update_sys_time => TimeKept
  BY DEF rl_update_sys_time, Begin, exchange, TimeKept, Kept, TimeFree
<1>2. rl_set_timezone => TimeKept
  BY DEF rl_set_timezone, Begin, exchange, TimeKept, Kept, TimeFree
<1>3. rl_get_time \/ rl_get_time_stamp => TimeKept
  BY DEF rl_get_time, rl_get_time_stamp, LocalTime, Begin, exchange, TimeKept, Kept, TimeFree
<1>4. set_clock \/ set_rtc => TimeKept
  <2> SUFFICES ASSUME NEW from \in {"set_clock", "set_rtc"}, NEW to \in {"set_rtc", "idle"},
                      Command(from, to)
               PROVE  TimeKept
    BY DEF set_clock, set_rtc
  <2> QED
    BY DEF Command, exchange, TimeKept, Kept, TimeFree
<1> QED
  BY <1>1, <1>2, <1>3, <1>4 DEF ClockNext, ClockCall, ClockStep

-----------------------------------------------------------------------------
(* The steps of rlsys                                                      *)

(* A reader that opens a file has it, one that cannot returns without.     *)
LEMMA OpenFileTakes ==
  ASSUME NEW f, OpenFile(f)
  PROVE  SysTook \/ SysKept
<1>1. CASE (\E d \in Fds : Opened("rlsys", d) /\ sfd' = d) /\ spc' = "read"
  BY <1>1 DEF OpenFile, SysTook, Took, SysFree
<1>2. CASE UNCHANGED <<fdtab, spc, sfd>>
  BY <1>2 DEF SysKept, Kept, SysFree
<1> QED
  BY <1>1, <1>2 DEF OpenFile

(* Reading changes no descriptor.                                          *)
LEMMA ReadFileKeeps ==
  ASSUME NEW f, NEW to, ReadFile(f, to), to # "idle"
  PROVE  SysKept
BY DEF ReadFile, SysKept, Kept, SysFree

(* A reader returns with its file closed.                                  *)
LEMMA CloseFileGivesBack ==
  ASSUME NEW f, NEW at, NEW v, CloseFile(f, at, v), at # "idle"
  PROVE  SysGaveBack
BY DEF CloseFile, SysGaveBack, GaveBack, SysFree

(* A reader opens one file and closes it on every path.                    *)
LEMMA UsageKinds == UsageNext => SysKept \/ SysTook \/ SysGaveBack
<1>1. CASE rl_get_cpu_usage
  BY <1>1, OpenFileTakes DEF rl_get_cpu_usage
<1>2. CASE usage_read
  BY <1>2, ReadFileKeeps DEF usage_read
<1>3. CASE usage_failed
  BY <1>3, CloseFileGivesBack DEF usage_failed
<1>4. CASE usage_convert
  BY <1>4, CloseFileGivesBack DEF usage_convert
<1>5. CASE jiffy
  BY <1>5 DEF jiffy, SysKept, Kept, SysFree
<1> QED
  BY <1>1, <1>2, <1>3, <1>4, <1>5 DEF UsageNext

(* So do the calls that read other files and the descriptor directory.     *)
LEMMA FileKinds ==
  FileNext => SysKept \/ SysTook \/ SysGaveBack
              \/ (UNCHANGED <<spc, sfd>> /\ (host_opens \/ host_closes))
<1>1. CASE rl_get_cpu_temperature \/ rl_get_memory_usage
  BY <1>1, OpenFileTakes DEF rl_get_cpu_temperature, rl_get_memory_usage
<1>2. CASE temperature_read \/ memory_read
  BY <1>2, ReadFileKeeps DEF temperature_read, memory_read
<1>3. CASE temperature_convert \/ memory_close
  BY <1>3, CloseFileGivesBack DEF temperature_convert, memory_close
<1>4. CASE rl_get_fd_count
  <2>1. CASE (\E d \in Fds : Opened("rlsys", d) /\ sfd' = d) /\ spc' = "scan"
    BY <1>4, <2>1 DEF rl_get_fd_count, SysTook, Took, SysFree
  <2>2. CASE UNCHANGED <<fdtab, spc, sfd, scan>>
    BY <2>2 DEF SysKept, Kept, SysFree
  <2> QED
    BY <1>4, <2>1, <2>2 DEF rl_get_fd_count
<1>5. CASE read_entry
  BY <1>5 DEF read_entry, SysKept, Kept, SysFree
<1>6. CASE close_dir
  BY <1>6, CloseFileGivesBack DEF close_dir
<1>7. CASE host_files
  BY <1>7 DEF host_files
<1> QED
  BY <1>1, <1>2, <1>3, <1>4, <1>5, <1>6, <1>7 DEF FileNext

(* The calls about paths open a file for the process name only.            *)
LEMMA PathKinds == PathNext => SysKept \/ SysTook \/ SysGaveBack
<1>1. CASE rl_get_proc_name
  BY <1>1, OpenFileTakes DEF rl_get_proc_name, SysKept, Kept, SysFree
<1>2. CASE name_read
  BY <1>2, ReadFileKeeps DEF name_read
<1>3. CASE name_close
  BY <1>3, CloseFileGivesBack DEF name_close
<1>4. ASSUME NEW f, NEW len, NEW v, Returns(f, len, v)
      PROVE  SysKept
  BY <1>4 DEF Returns, SysKept, Kept, SysFree
<1>5. CASE rl_get_proc_path \/ rl_get_proc_dir \/ rl_get_file_abs_path
  BY <1>5, <1>4 DEF rl_get_proc_path, rl_get_proc_dir, rl_get_file_abs_path
<1>6. CASE rl_calcuate_run_time_ms \/ time_passes
  BY <1>6 DEF rl_calcuate_run_time_ms, time_passes, SysKept, Kept, SysFree
<1> QED
  BY <1>1, <1>2, <1>3, <1>5, <1>6 DEF PathNext

-----------------------------------------------------------------------------
(* The table                                                               *)

(* The inductive invariant behind DescriptorsBalanced: besides what a      *)
(* component owns, that it owns one exactly where its program counter says *)
(* so. Without that a close could hit a descriptor the call does not own.  *)
HostBalanced == FdTypeOK /\ EthBalanced /\ TimeBalanced /\ SysBalanced

(* The host opens and closes descriptors of its own only.                  *)
LEMMA HostKeepsOthers ==
  ASSUME FdTypeOK, host_opens \/ host_closes
  PROVE  FdTypeOK' /\ \A w \in Owners \ {"host"} : Owned(w)' = Owned(w)
<1>1. CASE host_opens
  BY <1>1, OpenedOwns DEF host_opens, Owners
<1>2. CASE host_closes
  <2>1. PICK d \in Owned("host") : Closed(d)
    BY <1>2 DEF host_closes, Owned
  <2> QED
    BY <2>1, ClosedOwns DEF Owners
<1> QED
  BY <1>1, <1>2

(* A step that touches neither the table nor a component's state.          *)
LEMMA NothingMoved ==
  ASSUME UNCHANGED fdtab
  PROVE  (FdTypeOK => FdTypeOK') /\ \A w \in Owners : Owned(w)' = Owned(w)
BY DEF FdTypeOK, Owned

(* A component that does not step stays in balance: rleth,                 *)
LEMMA EthStaysBalanced ==
  ASSUME EthBalanced, Owned("rleth")' = Owned("rleth"), UNCHANGED ethvars
  PROVE  EthBalanced'
BY DEF EthBalanced, Balanced, Holds, ethvars

(* rltime,                                                                 *)
LEMMA TimeStaysBalanced ==
  ASSUME TimeBalanced, Owned("rltime")' = Owned("rltime"), UNCHANGED <<tpc, tsock>>
  PROVE  TimeBalanced'
BY DEF TimeBalanced, Balanced, Holds, TimeFree

(* and rlsys.                                                              *)
LEMMA SysStaysBalanced ==
  ASSUME SysBalanced, Owned("rlsys")' = Owned("rlsys"), UNCHANGED <<spc, sfd>>
  PROVE  SysBalanced'
BY DEF SysBalanced, Balanced, Holds, SysFree

(* At the start nobody has a descriptor.                                   *)
LEMMA BalancedInit == HostInit => HostBalanced
<1> SUFFICES ASSUME HostInit PROVE HostBalanced
  OBVIOUS
<1>1. FdTypeOK /\ \A w \in Owners : Owned(w) = {}
  BY DEF HostInit, FdInit, FdTypeOK, Owned, Owners
<1>2. EthBalanced
  BY <1>1, NoDescriptor DEF HostInit, EthInit, EthBalanced, Balanced, Holds, NoSocket, NoFd, Owners
<1>3. TimeBalanced
  BY <1>1, NoDescriptor DEF HostInit, TimeInit, TimeBalanced, Balanced, Holds, TimeFree, Owners
<1>4. SysBalanced
  BY <1>1, NoDescriptor DEF HostInit, SysInit, SysBalanced, Balanced, Holds, SysFree, Owners
<1> QED
  BY <1>1, <1>2, <1>3, <1>4 DEF HostBalanced

(* A step of one component keeps its own balance and that of the others.   *)
LEMMA BalancedNext ==
  ASSUME HostBalanced, [HostNext]_hostvars
  PROVE  HostBalanced'
<1> USE DEF HostBalanced
<1>eth. ASSUME EthKept \/ EthTook \/ EthGaveBack, UNCHANGED <<timevars, sysvars>>
        PROVE  HostBalanced'
  <2>1. /\ FdTypeOK' /\ EthBalanced'
        /\ \A w \in Owners \ {"rleth"} : Owned(w)' = Owned(w)
    <3>1. PICK s : s = sockfd
      OBVIOUS
    <3>2. PICK t : t = sockfd'
      OBVIOUS
    <3>3. PICK c : c = ethpc
      OBVIOUS
    <3>4. PICK e : e = ethpc'
      OBVIOUS
    <3>5. Balanced("rleth", s, c, NoSocket)
      BY <3>1, <3>3 DEF EthBalanced, Balanced, Holds
    <3>6. \/ Kept(s, t, c, e, NoSocket)
          \/ Took("rleth", s, t, c, e, NoSocket)
          \/ GaveBack(s, t, c, e, NoSocket)
      BY <1>eth, <3>1, <3>2, <3>3, <3>4
         DEF EthKept, EthTook, EthGaveBack, Kept, Took, GaveBack, Opened, Closed
    <3>7. FdTypeOK /\ "rleth" \in Owners
      BY DEF Owners
    <3> HIDE DEF HostBalanced
    <3>8. /\ FdTypeOK'
          /\ Owned("rleth")' = {t} \ {-1}
          /\ (e \in NoSocket <=> t = -1) /\ (e \notin NoSocket <=> t \in Fds)
          /\ \A w \in Owners \ {"rleth"} : Owned(w)' = Owned(w)
      BY <3>5, <3>6, <3>7, StepBalanced
    <3> QED
      BY <3>2, <3>4, <3>8 DEF EthBalanced, Balanced, Holds
  <2> QED
    BY <1>eth, <2>1, TimeStaysBalanced, SysStaysBalanced DEF Owners, timevars, sysvars, exchange
<1>time. ASSUME TimeKept \/ TimeTook \/ TimeGaveBack, UNCHANGED <<ethvars, sysvars>>
         PROVE  HostBalanced'
  <2>1. /\ FdTypeOK' /\ TimeBalanced'
        /\ \A w \in Owners \ {"rltime"} : Owned(w)' = Owned(w)
    <3>1. PICK s : s = tsock
      OBVIOUS
    <3>2. PICK t : t = tsock'
      OBVIOUS
    <3>3. PICK c : c = tpc
      OBVIOUS
    <3>4. PICK e : e = tpc'
      OBVIOUS
    <3>5. Balanced("rltime", s, c, TimeFree)
      BY <3>1, <3>3 DEF TimeBalanced, Balanced, Holds
    <3>6. \/ Kept(s, t, c, e, TimeFree)
          \/ Took("rltime", s, t, c, e, TimeFree)
          \/ GaveBack(s, t, c, e, TimeFree)
      BY <1>time, <3>1, <3>2, <3>3, <3>4
         DEF TimeKept, TimeTook, TimeGaveBack, Kept, Took, GaveBack, Opened, Closed
    <3>7. FdTypeOK /\ "rltime" \in Owners
      BY DEF Owners
    <3> HIDE DEF HostBalanced
    <3>8. /\ FdTypeOK'
          /\ Owned("rltime")' = {t} \ {-1}
          /\ (e \in TimeFree <=> t = -1) /\ (e \notin TimeFree <=> t \in Fds)
          /\ \A w \in Owners \ {"rltime"} : Owned(w)' = Owned(w)
      BY <3>5, <3>6, <3>7, StepBalanced
    <3> QED
      BY <3>2, <3>4, <3>8 DEF TimeBalanced, Balanced, Holds
  <2> QED
    BY <1>time, <2>1, EthStaysBalanced, SysStaysBalanced DEF Owners, sysvars
<1>sys. ASSUME SysKept \/ SysTook \/ SysGaveBack, UNCHANGED <<ethvars, timevars>>
        PROVE  HostBalanced'
  <2>1. /\ FdTypeOK' /\ SysBalanced'
        /\ \A w \in Owners \ {"rlsys"} : Owned(w)' = Owned(w)
    <3>1. PICK s : s = sfd
      OBVIOUS
    <3>2. PICK t : t = sfd'
      OBVIOUS
    <3>3. PICK c : c = spc
      OBVIOUS
    <3>4. PICK e : e = spc'
      OBVIOUS
    <3>5. Balanced("rlsys", s, c, SysFree)
      BY <3>1, <3>3 DEF SysBalanced, Balanced, Holds
    <3>6. \/ Kept(s, t, c, e, SysFree)
          \/ Took("rlsys", s, t, c, e, SysFree)
          \/ GaveBack(s, t, c, e, SysFree)
      BY <1>sys, <3>1, <3>2, <3>3, <3>4
         DEF SysKept, SysTook, SysGaveBack, Kept, Took, GaveBack, Opened, Closed
    <3>7. FdTypeOK /\ "rlsys" \in Owners
      BY DEF Owners
    <3> HIDE DEF HostBalanced
    <3>8. /\ FdTypeOK'
          /\ Owned("rlsys")' = {t} \ {-1}
          /\ (e \in SysFree <=> t = -1) /\ (e \notin SysFree <=> t \in Fds)
          /\ \A w \in Owners \ {"rlsys"} : Owned(w)' = Owned(w)
      BY <3>5, <3>6, <3>7, StepBalanced
    <3> QED
      BY <3>2, <3>4, <3>8 DEF SysBalanced, Balanced, Holds
  <2> QED
    BY <1>sys, <2>1, EthStaysBalanced, TimeStaysBalanced DEF Owners, timevars, exchange
<1>other. ASSUME host_opens \/ host_closes, UNCHANGED <<ethvars, timevars, spc, sfd>>
          PROVE  HostBalanced'
  BY <1>other, HostKeepsOthers, EthStaysBalanced, TimeStaysBalanced, SysStaysBalanced
     DEF Owners, timevars, exchange
<1>idle. CASE UNCHANGED hostvars
  BY <1>idle, NothingMoved, EthStaysBalanced, TimeStaysBalanced, SysStaysBalanced
     DEF Owners, hostvars, timevars, sysvars, exchange
<1>1. CASE probe
  BY <1>1, <1>eth, EthKinds DEF probe
<1>2. CASE fetch
  BY <1>2, <1>time, ExchangeKinds DEF fetch
<1>3. CASE set
  BY <1>3, <1>time, ClockKinds DEF set
<1>4. CASE usage
  BY <1>4, <1>sys, UsageKinds DEF usage
<1>5. CASE files
  BY <1>5, <1>sys, <1>other, FileKinds DEF files
<1>6. CASE paths
  BY <1>6, <1>sys, PathKinds DEF paths
<1>7. CASE OtherThreads
  BY <1>7, <1>other DEF OtherThreads, sysvars
<1> QED
  BY <1>idle, <1>1, <1>2, <1>3, <1>4, <1>5, <1>6, <1>7 DEF HostNext

(* For any set of descriptors and any of the other constants: a call of    *)
(* rleth, rltime or rlsys owns exactly the descriptor it is working with   *)
(* and none when it has returned.                                          *)
THEOREM HostDescriptorsBalanced == HostSpec => []DescriptorsBalanced
<1>1. HostBalanced => DescriptorsBalanced
  BY DEF HostBalanced, EthBalanced, TimeBalanced, SysBalanced, Balanced, Holds, Owned,
         TimeFree, SysFree, NoSocket, NoFd, DescriptorsBalanced,
         ProbeDescriptors, ExchangeDescriptors, ReaderDescriptors
<1> QED
  BY <1>1, BalancedInit, BalancedNext, PTL DEF HostSpec

-----------------------------------------------------------------------------
(* The verdicts                                                            *)

(* For rleth a step of the host is one of its own, or none.                *)
LEMMA EthOrNothing ==
  ASSUME [HostNext]_hostvars
  PROVE  EthNext \/ UNCHANGED ethvars
BY DEF HostNext, hostvars, probe, fetch, set, usage, files, paths, OtherThreads

(* Whatever the peer does and whenever a wait ends: a probe that answers   *)
(* RL_SUCCESS has a connection or a reply.                                 *)
THEOREM HostOnlineMeansAnswered == HostSpec => []OnlineMeansAnswered
<1> DEFINE IInv == HostBalanced /\ EthOnline
<1>1. HostInit => IInv
  BY BalancedInit, OnlineInit DEF HostInit
<1>2. ASSUME IInv, [HostNext]_hostvars PROVE IInv'
  <2>1. EthBalanced
    BY <1>2 DEF HostBalanced
  <2>2. EthOnline'
    BY <1>2, <2>1, EthOrNothing, OnlineNext, OnlineIdle
  <2> QED
    BY <1>2, <2>2, BalancedNext
<1>3. IInv => OnlineMeansAnswered
  BY DEF EthOnline
<1> QED
  BY <1>1, <1>2, <1>3, PTL DEF HostSpec

(* However the link changes during the call and whatever fails: the card   *)
(* is reported up only if it was up, and reported down only after all the  *)
(* attempts asked for, any number of them, and only if it was down or a    *)
(* system call failed.                                                     *)
THEOREM HostCardVerdict == HostSpec => []CardVerdict
<1>1. HostInit => EthCard
  BY CardInit DEF HostInit
<1>2. ASSUME EthCard, [HostNext]_hostvars PROVE EthCard'
  BY <1>2, EthOrNothing, CardNext, CardIdle
<1>3. EthCard => CardVerdict
  BY DEF EthCard
<1> QED
  BY <1>1, <1>2, <1>3, PTL DEF HostSpec

(* For any route table and any sequence of queries into one buffer: what a *)
(* query leaves there is the address asked for or, after a failure, what   *)
(* BufferHonest says.                                                      *)
THEOREM HostBufferHonest == HostSpec => []BufferHonest
<1> DEFINE IInv == EthCard /\ EthBuffer
<1>1. HostInit => IInv
  BY CardInit, BufferInit DEF HostInit
<1>2. ASSUME IInv, [HostNext]_hostvars PROVE IInv'
  BY <1>2, EthOrNothing, CardNext, CardIdle, BufferNext, BufferIdle
<1>3. IInv => BufferHonest
  BY DEF EthBuffer
<1> QED
  BY <1>1, <1>2, <1>3, PTL DEF HostSpec

-----------------------------------------------------------------------------
(* The clocks                                                              *)

(* Between the commands of an update: neither clock has changed before the *)
(* first, and only the system clock before the second, to the time asked   *)
(* for if the command ran.                                                 *)
ClocksInStep ==
  /\ tpc = "set_clock" =>
       /\ tfn = "update" /\ cmds = <<>>
       /\ clock = past.clock /\ rtc = past.rtc
  /\ tpc = "set_rtc" =>
       /\ tfn = "update" /\ cmds \in Seq(Outcomes) /\ Len(cmds) = 1
       /\ clock \in {past.clock, asked} /\ rtc = past.rtc
       /\ cmds[1] = "ran" => clock = asked
  /\ tpc \notin {"idle", "set_clock", "set_rtc"} => tfn = "server"
  /\ UpdateOutcome

(* Before the first update there is nothing to say.                        *)
LEMMA ClocksInit == TimeInit => ClocksInStep
BY DEF TimeInit, ClocksInStep, UpdateOutcome, Returned

(* A step of another function than the update.                             *)
LEMMA ClocksOther ==
  ASSUME tpc' \notin {"set_clock", "set_rtc"}, tfn' # "update",
         tpc' # "idle" => tfn' = "server"
  PROVE  ClocksInStep'
BY DEF ClocksInStep, UpdateOutcome, Returned

(* The exchange with the server leaves the clocks alone.                   *)
LEMMA ClocksExchange ==
  ASSUME ClocksInStep, ExchangeNext
  PROVE  ClocksInStep'
<1>call. CASE rl_get_time_from_server
  BY <1>call, ClocksOther DEF rl_get_time_from_server, Begin
<1>goes. ASSUME NEW from \in {"rcvtimeo", "sndtimeo", "getaddrinfo", "connect", "send",
                             "recv", "status", "date"},
                NEW to \in {"sndtimeo", "getaddrinfo", "connect", "send", "recv",
                           "status", "date", "close"},
                tpc = from, tpc' = to, UNCHANGED tfn
         PROVE  ClocksInStep'
  BY <1>goes, ClocksOther DEF ClocksInStep
<1>1. CASE \/ prepare("rcvtimeo", "sndtimeo") \/ prepare("sndtimeo", "getaddrinfo")
           \/ prepare("getaddrinfo", "connect")
  BY <1>1, <1>goes DEF prepare, Continue, Answer
<1>2. CASE send_request \/ connect_server
  BY <1>2, <1>goes DEF send_request, connect_server, Continue, Answer
<1>3. CASE recv_piece
  <2>1. PICK to \in {"status", "recv"} : Continue("recv", to)
    BY <1>3 DEF recv_piece
  <2> QED
    BY <2>1, <1>goes DEF Continue
<1>4. CASE recv_end \/ recv_fails
  BY <1>4, <1>goes DEF recv_end, recv_fails, Answer
<1>5. CASE check_status \/ read_date
  BY <1>5, <1>goes DEF check_status, read_date, Continue, Answer
<1>6. CASE close_socket
  BY <1>6, ClocksOther DEF close_socket, ClocksInStep
<1> QED
  BY <1>call, <1>1, <1>2, <1>3, <1>4, <1>5, <1>6
     DEF ExchangeNext, ExchangeCall, ExchangeStep, TimeWait

(* The commands of an update, one after the other.                         *)
LEMMA ClocksClock ==
  ASSUME ClocksInStep, ClockNext
  PROVE  ClocksInStep'
<1>0. RL_SUCCESS # RL_FAILED
  BY DEF RL_SUCCESS, RL_FAILED
<1>1. CASE rl_update_sys_time
  <2>1. /\ tfn' = "update" /\ cmds' = <<>> /\ UNCHANGED <<clock, rtc>>
        /\ past'.clock = clock /\ past'.rtc = rtc
        /\ tpc = "idle"
        /\ tpc' = "set_clock" \/ (tpc' = "idle" /\ tret' = RL_FAILED)
    BY <1>1 DEF rl_update_sys_time, Begin
  <2> QED
    BY <2>1 DEF ClocksInStep, UpdateOutcome, Returned, RL_SUCCESS, RL_FAILED
<1>2. CASE rl_set_timezone \/ rl_get_time \/ rl_get_time_stamp
  BY <1>2, ClocksOther DEF rl_set_timezone, rl_get_time, rl_get_time_stamp, LocalTime, Begin
<1>3. CASE set_clock
  <2>1. PICK c \in Outcomes :
          /\ tpc = "set_clock" /\ cmds' = Append(cmds, c)
          /\ tpc' = IF c = "not started" THEN "idle" ELSE "set_rtc"
          /\ tret' = IF c = "not started" THEN RL_FAILED ELSE tret
          /\ UNCHANGED <<tfn, asked, past, rtc>>
          /\ clock' = IF Last(cmds') = "ran" THEN asked ELSE clock
    BY <1>3 DEF set_clock, Command
  <2>2. /\ tfn' = "update" /\ Last(cmds') = c
        /\ cmds' \in Seq(Outcomes) /\ Len(cmds') = 1 /\ cmds'[1] = c
        /\ clock = past.clock /\ rtc' = past'.rtc
    <3>1. /\ tfn = "update" /\ cmds = <<>> /\ clock = past.clock /\ rtc = past.rtc
      BY <2>1 DEF ClocksInStep
    <3>2. cmds \in Seq(Outcomes) /\ Len(cmds) = 0
      BY <3>1
    <3>a. cmds' = Append(cmds, c) /\ c \in Outcomes
      BY <2>1
    <3>3. cmds' \in Seq(Outcomes) /\ Len(cmds') = 1 /\ cmds'[1] = c
      BY <3>2, <3>a
    <3>4. Last(cmds') = c
      BY <3>3 DEF Last
    <3> QED
      BY <2>1, <3>1, <3>3, <3>4
  <2>3. CASE c = "not started"
    <3>1. tpc' = "idle" /\ tret' = RL_FAILED /\ tret' # RL_SUCCESS
      BY <1>0, <2>1, <2>3
    <3>2. clock' = clock /\ past' = past /\ rtc' = rtc
      BY <2>1, <2>2, <2>3
    <3> QED
      BY <2>2, <3>1, <3>2 DEF ClocksInStep, UpdateOutcome, Returned
  <2>4. CASE c = "ran"
    BY <2>1, <2>2, <2>4 DEF ClocksInStep, UpdateOutcome, Returned
  <2>5. CASE c = "refused"
    BY <2>1, <2>2, <2>5 DEF ClocksInStep, UpdateOutcome, Returned
  <2> QED
    BY <2>3, <2>4, <2>5 DEF Outcomes
<1>4. CASE set_rtc
  <2>1. PICK c \in Outcomes :
          /\ tpc = "set_rtc" /\ cmds' = Append(cmds, c)
          /\ tpc' = "idle"
          /\ tret' = IF c = "not started" THEN RL_FAILED ELSE RL_SUCCESS
          /\ UNCHANGED <<tfn, asked, past, clock>>
          /\ rtc' = IF Last(cmds') = "ran" THEN clock ELSE rtc
    BY <1>4 DEF set_rtc, Command
  <2>2. /\ tfn' = "update" /\ Last(cmds') = c
        /\ cmds'[1] = cmds[1] /\ cmds'[2] = c
        /\ clock \in {past.clock, asked} /\ rtc = past.rtc
        /\ cmds[1] = "ran" => clock = asked
    <3>1. /\ tfn = "update" /\ cmds \in Seq(Outcomes) /\ Len(cmds) = 1
          /\ clock \in {past.clock, asked} /\ rtc = past.rtc
          /\ cmds[1] = "ran" => clock = asked
      BY <2>1 DEF ClocksInStep
    <3>a. cmds' = Append(cmds, c) /\ c \in Outcomes
      BY <2>1
    <3>b. cmds \in Seq(Outcomes) /\ Len(cmds) = 1
      BY <3>1
    <3>c. Len(cmds') = 2 /\ cmds'[2] = c
      BY <3>a, <3>b
    <3>d. cmds'[1] = cmds[1]
      BY <3>a, <3>b
    <3>2. Len(cmds') = 2 /\ cmds'[1] = cmds[1] /\ cmds'[2] = c
      BY <3>c, <3>d
    <3>3. Last(cmds') = c
      BY <3>2 DEF Last
    <3> QED
      BY <2>1, <3>1, <3>2, <3>3
  <2>3. /\ tret' = RL_SUCCESS /\ cmds' = <<"ran", "ran">> => clock' = asked' /\ rtc' = asked'
    <3> SUFFICES ASSUME cmds' = <<"ran", "ran">> PROVE clock' = asked' /\ rtc' = asked'
      OBVIOUS
    <3>1. cmds[1] = "ran" /\ c = "ran"
      BY <2>2
    <3> QED
      BY <2>1, <2>2, <3>1
  <2>4. tret' = RL_FAILED => c = "not started"
    BY <1>0, <2>1
  <2>5. c = "not started" => rtc' = past'.rtc
    BY <2>1, <2>2
  <2>6. rtc' \in {past'.rtc, clock'} /\ clock' \in {past'.clock, asked'}
    BY <2>1, <2>2
  <2> QED
    BY <2>1, <2>2, <2>3, <2>4, <2>5, <2>6 DEF ClocksInStep, UpdateOutcome, Returned
<1> QED
  BY <1>1, <1>2, <1>3, <1>4 DEF ClockNext, ClockCall, ClockStep

(* Nothing else that happens in the host touches the clocks.               *)
LEMMA ClocksIdle ==
  ASSUME ClocksInStep, UNCHANGED timevars
  PROVE  ClocksInStep'
BY DEF ClocksInStep, UpdateOutcome, Returned, timevars, clocks

(* ClocksInStep holds throughout.                                          *)
LEMMA ClocksAlways == HostSpec => []ClocksInStep
<1>1. HostInit => ClocksInStep
  BY ClocksInit DEF HostInit
<1>2. ASSUME ClocksInStep, [HostNext]_hostvars PROVE ClocksInStep'
  <2>1. ExchangeNext \/ ClockNext \/ UNCHANGED timevars
    BY <1>2 DEF HostNext, hostvars, probe, fetch, set, usage, files, paths, OtherThreads
  <2> QED
    BY <1>2, <2>1, ClocksExchange, ClocksClock, ClocksIdle
<1> QED
  BY <1>1, <1>2, PTL DEF HostSpec

(* For any date: after RL_SUCCESS both clocks show it, if the commands ran *)
(* that were started (the code does not notice one that was refused); after *)
(* RL_FAILED the hardware clock is as it was and the system clock as it    *)
(* was or as asked; and the hardware clock never gets a time that the      *)
(* system clock does not have.                                             *)
THEOREM HostUpdateOutcome == HostSpec => []UpdateOutcome
<1>1. ClocksInStep => UpdateOutcome
  BY DEF ClocksInStep
<1> QED
  BY <1>1, ClocksAlways, PTL

-----------------------------------------------------------------------------
(* The reply                                                               *)

(* Numbers of which there is one have a least one.                         *)
LEMMA LeastExists ==
  ASSUME NEW S \in SUBSET Nat, S # {}
  PROVE  Min(S) \in S /\ \A x \in S : Min(S) <= x
<1>1. PICK x \in S : \A y \in S : ~(<<y, x>> \in OpToRel(<, Nat))
  BY WFMin, NatLessThanWellFounded
<1>2. ASSUME NEW y \in S, y < x
      PROVE  <<y, x>> \in OpToRel(<, Nat)
  <2>1. <<y, x>> \in Nat \X Nat /\ <<y, x>>[1] < <<y, x>>[2]
    BY <1>2
  <2> QED
    BY <2>1, Zenon DEF OpToRel
<1>3. \A y \in S : ~(y < x)
  BY <1>1, <1>2, Zenon
<1>4. \A y \in S : x <= y
  BY <1>3
<1> QED
  BY <1>4 DEF Min

(* d is the first "Date: " of the text, and l tokens on is the first end   *)
(* of a line after it.                                                     *)
DateAt(text, d, l) ==
  /\ d \in 1 .. Len(text) /\ text[d] = DATE
  /\ \A i \in 1 .. d - 1 : text[i] # DATE
  /\ l \in 1 .. Len(text) - d /\ text[d + l] = CRLF
  /\ \A i \in 1 .. l - 1 : text[d + i] # CRLF

(* DateField gives those l tokens, or nothing.                             *)
LEMMA DateParts ==
  ASSUME NEW text \in Seq(Token)
  PROVE  /\ \A d, l \in Nat : DateAt(text, d, l) =>
              /\ DateField(text) \in Seq(Token) /\ Len(DateField(text)) = l
              /\ \A i \in 1 .. l : DateField(text)[i] = text[d + i]
         /\ DateField(text) = <<>> \/ \E d, l \in Nat : DateAt(text, d, l)
<1> DEFINE n == Len(text)
           D == {i \in 1 .. Len(text) : text[i] = DATE}
           date == IF D # {} THEN Min(D) ELSE 0
           rest == SubSeq(text, date + 1, Len(text))
           L == {i \in 1 .. Len(rest) : rest[i] = CRLF}
           line == IF L # {} THEN Min(L) ELSE 0
<1>1. DateField(text) = IF date = 0 \/ line = 0 THEN <<>> ELSE SubSeq(rest, 1, line)
  BY DEF DateField, SelectInSeq
<1>2. n \in Nat /\ \A i \in 1 .. n : text[i] \in Token
  BY LenProperties
<1>a. D \in SUBSET Nat /\ \A i : i \in D <=> i \in 1 .. n /\ text[i] = DATE
  OBVIOUS
<1>b. \A i : i \in L <=> i \in 1 .. Len(rest) /\ rest[i] = CRLF
  OBVIOUS
<1> HIDE DEF n, D, L
<1>3. D # {} => Min(D) \in D /\ \A i \in D : Min(D) <= i
  BY <1>a, LeastExists
<1>4. /\ date \in Nat /\ date <= n
      /\ date # 0 => date \in D
      /\ \A i \in D : date # 0 /\ date <= i
  BY <1>2, <1>3, <1>a
<1> HIDE DEF date
<1>c. date \in Nat /\ date <= n /\ n \in Nat /\ date + 1 \in Int
  BY <1>2, <1>4
<1>5. /\ rest \in Seq(Token) /\ Len(rest) = n - date
      /\ \A i \in 1 .. n - date : rest[i] = text[date + i]
  <2>1. \A i \in date + 1 .. n : text[i] \in Token
    <3>1. \A i \in date + 1 .. n : i \in 1 .. n
      BY <1>c
    <3> QED
      BY <1>2, <3>1
  <2>2. /\ rest \in Seq(Token)
        /\ Len(rest) = IF date + 1 <= n THEN n - (date + 1) + 1 ELSE 0
        /\ \A i \in 1 .. n - (date + 1) + 1 : rest[i] = text[(date + 1) + i - 1]
    BY <1>c, <2>1, SubSeqProperties DEF n
  <2>3. n - (date + 1) + 1 = n - date
    BY <1>c
  <2>4. Len(rest) = n - date
    BY <1>c, <2>2
  <2>5. \A i \in 1 .. n - date : (date + 1) + i - 1 = date + i
    BY <1>c
  <2> QED
    BY <2>2, <2>3, <2>4, <2>5
<1> HIDE DEF rest
<1>d. \A i : i \in L <=> i \in 1 .. n - date /\ text[date + i] = CRLF
  BY <1>5, <1>b
<1>e. L \in SUBSET Nat
  BY <1>c, <1>d
<1>6. L # {} => Min(L) \in L /\ \A i \in L : Min(L) <= i
  BY <1>e, LeastExists
<1>7. /\ line \in Nat
      /\ line # 0 => line \in L
      /\ \A i \in L : line # 0 /\ line <= i
  BY <1>6, <1>d, <1>c
<1> HIDE DEF line
<1>8. ASSUME NEW d \in Nat, NEW l \in Nat, DateAt(text, d, l)
      PROVE  /\ DateField(text) \in Seq(Token) /\ Len(DateField(text)) = l
             /\ \A i \in 1 .. l : DateField(text)[i] = text[d + i]
  <2>0. /\ d \in 1 .. n /\ text[d] = DATE
        /\ \A i \in 1 .. d - 1 : text[i] # DATE
        /\ l \in 1 .. n - d /\ text[d + l] = CRLF
        /\ \A i \in 1 .. l - 1 : text[d + i] # CRLF
    BY <1>8 DEF DateAt, n
  <2>1. date = d
    <3>1. d \in D
      BY <2>0, <1>a
    <3>2. date \in 1 .. n /\ text[date] = DATE /\ date <= d
      BY <1>a, <1>4, <3>1
    <3>3. ~(date < d)
      BY <1>c, <2>0, <3>2
    <3> QED
      BY <3>2, <3>3
  <2>2. line = l
    <3>1. l \in L
      BY <1>d, <2>0, <2>1
    <3>2. line \in 1 .. n - date /\ text[date + line] = CRLF /\ line <= l
      BY <1>7, <1>d, <3>1
    <3>3. ~(line < l)
      BY <1>c, <2>0, <2>1, <3>2
    <3> QED
      BY <1>c, <3>2, <3>3
  <2>3. DateField(text) = SubSeq(rest, 1, l)
    BY <1>1, <2>0, <2>1, <2>2
  <2>4. \A i \in 1 .. l : i \in 1 .. n - d /\ d + i \in 1 .. n
    BY <1>c, <2>0
  <2>5. \A i \in 1 .. l : rest[i] = text[d + i] /\ rest[i] \in Token
    BY <1>2, <1>5, <2>1, <2>4
  <2>6. /\ SubSeq(rest, 1, l) \in Seq(Token)
        /\ Len(SubSeq(rest, 1, l)) = IF 1 <= l THEN l - 1 + 1 ELSE 0
        /\ \A i \in 1 .. l - 1 + 1 : SubSeq(rest, 1, l)[i] = rest[1 + i - 1]
    BY <2>5, SubSeqProperties
  <2>7. l - 1 + 1 = l /\ 1 <= l /\ \A i \in 1 .. l : 1 + i - 1 = i
    BY <2>0
  <2> QED
    BY <2>3, <2>5, <2>6, <2>7
<1>9. ASSUME DateField(text) # <<>> PROVE \E d, l \in Nat : DateAt(text, d, l)
  <2>1. date \in D /\ line \in L
    BY <1>1, <1>4, <1>7, <1>9
  <2>2. /\ date \in 1 .. n /\ text[date] = DATE
        /\ line \in 1 .. n - date /\ text[date + line] = CRLF
    BY <1>a, <1>d, <2>1
  <2>3. \A i \in 1 .. date - 1 : text[i] # DATE
    <3>1. \A i \in 1 .. date - 1 : i \in 1 .. n /\ ~(date <= i)
      BY <1>c
    <3> QED
      BY <1>4, <1>a, <3>1
  <2>4. \A i \in 1 .. line - 1 : text[date + i] # CRLF
    <3>1. \A i \in 1 .. line - 1 : i \in 1 .. n - date /\ ~(line <= i)
      BY <1>c, <2>2
    <3> QED
      BY <1>7, <1>d, <3>1
  <2>5. DateAt(text, date, line)
    BY <2>2, <2>3, <2>4 DEF DateAt, n
  <2> QED
    BY <1>4, <1>7, <2>5
<1> QED
  BY <1>8, <1>9

(* A prefix of the reply.                                                  *)
LEMMA TextParts ==
  ASSUME reply \in Seq(Token), NEW n \in 0 .. Len(reply)
  PROVE  /\ Text(n) \in Seq(Token) /\ Len(Text(n)) = n
         /\ \A i \in 1 .. n : Text(n)[i] = reply[i]
         /\ n \in Nat /\ Len(reply) \in Nat
<1>1. n \in Nat /\ Len(reply) \in Nat /\ \A i \in 1 .. n : reply[i] \in Token
  BY LenProperties
<1>2. /\ SubSeq(reply, 1, n) \in Seq(Token)
      /\ Len(SubSeq(reply, 1, n)) = IF 1 <= n THEN n - 1 + 1 ELSE 0
      /\ \A i \in 1 .. n - 1 + 1 : SubSeq(reply, 1, n)[i] = reply[1 + i - 1]
  BY <1>1, SubSeqProperties
<1>3. n - 1 + 1 = n /\ (~(1 <= n) => n = 0) /\ \A i \in 1 .. n : 1 + i - 1 = i
  BY <1>1
<1> QED
  BY <1>1, <1>2, <1>3 DEF Text

(* The same of the first n tokens of the reply.                            *)
DateIn(n, d, l) ==
  /\ d \in 1 .. n /\ reply[d] = DATE
  /\ \A i \in 1 .. d - 1 : reply[i] # DATE
  /\ l \in 1 .. n - d /\ reply[d + l] = CRLF
  /\ \A i \in 1 .. l - 1 : reply[d + i] # CRLF

(* A date in a prefix, in terms of the reply.                              *)
LEMMA DateInReply ==
  ASSUME reply \in Seq(Token), NEW n \in 0 .. Len(reply), NEW d \in Nat, NEW l \in Nat
  PROVE  DateAt(Text(n), d, l) <=> DateIn(n, d, l)
<1>1. /\ Len(Text(n)) = n /\ n \in Nat
      /\ \A i \in 1 .. n : Text(n)[i] = reply[i]
  BY TextParts
<1>2. SUFFICES ASSUME d \in 1 .. n, l \in 1 .. n - d
               PROVE  DateAt(Text(n), d, l) <=>
                        /\ reply[d] = DATE
                        /\ \A i \in 1 .. d - 1 : reply[i] # DATE
                        /\ reply[d + l] = CRLF
                        /\ \A i \in 1 .. l - 1 : reply[d + i] # CRLF
  BY <1>1 DEF DateAt, DateIn
<1>3. /\ \A i \in 1 .. d - 1 : i \in 1 .. n
      /\ d + l \in 1 .. n
      /\ \A i \in 1 .. l - 1 : d + i \in 1 .. n
  BY <1>1, <1>2
<1>4. /\ Text(n)[d] = reply[d]
      /\ \A i \in 1 .. d - 1 : Text(n)[i] = reply[i]
      /\ Text(n)[d + l] = reply[d + l]
      /\ \A i \in 1 .. l - 1 : Text(n)[d + i] = reply[d + i]
  BY <1>1, <1>2, <1>3
<1> QED
  BY <1>1, <1>2, <1>4 DEF DateAt

(* n tokens are what the loop of the exchange reads: the buffer is full or *)
(* has the whole head.                                                     *)
Whole(n) == n \in 1 .. Min({Len(reply), Cap}) /\ (n = Cap \/ HeadEnds(0, n))

(* The lesser of two numbers.                                              *)
LEMMA LesserOfTwo ==
  ASSUME NEW a \in Nat, NEW b \in Nat
  PROVE  Min({a, b}) \in Nat /\ Min({a, b}) <= a /\ Min({a, b}) <= b /\ Min({a, b}) \in {a, b}
<1>1. {a, b} \in SUBSET Nat /\ {a, b} # {}
  OBVIOUS
<1>2. Min({a, b}) \in {a, b} /\ \A x \in {a, b} : Min({a, b}) <= x
  BY <1>1, LeastExists
<1> QED
  BY <1>2

(* In a tidy reply what comes after the head changes no verdict.           *)
LEMMA VerdictSame ==
  ASSUME reply \in Seq(Token), Tidy, NEW m, NEW n, Whole(m), Whole(n), m <= n
  PROVE  Verdict(m) = Verdict(n)
<1>1. /\ Cap \in Nat /\ Len(reply) \in Nat
      /\ m \in Nat /\ n \in Nat /\ m >= 1 /\ n <= Len(reply) /\ n <= Cap
  <2>1. Cap \in Nat /\ Len(reply) \in Nat
    BY RlTimeAssumption, LenProperties
  <2>2. Min({Len(reply), Cap}) \in Nat /\ Min({Len(reply), Cap}) <= Len(reply)
        /\ Min({Len(reply), Cap}) <= Cap
    BY <2>1, LesserOfTwo
  <2>3. m \in 1 .. Min({Len(reply), Cap}) /\ n \in 1 .. Min({Len(reply), Cap})
    BY DEF Whole
  <2> QED
    BY <2>1, <2>2, <2>3
<1>2. CASE m = Cap
  BY <1>1, <1>2
<1>3. CASE m # Cap
  <2>1. PICK j \in 1 .. m - 1 : reply[j] = CRLF /\ reply[j + 1] = CRLF
    BY <1>3 DEF Whole, HeadEnds
  <2>2. DATE # CRLF
    BY Zenon DEF DATE, CRLF
  <2>3. DOMAIN reply = 1 .. Len(reply)
    BY LenProperties
  <2>4. ASSUME NEW i \in 1 .. n, reply[i] = DATE PROVE i < j
    <3>1. i \in DOMAIN reply
      BY <1>1, <2>3
    <3>2. \A k \in 1 .. i - 1 : ~(reply[k] = CRLF /\ k + 1 < i /\ reply[k + 1] = CRLF)
      BY <2>4, <3>1 DEF Tidy
    <3>3. ~(j + 1 < i)
      BY <1>1, <2>1, <3>2
    <3>4. i # j /\ i # j + 1
      BY <2>1, <2>2, <2>4
    <3> QED
      BY <1>1, <3>3, <3>4
  <2>a. m \in 0 .. Len(reply) /\ n \in 0 .. Len(reply)
    BY <1>1
  <2>5. /\ Text(m) \in Seq(Token) /\ Len(Text(m)) = m
        /\ \A i \in 1 .. m : Text(m)[i] = reply[i]
        /\ Text(n) \in Seq(Token) /\ Len(Text(n)) = n
        /\ \A i \in 1 .. n : Text(n)[i] = reply[i]
    BY <2>a, TextParts
  <2>6. m # 1 /\ n # 1
    BY <1>1, <2>1
  <2>7. ASSUME NEW d \in Nat, NEW l \in Nat
        PROVE  DateAt(Text(m), d, l) <=> DateAt(Text(n), d, l)
    <3>1. DateIn(m, d, l) => DateIn(n, d, l)
      BY <1>1 DEF DateIn
    <3>2. ASSUME DateIn(n, d, l) PROVE DateIn(m, d, l)
      <4>1. d < j
        BY <2>4, <3>2 DEF DateIn
      <4>2. d + l <= j
        <5>1. j - d \in Nat /\ d + (j - d) = j
          BY <1>1, <4>1
        <5>2. j - d \notin 1 .. l - 1
          BY <2>1, <3>2, <5>1 DEF DateIn
        <5> QED
          BY <1>1, <4>1, <5>1, <5>2
      <4>3. d \in 1 .. m /\ l \in 1 .. m - d
        BY <1>1, <3>2, <4>1, <4>2 DEF DateIn
      <4> QED
        BY <3>2, <4>3 DEF DateIn
    <3> QED
      BY <2>a, <3>1, <3>2, DateInReply
  <2>8. DateField(Text(m)) = DateField(Text(n))
    <3>1. CASE \E d, l \in Nat : DateAt(Text(m), d, l)
      <4>1. PICK d \in Nat, l \in Nat : DateAt(Text(m), d, l) /\ DateAt(Text(n), d, l)
        BY <2>7, <3>1
      <4>2. /\ DateField(Text(m)) \in Seq(Token) /\ Len(DateField(Text(m))) = l
            /\ \A i \in 1 .. l : DateField(Text(m))[i] = Text(m)[d + i]
        BY <2>5, <4>1, DateParts
      <4>3. /\ DateField(Text(n)) \in Seq(Token) /\ Len(DateField(Text(n))) = l
            /\ \A i \in 1 .. l : DateField(Text(n))[i] = Text(n)[d + i]
        BY <2>5, <4>1, DateParts
      <4>4. ASSUME NEW i \in 1 .. l PROVE Text(m)[d + i] = Text(n)[d + i]
        <5>1. d \in 1 .. m /\ l \in 1 .. m - d
          BY <2>5, <4>1 DEF DateAt
        <5>2. d + i \in 1 .. m /\ d + i \in 1 .. n
          BY <1>1, <5>1
        <5> QED
          BY <2>5, <5>2
      <4> QED
        BY <4>2, <4>3, <4>4, SeqEqual
    <3>2. CASE ~\E d, l \in Nat : DateAt(Text(m), d, l)
      BY <2>5, <2>7, <3>2, DateParts
    <3> QED
      BY <3>1, <3>2
  <2> QED
    BY <2>6, <2>8 DEF Verdict
<1> QED
  BY <1>2, <1>3

(* So the pieces in which a tidy reply comes do not matter.                *)
LEMMA Judged ==
  ASSUME reply \in Seq(Token)
  PROVE  /\ Tidy => \A n : Whole(n) => Judgement = Verdict(n)
         /\ (\A n : ~Whole(n)) => Judgement = [ret |-> RL_FALSE, tm |-> past.tm]
<1> DEFINE W == {n \in 1 .. Min({Len(reply), Cap}) :
                   n = Cap \/ \E i \in 1 .. n - 1 : reply[i] = CRLF /\ reply[i + 1] = CRLF}
<1>1. Judgement = IF W = {} THEN [ret |-> RL_FALSE, tm |-> past.tm] ELSE Verdict(Min(W))
  BY DEF Judgement
<1>2. \A n : n \in W <=> Whole(n)
  BY DEF Whole, HeadEnds
<1>3. W \in SUBSET Nat
  BY RlTimeAssumption, LesserOfTwo, LenProperties
<1> HIDE DEF W
<1>4. ASSUME Tidy, NEW n, Whole(n) PROVE Judgement = Verdict(n)
  <2>1. W # {} /\ Whole(Min(W)) /\ Min(W) <= n
    BY <1>2, <1>3, <1>4, LeastExists
  <2> QED
    BY <1>1, <1>4, <2>1, VerdictSame
<1> QED
  BY <1>1, <1>2, <1>4

(* What check_status makes of what it has: of a tidy reply, the truth.     *)
LEMMA StatusIs ==
  ASSUME reply \in Seq(Token), NEW n \in 1 .. Len(reply)
  PROVE  /\ StatusOK(Text(n)) => Is200 \/ \E i \in 1 .. n : reply[i] = OK /\ i # 2
         /\ Tidy => (StatusOK(Text(n)) <=> n # 1 /\ Is200)
<1>1. Len(reply) \in Nat /\ n \in Nat /\ 1 <= n /\ n <= Len(reply) /\ n \in 0 .. Len(reply)
  BY LenProperties
<1>2. /\ Text(n) \in Seq(Token) /\ Len(Text(n)) = n
      /\ \A i \in 1 .. n : Text(n)[i] = reply[i]
  BY <1>1, TextParts
<1>3. Text(n) # <<>> /\ Head(Text(n)) = reply[1]
  BY <1>1, <1>2
<1>4. Contains(Text(n), OK) <=> \E i \in 1 .. n : reply[i] = OK
  BY <1>2 DEF Contains
<1>5. StatusOK(Text(n)) <=> reply[1] = HTTP /\ \E i \in 1 .. n : reply[i] = OK
  BY <1>3, <1>4 DEF StatusOK
<1>6. ASSUME NEW i \in 1 .. n, reply[i] = OK, reply[1] = HTTP
      PROVE  Is200 \/ i # 2
  BY <1>1, <1>6 DEF Is200
<1>7. ASSUME Tidy
      PROVE  StatusOK(Text(n)) <=> n # 1 /\ Is200
  <2>1. \A i \in 1 .. n : reply[i] = OK => i = 2
    <3>1. DOMAIN reply = 1 .. Len(reply)
      BY LenProperties
    <3>2. \A i \in 1 .. n : i \in DOMAIN reply
      BY <1>1, <3>1
    <3> QED
      BY <1>7, <3>2 DEF Tidy
  <2>2. n # 1 => 2 \in 1 .. n
    BY <1>1
  <2>3. 2 \in 1 .. n => n # 1 /\ Len(reply) >= 2
    BY <1>1
  <2> QED
    BY <1>5, <2>1, <2>2, <2>3 DEF Is200
<1> QED
  BY <1>5, <1>6, <1>7

(* What a call that knows its answer says of the reply: ReplyDecides.      *)
Told ==
  /\ reply # NoReply /\ ~past.fault /\ got > 0 /\ Tidy =>
       [ret |-> tret, tm |-> tm] = Judgement
  /\ tm # past.tm =>
       /\ Is200 \/ Deceptive
       /\ \/ tret = RL_SUCCESS /\ tm \in ToSet(Text(got))
          \/ tret = RL_FAILED /\ tm = "partial" /\ DateField(Text(got)) # <<>>

BeforeReply == {"rcvtimeo", "sndtimeo", "getaddrinfo", "connect", "send"}

(* tm is as the call found it until the date has been read. The loop goes  *)
(* on as long as neither the buffer is full nor the head is whole, and     *)
(* ends as soon as one of them is.                                         *)
ReplyInv ==
  /\ DOMAIN past = {"tm", "clock", "rtc", "fault"}
  /\ tpc \in {"set_clock", "set_rtc"} => tfn # "server"
  /\ reply \in Seq(Token)
  /\ tpc \in BeforeReply => got = 0
  /\ tpc \in BeforeReply \cup {"recv", "status", "date"} => tm = past.tm
  /\ tpc = "recv" => got \in 0 .. Len(reply) /\ got < Cap /\ ~HeadEnds(0, got)
  /\ tpc \in {"status", "date"} => Whole(got)
  /\ tpc = "date" => StatusOK(Text(got))
  /\ tpc = "close" \/ (tpc = "idle" /\ tfn = "server") => Told

(* An answer that is known before anything has come.                       *)
LEMMA ToldNothing ==
  ASSUME got' = 0, tm' = past'.tm
  PROVE  Told'
BY DEF Told

(* The judgement is a matter of the reply and of tm before the call.       *)
LEMMA JudgementStays ==
  ASSUME UNCHANGED <<reply, past>>
  PROVE  Judgement' = Judgement /\ (Tidy' <=> Tidy)
<1>1. \A n : Text(n)' = Text(n)
  BY DEF Text
<1>2. \A n : Verdict(n)' = Verdict(n)
  BY <1>1 DEF Verdict, Is200
<1> QED
  BY <1>2 DEF Judgement, Tidy

(* Nothing has come at program start.                                      *)
LEMMA ReplyInit == TimeInit => ReplyInv
BY DEF TimeInit, ReplyInv, BeforeReply, Told, NoReply

(* The steps up to the request.                                            *)
LEMMA ReplyBefore ==
  ASSUME ReplyInv,
         \/ rl_get_time_from_server
         \/ prepare("rcvtimeo", "sndtimeo") \/ prepare("sndtimeo", "getaddrinfo")
         \/ prepare("getaddrinfo", "connect")
         \/ connect_server \/ send_request
  PROVE  ReplyInv'
<1>0. NoReply \in Seq(Token)
  BY DEF NoReply
<1>1. CASE rl_get_time_from_server
  <2>1. /\ reply' = NoReply /\ got' = 0 /\ tm' = past'.tm
        /\ tpc' \in {"idle", "rcvtimeo"}
        /\ DOMAIN past' = {"tm", "clock", "rtc", "fault"}
    BY <1>1 DEF rl_get_time_from_server, Begin
  <2> QED
    BY <1>0, <2>1, ToldNothing DEF ReplyInv, BeforeReply
<1>2. ASSUME NEW from \in BeforeReply, NEW v, Answer(from, v), UNCHANGED tm
      PROVE  ReplyInv'
  <2>1. got = 0 /\ tm = past.tm
    BY <1>2 DEF Answer, ReplyInv
  <2>2. tpc' = "close" /\ UNCHANGED <<reply, got, tm, past>>
    BY <1>2 DEF Answer, exchange
  <2> QED
    BY <2>1, <2>2, ToldNothing DEF ReplyInv, BeforeReply
<1>3. ASSUME NEW from \in BeforeReply, NEW to \in BeforeReply,
             Continue(from, to), UNCHANGED <<got, past>>, reply' \in Seq(Token)
      PROVE  ReplyInv'
  BY <1>3 DEF Continue, ReplyInv, BeforeReply
<1>4. CASE send_request
  <2>1. CASE Continue("send", "recv") /\ UNCHANGED <<reply, got, past>>
    <3>1. /\ tpc' = "recv" /\ UNCHANGED <<reply, got, past, tm>>
          /\ reply \in Seq(Token) /\ got = 0 /\ tm = past.tm
      BY <2>1 DEF Continue, ReplyInv, BeforeReply
    <3>2. Len(reply) \in Nat /\ 0 < Cap
      BY <3>1, RlTimeAssumption, LenProperties
    <3>3. ~HeadEnds(0, got)'
      BY <3>1 DEF HeadEnds
    <3> QED
      BY <3>1, <3>2, <3>3 DEF ReplyInv, BeforeReply
  <2> QED
    BY <1>2, <1>4, <2>1 DEF send_request, BeforeReply
<1>5. CASE connect_server
  <2>1. \A r \in Replies : r \in Seq(Token)
    BY RlTimeAssumption
  <2> QED
    BY <1>2, <1>3, <1>5, <2>1 DEF connect_server, BeforeReply
<1>6. CASE \/ prepare("rcvtimeo", "sndtimeo") \/ prepare("sndtimeo", "getaddrinfo")
           \/ prepare("getaddrinfo", "connect")
  <2>1. reply \in Seq(Token)
    BY DEF ReplyInv
  <2> QED
    BY <1>2, <1>3, <1>6, <2>1 DEF prepare, BeforeReply
<1> QED
  BY <1>1, <1>4, <1>5, <1>6

(* The loop that reads the head.                                           *)
LEMMA ReplyLoop ==
  ASSUME ReplyInv, recv_piece \/ recv_end \/ recv_fails
  PROVE  ReplyInv'
<1>0. /\ DOMAIN past = {"tm", "clock", "rtc", "fault"}
      /\ tpc = "recv" /\ reply \in Seq(Token) /\ tm = past.tm
      /\ got \in 0 .. Len(reply) /\ got < Cap /\ ~HeadEnds(0, got)
      /\ Len(reply) \in Nat /\ Cap \in Nat
  <2>1. tpc = "recv"
    BY DEF recv_piece, recv_end, recv_fails, Continue, Answer
  <2> QED
    BY <2>1, RlTimeAssumption, LenProperties DEF ReplyInv
<1>a. /\ Min({Len(reply), Cap}) \in Nat
      /\ Min({Len(reply), Cap}) <= Len(reply) /\ Min({Len(reply), Cap}) <= Cap
      /\ Min({Len(reply), Cap}) \in {Len(reply), Cap}
  BY <1>0, LesserOfTwo
<1>1. CASE recv_piece
  <2>1. PICK n \in got + 1 .. Min({Len(reply), Cap}) :
          /\ tpc' = IF n >= Cap \/ HeadEnds(got, n) THEN "status" ELSE "recv"
          /\ got' = n /\ UNCHANGED <<reply, past, tm>>
    BY <1>1 DEF recv_piece, Continue
  <2>2. n \in 1 .. Min({Len(reply), Cap}) /\ n \in 0 .. Len(reply) /\ n \in Nat
    BY <1>0, <1>a, <2>1
  <2>3. HeadEnds(got, n) <=> HeadEnds(0, n)
    BY DEF HeadEnds
  <2>4. CASE n >= Cap \/ HeadEnds(got, n)
    <3>1. n = Cap \/ HeadEnds(0, n)
      BY <1>0, <1>a, <2>2, <2>3, <2>4
    <3>2. Whole(n)
      BY <2>2, <3>1 DEF Whole
    <3>3. Whole(got)'
      BY <2>1, <3>2 DEF Whole, HeadEnds
    <3> QED
      BY <1>0, <2>1, <2>4, <3>3 DEF ReplyInv, BeforeReply
  <2>5. CASE ~(n >= Cap \/ HeadEnds(got, n))
    <3>1. ~HeadEnds(0, got)'
      BY <2>1, <2>3, <2>5 DEF HeadEnds
    <3>2. got' < Cap
      BY <1>0, <2>1, <2>2, <2>5
    <3>3. got' \in 0 .. Len(reply')
      BY <2>1, <2>2
    <3> QED
      BY <1>0, <2>1, <2>5, <3>1, <3>2, <3>3 DEF ReplyInv, BeforeReply
  <2> QED
    BY <2>4, <2>5
<1>2. CASE recv_end
  <2>1. /\ got = Len(reply) /\ tpc' = "close" /\ tret' = RL_FALSE
        /\ UNCHANGED <<reply, got, past, tm>>
    BY <1>2 DEF recv_end, Answer, exchange
  <2>2. ASSUME NEW n, Whole(n) PROVE FALSE
    <3>1. n \in 1 .. Min({Len(reply), Cap}) /\ (n = Cap \/ HeadEnds(0, n))
      BY <2>2 DEF Whole
    <3>2. n \in Nat /\ n <= got /\ n # Cap
      BY <1>0, <1>a, <2>1, <3>1
    <3>3. PICK i \in 1 .. n - 1 : reply[i] = CRLF /\ reply[i + 1] = CRLF
      BY <3>1, <3>2 DEF HeadEnds
    <3>4. i \in 1 .. got - 1
      BY <1>0, <3>2, <3>3
    <3> QED
      BY <1>0, <3>3, <3>4 DEF HeadEnds
  <2>3. Judgement' = [ret |-> RL_FALSE, tm |-> past.tm]
    BY <1>0, <2>1, <2>2, Judged, JudgementStays
  <2>4. Told'
    BY <1>0, <2>1, <2>3 DEF Told
  <2> QED
    BY <1>0, <2>1, <2>4 DEF ReplyInv, BeforeReply
<1>3. CASE recv_fails
  <2>1. /\ tpc' = "close" /\ UNCHANGED <<reply, got, tm>>
        /\ past'.fault = TRUE /\ past'.tm = past.tm /\ DOMAIN past' = DOMAIN past
    <3>1. /\ tpc' = "close" /\ UNCHANGED <<reply, got, tm>>
          /\ past' = [past EXCEPT !.fault = TRUE]
      BY <1>3 DEF recv_fails, exchange
    <3> QED
      BY <1>0, <3>1
  <2>2. Told'
    BY <1>0, <2>1 DEF Told
  <2> QED
    BY <1>0, <2>1, <2>2 DEF ReplyInv, BeforeReply
<1> QED
  BY <1>1, <1>2, <1>3

(* The answer from the head that has been read.                            *)
LEMMA ReplyAnswer ==
  ASSUME ReplyInv, check_status \/ read_date
  PROVE  ReplyInv'
<1>1. /\ DOMAIN past = {"tm", "clock", "rtc", "fault"}
      /\ tpc \in {"status", "date"} /\ reply \in Seq(Token) /\ tm = past.tm /\ Whole(got)
      /\ UNCHANGED <<reply, got, past>>
  <2>1. tpc \in {"status", "date"} /\ UNCHANGED <<reply, got, past>>
    BY DEF check_status, read_date, Continue, Answer, exchange
  <2> QED
    BY <2>1 DEF ReplyInv
<1>2. Tidy' => Judgement' = Verdict(got)
  BY <1>1, Judged, JudgementStays
<1>4. got \in 1 .. Len(reply) /\ got \in 0 .. Len(reply) /\ Len(reply) \in Nat
  <2>1. Len(reply) \in Nat /\ Cap \in Nat
    BY <1>1, RlTimeAssumption, LenProperties
  <2>2. got \in 1 .. Min({Len(reply), Cap})
    BY <1>1 DEF Whole
  <2> QED
    BY <2>1, <2>2, LesserOfTwo
<1>5. /\ Text(got) \in Seq(Token) /\ Len(Text(got)) = got
      /\ \A i \in 1 .. got : Text(got)[i] = reply[i]
  BY <1>1, <1>4, TextParts
<1>8. Tidy => (StatusOK(Text(got)) <=> got # 1 /\ Is200)
  BY <1>1, <1>4, StatusIs
<1>3. ASSUME tpc' = "close", Tidy => [ret |-> tret', tm |-> tm'] = Verdict(got),
             tm' # past.tm =>
               /\ StatusOK(Text(got))
               /\ \/ tret' = RL_SUCCESS /\ tm' \in ToSet(Text(got))
                  \/ tret' = RL_FAILED /\ tm' = "partial" /\ DateField(Text(got)) # <<>>
      PROVE  ReplyInv'
  <2>1. Text(got)' = Text(got) /\ (Tidy' <=> Tidy)
    BY <1>1, JudgementStays DEF Text
  <2>a. StatusOK(Text(got)) => (Is200 \/ Deceptive)'
    BY <1>1, <1>4, StatusIs DEF Is200, Deceptive
  <2>2. Told'
    BY <1>1, <1>2, <1>3, <2>1, <2>a DEF Told
  <2> QED
    BY <1>1, <1>3, <2>2 DEF ReplyInv, BeforeReply
<1>6. CASE check_status
  <2>1. CASE StatusOK(Text(got)) /\ Continue("status", "date") /\ UNCHANGED <<reply, got, past>>
    <3>1. tpc' = "date" /\ tm' = tm
      BY <2>1 DEF Continue
    <3>2. Whole(got)' /\ StatusOK(Text(got))'
      BY <1>1, <2>1 DEF Whole, HeadEnds, Text
    <3> QED
      BY <1>1, <3>1, <3>2 DEF ReplyInv, BeforeReply
  <2>2. CASE ~StatusOK(Text(got)) /\ Answer("status", RL_FALSE) /\ UNCHANGED tm
    <3>1. Tidy => Verdict(got) = [ret |-> RL_FALSE, tm |-> past.tm]
      BY <1>8, <2>2 DEF Verdict
    <3> QED
      BY <1>1, <1>3, <2>2, <3>1 DEF Answer
  <2> QED
    BY <1>6, <2>1, <2>2 DEF check_status
<1>7. CASE read_date
  <2> DEFINE field == DateField(Text(got))
  <2>1. StatusOK(Text(got))
    BY <1>7 DEF read_date, Answer, ReplyInv
  <2>2. ~Readable(<<>>)
    BY DEF Readable
  <2>3. CASE field = <<>> /\ Answer("date", RL_FAILED) /\ UNCHANGED tm
    <3>1. Tidy => Verdict(got) = [ret |-> RL_FAILED, tm |-> past.tm]
      BY <1>8, <2>1, <2>2, <2>3 DEF Verdict
    <3> QED
      BY <1>1, <1>3, <2>3, <3>1 DEF Answer
  <2>4. CASE Readable(field) /\ Answer("date", RL_SUCCESS) /\ tm' = field[1]
    <3>1. Tidy => Verdict(got) = [ret |-> RL_SUCCESS, tm |-> field[1]]
      BY <1>8, <2>1, <2>2, <2>4 DEF Verdict
    <3>2. field[1] \in ToSet(Text(got))
      <4>1. field # <<>> /\ Len(field) = 2
        BY <2>2, <2>4 DEF Readable
      <4>2. PICK d \in Nat, l \in Nat : DateAt(Text(got), d, l)
        BY <1>5, <4>1, DateParts
      <4>3. Len(field) = l /\ \A i \in 1 .. l : field[i] = Text(got)[d + i]
        BY <1>5, <4>2, DateParts
      <4>4. field[1] = Text(got)[d + 1]
        BY <4>1, <4>3
      <4>5. d \in 1 .. got /\ l \in 1 .. got - d
        BY <1>5, <4>2 DEF DateAt
      <4>6. d + 1 \in 1 .. got
        BY <1>4, <4>1, <4>3, <4>5
      <4>7. DOMAIN Text(got) = 1 .. got
        BY <1>5, LenProperties
      <4> QED
        BY <4>4, <4>6, <4>7 DEF ToSet
    <3>4. tpc' = "close" /\ tret' = RL_SUCCESS /\ tm' = field[1]
      BY <2>4 DEF Answer
    <3> QED
      BY <1>3, <2>1, <3>1, <3>2, <3>4
  <2>5. CASE field # <<>> /\ ~Readable(field) /\ Answer("date", RL_FAILED) /\ tm' = "partial"
    <3>1. Tidy => Verdict(got) = [ret |-> RL_FAILED, tm |-> "partial"]
      BY <1>8, <2>1, <2>5 DEF Verdict
    <3> QED
      BY <1>3, <2>1, <2>5, <3>1 DEF Answer
  <2> QED
    BY <1>7, <2>3, <2>4, <2>5 DEF read_date
<1> QED
  BY <1>6, <1>7

(* Told is a matter of what it speaks of.                                  *)
LEMMA ToldStays ==
  ASSUME Told, UNCHANGED <<reply, got, tm, tret, past>>
  PROVE  Told'
<1>1. Judgement' = Judgement /\ (Tidy' <=> Tidy)
  BY JudgementStays
<1>2. Text(got)' = Text(got) /\ Is200' = Is200 /\ Deceptive' = Deceptive
  BY DEF Text, Is200, Deceptive
<1> QED
  BY <1>1, <1>2 DEF Told

(* The steps of rltime keep ReplyInv.                                      *)
LEMMA ReplyNext ==
  ASSUME ReplyInv, ExchangeNext \/ ClockNext
  PROVE  ReplyInv'
<1>1. CASE close_socket
  <2>1. /\ tpc = "close" /\ tpc' = "idle"
        /\ UNCHANGED <<reply, got, tm, tret, past>>
    BY <1>1 DEF close_socket
  <2> QED
    BY <2>1, ToldStays DEF ReplyInv, BeforeReply
<1>2. CASE ClockNext
  <2>1. /\ tpc' \in {"idle", "set_clock", "set_rtc"} /\ UNCHANGED reply
        /\ tfn' # "server"
        /\ DOMAIN past' = {"tm", "clock", "rtc", "fault"}
    <3>1. CASE ClockCall
      BY <1>2, <3>1 DEF ClockCall, rl_update_sys_time, rl_set_timezone, rl_get_time,
                        rl_get_time_stamp, LocalTime, Begin, exchange
    <3>2. CASE ClockStep
      BY <3>2 DEF ClockStep, set_clock, set_rtc, Command, exchange, ReplyInv
    <3> QED
      BY <1>2, <3>1, <3>2 DEF ClockNext
  <2> QED
    BY <2>1 DEF ReplyInv, BeforeReply
<1> QED
  BY <1>1, <1>2, ReplyBefore, ReplyLoop, ReplyAnswer
     DEF ExchangeNext, ExchangeCall, ExchangeStep, TimeWait

(* The invariant of the exchange holds always.                             *)
LEMMA ReplyAlways == HostSpec => []ReplyInv
<1>1. HostInit => ReplyInv
  BY ReplyInit DEF HostInit
<1>2. ASSUME ReplyInv, [HostNext]_hostvars PROVE ReplyInv'
  <2>1. CASE ExchangeNext \/ ClockNext
    BY <1>2, <2>1, ReplyNext
  <2>2. CASE UNCHANGED timevars
    <3>1. UNCHANGED <<tpc, tfn, reply, got, tm, tret, past>>
      BY <2>2 DEF timevars, exchange
    <3>2. Whole(got)' = Whole(got) /\ StatusOK(Text(got))' = StatusOK(Text(got))
          /\ HeadEnds(0, got)' = HeadEnds(0, got)
      BY <3>1 DEF Whole, HeadEnds, Text
    <3> QED
      BY <1>2, <3>1, <3>2, ToldStays DEF ReplyInv
  <2> QED
    BY <1>2, <2>1, <2>2
       DEF HostNext, hostvars, probe, fetch, set, usage, files, paths, OtherThreads
<1> QED
  BY <1>1, <1>2, PTL DEF HostSpec

(* For any replies, a buffer of any size and any pieces: what an exchange  *)
(* answers and leaves in tm depends on a tidy reply alone, which succeeds  *)
(* only as a 200. Whatever comes and fails, tm changes only to a date in   *)
(* what has been received, or to half of one with RL_FAILED, and only for  *)
(* a 200 or for a reply with the words "200 OK" outside its status line.   *)
THEOREM HostReplyDecides == HostSpec => []ReplyDecides
<1>1. ReplyInv => ReplyDecides
  BY DEF ReplyInv, Told, ReplyDecides, Returned
<1> QED
  BY <1>1, ReplyAlways, PTL

-----------------------------------------------------------------------------
(* The calendar                                                            *)

(* The parts of DateOf: the year, from March, of a day of the cycle of 400 *)
(* years, and the first day of a year.                                     *)
YearOf(doe) == (doe - doe \div 1460 + doe \div 36524 - doe \div 146096) \div 365
YearStart(yoe) == 365 * yoe + yoe \div 4 - yoe \div 100

(* A day of the cycle lies in its year.                                    *)
LEMMA YearFound ==
  ASSUME NEW doe \in Int, 0 <= doe, doe <= 146096
  PROVE  /\ 0 <= YearOf(doe) /\ YearOf(doe) <= 399 /\ YearOf(doe) \in Int
         /\ YearStart(YearOf(doe)) <= doe
         /\ doe < YearStart(YearOf(doe) + 1) \/ YearOf(doe) = 399
<1>1. CASE doe = 146096
  BY <1>1 DEF YearOf, YearStart
<1>2. CASE doe # 146096
  <2>1. PICK q \in Int : /\ 0 <= q /\ q <= 3 /\ 36524 * q <= doe /\ doe < 36524 * q + 36524
                         /\ doe \div 36524 = q
    BY <1>2
  <2>0. doe \div 146096 = 0
    BY <1>2
  <2>2. PICK a \in Int : 1460 * a <= doe /\ doe < 1460 * a + 1460 /\ doe \div 1460 = a
    OBVIOUS
  <2>3. PICK y \in Int : /\ 365 * y <= doe - a + q /\ doe - a + q < 365 * y + 365
                         /\ YearOf(doe) = y
    <3>1. YearOf(doe) = (doe - a + q) \div 365
      BY <2>0, <2>1, <2>2 DEF YearOf
    <3> QED
      BY <3>1
  <2>5. 100 * q <= y /\ y <= 100 * q + 99
    BY <2>1, <2>2, <2>3
  <2>6. PICK b \in Int : b = y \div 4 /\ 4 * b <= y /\ y < 4 * b + 4
    OBVIOUS
  <2>a. y \div 100 = q
    BY <2>1, <2>5
  <2>7. PICK f \in Int : f = (y + 1) \div 4 /\ 4 * f <= y + 1 /\ y + 1 < 4 * f + 4
    OBVIOUS
  <2>b. (y + 1) \div 100 = IF y = 100 * q + 99 THEN q + 1 ELSE q
    BY <2>1, <2>5
  <2>8. 365 * y + b - q <= doe
    BY <2>1, <2>2, <2>3, <2>5, <2>6
  <2>9. doe < 365 * (y + 1) + f - (IF y = 100 * q + 99 THEN q + 1 ELSE q) \/ y = 399
    BY <2>1, <2>2, <2>3, <2>5, <2>7
  <2> QED
    BY <2>1, <2>3, <2>5, <2>6, <2>7, <2>8, <2>9, <2>a, <2>b DEF YearStart
<1> QED
  BY <1>1, <1>2

(* The year from March has a leap day at its end.                          *)
LeapNext(yoe) == (yoe + 1) % 4 = 0 /\ ((yoe + 1) % 100 # 0 \/ yoe = 399)

(* A day of a year, counted in the cycle, is found in that year.           *)
LEMMA YearKept ==
  ASSUME NEW yoe \in Int, 0 <= yoe, yoe <= 399, NEW doy \in Int, 0 <= doy, doy <= 365,
         doy = 365 => LeapNext(yoe)
  PROVE  YearOf(YearStart(yoe) + doy) = yoe
BY SMTT(60) DEF YearOf, YearStart, LeapNext

(* The month of a day of the year, from March as 0, and the first day of a *)
(* month.                                                                  *)
MonthOf(doy) == (5 * doy + 2) \div 153
MonthStart(mp) == (153 * mp + 2) \div 5

(* A day of the year lies in its month.                                    *)
LEMMA MonthFound ==
  ASSUME NEW doy \in Int, 0 <= doy, doy <= 365
  PROVE  /\ MonthOf(doy) \in Int /\ 0 <= MonthOf(doy) /\ MonthOf(doy) <= 11
         /\ MonthStart(MonthOf(doy)) <= doy
         /\ doy < MonthStart(MonthOf(doy) + 1)
BY SMTT(60) DEF MonthOf, MonthStart

(* A day of a month, counted in the year, is found in that month.          *)
LEMMA MonthKept ==
  ASSUME NEW mp \in Int, 0 <= mp, mp <= 11, NEW e \in Int, 0 <= e,
         MonthStart(mp) + e < MonthStart(mp + 1)
  PROVE  MonthOf(MonthStart(mp) + e) = mp
BY SMTT(60) DEF MonthOf, MonthStart

(* The length of a month but the last, February.                           *)
MonthLength(mp) == MonthStart(mp + 1) - MonthStart(mp)

MonthAfterMarch(m) == (m + 9) % 12

(* The months from March and their lengths are those of days_in_month.     *)
LEMMA MonthDays ==
  ASSUME NEW y, NEW m \in 1 .. 12
  PROVE  /\ MonthAfterMarch(m) \in Int /\ 0 <= MonthAfterMarch(m) /\ MonthAfterMarch(m) <= 11
         /\ m = IF MonthAfterMarch(m) < 10 THEN MonthAfterMarch(m) + 3
                                           ELSE MonthAfterMarch(m) - 9
         /\ m # 2 => /\ MonthAfterMarch(m) # 11
                     /\ days_in_month(y)[m] = MonthLength(MonthAfterMarch(m))
         /\ m = 2 => MonthAfterMarch(m) = 11
                     /\ days_in_month(y)[m] = IF Leap(y) THEN 29 ELSE 28
<1>1. m \in {1, 2, 3, 4, 5, 6, 7, 8, 9, 10, 11, 12}
  OBVIOUS
<1> QED
  BY <1>1 DEF MonthAfterMarch, days_in_month, MonthLength, MonthStart

(* The first days of the months lie within the year.                       *)
LEMMA MonthStarts ==
  ASSUME NEW mp \in Int, 0 <= mp, mp <= 11
  PROVE  /\ MonthStart(mp) \in Nat /\ MonthStart(mp + 1) <= 367 /\ MonthStart(11) = 337
         /\ mp # 11 => MonthStart(mp + 1) <= 337
         /\ MonthStart(mp + 1) \in Int
         /\ MonthLength(mp) \in Int /\ 1 <= MonthLength(mp) /\ MonthLength(mp) <= 31
BY DEF MonthLength, MonthStart

(* The year in which a year from March ends is a leap year if it has the   *)
(* leap day; and then it is a day longer.                                  *)
LEMMA LeapAt ==
  ASSUME NEW yoe \in Int, 0 <= yoe, yoe <= 399, NEW k \in Int
  PROVE  /\ Leap(yoe + 400 * k + 1) <=> LeapNext(yoe)
         /\ YearStart(yoe) \in Nat /\ YearStart(yoe) <= 146096 - 365
         /\ yoe < 399 => YearStart(yoe + 1) = YearStart(yoe) + (IF LeapNext(yoe) THEN 366 ELSE 365)
<1> DEFINE y == yoe + 400 * k + 1
<1>1. y % 4 = (yoe + 1) % 4 /\ y % 100 = (yoe + 1) % 100
  OBVIOUS
<1>2. y % 400 = 0 <=> yoe = 399
  OBVIOUS
<1>3. (yoe + 1) % 400 = 0 <=> yoe = 399
  OBVIOUS
<1>4. Leap(y) <=> LeapNext(yoe)
  BY <1>1, <1>2 DEF Leap, LeapNext
<1>5. YearStart(yoe) \in Nat /\ YearStart(yoe) <= 146096 - 365
  BY DEF YearStart
<1>6. (yoe + 1) \div 4 = yoe \div 4 + (IF (yoe + 1) % 4 = 0 THEN 1 ELSE 0)
  OBVIOUS
<1>7. (yoe + 1) \div 100 = yoe \div 100 + (IF (yoe + 1) % 100 = 0 THEN 1 ELSE 0)
  OBVIOUS
<1>8. (yoe + 1) % 100 = 0 => (yoe + 1) % 4 = 0
  OBVIOUS
<1> QED
  BY <1>4, <1>5, <1>6, <1>7, <1>8 DEF YearStart, LeapNext

(* The parts of DateOf(n).                                                 *)
DayOfCycle(n) == n % 146097
DayOfYear(n)  == DayOfCycle(n) - YearStart(YearOf(DayOfCycle(n)))
MonthFromMarch(n)     == MonthOf(DayOfYear(n))
Month(n)      == IF MonthFromMarch(n) < 10 THEN MonthFromMarch(n) + 3 ELSE MonthFromMarch(n) - 9

(* DateOf in terms of its parts.                                           *)
LEMMA DateByParts ==
  ASSUME NEW n \in Int
  PROVE  DateOf(n) = <<YearOf(DayOfCycle(n)) + (n \div 146097) * 400
                         + (IF Month(n) <= 2 THEN 1 ELSE 0), Month(n),
                       DayOfYear(n) - MonthStart(MonthFromMarch(n)) + 1>>
BY DEF DateOf, YearOf, YearStart, MonthOf, MonthStart, DayOfCycle, DayOfYear, MonthFromMarch, Month

(* The date of a number is one that exists.                                *)
LEMMA DatesExist ==
  ASSUME NEW n \in Int, NEW y \in Int, NEW m \in 1 .. 12, NEW d \in Int,
         DateOf(n) = <<y, m, d>>
  PROVE  d \in 1 .. days_in_month(y)[m]
<1>1. PICK doe \in Int : doe = n % 146097 /\ 0 <= doe /\ doe <= 146096
  OBVIOUS
<1>2. PICK yoe \in Int : /\ yoe = YearOf(doe) /\ 0 <= yoe /\ yoe <= 399
                         /\ YearStart(yoe) <= doe
                         /\ doe < YearStart(yoe + 1) \/ yoe = 399
  BY <1>1, YearFound
<1>3. PICK k \in Int : k = n \div 146097
  OBVIOUS
<1>4. /\ Leap(yoe + 400 * k + 1) <=> LeapNext(yoe)
      /\ YearStart(yoe) \in Nat
      /\ yoe < 399 => YearStart(yoe + 1)
                        = YearStart(yoe) + (IF LeapNext(yoe) THEN 366 ELSE 365)
  <2>1. yoe + 400 * k + 1 \in Int
    BY <1>2, <1>3
  <2> QED
    BY <1>2, <1>3, <2>1, LeapAt
<1>5. YearStart(399) = 146096 - 365
  BY DEF YearStart
<1>6. LeapNext(399)
  BY DEF LeapNext
<1>7. PICK doy \in Int : /\ doy = doe - YearStart(yoe) /\ 0 <= doy /\ doy <= 365
                         /\ doy = 365 => Leap(yoe + 400 * k + 1)
  <2>1. CASE yoe = 399
    BY <1>1, <1>2, <1>4, <1>5, <1>6, <2>1
  <2>2. CASE yoe # 399
    BY <1>1, <1>2, <1>4, <2>2
  <2> QED
    BY <2>1, <2>2
<1>8. PICK mp \in Int : /\ 0 <= mp /\ mp <= 11 /\ mp = MonthOf(doy) /\ MonthStart(mp) <= doy
                            /\ doy < MonthStart(mp + 1)
  BY <1>7, MonthFound
<1>9. /\ m = IF mp < 10 THEN mp + 3 ELSE mp - 9
      /\ y = yoe + k * 400 + (IF m <= 2 THEN 1 ELSE 0)
      /\ d = doy - MonthStart(mp) + 1
  <2>1. /\ DayOfCycle(n) = doe /\ YearOf(DayOfCycle(n)) = yoe /\ DayOfYear(n) = doy
        /\ MonthFromMarch(n) = mp /\ n \div 146097 = k
        /\ Month(n) = IF mp < 10 THEN mp + 3 ELSE mp - 9
    BY <1>1, <1>2, <1>3, <1>7, <1>8 DEF DayOfCycle, DayOfYear, MonthFromMarch, Month
  <2>2. /\ y = YearOf(DayOfCycle(n)) + (n \div 146097) * 400 + (IF Month(n) <= 2 THEN 1 ELSE 0)
        /\ m = Month(n) /\ d = DayOfYear(n) - MonthStart(MonthFromMarch(n)) + 1
    BY DateByParts
  <2> QED
    BY <2>1, <2>2
<1>a. mp = MonthAfterMarch(m)
  <2>2. CASE mp < 10
    <3>1. (mp + 3 + 9) % 12 = mp
      BY <1>8, <2>2
    <3> QED
      BY <1>9, <2>2, <3>1 DEF MonthAfterMarch
  <2>3. CASE ~(mp < 10)
    <3>1. (mp - 9 + 9) % 12 = mp
      BY <1>8, <2>3
    <3> QED
      BY <1>9, <2>3, <3>1 DEF MonthAfterMarch
  <2> QED
    BY <2>2, <2>3
<1>b. MonthStart(mp) \in Nat /\ MonthStart(mp + 1) \in Int /\ MonthStart(11) = 337
  BY <1>8, MonthStarts
<1>c. CASE m = 2
  <2>1. mp = 11 /\ days_in_month(y)[m] = IF Leap(y) THEN 29 ELSE 28
    BY <1>a, <1>c, MonthDays
  <2>2. y = yoe + 400 * k + 1
    BY <1>2, <1>3, <1>9, <1>c
  <2>3. d = doy - 336 /\ 337 <= doy
    BY <1>b, <1>7, <1>8, <1>9, <2>1
  <2>4. 1 <= d /\ d <= 29 /\ (d = 29 => Leap(y))
    BY <1>7, <2>2, <2>3
  <2> QED
    BY <2>1, <2>4
<1>d. CASE m # 2
  <2>1. days_in_month(y)[m] = MonthLength(mp)
    BY <1>a, <1>d, MonthDays
  <2>2. 1 <= d /\ d <= MonthStart(mp + 1) - MonthStart(mp)
    BY <1>7, <1>8, <1>9, <1>b
  <2> QED
    BY <1>b, <2>1, <2>2 DEF MonthLength
<1> QED
  BY <1>c, <1>d

(* A date that exists is the date of its number.                           *)
LEMMA DateFound ==
  ASSUME NEW y \in Nat, NEW m \in 1 .. 12, NEW d \in Int, d \in 1 .. days_in_month(y)[m]
  PROVE  DateOf(DayNumber(y, m, d)) = <<y, m, d>>
<1>1. PICK yy \in Int : yy = IF m <= 2 THEN y - 1 ELSE y
  OBVIOUS
<1>2. PICK k \in Int, yoe \in Int :
        /\ k = yy \div 400 /\ yoe = yy % 400
        /\ 0 <= yoe /\ yoe <= 399 /\ yy = 400 * k + yoe
  OBVIOUS
<1>2a. k \in Int /\ yoe \in Int /\ 0 <= yoe /\ yoe <= 399 /\ yy = 400 * k + yoe
  BY <1>2
<1>2b. k \in Int /\ yoe \in Int /\ 0 <= yoe /\ yoe <= 399
  BY <1>2
<1>3. PICK mp \in Int : 0 <= mp /\ mp <= 11 /\ mp = MonthAfterMarch(m)
  BY MonthDays
<1>4. /\ m = IF mp < 10 THEN mp + 3 ELSE mp - 9
      /\ m # 2 => mp # 11 /\ days_in_month(y)[m] = MonthLength(mp)
      /\ m = 2 => mp = 11 /\ days_in_month(y)[m] = IF Leap(y) THEN 29 ELSE 28
  BY <1>3, MonthDays
<1>5. /\ MonthStart(mp) \in Nat /\ MonthStart(mp + 1) <= 367 /\ MonthStart(11) = 337
      /\ mp # 11 => MonthStart(mp + 1) <= 337
      /\ MonthStart(mp + 1) \in Int /\ (mp = 11 => MonthStart(mp + 1) = 367)
  <2>1. MonthStart(12) = 367 /\ (mp = 11 => mp + 1 = 12)
    BY DEF MonthStart
  <2> QED
    BY <1>3, <2>1, MonthStarts
<1>6. d \in Int /\ 1 <= d /\ d <= MonthLength(mp) /\ (mp = 11 => d <= 29 /\ (d = 29 => Leap(y)))
  <2>1. CASE m = 2
    BY <1>4, <1>5, <2>1 DEF MonthLength
  <2>2. CASE m # 2
    BY <1>4, <1>5, <2>2
  <2> QED
    BY <2>1, <2>2
<1>7. PICK doy \in Int : doy = MonthStart(mp) + d - 1
  BY <1>5
<1>8. 0 <= doy /\ doy <= 365 /\ doy < MonthStart(mp + 1)
  <2>1. 0 <= doy /\ doy < MonthStart(mp + 1)
    BY <1>5, <1>6, <1>7 DEF MonthLength
  <2>2. CASE mp = 11
    BY <1>5, <1>6, <1>7, <2>1, <2>2
  <2>3. CASE mp # 11
    BY <1>5, <2>1, <2>3
  <2> QED
    BY <2>1, <2>2, <2>3
<1>9. doy = 365 => m = 2 /\ Leap(y)
  BY <1>4, <1>5, <1>6, <1>7, <1>8
<1>a. /\ Leap(yoe + 400 * k + 1) <=> LeapNext(yoe)
      /\ YearStart(yoe) \in Nat /\ YearStart(yoe) <= 146096 - 365
  BY <1>2b, LeapAt
<1>b. doy = 365 => LeapNext(yoe)
  <2>1. m = 2 => y = yoe + 400 * k + 1
    BY <1>1, <1>2
  <2> QED
    BY <1>9, <1>a, <2>1
<1>c. YearOf(YearStart(yoe) + doy) = yoe
  BY <1>2a, <1>8, <1>b, YearKept
<1>d. MonthOf(doy) = mp
  <2>1. PICK e \in Int : e = d - 1 /\ 0 <= e
    BY <1>6
  <2>2. doy = MonthStart(mp) + e
    BY <1>5, <1>6, <1>7, <2>1
  <2> QED
    BY <1>3, <1>8, <2>1, <2>2, MonthKept
<1> DEFINE doe == YearStart(yoe) + doy
           n == DayNumber(y, m, d)
<1>e. doe \in Int /\ 0 <= doe /\ doe <= 146096
  BY <1>8, <1>a
<1>f. n = k * 146097 + doe
  <2>1. n = (yy \div 400) * 146097 + (yy % 400) * 365 + (yy % 400) \div 4
              - (yy % 400) \div 100 + (MonthStart(MonthAfterMarch(m)) + d - 1)
    BY <1>1 DEF DayNumber, MonthStart, MonthAfterMarch
  <2>2. n = k * 146097 + yoe * 365 + yoe \div 4 - yoe \div 100 + (MonthStart(mp) + d - 1)
    BY <1>2, <1>3, <2>1
  <2>3. yoe * 365 + yoe \div 4 - yoe \div 100 = YearStart(yoe)
    BY DEF YearStart
  <2>4. yoe \div 4 \in Int /\ yoe \div 100 \in Int
    OBVIOUS
  <2>5. n = k * 146097 + YearStart(yoe) + (MonthStart(mp) + d - 1)
    BY <2>2, <2>3, <2>4, <1>5, <1>6
  <2> QED
    BY <1>5, <1>6, <1>7, <1>a, <2>5 DEF doe
<1> HIDE DEF doe, n
<1>g. n \in Int /\ n % 146097 = doe /\ n \div 146097 = k
  BY <1>e, <1>f
<1>h. doe - YearStart(yoe) = doy /\ YearOf(doe) = yoe
  BY <1>a, <1>c DEF doe
<1>i. DateOf(n) = <<yoe + k * 400 + (IF m <= 2 THEN 1 ELSE 0), m, doy - MonthStart(mp) + 1>>
  <2>1. /\ DayOfCycle(n) = doe /\ YearOf(DayOfCycle(n)) = yoe /\ DayOfYear(n) = doy
        /\ MonthFromMarch(n) = mp /\ n \div 146097 = k /\ Month(n) = m
    BY <1>4, <1>d, <1>g, <1>h DEF DayOfCycle, DayOfYear, MonthFromMarch, Month
  <2>2. DateOf(n) = <<YearOf(DayOfCycle(n)) + (n \div 146097) * 400
                         + (IF Month(n) <= 2 THEN 1 ELSE 0), Month(n),
                       DayOfYear(n) - MonthStart(MonthFromMarch(n)) + 1>>
    <3>1. n \in Int
      BY <1>g
    <3> QED
      BY <3>1, DateByParts
  <2> QED
    BY <2>1, <2>2
<1>j. yoe + k * 400 + (IF m <= 2 THEN 1 ELSE 0) = y
  BY <1>1, <1>2a
<1>k. doy - MonthStart(mp) + 1 = d
  BY <1>5, <1>6, <1>7
<1> QED
  BY <1>i, <1>j, <1>k DEF n

(* The date of a request exists.                                           *)
Exists(r) ==
  /\ r.year \in 1970 .. 2200
  /\ r.mon \in 1 .. 12
  /\ DateOf(DayNumber(r.year, r.mon, r.day)) = <<r.year, r.mon, r.day>>
  /\ r.hour * 3600 + r.min * 60 + r.sec < 86400
  /\ r.min < 60 /\ r.sec < 60

(* The date of a request exists exactly when the calendar gives it back.   *)
LEMMA AcceptedExact ==
  ASSUME NEW r \in Request
  PROVE  Accepted(r) <=> Exists(r)
<1>1. PICK y \in Nat, m \in Nat, d \in Nat, h \in Nat, i \in Nat, s \in Nat :
        r.year = y /\ r.mon = m /\ r.day = d /\ r.hour = h /\ r.min = i /\ r.sec = s
  BY DEF Request
<1>2. (h <= 23 /\ i <= 59 /\ s <= 59) <=> (h * 3600 + i * 60 + s < 86400 /\ i < 60 /\ s < 60)
  OBVIOUS
<1>3. ASSUME m \in 1 .. 12
      PROVE  d \in 1 .. days_in_month(y)[m] <=> DateOf(DayNumber(y, m, d)) = <<y, m, d>>
  <2>1. DayNumber(y, m, d) \in Int
    BY <1>3 DEF DayNumber
  <2>2. y \in Int /\ d \in Int
    OBVIOUS
  <2>3. DateOf(DayNumber(y, m, d)) = <<y, m, d>> => d \in 1 .. days_in_month(y)[m]
    BY <1>3, <2>1, <2>2, DatesExist
  <2>4. d \in 1 .. days_in_month(y)[m] => DateOf(DayNumber(y, m, d)) = <<y, m, d>>
    BY <1>3, <2>2, DateFound
  <2> QED
    BY <2>3, <2>4
<1>4. Accepted(r) <=> /\ y \in 1970 .. 2200 /\ m \in 1 .. 12
                       /\ d \in 1 .. days_in_month(y)[m]
                       /\ h <= 23 /\ i <= 59 /\ s <= 59
  BY <1>1, SMT DEF Accepted
<1> QED
  BY <1>1, <1>2, <1>3, <1>4, SMT DEF Exists

(* An update is under way, or has started a command.                       *)
Taken == tpc \in {"set_clock", "set_rtc"} \/ cmds # <<>>

(* The verdict on a date does not change while the commands run.           *)
CalendarInv ==
  tfn = "update" => asked \in Request /\ (Taken <=> Accepted(asked))

(* The steps of rltime keep it.                                            *)
LEMMA CalendarNext ==
  ASSUME ClocksInStep, CalendarInv, ExchangeNext \/ ClockNext
  PROVE  CalendarInv'
<1>1. CASE rl_update_sys_time
  <2>1. asked' \in Request
    BY <1>1, RlTimeAssumption DEF rl_update_sys_time
  <2>2. tpc = "idle" /\ cmds' = <<>>
    BY <1>1 DEF rl_update_sys_time, Begin
  <2>3. Taken' <=> Accepted(asked')
    BY <1>1, <2>2 DEF rl_update_sys_time, Taken
  <2>4. Accepted(asked)' <=> Accepted(asked')
    BY DEF Accepted
  <2> QED
    BY <2>1, <2>3, <2>4 DEF CalendarInv
<1>2. CASE rl_set_timezone \/ rl_get_time \/ rl_get_time_stamp
  <2>1. tfn' # "update"
    BY <1>2 DEF rl_set_timezone, rl_get_time, rl_get_time_stamp, LocalTime, Begin
  <2> QED
    BY <2>1 DEF CalendarInv
<1>3. CASE set_clock \/ set_rtc
  <2>1. PICK c \in Outcomes :
          /\ tpc = "set_clock" \/ tpc = "set_rtc"
          /\ cmds' = Append(cmds, c) /\ UNCHANGED <<tfn, asked>>
    BY <1>3, Zenon DEF set_clock, set_rtc, Command
  <2>2. cmds \in Seq(Outcomes)
    <3>1. CASE tpc = "set_clock"
      <4>1. cmds = <<>>
        BY <3>1 DEF ClocksInStep
      <4> QED
        BY <4>1
    <3>2. CASE tpc = "set_rtc"
      BY <3>2 DEF ClocksInStep
    <3> QED
      BY <2>1, <3>1, <3>2
  <2>3. cmds' # <<>>
    BY <2>1, <2>2
  <2>4. Taken /\ Taken'
    BY <2>1, <2>3 DEF Taken
  <2>5. Accepted(asked)' <=> Accepted(asked)
    BY <2>1 DEF Accepted
  <2> QED
    BY <2>1, <2>4, <2>5 DEF CalendarInv
<1>4. CASE ExchangeNext
  <2>1. tfn' = "server" \/ (tpc \notin {"idle", "set_clock", "set_rtc"} /\ tfn' = tfn)
    BY <1>4 DEF ExchangeNext, ExchangeCall, ExchangeStep, TimeWait, rl_get_time_from_server,
                Begin, prepare, send_request, connect_server, recv_piece, recv_end,
                recv_fails, check_status, read_date, close_socket, Continue, Answer
  <2>2. tfn' = "server"
    BY <2>1 DEF ClocksInStep
  <2> QED
    BY <2>2 DEF CalendarInv
<1> QED
  BY <1>1, <1>2, <1>3, <1>4 DEF ClockNext, ClockCall, ClockStep

(* For every date of every year: rl_update_sys_time takes it exactly when  *)
(* it exists, between 1970 and 2200, and else starts no command.           *)
THEOREM HostCalendarExact == HostSpec => []CalendarExact
<1>1. HostInit => CalendarInv
  BY DEF HostInit, TimeInit, CalendarInv
<1>2. ASSUME ClocksInStep, CalendarInv, [HostNext]_hostvars PROVE CalendarInv'
  <2>1. ExchangeNext \/ ClockNext \/ UNCHANGED timevars
    BY <1>2 DEF HostNext, hostvars, probe, fetch, set, usage, files, paths, OtherThreads
  <2>2. CASE UNCHANGED timevars
    BY <1>2, <2>2 DEF CalendarInv, Taken, Accepted, timevars, clocks
  <2> QED
    BY <1>2, <2>1, <2>2, CalendarNext
<1>3. CalendarInv => CalendarExact
  <2>1. CalendarExact <=> (tfn = "update" => (Taken <=> Exists(asked)))
    BY SMT DEF CalendarExact, Taken, Exists
  <2> QED
    BY <2>1, AcceptedExact DEF CalendarInv
<1> QED
  BY <1>1, <1>2, <1>3, ClocksAlways, PTL DEF HostSpec
=============================================================================
