------------------------------- MODULE RlHost -------------------------------
(***************************************************************************)
(* The components that use descriptors in one process. A thread of the     *)
(* host does one kind of work with the library, its job, call after call;  *)
(* the other threads open and close files meanwhile, in the same table.    *)
(***************************************************************************)
EXTENDS RlEth, RlTime, RlSys

VARIABLE job

hostvars == <<fdtab, ethvars, timevars, sysvars, job>>

Jobs == {"probe", "fetch", "clock", "usage", "files", "paths"}

HostTypeOK == FdTypeOK /\ EthTypeOK /\ TimeTypeOK /\ SysTypeOK /\ job \in Jobs

(* What a job does not look at starts in one way only.                     *)
HostInit ==
  /\ job \in Jobs
  /\ FdInit /\ EthInit /\ TimeInit /\ SysInit
  /\ job # "probe" => link
  /\ job # "usage" => machine.busy = 0
  /\ job # "paths" => exe = CHOOSE p \in Exes : TRUE

OtherThreads ==
  (host_opens \/ host_closes) /\ UNCHANGED <<ethvars, timevars, sysvars>>

probe == EthNext /\ UNCHANGED <<timevars, sysvars>>
fetch == ExchangeNext /\ UNCHANGED <<ethvars, sysvars>>
set   == ClockNext /\ UNCHANGED <<ethvars, sysvars>>
usage == UsageNext /\ UNCHANGED <<ethvars, timevars>>
files == FileNext /\ UNCHANGED <<ethvars, timevars>>
paths == PathNext /\ UNCHANGED <<ethvars, timevars>>

HostNext ==
  /\ UNCHANGED job
  /\ \/ job = "probe" /\ (probe \/ OtherThreads)
     \/ job = "fetch" /\ (fetch \/ OtherThreads)
     \/ job = "clock" /\ set
     \/ job = "usage" /\ usage
     \/ job = "files" /\ files
     \/ job = "paths" /\ paths

HostSpec == HostInit /\ [][HostNext]_hostvars

(* A call under way goes on whenever it can; a wait without a time limit   *)
(* is left to the peer. No call need begin, and nothing outside need happen. *)
FairHostSpec ==
  /\ HostSpec
  /\ WF_hostvars(job = "probe" /\ EthStep /\ UNCHANGED <<timevars, sysvars, job>>)
  /\ WF_hostvars(/\ job = "fetch"
                 /\ ExchangeStep \/ (tlimit /\ TimeWait)
                 /\ UNCHANGED <<ethvars, sysvars, job>>)

-----------------------------------------------------------------------------
(* Properties                                                              *)

(* Every call owns exactly the descriptor it is working with and none when *)
(* it has returned: no early return forgets its close, and no descriptor   *)
(* is closed twice, when its number may already be the host's.             *)
DescriptorsBalanced == ProbeDescriptors /\ ExchangeDescriptors /\ ReaderDescriptors

(* A call under way ends, if the waits in it have a time limit.            *)
CallsEnd == ProbeEnds /\ ExchangeEnds
=============================================================================
