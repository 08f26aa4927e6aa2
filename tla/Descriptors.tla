---------------------------- MODULE Descriptors ----------------------------
(***************************************************************************)
(* The descriptor table of the host process: which numbers are open, and   *)
(* who opened them. The components that open sockets and files share it    *)
(* with the host, whose other threads open and close files at any time.    *)
(***************************************************************************)
EXTENDS Integers, FiniteSets

CONSTANT Fds     (* the descriptor numbers the process may have *)

ASSUME DescriptorsAssumption == Fds \subseteq Nat /\ IsFiniteSet(Fds)

VARIABLE fdtab   (* the owner of each descriptor, "none" when it is closed *)

(* A call of rleth, of rltime, of rlsys; the rest of the host.             *)
Owners == {"rleth", "rltime", "rlsys", "host"}

FdTypeOK == fdtab \in [Fds -> Owners \cup {"none"}]

FdInit == fdtab = [d \in Fds |-> "none"]

OpenFds == {d \in Fds : fdtab[d] # "none"}

(* open, socket, opendir: the lowest number that is closed.                *)
Opened(who, d) ==
  /\ d \in Fds \ OpenFds
  /\ \A e \in Fds \ OpenFds : d <= e
  /\ fdtab' = [fdtab EXCEPT ![d] = who]

(* close of a number, whoever has it.                                      *)
Closed(d) == fdtab' = [fdtab EXCEPT ![d] = "none"]

host_opens  == \E d \in Fds : Opened("host", d)
host_closes == \E d \in Fds : fdtab[d] = "host" /\ Closed(d)
=============================================================================
