------------------------------- MODULE RlCmd -------------------------------
(***************************************************************************)
(* rlcmd: rl_system_100ms_ex runs a shell command in a child process, with *)
(* a timeout counted in polls of 100 ms and a number of retries.           *)
(*                                                                         *)
(* For the time of the call it ignores SIGINT and SIGQUIT and sets SIGCHLD *)
(* to its default. Dispositions belong to the process, so two threads in   *)
(* the function share them; the SIGCHLD mask belongs to the thread. Every  *)
(* system call is a step of its own, and the child runs beside the poll.   *)
(*                                                                         *)
(* Abstracted: the command, exit codes, log output, and signal numbers     *)
(* other than 1 (SIGHUP), whose negative is RL_FAILED. The loop variable i *)
(* is attempts - 1. A call with an empty command is a stuttering step, and so *)
(* is a poll of a running child without a timeout (the code spins).        *)
(***************************************************************************)
EXTENDS Integers

CONSTANTS
  Callers,    (* threads of the host that call the function                *)
  Timeouts,   (* values of timeout_count                                   *)
  Tries,      (* values of try_count                                       *)
  HostChld,   (* the host's dispositions of SIGCHLD: "dfl", "ign"          *)
  Failures    (* the failures that happen, a subset of FailureNames        *)

FailureNames == {"sig",    (* sigaction or sigprocmask fails               *)
                 "fork",   (* fork fails                                   *)
                 "kill",   (* kill is refused (EPERM)                      *)
                 "eintr"}  (* a signal interrupts the blocking waitpid     *)

ASSUME RlCmdAssumption ==
  /\ Timeouts \subseteq Int
  /\ Tries \subseteq Int
  /\ HostChld \subseteq {"dfl", "ign"}
  /\ Failures \subseteq FailureNames

VARIABLES
  tty,       (* dispositions of SIGINT and SIGQUIT: "host" or "ign"        *)
  chld,      (* disposition of SIGCHLD                                     *)
  host,      (* the SIGCHLD disposition the host has set                   *)
  exited,    (* the host process has ended itself                          *)
  mask,      (* per caller: SIGCHLD is blocked                             *)
  pc,        (* per caller: its next step                                  *)
  args,      (* per caller: timeout_count and try_count                    *)
  saved,     (* per caller: saveintr, savequit and old_handler             *)
  attempts,  (* per caller: children forked in this call                   *)
  left,      (* per caller: leftTime                                       *)
  retry,     (* per caller: needRetry                                      *)
  status,    (* per caller: what the macros find in status                 *)
  child,     (* per caller: the state of the current child                 *)
  ended,     (* history: how the last child of the call really ended       *)
  timeouts,  (* history: attempts of the call that their timeout stopped   *)
  strays,    (* per caller: the states of the children its calls have left *)
             (* unreaped (their number is left out)                        *)
  result     (* per caller: the value of its last call                     *)

signals == <<tty, chld, host>>
loop    == <<args, attempts, left, retry, status, child, ended, timeouts, strays>>
vars    == <<signals, exited, mask, pc, saved, loop, result>>

Tty == {"INT", "QUIT"}

(* How a process ends: it exits, or a signal ends it, SIGHUP or another.   *)
Endings == {"exit", "hup", "signal"}

TypeOK ==
  /\ tty \in [Tty -> {"host", "ign"}]
  /\ chld \in {"dfl", "ign"}
  /\ host \in {"dfl", "ign"}
  /\ exited \in BOOLEAN
  /\ mask \in [Callers -> BOOLEAN]
  /\ pc \in [Callers -> {"idle", "ignore_INT", "ignore_QUIT", "block", "default",
                         "loop", "poll", "sleep", "kill", "reap", "unblock",
                         "chld", "restore_INT", "restore_QUIT"}]
  /\ args \in [Callers -> [timeout : Timeouts \cup {0}, try : Tries \cup {0}]]
  /\ saved \in [Callers -> [INT  : {"host", "ign"}, QUIT : {"host", "ign"},
                            CHLD : {"dfl", "ign"}]]
  /\ attempts \in [Callers -> Nat]
  /\ left \in [Callers -> Int]
  /\ \A t \in Callers : pc[t] \in {"poll", "kill"} /\ args[t].timeout > 0
                          => left[t] \in 0 .. args[t].timeout
  /\ retry \in [Callers -> BOOLEAN]
  /\ status \in [Callers -> Endings \cup {"failed"}]
  /\ child \in [Callers -> Endings \cup {"none", "running", "dying", "gone"}]
  /\ ended \in [Callers -> Endings \cup {"none"}]
  /\ timeouts \in [Callers -> Nat]
  /\ strays \in [Callers -> SUBSET {"running", "dying", "zombie"}]
  /\ result \in [Callers -> {"none", "exit", "signal", "failed"}]

Init ==
  /\ tty = [s \in Tty |-> "host"]
  /\ host \in HostChld
  /\ chld = host
  /\ exited = FALSE
  /\ mask = [t \in Callers |-> FALSE]
  /\ pc = [t \in Callers |-> "idle"]
  /\ args = [t \in Callers |-> [timeout |-> 0, try |-> 0]]
  /\ saved = [t \in Callers |-> [INT |-> "host", QUIT |-> "host", CHLD |-> host]]
  /\ attempts = [t \in Callers |-> 0]
  /\ left = [t \in Callers |-> 0]
  /\ retry = [t \in Callers |-> FALSE]
  /\ status = [t \in Callers |-> "exit"]
  /\ child = [t \in Callers |-> "none"]
  /\ ended = [t \in Callers |-> "none"]
  /\ timeouts = [t \in Callers |-> 0]
  /\ strays = [t \in Callers |-> {}]
  /\ result = [t \in Callers |-> "none"]

Goto(t, from, to) ==
  /\ ~exited
  /\ pc[t] = from
  /\ pc' = [pc EXCEPT ![t] = to]

(* A sigaction or sigprocmask call fails: the function returns RL_FAILED    *)
(* and leaves the signals as they are.                                     *)
SigFails(t, from) ==
  /\ "sig" \in Failures
  /\ Goto(t, from, "idle")
  /\ result' = [result EXCEPT ![t] = "failed"]
  /\ UNCHANGED <<signals, exited, mask, saved, loop>>

-----------------------------------------------------------------------------
(* The signals are put aside                                               *)

(* status starts as RL_SUCCESS, which the macros read as an exit.          *)
rl_system_100ms_ex(t) ==
  /\ Goto(t, "idle", "ignore_INT")
  /\ \E n \in Timeouts, k \in Tries :
       args' = [args EXCEPT ![t] = [timeout |-> n, try |-> k]]
  /\ attempts' = [attempts EXCEPT ![t] = 0]
  /\ left' = [left EXCEPT ![t] = 0]
  /\ retry' = [retry EXCEPT ![t] = TRUE]
  /\ status' = [status EXCEPT ![t] = "exit"]
  /\ ended' = [ended EXCEPT ![t] = "none"]
  /\ timeouts' = [timeouts EXCEPT ![t] = 0]
  /\ result' = [result EXCEPT ![t] = "none"]
  /\ UNCHANGED <<signals, exited, mask, saved, child, strays>>

(* Mutant: SIGINT is ignored in both steps, SIGQUIT in none. *)
ignore_signal_twice(t, s, from, to) ==
  /\ Goto(t, from, to)
  /\ saved' = [saved EXCEPT ![t][s] = tty[s]]
  /\ tty' = [tty EXCEPT !["INT"] = "ign"]
  /\ UNCHANGED <<chld, host, exited, mask, loop, result>>

ignore_signal(t, s, from, to) ==
  \/ /\ Goto(t, from, to)
     /\ saved' = [saved EXCEPT ![t][s] = tty[s]]
     /\ tty' = [tty EXCEPT ![s] = "ign"]
     /\ UNCHANGED <<chld, host, exited, mask, loop, result>>
  \/ SigFails(t, from)

block_chld(t) ==
  \/ /\ Goto(t, "block", "default")
     /\ mask' = [mask EXCEPT ![t] = TRUE]
     /\ UNCHANGED <<signals, exited, saved, loop, result>>
  \/ SigFails(t, "block")

(* Mutant: SIGCHLD keeps the host's disposition. *)
default_chld_kept(t) ==
  /\ Goto(t, "default", "loop")
  /\ saved' = [saved EXCEPT ![t].CHLD = chld]
  /\ UNCHANGED <<signals, exited, mask, loop, result>>

default_chld(t) ==
  /\ Goto(t, "default", "loop")
  /\ saved' = [saved EXCEPT ![t].CHLD = chld]
  /\ chld' = "dfl"
  /\ UNCHANGED <<tty, host, exited, mask, loop, result>>

-----------------------------------------------------------------------------
(* The retry loop                                                          *)

(* Mutant: the loop starts at i = 0. *)
MoreTriesShort(t) == attempts[t] < args[t].try /\ retry[t]

(* i < try_count && needRetry                                              *)
MoreTries(t) == attempts[t] - 1 < args[t].try /\ retry[t]

fork_child(t) ==
  /\ MoreTries(t)
  /\ Goto(t, "loop", "poll")
  /\ attempts' = [attempts EXCEPT ![t] = @ + 1]
  /\ retry' = [retry EXCEPT ![t] = FALSE]
  /\ left' = [left EXCEPT ![t] = args[t].timeout]
  /\ child' = [child EXCEPT ![t] = "running"]
  /\ ended' = [ended EXCEPT ![t] = "none"]
  /\ UNCHANGED <<signals, exited, mask, saved, args, status, timeouts, strays,
                 result>>

(* fork failed: exit(EXIT_FAILURE) ends the host.                          *)
fork_fails(t) ==
  /\ "fork" \in Failures
  /\ MoreTries(t)
  /\ Goto(t, "loop", "loop")
  /\ exited' = TRUE
  /\ UNCHANGED <<signals, mask, saved, loop, result>>

loop_exit(t) ==
  /\ ~MoreTries(t)
  /\ Goto(t, "loop", "unblock")
  /\ UNCHANGED <<signals, exited, mask, saved, loop, result>>

(* What is left of a child in state s that nobody waits for.               *)
Stray(s) == {IF s \in Endings THEN "zombie" ELSE s} \ {"none", "gone"}

(* An iteration ends and leaves behind the children in lost.               *)
IterationDone(t, from, st, again, lost) ==
  /\ Goto(t, from, "loop")
  /\ status' = [status EXCEPT ![t] = st]
  /\ retry' = [retry EXCEPT ![t] = again]
  /\ child' = [child EXCEPT ![t] = "none"]
  /\ strays' = [strays EXCEPT ![t] = @ \cup lost]
  /\ UNCHANGED <<signals, exited, mask, saved, args, attempts, left, ended, result>>

(* Mutant: the child's status is not looked at once it has ended. *)
poll_child_blind(t) ==
  /\ child[t] \in Endings \cup {"gone"}
  /\ IterationDone(t, "poll", "exit", FALSE, {})
  /\ UNCHANGED timeouts

(* waitpid(WNOHANG): the child is reaped, or it is gone (ECHILD), or it    *)
(* still runs and the timeout counts.                                      *)
poll_child(t) ==
  \/ /\ child[t] \in Endings
     /\ IterationDone(t, "poll", child[t], FALSE, {})
     /\ UNCHANGED timeouts
  \/ /\ child[t] = "gone"
     /\ IterationDone(t, "poll", "failed", FALSE, {})
     /\ UNCHANGED timeouts
  \/ /\ child[t] = "running"
     /\ args[t].timeout > 0
     /\ Goto(t, "poll", "sleep")
     /\ UNCHANGED <<signals, exited, mask, saved, loop, result>>

(* Mutant: leftTime is not counted down. *)
sleep_uncounted(t) ==
  /\ Goto(t, "sleep", IF left[t] <= 0 THEN "kill" ELSE "poll")
  /\ UNCHANGED <<signals, exited, mask, saved, loop, result>>

(* Mutant: the timeout is missed by one. *)
sleep_late(t) ==
  /\ Goto(t, "sleep", IF left[t] < 0 THEN "kill" ELSE "poll")
  /\ left' = [left EXCEPT ![t] = @ - 1]
  /\ UNCHANGED <<signals, exited, mask, saved, args, attempts, retry, status,
                 child, ended, timeouts, strays, result>>

sleep_100ms(t) ==
  /\ Goto(t, "sleep", IF left[t] - 1 <= 0 THEN "kill" ELSE "poll")
  /\ left' = [left EXCEPT ![t] = @ - 1]
  /\ UNCHANGED <<signals, exited, mask, saved, args, attempts, retry, status,
                 child, ended, timeouts, strays, result>>

(* Mutant: nobody waits for the killed child. *)
kill_child_nowait(t) ==
  /\ IterationDone(t, "kill", "failed", TRUE,
                   Stray(IF child[t] = "running" THEN "dying" ELSE child[t]))
  /\ timeouts' = [timeouts EXCEPT ![t] = @ + 1]

(* The timeout has run out. kill succeeds on a child that runs or is a     *)
(* zombie; when it fails the child is left as it is: if it runs it goes    *)
(* on, beside a retry and after the call.                                  *)
kill_child(t) ==
  /\ timeouts' = [timeouts EXCEPT ![t] = @ + 1]
  /\ \/ /\ child[t] # "gone"
        /\ Goto(t, "kill", "reap")
        /\ child' = [child EXCEPT ![t] = IF @ = "running" THEN "dying" ELSE @]
        /\ UNCHANGED <<signals, exited, mask, saved, args, attempts, left, retry,
                       status, ended, strays, result>>
     \/ /\ child[t] = "gone" \/ "kill" \in Failures
        /\ IterationDone(t, "kill", "failed", TRUE, Stray(child[t]))

(* The blocking waitpid, whose result is not looked at.                    *)
reap_child(t) ==
  /\ \/ /\ child[t] \in Endings \cup {"gone"}
        /\ IterationDone(t, "reap", "failed", TRUE, {})
     \/ /\ child[t] = "dying" /\ "eintr" \in Failures
        /\ IterationDone(t, "reap", "failed", TRUE, Stray("dying"))
  /\ UNCHANGED timeouts

-----------------------------------------------------------------------------
(* The signals are restored                                                *)

unblock_chld(t) ==
  \/ /\ Goto(t, "unblock", "chld")
     /\ mask' = [mask EXCEPT ![t] = FALSE]
     /\ UNCHANGED <<signals, exited, saved, loop, result>>
  \/ SigFails(t, "unblock")

restore_chld(t) ==
  /\ Goto(t, "chld", "restore_INT")
  /\ chld' = saved[t].CHLD
  /\ UNCHANGED <<tty, host, exited, mask, saved, loop, result>>

restore_int(t) ==
  \/ /\ Goto(t, "restore_INT", "restore_QUIT")
     /\ tty' = [tty EXCEPT !["INT"] = saved[t].INT]
     /\ UNCHANGED <<chld, host, exited, mask, saved, loop, result>>
  \/ SigFails(t, "restore_INT")

(* The value read from status by the macros: an exit with any code is      *)
(* RL_SUCCESS, a signal its negative, the rest RL_FAILED, which is -1 and  *)
(* so also the negative of SIGHUP.                                         *)
Answer(st) == IF st = "hup" THEN "failed" ELSE st

(* Mutant: SIGQUIT is not restored. *)
restore_quit_ignored(t) ==
  /\ Goto(t, "restore_QUIT", "idle")
  /\ result' = [result EXCEPT ![t] = Answer(status[t])]
  /\ UNCHANGED <<signals, exited, mask, saved, loop>>

(* The last restore, and the return.                                       *)
restore_quit(t) ==
  \/ /\ Goto(t, "restore_QUIT", "idle")
     /\ tty' = [tty EXCEPT !["QUIT"] = saved[t].QUIT]
     /\ result' = [result EXCEPT ![t] = Answer(status[t])]
     /\ UNCHANGED <<chld, host, exited, mask, saved, loop>>
  \/ SigFails(t, "restore_QUIT")

-----------------------------------------------------------------------------
(* The child                                                               *)

(* It ends: a zombie, unless SIGCHLD is ignored at that moment, when the   *)
(* kernel reaps it.                                                        *)
Ends(t, how) ==
  /\ child' = [child EXCEPT ![t] = IF chld = "ign" THEN "gone" ELSE how]
  /\ ended' = [ended EXCEPT ![t] = how]
  /\ UNCHANGED <<signals, exited, mask, pc, saved, args, attempts, left, retry,
                 status, timeouts, strays, result>>

child_end(t) ==
  /\ ~exited
  /\ child[t] = "running"
  /\ \E how \in Endings : Ends(t, how)

(* SIGKILL takes effect.                                                   *)
child_die(t) == ~exited /\ child[t] = "dying" /\ Ends(t, "signal")

(* So does a child that was left behind; rest are others in its state.     *)
stray_end(t) ==
  /\ ~exited
  /\ \E s \in strays[t] \cap {"running", "dying"} : \E rest \in SUBSET {s} :
       strays' = [strays EXCEPT ![t] =
                    (@ \ {s}) \cup rest \cup (IF chld = "ign" THEN {} ELSE {"zombie"})]
  /\ UNCHANGED <<signals, exited, mask, pc, saved, args, attempts, left, retry,
                 status, child, ended, timeouts, result>>

Terminated == exited /\ UNCHANGED vars

Step(t) ==
  \/ ignore_signal(t, "INT", "ignore_INT", "ignore_QUIT")
  \/ ignore_signal(t, "QUIT", "ignore_QUIT", "block")
  \/ block_chld(t) \/ default_chld(t)
  \/ fork_child(t) \/ fork_fails(t) \/ loop_exit(t)
  \/ poll_child(t) \/ sleep_100ms(t) \/ kill_child(t) \/ reap_child(t)
  \/ unblock_chld(t) \/ restore_chld(t) \/ restore_int(t) \/ restore_quit(t)

Next ==
  \/ \E t \in Callers :
       rl_system_100ms_ex(t) \/ Step(t) \/ child_end(t) \/ child_die(t)
         \/ stray_end(t)
  \/ Terminated

Spec == Init /\ [][Next]_vars

(* The OS runs every thread, and a process that was sent SIGKILL dies.     *)
(* Nothing is assumed of the command.                                      *)
FairSpec ==
  Spec /\ \A t \in Callers : WF_vars(Step(t)) /\ WF_vars(child_die(t))

-----------------------------------------------------------------------------
(* Properties                                                              *)

Quiet == \A t \in Callers : pc[t] = "idle"

(* When no call is under way every disposition is the host's own again,    *)
(* and no thread has SIGCHLD blocked ("make sure the program responds to   *)
(* interrupts", says the comment at the restore).                          *)
SignalsRestored ==
  Quiet /\ ~exited => /\ tty = [s \in Tty |-> "host"]
                      /\ chld = host
                      /\ \A t \in Callers : ~mask[t]

(* The steps of a call with a child, and on its way out.                   *)
Forked  == {"poll", "sleep", "kill", "reap"}
Leaving == {"unblock", "chld", "restore_INT", "restore_QUIT"}

(* As long as the command of an attempt runs, neither SIGINT nor SIGQUIT   *)
(* reaches the host, and all through the retries after a refused kill, too *)
(* (past the loop a command that could not be killed runs on without).     *)
ProtectedWhileRunning ==
  \A t \in Callers :
    child[t] # "none" \/ ("running" \in strays[t] /\ pc[t] \in {"loop"} \cup Forked)
      => tty = [s \in Tty |-> "ign"]

(* The answer is RL_FAILED only for a command that was stopped by its      *)
(* timeout in the last attempt, or that died of SIGHUP: an end that the    *)
(* poll sees is never lost.                                                *)
FailedMeansTimeout ==
  \A t \in Callers : result[t] = "failed" => retry[t] \/ ended[t] = "hup"

(* The answer is RL_SUCCESS only if the last attempt's command exited.     *)
SuccessMeansRan == \A t \in Callers : result[t] = "exit" => ended[t] = "exit"

(* A finished call leaves no child behind, running or zombie.              *)
AllReaped == \A t \in Callers : pc[t] = "idle" => child[t] = "none" /\ strays[t] = {}

(* A call gives up only after its last retry, and tries again only after a *)
(* timeout: when it leaves the loop, either all of its try_count + 1       *)
(* attempts were stopped by their timeouts, or all but the last were, and  *)
(* that one's command has ended. (A negative try_count starts nothing.)    *)
RetriesExact ==
  \A t \in Callers : pc[t] \in Leaving =>
    \/ args[t].try < 0 /\ attempts[t] = 0
    \/ attempts[t] = args[t].try + 1 /\ timeouts[t] = attempts[t]
    \/ /\ attempts[t] \in 1 .. args[t].try + 1 /\ timeouts[t] = attempts[t] - 1
       /\ ended[t] # "none"

(* A call with a timeout ends whatever the command does, and any call ends *)
(* once the command has ended, unless the host ends first.                 *)
CallReturns ==
  \A t \in Callers :
    (pc[t] # "idle" /\ (args[t].timeout > 0 \/ child[t] \in Endings))
      ~> (pc[t] = "idle" \/ exited)
=============================================================================
