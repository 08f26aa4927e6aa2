---------------------------- MODULE RlCmdProofs ----------------------------
(***************************************************************************)
(* Theorems about RlCmd, for any set of callers, any values of the timeout *)
(* and of the number of retries.                                           *)
(***************************************************************************)
EXTENDS RlCmd, TLAPS

(* The steps of a call that has not come to its loop yet.                  *)
Entering == {"ignore_INT", "ignore_QUIT", "block", "default"}

-----------------------------------------------------------------------------
(* Types                                                                   *)

(* leftTime while a call with a timeout polls.                             *)
Countdown ==
  \A t \in Callers :
    /\ pc[t] \in {"sleep", "kill"} => args[t].timeout > 0
    /\ pc[t] \in {"poll", "sleep"} /\ args[t].timeout > 0
         => left[t] \in 1 .. args[t].timeout
    /\ pc[t] = "kill" => left[t] = 0

TypeInv == TypeOK /\ Countdown

(* The members of a record of settings.                                    *)
Saved == [INT : {"host", "ign"}, QUIT : {"host", "ign"}, CHLD : {"dfl", "ign"}]

(* The arguments of a call are numbers.                                    *)
LEMMA ArgsAreNumbers ==
  ASSUME NEW a \in [timeout : Timeouts \cup {0}, try : Tries \cup {0}]
  PROVE  /\ a.timeout \in Int /\ a.try \in Int
         /\ Tries \subseteq Nat => a.try \in Nat
<1>1. a.timeout \in Timeouts \cup {0} /\ a.try \in Tries \cup {0}
  OBVIOUS
<1>2. \A n \in Timeouts : n \in Int BY RlCmdAssumption
<1>3. \A n \in Tries : n \in Int BY RlCmdAssumption
<1>4. QED BY <1>1, <1>2, <1>3

(* Saving a disposition keeps the record a record of dispositions.         *)
LEMMA SavedTyped ==
  ASSUME saved \in [Callers -> Saved], NEW t \in Callers,
         NEW s \in {"INT", "QUIT", "CHLD"}, NEW v,
         s \in Tty => v \in {"host", "ign"}, s = "CHLD" => v \in {"dfl", "ign"}
  PROVE  [saved EXCEPT ![t][s] = v] \in [Callers -> Saved]
<1>1. saved[t] \in Saved OBVIOUS
<1>2. [saved[t] EXCEPT ![s] = v] \in Saved
  <2>1. CASE s = "INT" BY <2>1, <1>1 DEF Saved, Tty
  <2>2. CASE s = "QUIT" BY <2>2, <1>1 DEF Saved, Tty
  <2>3. CASE s = "CHLD" BY <2>3, <1>1 DEF Saved, Tty
  <2>4. QED BY <2>1, <2>2, <2>3
<1>3. QED BY <1>2

(* An early return keeps the types.                                        *)
LEMMA SigFailsTyped ==
  ASSUME TypeInv, NEW t \in Callers, NEW from, SigFails(t, from)
  PROVE  TypeInv'
BY DEF TypeInv, TypeOK, Countdown, SigFails, Goto, signals, loop

(* So does the end of an iteration of the retry loop.                      *)
LEMMA IterationTyped ==
  ASSUME TypeInv, NEW t \in Callers, NEW from, NEW st \in Endings \cup {"failed"},
         NEW again \in BOOLEAN, NEW lost \in SUBSET {"running", "dying", "zombie"},
         IterationDone(t, from, st, again, lost), timeouts' \in [Callers -> Nat]
  PROVE  TypeInv'
<1>1. TypeOK'
  BY DEF TypeInv, TypeOK, IterationDone, Goto, signals
<1>2. Countdown'
  BY DEF TypeInv, TypeOK, Countdown, IterationDone, Goto
<1>3. QED BY <1>1, <1>2 DEF TypeInv

(* Every step of a call, but those of the retry loop, keeps the types.     *)
LEMMA SignalStepsTyped ==
  ASSUME TypeInv, NEW t \in Callers,
         \/ ignore_signal(t, "INT", "ignore_INT", "ignore_QUIT")
         \/ ignore_signal(t, "QUIT", "ignore_QUIT", "block")
         \/ block_chld(t) \/ default_chld(t)
         \/ unblock_chld(t) \/ restore_chld(t) \/ restore_int(t) \/ restore_quit(t)
  PROVE  TypeInv'
<1> USE DEF TypeInv, TypeOK, Countdown, Goto, signals, loop
<1>1. ASSUME NEW s \in Tty, NEW from, NEW to \in {"ignore_QUIT", "block"},
             ignore_signal(t, s, from, to)
      PROVE  TypeInv'
  <2>1. CASE SigFails(t, from) BY <2>1, SigFailsTyped
  <2>2. CASE /\ Goto(t, from, to)
             /\ saved' = [saved EXCEPT ![t][s] = tty[s]]
             /\ tty' = [tty EXCEPT ![s] = "ign"]
             /\ UNCHANGED <<chld, host, exited, mask, loop, result>>
    <3>1. saved' \in [Callers -> Saved]
      <4>1. tty[s] \in {"host", "ign"} /\ saved \in [Callers -> Saved] BY DEF Saved
      <4>2. s # "CHLD" /\ s \in {"INT", "QUIT", "CHLD"} BY DEF Tty
      <4>3. QED BY <2>2, <4>1, <4>2, SavedTyped
    <3>2. TypeOK' BY <2>2, <3>1 DEF Saved
    <3>3. Countdown' BY <2>2
    <3>4. QED BY <3>2, <3>3
  <2>3. QED BY <1>1, <2>1, <2>2 DEF ignore_signal
<1>2. CASE block_chld(t)
  <2>1. CASE SigFails(t, "block") BY <2>1, SigFailsTyped
  <2>2. CASE /\ Goto(t, "block", "default")
             /\ mask' = [mask EXCEPT ![t] = TRUE]
             /\ UNCHANGED <<signals, exited, saved, loop, result>>
    <3>1. TypeOK' BY <2>2
    <3>2. Countdown' BY <2>2
    <3>3. QED BY <3>1, <3>2
  <2>3. QED BY <1>2, <2>1, <2>2 DEF block_chld
<1>3. CASE default_chld(t)
  <2>1. saved' \in [Callers -> Saved]
    <3>1. chld \in {"dfl", "ign"} /\ saved \in [Callers -> Saved] BY DEF Saved
    <3>2. "CHLD" \notin Tty BY DEF Tty
    <3>3. saved' = [saved EXCEPT ![t]["CHLD"] = chld] BY <1>3 DEF default_chld
    <3>4. QED BY <3>1, <3>2, <3>3, SavedTyped
  <2>2. TypeOK' BY <1>3, <2>1 DEF default_chld, Saved
  <2>3. Countdown' BY <1>3 DEF default_chld
  <2>4. QED BY <2>2, <2>3
<1>4. CASE unblock_chld(t)
  <2>1. CASE SigFails(t, "unblock") BY <2>1, SigFailsTyped
  <2>2. CASE /\ Goto(t, "unblock", "chld")
             /\ mask' = [mask EXCEPT ![t] = FALSE]
             /\ UNCHANGED <<signals, exited, saved, loop, result>>
    <3>1. TypeOK' BY <2>2
    <3>2. Countdown' BY <2>2
    <3>3. QED BY <3>1, <3>2
  <2>3. QED BY <1>4, <2>1, <2>2 DEF unblock_chld
<1>5. CASE restore_chld(t)
  BY <1>5 DEF restore_chld
<1>6. CASE restore_int(t)
  <2>1. CASE SigFails(t, "restore_INT") BY <2>1, SigFailsTyped
  <2>2. CASE /\ Goto(t, "restore_INT", "restore_QUIT")
             /\ tty' = [tty EXCEPT !["INT"] = saved[t].INT]
             /\ UNCHANGED <<chld, host, exited, mask, saved, loop, result>>
    <3>1. TypeOK' BY <2>2
    <3>2. Countdown' BY <2>2
    <3>3. QED BY <3>1, <3>2
  <2>3. QED BY <1>6, <2>1, <2>2 DEF restore_int
<1>7. CASE restore_quit(t)
  <2>1. CASE SigFails(t, "restore_QUIT") BY <2>1, SigFailsTyped
  <2>2. CASE /\ Goto(t, "restore_QUIT", "idle")
             /\ tty' = [tty EXCEPT !["QUIT"] = saved[t].QUIT]
             /\ result' = [result EXCEPT ![t] = Answer(status[t])]
             /\ UNCHANGED <<chld, host, exited, mask, saved, loop>>
    <3>0. Answer(status[t]) \in {"exit", "signal", "failed"} BY DEF Answer, Endings
    <3>1. TypeOK' BY <2>2, <3>0
    <3>2. Countdown' BY <2>2
    <3>3. QED BY <3>1, <3>2
  <2>3. QED BY <1>7, <2>1, <2>2 DEF restore_quit
<1>8. QED BY <1>1, <1>2, <1>3, <1>4, <1>5, <1>6, <1>7 DEF Tty

(* So does every step of the retry loop.                                   *)
LEMMA LoopStepsTyped ==
  ASSUME TypeInv, NEW t \in Callers,
         \/ rl_system_100ms_ex(t)
         \/ fork_child(t) \/ fork_fails(t) \/ loop_exit(t)
         \/ poll_child(t) \/ sleep_100ms(t) \/ kill_child(t) \/ reap_child(t)
         \/ child_end(t) \/ child_die(t) \/ stray_end(t)
  PROVE  TypeInv'
<1>0. args[t].timeout \in Int
  BY ArgsAreNumbers DEF TypeInv, TypeOK
<1> USE DEF TypeInv, TypeOK, Countdown, Goto, signals, loop
<1>1. CASE rl_system_100ms_ex(t)
  BY <1>1, RlCmdAssumption DEF rl_system_100ms_ex, Endings
<1>2. CASE fork_child(t)
  <2>2. left' \in [Callers -> Int] BY <1>2, <1>0 DEF fork_child
  <2>3. TypeOK' BY <1>2, <2>2 DEF fork_child
  <2>4. Countdown' BY <1>2, <1>0 DEF fork_child
  <2>5. QED BY <2>3, <2>4
<1>3. CASE fork_fails(t) \/ loop_exit(t)
  <2>1. CASE fork_fails(t) BY <2>1 DEF fork_fails
  <2>2. CASE loop_exit(t) BY <2>2 DEF loop_exit
  <2>3. QED BY <1>3, <2>1, <2>2
<1>4. CASE poll_child(t)
  <2>1. CASE /\ child[t] = "running"
             /\ args[t].timeout > 0
             /\ Goto(t, "poll", "sleep")
             /\ UNCHANGED <<signals, exited, mask, saved, loop, result>>
    BY <2>1
  <2>2. CASE /\ child[t] \in Endings /\ IterationDone(t, "poll", child[t], FALSE, {})
             /\ UNCHANGED timeouts
    BY <2>2, IterationTyped
  <2>3. CASE /\ child[t] = "gone" /\ IterationDone(t, "poll", "failed", FALSE, {})
             /\ UNCHANGED timeouts
    BY <2>3, IterationTyped
  <2>4. QED BY <1>4, <2>1, <2>2, <2>3 DEF poll_child
<1>5. CASE sleep_100ms(t)
  <2>1. TypeOK' BY <1>5, <1>0 DEF sleep_100ms
  <2>2. Countdown' BY <1>5, <1>0 DEF sleep_100ms
  <2>3. QED BY <2>1, <2>2
<1>6. CASE kill_child(t)
  <2>0. timeouts' \in [Callers -> Nat] BY <1>6 DEF kill_child
  <2>1. CASE IterationDone(t, "kill", "failed", TRUE, Stray(child[t]))
    <3>1. Stray(child[t]) \in SUBSET {"running", "dying", "zombie"}
      BY <2>1 DEF Stray, Endings
    <3>2. QED BY <2>0, <2>1, <3>1, IterationTyped
  <2>2. CASE /\ Goto(t, "kill", "reap")
             /\ child' = [child EXCEPT ![t] = IF @ = "running" THEN "dying" ELSE @]
             /\ UNCHANGED <<signals, exited, mask, saved, args, attempts, left, retry,
                            status, ended, strays, result>>
    BY <2>0, <2>2
  <2>3. QED BY <1>6, <2>1, <2>2 DEF kill_child
<1>7. CASE reap_child(t)
  <2>1. Stray("dying") \in SUBSET {"running", "dying", "zombie"}
    BY DEF Stray, Endings
  <2>2. timeouts' \in [Callers -> Nat] BY <1>7 DEF reap_child
  <2>3. CASE IterationDone(t, "reap", "failed", TRUE, {}) BY <2>2, <2>3, IterationTyped
  <2>4. CASE IterationDone(t, "reap", "failed", TRUE, Stray("dying"))
    BY <2>1, <2>2, <2>4, IterationTyped
  <2>5. QED BY <1>7, <2>3, <2>4 DEF reap_child
<1>8. ASSUME NEW how \in Endings, Ends(t, how) PROVE TypeInv'
  BY <1>8 DEF Ends
<1>10. CASE stray_end(t)
  <2>1. PICK s \in strays[t] \cap {"running", "dying"} : \E rest \in SUBSET {s} :
          strays' = [strays EXCEPT ![t] =
                       (@ \ {s}) \cup rest \cup (IF chld = "ign" THEN {} ELSE {"zombie"})]
    BY <1>10 DEF stray_end
  <2>2. strays' \in [Callers -> SUBSET {"running", "dying", "zombie"}]
    <3>1. PICK rest \in SUBSET {s} :
            strays' = [strays EXCEPT ![t] = (strays[t] \ {s}) \cup rest
                                              \cup (IF chld = "ign" THEN {} ELSE {"zombie"})]
      BY <2>1
    <3>2. (strays[t] \ {s}) \cup rest \cup (IF chld = "ign" THEN {} ELSE {"zombie"})
            \in SUBSET {"running", "dying", "zombie"}
      OBVIOUS
    <3>3. QED BY <3>1, <3>2
  <2>3. QED BY <1>10, <2>2 DEF stray_end
<1>9. QED BY <1>1, <1>2, <1>3, <1>4, <1>5, <1>6, <1>7, <1>8, <1>10 DEF child_end, child_die, Endings

(* The types are kept by every step.                                       *)
LEMMA TypeStep == TypeInv /\ [Next]_vars => TypeInv'
<1> SUFFICES ASSUME TypeInv, [Next]_vars PROVE TypeInv'
  OBVIOUS
<1>1. CASE UNCHANGED vars
  BY <1>1 DEF vars, signals, loop, TypeInv, TypeOK, Countdown
<1>2. ASSUME NEW t \in Callers,
             \/ rl_system_100ms_ex(t) \/ Step(t)
             \/ child_end(t) \/ child_die(t) \/ stray_end(t)
      PROVE  TypeInv'
  BY <1>2, SignalStepsTyped, LoopStepsTyped DEF Step
<1>3. QED BY <1>1, <1>2 DEF Next, Terminated

(* They hold at the start.                                                 *)
LEMMA TypeInit == Init => TypeInv
<1> SUFFICES ASSUME Init PROVE TypeInv
  OBVIOUS
<1>1. host \in {"dfl", "ign"} BY RlCmdAssumption DEF Init
<1>2. saved \in [Callers -> Saved] BY <1>1 DEF Init, Saved
<1>3. args \in [Callers -> [timeout : Timeouts \cup {0}, try : Tries \cup {0}]]
  BY DEF Init
<1>4. \A t \in Callers : pc[t] = "idle" BY DEF Init
<1>5. TypeOK
  <2>1. status \in [Callers -> Endings \cup {"failed"}] BY DEF Init, Endings
  <2>2. attempts \in [Callers -> Nat] /\ left \in [Callers -> Int] BY DEF Init
  <2>3. tty \in [Tty -> {"host", "ign"}] BY DEF Init
  <2>4. QED BY <1>1, <1>2, <1>3, <1>4, <2>1, <2>2, <2>3 DEF Init, TypeOK, Saved
<1>6. Countdown BY <1>4 DEF Countdown
<1>7. QED BY <1>5, <1>6 DEF TypeInv

(* TypeInv holds throughout.                                               *)
LEMMA TypeAlways == Spec => []TypeInv
BY TypeInit, TypeStep, PTL DEF Spec

(* Every variable keeps its C type, and leftTime counts down from the      *)
(* timeout to 0, whatever the other callers and the commands do.           *)
THEOREM CommandTypes == Spec => []TypeOK
<1>1. TypeInv => TypeOK BY DEF TypeInv
<1>2. QED BY <1>1, TypeAlways, PTL

-----------------------------------------------------------------------------
(* The child and the answer, for any number of callers                     *)

(* A call has a child exactly in its poll loop; a child that ended is what *)
(* ended records; and there is no answer before the return.                *)
ChildInv ==
  \A t \in Callers : /\ child[t] # "none" <=> pc[t] \in Forked
                     /\ child[t] \in Endings => ended[t] = child[t]
                     /\ pc[t] # "idle" => result[t] = "none"

(* Every step keeps this.                                                  *)
LEMMA ChildStep ==
  ASSUME TypeOK, TypeOK', ChildInv,
         [Next]_vars
  PROVE  ChildInv'
<1> USE DEF TypeOK, Goto, SigFails, IterationDone, signals, loop, ChildInv,
            Forked, Endings
<1>1. CASE UNCHANGED vars
  BY <1>1 DEF vars
<1>2. ASSUME NEW t \in Callers,
             \/ rl_system_100ms_ex(t) \/ Step(t)
             \/ child_end(t) \/ child_die(t) \/ stray_end(t)
      PROVE  ChildInv'
  <2>1. CASE rl_system_100ms_ex(t)
    BY <2>1 DEF rl_system_100ms_ex
  <2>2. CASE ignore_signal(t, "INT", "ignore_INT", "ignore_QUIT")
    <3>1. CASE SigFails(t, "ignore_INT") BY <3>1
    <3>2. CASE Goto(t, "ignore_INT", "ignore_QUIT") /\ UNCHANGED <<loop, result>>
      BY <3>2
    <3>3. QED BY <2>2, <3>1, <3>2 DEF ignore_signal
  <2>3. CASE ignore_signal(t, "QUIT", "ignore_QUIT", "block")
    <3>1. CASE SigFails(t, "ignore_QUIT") BY <3>1
    <3>2. CASE Goto(t, "ignore_QUIT", "block") /\ UNCHANGED <<loop, result>>
      BY <3>2
    <3>3. QED BY <2>3, <3>1, <3>2 DEF ignore_signal
  <2>4. CASE block_chld(t)
    <3>1. CASE SigFails(t, "block") BY <3>1
    <3>2. CASE Goto(t, "block", "default") /\ UNCHANGED <<loop, result>>
      BY <3>2
    <3>3. QED BY <2>4, <3>1, <3>2 DEF block_chld
  <2>5. CASE default_chld(t)
    BY <2>5 DEF default_chld
  <2>6. CASE fork_child(t)
    BY <2>6 DEF fork_child, MoreTries
  <2>7. CASE fork_fails(t)
    BY <2>7 DEF fork_fails, MoreTries
  <2>8. CASE loop_exit(t)
    BY <2>8 DEF loop_exit, MoreTries
  <2>9. CASE poll_child(t)
    BY <2>9 DEF poll_child
  <2>10. CASE sleep_100ms(t)
    BY <2>10 DEF sleep_100ms
  <2>11. CASE kill_child(t)
    BY <2>11 DEF kill_child
  <2>12. CASE reap_child(t)
    BY <2>12 DEF reap_child
  <2>13. CASE unblock_chld(t)
    <3>1. CASE SigFails(t, "unblock") BY <3>1
    <3>2. CASE Goto(t, "unblock", "chld") /\ UNCHANGED <<loop, result>>
      BY <3>2
    <3>3. QED BY <2>13, <3>1, <3>2 DEF unblock_chld
  <2>14. CASE restore_chld(t)
    BY <2>14 DEF restore_chld
  <2>15. CASE restore_int(t)
    <3>1. CASE SigFails(t, "restore_INT") BY <3>1
    <3>2. CASE Goto(t, "restore_INT", "restore_QUIT") /\ UNCHANGED <<loop, result>>
      BY <3>2
    <3>3. QED BY <2>15, <3>1, <3>2 DEF restore_int
  <2>16. CASE restore_quit(t)
    <3>1. CASE SigFails(t, "restore_QUIT") BY <3>1
    <3>2. CASE /\ Goto(t, "restore_QUIT", "idle")
               /\ result' = [result EXCEPT ![t] = Answer(status[t])]
               /\ UNCHANGED loop
      BY <3>2
    <3>3. QED BY <2>16, <3>1, <3>2 DEF restore_quit
  <2>17. CASE child_end(t)
    BY <2>17 DEF child_end, Ends
  <2>18. CASE child_die(t)
    BY <2>18 DEF child_die, Ends
  <2>20. CASE stray_end(t)
    BY <2>20 DEF stray_end
  <2>19. QED BY <1>2, <2>1, <2>2, <2>3, <2>4, <2>5, <2>6, <2>7, <2>8, <2>9,
             <2>10, <2>11, <2>12, <2>13, <2>14, <2>15, <2>16, <2>17, <2>18, <2>20
             DEF Step
<1>3. QED BY <1>1, <1>2 DEF Next, Terminated

(* ChildInv holds throughout.                                              *)
LEMMA ChildAlways == Spec => []ChildInv
<1>1. Init => ChildInv
  BY DEF Init, ChildInv, Forked, Endings
<1>2. TypeInv => TypeOK
  BY DEF TypeInv
<1>3. TypeOK /\ TypeOK' /\ ChildInv /\ [Next]_vars => ChildInv'
  BY ChildStep
<1>4. QED BY <1>1, <1>2, <1>3, TypeAlways, PTL DEF Spec

-----------------------------------------------------------------------------
(* The retries                                                             *)

(* Each attempt before the current one was stopped by its timeout, and     *)
(* needRetry says whether the last one was, too.                           *)
RetriesInv ==
  \A t \in Callers :
    /\ pc[t] \in Entering => attempts[t] = 0 /\ timeouts[t] = 0 /\ retry[t]
    /\ pc[t] \in {"loop"} \cup Forked => attempts[t] = 0 \/ attempts[t] <= args[t].try + 1
    /\ pc[t] = "loop" /\ retry[t] => timeouts[t] = attempts[t]
    /\ pc[t] = "loop" /\ ~retry[t] => timeouts[t] = attempts[t] - 1 /\ ended[t] # "none"
    /\ pc[t] \in {"poll", "sleep", "kill"} => timeouts[t] = attempts[t] - 1
    /\ pc[t] = "reap" => timeouts[t] = attempts[t]
    /\ child[t] \in Endings \cup {"gone"} => ended[t] # "none"
    /\ pc[t] \in Leaving =>
         \/ args[t].try < 0 /\ attempts[t] = 0
         \/ attempts[t] = args[t].try + 1 /\ timeouts[t] = attempts[t]
         \/ /\ attempts[t] \in 1 .. args[t].try + 1 /\ timeouts[t] = attempts[t] - 1
            /\ ended[t] # "none"

(* The bound of the loop and its end make the last attempt's number.       *)
LEMMA LastTry ==
  ASSUME NEW a \in Nat, NEW n \in Int, a <= n + 1, ~(a - 1 < n)
  PROVE  a = n + 1
OBVIOUS

(* Every step keeps this.                                                  *)
LEMMA RetriesStep ==
  ASSUME TypeOK, TypeOK', RetriesInv,
         ChildInv,
         [Next]_vars
  PROVE  RetriesInv'
<1> USE DEF TypeOK, Goto, SigFails, IterationDone, signals, loop, RetriesInv,
            ChildInv, Entering, Forked, Leaving, Endings
<1>1. CASE UNCHANGED vars
  BY <1>1 DEF vars
<1>2. ASSUME NEW t \in Callers,
             \/ rl_system_100ms_ex(t) \/ Step(t)
             \/ child_end(t) \/ child_die(t) \/ stray_end(t)
      PROVE  RetriesInv'
  <2>50. args[t].try \in Int /\ args'[t].try \in Int
    BY ArgsAreNumbers
  <2>1. CASE rl_system_100ms_ex(t)
    BY <2>1, <2>50 DEF rl_system_100ms_ex
  <2>2. CASE ignore_signal(t, "INT", "ignore_INT", "ignore_QUIT")
    BY <2>2, <2>50 DEF ignore_signal
  <2>3. CASE ignore_signal(t, "QUIT", "ignore_QUIT", "block")
    BY <2>3, <2>50 DEF ignore_signal
  <2>4. CASE block_chld(t)
    BY <2>4, <2>50 DEF block_chld
  <2>5. CASE default_chld(t)
    BY <2>5, <2>50 DEF default_chld
  <2>6. CASE fork_child(t)
    <3>1. /\ pc[t] = "loop" /\ retry[t] /\ attempts[t] - 1 < args[t].try
          /\ pc' = [pc EXCEPT ![t] = "poll"] /\ retry' = [retry EXCEPT ![t] = FALSE]
          /\ attempts' = [attempts EXCEPT ![t] = attempts[t] + 1]
          /\ child' = [child EXCEPT ![t] = "running"]
          /\ ended' = [ended EXCEPT ![t] = "none"]
          /\ UNCHANGED <<args, timeouts>>
      BY <2>6 DEF fork_child, MoreTries
    <3>2. /\ timeouts[t] = attempts[t] /\ attempts[t] + 1 <= args[t].try + 1
          /\ attempts[t] \in Nat
      BY <2>50, <3>1
    <3>3. timeouts'[t] = attempts'[t] - 1 /\ attempts'[t] <= args'[t].try + 1
      BY <3>1, <3>2
    <3>4. QED BY <3>1, <3>3
  <2>7. CASE fork_fails(t)
    BY <2>7, <2>50 DEF fork_fails, MoreTries
  <2>8. CASE loop_exit(t)
    <3>1. /\ pc[t] = "loop" /\ pc' = [pc EXCEPT ![t] = "unblock"]
          /\ ~(attempts[t] - 1 < args[t].try) \/ ~retry[t]
          /\ UNCHANGED <<loop, result>>
      BY <2>8 DEF loop_exit, MoreTries
    <3>2. /\ attempts[t] \in Nat /\ timeouts[t] \in Nat
          /\ attempts[t] = 0 \/ attempts[t] <= args[t].try + 1
      BY <3>1
    <3>3. CASE retry[t]
      <4>1. timeouts[t] = attempts[t] /\ ~(attempts[t] - 1 < args[t].try)
        BY <3>1, <3>3
      <4>2. \/ args[t].try < 0 /\ attempts[t] = 0
            \/ attempts[t] = args[t].try + 1
        <5>1. CASE attempts[t] = 0 BY <2>50, <3>2, <4>1, <5>1
        <5>2. CASE attempts[t] <= args[t].try + 1
          <6>1. attempts[t] \in Nat /\ args[t].try \in Int BY <2>50, <3>2
          <6>2. ~(attempts[t] - 1 < args[t].try) BY <4>1
          <6>3. QED BY <5>2, <6>1, <6>2, LastTry
        <5>3. QED BY <3>2, <5>1, <5>2
      <4>3. QED BY <3>1, <4>1, <4>2
    <3>4. CASE ~retry[t]
      <4>1. timeouts[t] = attempts[t] - 1 /\ ended[t] # "none"
        BY <3>1, <3>4
      <4>2. attempts[t] \in 1 .. args[t].try + 1
        BY <2>50, <3>2, <4>1
      <4>3. QED BY <3>1, <4>1, <4>2
    <3>5. QED BY <3>3, <3>4
  <2>9. CASE poll_child(t)
    BY <2>9, <2>50 DEF poll_child
  <2>10. CASE sleep_100ms(t)
    BY <2>10, <2>50 DEF sleep_100ms
  <2>11. CASE kill_child(t)
    BY <2>11, <2>50 DEF kill_child
  <2>12. CASE reap_child(t)
    BY <2>12, <2>50 DEF reap_child
  <2>13. CASE unblock_chld(t)
    BY <2>13, <2>50 DEF unblock_chld
  <2>14. CASE restore_chld(t)
    BY <2>14, <2>50 DEF restore_chld
  <2>15. CASE restore_int(t)
    BY <2>15, <2>50 DEF restore_int
  <2>16. CASE restore_quit(t)
    BY <2>16, <2>50 DEF restore_quit
  <2>17. CASE child_end(t)
    BY <2>17, <2>50 DEF child_end, Ends
  <2>18. CASE child_die(t)
    BY <2>18, <2>50 DEF child_die, Ends
  <2>20. CASE stray_end(t)
    BY <2>20, <2>50 DEF stray_end
  <2>19. QED BY <1>2, <2>1, <2>2, <2>3, <2>4, <2>5, <2>6, <2>7, <2>8, <2>9,
             <2>10, <2>11, <2>12, <2>13, <2>14, <2>15, <2>16, <2>17, <2>18, <2>20
             DEF Step
<1>3. QED BY <1>1, <1>2 DEF Next, Terminated


(* A call gives up only after its last retry, and tries again only after a *)
(* timeout, for any number of callers, any timeout and try_count, and      *)
(* whatever fails (rlcmd.c: the loop from -1).                             *)
THEOREM RetriesAlwaysExact == Spec => []RetriesExact
<1>1. Init => RetriesInv
  BY DEF Init, RetriesInv, Entering, Forked, Leaving, Endings
<1>2. TypeInv => TypeOK
  BY DEF TypeInv
<1>3. TypeOK /\ TypeOK' /\ ChildInv /\ RetriesInv /\ [Next]_vars => RetriesInv'
  BY RetriesStep
<1>4. RetriesInv => RetriesExact
  BY DEF RetriesInv, RetriesExact
<1>5. QED BY <1>1, <1>2, <1>3, <1>4, TypeAlways, ChildAlways, PTL DEF Spec

-----------------------------------------------------------------------------
(* RL_SUCCESS: nobody's fork, kill or wait is assumed to succeed           *)

(* A call that has not begun a command yet will begin one, so that the way *)
(* out is taken only after a command; and a status that reads as an exit   *)
(* is then the last command's, not the one the call began with.            *)
RanInv ==
  \A t \in Callers :
    /\ pc[t] \in Entering => attempts[t] = 0
    /\ pc[t] # "idle" /\ attempts[t] = 0 => retry[t]
    /\ pc[t] \in Forked \cup Leaving => attempts[t] > 0
    /\ pc[t] \in {"loop"} \cup Leaving /\ attempts[t] > 0 /\ status[t] = "exit"
         => ended[t] = "exit"
    /\ result[t] = "exit" => ended[t] = "exit"

(* Every step keeps this when try_count is not negative.                   *)
LEMMA RanStep ==
  ASSUME TypeOK, TypeOK', RanInv,
         ChildInv,
         Tries \subseteq Nat,
         [Next]_vars
  PROVE  RanInv'
<1> USE DEF TypeOK, Goto, SigFails, IterationDone, signals, loop, RanInv,
            ChildInv, Entering, Forked, Leaving, Endings, Answer
<1>1. CASE UNCHANGED vars
  BY <1>1 DEF vars
<1>2. ASSUME NEW t \in Callers,
             \/ rl_system_100ms_ex(t) \/ Step(t)
             \/ child_end(t) \/ child_die(t) \/ stray_end(t)
      PROVE  RanInv'
  <2>50. args[t].try \in Nat
    BY ArgsAreNumbers
  <2>1. CASE rl_system_100ms_ex(t)
    BY <2>1, <2>50 DEF rl_system_100ms_ex
  <2>2. CASE ignore_signal(t, "INT", "ignore_INT", "ignore_QUIT")
    BY <2>2, <2>50 DEF ignore_signal
  <2>3. CASE ignore_signal(t, "QUIT", "ignore_QUIT", "block")
    BY <2>3, <2>50 DEF ignore_signal
  <2>4. CASE block_chld(t)
    BY <2>4, <2>50 DEF block_chld
  <2>5. CASE default_chld(t)
    BY <2>5, <2>50 DEF default_chld
  <2>6. CASE fork_child(t)
    BY <2>6, <2>50 DEF fork_child, MoreTries
  <2>7. CASE fork_fails(t)
    BY <2>7, <2>50 DEF fork_fails, MoreTries
  <2>8. CASE loop_exit(t)
    BY <2>8, <2>50 DEF loop_exit, MoreTries
  <2>9. CASE poll_child(t)
    BY <2>9, <2>50 DEF poll_child
  <2>10. CASE sleep_100ms(t)
    BY <2>10, <2>50 DEF sleep_100ms
  <2>11. CASE kill_child(t)
    BY <2>11, <2>50 DEF kill_child
  <2>12. CASE reap_child(t)
    BY <2>12, <2>50 DEF reap_child
  <2>13. CASE unblock_chld(t)
    BY <2>13, <2>50 DEF unblock_chld
  <2>14. CASE restore_chld(t)
    BY <2>14, <2>50 DEF restore_chld
  <2>15. CASE restore_int(t)
    BY <2>15, <2>50 DEF restore_int
  <2>16. CASE restore_quit(t)
    BY <2>16, <2>50 DEF restore_quit
  <2>17. CASE child_end(t)
    BY <2>17, <2>50 DEF child_end, Ends
  <2>18. CASE child_die(t)
    BY <2>18, <2>50 DEF child_die, Ends
  <2>20. CASE stray_end(t)
    BY <2>20, <2>50 DEF stray_end
  <2>19. QED BY <1>2, <2>1, <2>2, <2>3, <2>4, <2>5, <2>6, <2>7, <2>8, <2>9,
             <2>10, <2>11, <2>12, <2>13, <2>14, <2>15, <2>16, <2>17, <2>18, <2>20
             DEF Step
<1>3. QED BY <1>1, <1>2 DEF Next, Terminated


(* RL_SUCCESS means that the command of the last attempt ran and exited,   *)
(* for any number of callers and whatever fails, unless try_count is       *)
(* negative, when the loop of rlcmd.c is not entered at all.               *)
THEOREM SuccessAlwaysRan ==
  ASSUME Tries \subseteq Nat
  PROVE  Spec => []SuccessMeansRan
<1>1. Init => RanInv
  BY DEF Init, RanInv, Entering, Forked, Leaving
<1>2. TypeInv => TypeOK
  BY DEF TypeInv
<1>3. TypeOK /\ TypeOK' /\ ChildInv /\ RanInv /\ [Next]_vars => RanInv'
  BY RanStep
<1>4. RanInv => SuccessMeansRan
  BY DEF RanInv, SuccessMeansRan
<1>5. QED BY <1>1, <1>2, <1>3, <1>4, TypeAlways, ChildAlways, PTL DEF Spec

-----------------------------------------------------------------------------
(* The children left behind                                                *)

(* A child is left behind only where the kill is refused or the wait after *)
(* it interrupted, and runs only in the first case.                        *)

StraysInv ==
  \A t \in Callers :
    "kill" \notin Failures => /\ "running" \notin strays[t]
                              /\ "eintr" \notin Failures => strays[t] = {}

(* Every step keeps this.                                                  *)
LEMMA StraysStep ==
  ASSUME TypeOK, TypeOK', StraysInv,
         [Next]_vars
  PROVE  StraysInv'
<1> USE DEF TypeOK, Goto, SigFails, IterationDone, signals, loop,
            StraysInv, Stray, Endings
<1>1. CASE UNCHANGED vars
  BY <1>1 DEF vars
<1>2. ASSUME NEW t \in Callers,
             \/ rl_system_100ms_ex(t) \/ Step(t)
             \/ child_end(t) \/ child_die(t) \/ stray_end(t)
      PROVE  StraysInv'
  <2>1. CASE rl_system_100ms_ex(t)
    BY <2>1 DEF rl_system_100ms_ex
  <2>2. CASE ignore_signal(t, "INT", "ignore_INT", "ignore_QUIT")
    BY <2>2 DEF ignore_signal
  <2>3. CASE ignore_signal(t, "QUIT", "ignore_QUIT", "block")
    BY <2>3 DEF ignore_signal
  <2>4. CASE block_chld(t)
    BY <2>4 DEF block_chld
  <2>5. CASE default_chld(t)
    BY <2>5 DEF default_chld
  <2>6. CASE fork_child(t)
    BY <2>6 DEF fork_child, MoreTries
  <2>7. CASE fork_fails(t)
    BY <2>7 DEF fork_fails, MoreTries
  <2>8. CASE loop_exit(t)
    BY <2>8 DEF loop_exit, MoreTries
  <2>9. CASE poll_child(t)
    BY <2>9 DEF poll_child
  <2>10. CASE sleep_100ms(t)
    BY <2>10 DEF sleep_100ms
  <2>11. CASE kill_child(t)
    <3>1. CASE strays' = strays
      BY <3>1
    <3>2. CASE /\ child[t] = "gone" \/ "kill" \in Failures
               /\ strays' = [strays EXCEPT ![t] = @ \cup Stray(child[t])]
      <4>1. CASE "kill" \in Failures BY <4>1
      <4>2. CASE child[t] = "gone"
        <5>1. Stray(child[t]) = {} BY <4>2
        <5>2. strays[t] \cup {} = strays[t] OBVIOUS
        <5>3. strays' = strays BY <3>2, <5>1, <5>2
        <5>4. QED BY <5>3
      <4>3. QED BY <3>2, <4>1, <4>2
    <3>3. QED BY <2>11, <3>1, <3>2 DEF kill_child
  <2>12. CASE reap_child(t)
    <3>1. CASE strays' = [strays EXCEPT ![t] = @ \cup {}]
      <4>1. strays[t] \cup {} = strays[t] OBVIOUS
      <4>2. strays' = strays BY <3>1, <4>1
      <4>3. QED BY <4>2
    <3>2. CASE /\ "eintr" \in Failures
               /\ strays' = [strays EXCEPT ![t] = @ \cup Stray("dying")]
      <4>1. Stray("dying") = {"dying"} OBVIOUS
      <4>2. QED BY <3>2, <4>1
    <3>3. QED BY <2>12, <3>1, <3>2 DEF reap_child
  <2>13. CASE unblock_chld(t)
    BY <2>13 DEF unblock_chld
  <2>14. CASE restore_chld(t)
    BY <2>14 DEF restore_chld
  <2>15. CASE restore_int(t)
    BY <2>15 DEF restore_int
  <2>16. CASE restore_quit(t)
    BY <2>16 DEF restore_quit
  <2>17. CASE child_end(t)
    BY <2>17 DEF child_end, Ends
  <2>18. CASE child_die(t)
    BY <2>18 DEF child_die, Ends
  <2>20. CASE stray_end(t)
    BY <2>20 DEF stray_end
  <2>19. QED BY <1>2, <2>1, <2>2, <2>3, <2>4, <2>5, <2>6, <2>7, <2>8, <2>9,
             <2>10, <2>11, <2>12, <2>13, <2>14, <2>15, <2>16, <2>17, <2>18, <2>20
             DEF Step
<1>3. QED BY <1>1, <1>2 DEF Next, Terminated


(* A finished call leaves no child behind, running or zombie, for any      *)
(* number of callers, in a host where kill is not refused and the blocking *)
(* waitpid of rlcmd.c is not interrupted.                                  *)
THEOREM ChildrenAlwaysReaped ==
  ASSUME "kill" \notin Failures, "eintr" \notin Failures
  PROVE  Spec => []AllReaped
<1>1. Init => StraysInv
  BY DEF Init, StraysInv
<1>2. TypeInv => TypeOK
  BY DEF TypeInv
<1>3. TypeOK /\ TypeOK' /\ StraysInv /\ [Next]_vars => StraysInv'
  BY StraysStep
<1>4. ChildInv /\ StraysInv => AllReaped
  BY DEF ChildInv, StraysInv, AllReaped, Forked
<1>5. QED BY <1>1, <1>2, <1>3, <1>4, TypeAlways, ChildAlways, PTL DEF Spec

(* No command runs on past its attempt, and so none past its call, where   *)
(* kill is not refused, even if the wait after it is interrupted.          *)
THEOREM OnlyRefusedRunsOn ==
  ASSUME "kill" \notin Failures
  PROVE  Spec => [](\A t \in Callers : "running" \notin strays[t])
<1>1. Init => StraysInv
  BY DEF Init, StraysInv
<1>2. TypeInv => TypeOK
  BY DEF TypeInv
<1>3. TypeOK /\ TypeOK' /\ StraysInv /\ [Next]_vars => StraysInv'
  BY StraysStep
<1>4. StraysInv => \A t \in Callers : "running" \notin strays[t]
  BY DEF StraysInv
<1>5. QED BY <1>1, <1>2, <1>3, <1>4, TypeAlways, PTL DEF Spec

-----------------------------------------------------------------------------
(* SIGCHLD has its default while a child runs, if the host never ignores   *)
(* it, or if calls do not overlap                                          *)

DefaultInv ==
  /\ \A t \in Callers : pc[t] \in {"loop"} \cup Forked => chld = "dfl"
  /\ HostChld \subseteq {"dfl"}
       => chld = "dfl" /\ \A t \in Callers : saved[t].CHLD = "dfl"

(* Every step keeps this.                                                  *)
LEMMA DefaultStep ==
  ASSUME TypeOK, TypeOK', DefaultInv,
         HostChld \subseteq {"dfl"} \/ \A t, u \in Callers : t = u,
         [Next]_vars
  PROVE  DefaultInv'
<1> USE DEF TypeOK, Goto, SigFails, IterationDone, signals, loop, DefaultInv,
            Forked
<1>1. CASE UNCHANGED vars
  BY <1>1 DEF vars
<1>2. ASSUME NEW t \in Callers,
             \/ rl_system_100ms_ex(t) \/ Step(t)
             \/ child_end(t) \/ child_die(t) \/ stray_end(t)
      PROVE  DefaultInv'
  <2>1. CASE rl_system_100ms_ex(t)
    BY <2>1 DEF rl_system_100ms_ex
  <2>2. CASE ignore_signal(t, "INT", "ignore_INT", "ignore_QUIT")
    BY <2>2 DEF ignore_signal
  <2>3. CASE ignore_signal(t, "QUIT", "ignore_QUIT", "block")
    BY <2>3 DEF ignore_signal
  <2>4. CASE block_chld(t)
    BY <2>4 DEF block_chld
  <2>5. CASE default_chld(t)
    <3>1. chld' = "dfl" BY <2>5 DEF default_chld
    <3>2. saved' = [saved EXCEPT ![t] = [saved[t] EXCEPT !.CHLD = chld]]
      BY <2>5 DEF default_chld
    <3>3. HostChld \subseteq {"dfl"} => \A u \in Callers : saved'[u].CHLD = "dfl"
      BY <3>2
    <3>4. QED BY <3>1, <3>3
  <2>6. CASE fork_child(t)
    BY <2>6 DEF fork_child, MoreTries
  <2>7. CASE fork_fails(t)
    BY <2>7 DEF fork_fails, MoreTries
  <2>8. CASE loop_exit(t)
    BY <2>8 DEF loop_exit, MoreTries
  <2>9. CASE poll_child(t)
    BY <2>9 DEF poll_child
  <2>10. CASE sleep_100ms(t)
    BY <2>10 DEF sleep_100ms
  <2>11. CASE kill_child(t)
    BY <2>11 DEF kill_child
  <2>12. CASE reap_child(t)
    BY <2>12 DEF reap_child
  <2>13. CASE unblock_chld(t)
    BY <2>13 DEF unblock_chld
  <2>14. CASE restore_chld(t)
    BY <2>14 DEF restore_chld
  <2>15. CASE restore_int(t)
    BY <2>15 DEF restore_int
  <2>16. CASE restore_quit(t)
    BY <2>16 DEF restore_quit
  <2>17. CASE child_end(t)
    BY <2>17 DEF child_end, Ends
  <2>18. CASE child_die(t)
    BY <2>18 DEF child_die, Ends
  <2>20. CASE stray_end(t)
    BY <2>20 DEF stray_end
  <2>19. QED BY <1>2, <2>1, <2>2, <2>3, <2>4, <2>5, <2>6, <2>7, <2>8, <2>9,
             <2>10, <2>11, <2>12, <2>13, <2>14, <2>15, <2>16, <2>17, <2>18, <2>20
             DEF Step
<1>3. QED BY <1>1, <1>2 DEF Next, Terminated


(* So no child vanishes from the poll, and a status of RL_FAILED is that   *)
(* of a timeout or of SIGHUP.                                              *)
FailedInv ==
  \A t \in Callers :
    /\ child[t] # "gone"
    /\ pc[t] \in Entering => status[t] = "exit"
    /\ pc[t] \in {"loop"} \cup Leaving /\ status[t] = "failed" => retry[t]
    /\ pc[t] \in {"loop"} \cup Leaving /\ status[t] = "hup" => ended[t] = "hup"
    /\ result[t] = "failed" => retry[t] \/ ended[t] = "hup"

(* Every step keeps this, when sigaction and sigprocmask do not fail.      *)
LEMMA FailedStep ==
  ASSUME TypeOK, TypeOK', FailedInv,
         ChildInv,
         DefaultInv,
         "sig" \notin Failures,
         [Next]_vars
  PROVE  FailedInv'
<1> USE DEF TypeOK, Goto, SigFails, IterationDone, signals, loop, FailedInv,
            ChildInv, Entering, Forked, Leaving, Endings, Answer
<1>1. CASE UNCHANGED vars
  BY <1>1 DEF vars
<1>2. ASSUME NEW t \in Callers,
             \/ rl_system_100ms_ex(t) \/ Step(t)
             \/ child_end(t) \/ child_die(t) \/ stray_end(t)
      PROVE  FailedInv'
  <2>1. CASE rl_system_100ms_ex(t)
    BY <2>1 DEF rl_system_100ms_ex
  <2>2. CASE ignore_signal(t, "INT", "ignore_INT", "ignore_QUIT")
    BY <2>2 DEF ignore_signal
  <2>3. CASE ignore_signal(t, "QUIT", "ignore_QUIT", "block")
    BY <2>3 DEF ignore_signal
  <2>4. CASE block_chld(t)
    BY <2>4 DEF block_chld
  <2>5. CASE default_chld(t)
    BY <2>5 DEF default_chld
  <2>6. CASE fork_child(t)
    <3>1. /\ pc' = [pc EXCEPT ![t] = "poll"] /\ result[t] = "none"
          /\ child' = [child EXCEPT ![t] = "running"]
          /\ ended' = [ended EXCEPT ![t] = "none"]
          /\ retry' = [retry EXCEPT ![t] = FALSE]
          /\ UNCHANGED <<status, result>>
      BY <2>6 DEF fork_child
    <3>2. QED BY <3>1
  <2>7. CASE fork_fails(t)
    BY <2>7 DEF fork_fails, MoreTries
  <2>8. CASE loop_exit(t)
    BY <2>8 DEF loop_exit, MoreTries
  <2>9. CASE poll_child(t)
    <3>1. CASE /\ child[t] = "running" /\ Goto(t, "poll", "sleep")
               /\ UNCHANGED <<loop, result>>
      BY <3>1
    <3>2. CASE child[t] \in Endings /\ IterationDone(t, "poll", child[t], FALSE, FALSE)
      BY <3>2
    <3>3. CASE child[t] = "gone"
      BY <3>3
    <3>4. QED BY <2>9, <3>1, <3>2, <3>3 DEF poll_child
  <2>10. CASE sleep_100ms(t)
    BY <2>10 DEF sleep_100ms
  <2>11. CASE kill_child(t)
    BY <2>11 DEF kill_child
  <2>12. CASE reap_child(t)
    BY <2>12 DEF reap_child
  <2>13. CASE unblock_chld(t)
    BY <2>13 DEF unblock_chld
  <2>14. CASE restore_chld(t)
    BY <2>14 DEF restore_chld
  <2>15. CASE restore_int(t)
    BY <2>15 DEF restore_int
  <2>16. CASE restore_quit(t)
    BY <2>16 DEF restore_quit
  <2>17. CASE child_end(t)
    <3>1. pc[t] \in Forked BY <2>17 DEF child_end
    <3>2. chld = "dfl" BY <3>1 DEF DefaultInv
    <3>3. PICK how \in Endings : Ends(t, how) BY <2>17 DEF child_end
    <3>4. child' = [child EXCEPT ![t] = how] BY <3>2, <3>3 DEF Ends
    <3>5. /\ ended' = [ended EXCEPT ![t] = how] /\ result[t] = "none"
          /\ UNCHANGED <<pc, status, retry, result>>
      BY <3>1, <3>3 DEF Ends
    <3>6. QED BY <3>1, <3>4, <3>5
  <2>18. CASE child_die(t)
    <3>1. pc[t] \in Forked BY <2>18 DEF child_die
    <3>2. chld = "dfl" BY <3>1 DEF DefaultInv
    <3>3. PICK how \in Endings : Ends(t, how) BY <2>18 DEF child_die
    <3>4. child' = [child EXCEPT ![t] = how] BY <3>2, <3>3 DEF Ends
    <3>5. /\ ended' = [ended EXCEPT ![t] = how] /\ result[t] = "none"
          /\ UNCHANGED <<pc, status, retry, result>>
      BY <3>1, <3>3 DEF Ends
    <3>6. QED BY <3>1, <3>4, <3>5
  <2>20. CASE stray_end(t)
    BY <2>20 DEF stray_end
  <2>19. QED BY <1>2, <2>1, <2>2, <2>3, <2>4, <2>5, <2>6, <2>7, <2>8, <2>9,
             <2>10, <2>11, <2>12, <2>13, <2>14, <2>15, <2>16, <2>17, <2>18, <2>20
             DEF Step
<1>3. QED BY <1>1, <1>2 DEF Next, Terminated


(* RL_FAILED is answered only for a command that its timeout stopped, or   *)
(* that died of SIGHUP: the poll of rlcmd.c loses no end of a command.     *)
(* For any number of callers in a host that leaves SIGCHLD at its default, *)
(* or for calls that do not overlap.                                       *)
THEOREM FailedAlwaysTimeout ==
  ASSUME "sig" \notin Failures,
         HostChld \subseteq {"dfl"} \/ \A t, u \in Callers : t = u
  PROVE  Spec => []FailedMeansTimeout
<1>1. Init => DefaultInv /\ FailedInv
  BY DEF Init, DefaultInv, FailedInv, Entering, Forked, Leaving
<1>2. TypeInv => TypeOK
  BY DEF TypeInv
<1>3. TypeOK /\ TypeOK' /\ DefaultInv /\ [Next]_vars => DefaultInv'
  BY DefaultStep
<1>4. TypeOK /\ TypeOK' /\ ChildInv /\ DefaultInv /\ FailedInv /\ [Next]_vars => FailedInv'
  BY FailedStep
<1>5. FailedInv => FailedMeansTimeout
  BY DEF FailedInv, FailedMeansTimeout
<1>6. QED
  BY <1>1, <1>2, <1>3, <1>4, <1>5, TypeAlways, ChildAlways, PTL DEF Spec

-----------------------------------------------------------------------------
(* One caller at a time: the dispositions                                  *)

(* From the second sigaction to the restore, both are ignored. A call that *)
(* returned early may have left them so.                                   *)
Guarded == {"block", "default", "loop", "unblock", "chld", "restore_INT"} \cup Forked

GuardInv(c) ==
  /\ pc[c] = "ignore_QUIT" => tty["INT"] = "ign"
  /\ pc[c] \in Guarded => tty["INT"] = "ign" /\ tty["QUIT"] = "ign"

(* Every step of the only caller keeps this, failing sigaction included.   *)
LEMMA GuardStep ==
  ASSUME NEW c, Callers = {c}, TypeOK, TypeOK', GuardInv(c),
         [Next]_vars
  PROVE  GuardInv(c)'
<1> USE DEF TypeOK, Goto, SigFails, IterationDone, signals, loop, GuardInv,
            Guarded, Forked, Tty
<1>1. CASE UNCHANGED vars
  BY <1>1 DEF vars
<1>2. ASSUME NEW t \in Callers,
             \/ rl_system_100ms_ex(t) \/ Step(t)
             \/ child_end(t) \/ child_die(t) \/ stray_end(t)
      PROVE  GuardInv(c)'
  <2>1. CASE rl_system_100ms_ex(t)
    BY <2>1 DEF rl_system_100ms_ex
  <2>2. CASE ignore_signal(t, "INT", "ignore_INT", "ignore_QUIT")
    BY <2>2 DEF ignore_signal
  <2>3. CASE ignore_signal(t, "QUIT", "ignore_QUIT", "block")
    BY <2>3 DEF ignore_signal
  <2>4. CASE block_chld(t)
    BY <2>4 DEF block_chld
  <2>5. CASE default_chld(t)
    BY <2>5 DEF default_chld
  <2>6. CASE fork_child(t)
    BY <2>6 DEF fork_child, MoreTries
  <2>7. CASE fork_fails(t)
    BY <2>7 DEF fork_fails, MoreTries
  <2>8. CASE loop_exit(t)
    BY <2>8 DEF loop_exit, MoreTries
  <2>9. CASE poll_child(t)
    BY <2>9 DEF poll_child
  <2>10. CASE sleep_100ms(t)
    BY <2>10 DEF sleep_100ms
  <2>11. CASE kill_child(t)
    BY <2>11 DEF kill_child
  <2>12. CASE reap_child(t)
    BY <2>12 DEF reap_child
  <2>13. CASE unblock_chld(t)
    BY <2>13 DEF unblock_chld
  <2>14. CASE restore_chld(t)
    BY <2>14 DEF restore_chld
  <2>15. CASE restore_int(t)
    BY <2>15 DEF restore_int
  <2>16. CASE restore_quit(t)
    BY <2>16 DEF restore_quit
  <2>17. CASE child_end(t)
    BY <2>17 DEF child_end, Ends
  <2>18. CASE child_die(t)
    BY <2>18 DEF child_die, Ends
  <2>20. CASE stray_end(t)
    BY <2>20 DEF stray_end
  <2>19. QED BY <1>2, <2>1, <2>2, <2>3, <2>4, <2>5, <2>6, <2>7, <2>8, <2>9,
             <2>10, <2>11, <2>12, <2>13, <2>14, <2>15, <2>16, <2>17, <2>18, <2>20
             DEF Step
<1>3. QED BY <1>1, <1>2 DEF Next, Terminated


(* As long as the command of an attempt runs, neither SIGINT nor SIGQUIT   *)
(* reaches the host, if calls do not overlap, whatever fails; nor does it  *)
(* while the call goes on beside a command that could not be killed.       *)
THEOREM AlwaysProtected ==
  ASSUME NEW c, Callers = {c}
  PROVE  Spec => []ProtectedWhileRunning
<1>1. Init => GuardInv(c)
  BY DEF Init, GuardInv, Guarded, Forked
<1>2. TypeInv => TypeOK
  BY DEF TypeInv
<1>3. TypeOK /\ TypeOK' /\ GuardInv(c) /\ [Next]_vars => GuardInv(c)'
  BY GuardStep
<1>4. TypeOK /\ ChildInv /\ GuardInv(c) => ProtectedWhileRunning
  <2> SUFFICES ASSUME TypeOK, ChildInv, GuardInv(c),
                      child[c] # "none" \/ pc[c] \in {"loop"} \cup Forked
               PROVE  tty = [s \in Tty |-> "ign"]
    BY DEF ProtectedWhileRunning
  <2>1. tty["INT"] = "ign" /\ tty["QUIT"] = "ign"
    BY DEF ChildInv, GuardInv, Guarded
  <2>2. QED BY <2>1 DEF TypeOK, Tty
<1>5. QED BY <1>1, <1>2, <1>3, <1>4, TypeAlways, ChildAlways, PTL DEF Spec

(* Where the host's dispositions are in the signals themselves, and where  *)
(* they are in what the call has saved.                                    *)
Unblocked == {"idle", "ignore_INT", "ignore_QUIT", "block",
              "chld", "restore_INT", "restore_QUIT"}

RestoreInv(c) ==
  /\ tty["INT"] = IF pc[c] \in {"idle", "ignore_INT", "restore_QUIT"}
                  THEN "host" ELSE "ign"
  /\ tty["QUIT"] = IF pc[c] \in {"idle", "ignore_INT", "ignore_QUIT"}
                   THEN "host" ELSE "ign"
  /\ pc[c] \notin {"idle", "ignore_INT"} => saved[c].INT = "host"
  /\ pc[c] \notin {"idle", "ignore_INT", "ignore_QUIT"} => saved[c].QUIT = "host"
  /\ IF pc[c] \in {"loop", "unblock", "chld"} \cup Forked
     THEN chld = "dfl" /\ saved[c].CHLD = host
     ELSE chld = host
  /\ pc[c] \in Unblocked => ~mask[c]

(* Every step of the only caller keeps this, if sigaction does not fail.   *)
LEMMA RestoreStep ==
  ASSUME NEW c, Callers = {c}, TypeOK, TypeOK', RestoreInv(c),
         "sig" \notin Failures,
         [Next]_vars
  PROVE  RestoreInv(c)'
<1> USE DEF TypeOK, Goto, SigFails, IterationDone, signals, loop, RestoreInv,
            Unblocked, Forked, Tty
<1>1. CASE UNCHANGED vars
  BY <1>1 DEF vars
<1>2. ASSUME NEW t \in Callers,
             \/ rl_system_100ms_ex(t) \/ Step(t)
             \/ child_end(t) \/ child_die(t) \/ stray_end(t)
      PROVE  RestoreInv(c)'
  <2>1. CASE rl_system_100ms_ex(t)
    BY <2>1 DEF rl_system_100ms_ex
  <2>2. CASE ignore_signal(t, "INT", "ignore_INT", "ignore_QUIT")
    BY <2>2 DEF ignore_signal
  <2>3. CASE ignore_signal(t, "QUIT", "ignore_QUIT", "block")
    BY <2>3 DEF ignore_signal
  <2>4. CASE block_chld(t)
    BY <2>4 DEF block_chld
  <2>5. CASE default_chld(t)
    BY <2>5 DEF default_chld
  <2>6. CASE fork_child(t)
    BY <2>6 DEF fork_child, MoreTries
  <2>7. CASE fork_fails(t)
    BY <2>7 DEF fork_fails, MoreTries
  <2>8. CASE loop_exit(t)
    BY <2>8 DEF loop_exit, MoreTries
  <2>9. CASE poll_child(t)
    BY <2>9 DEF poll_child
  <2>10. CASE sleep_100ms(t)
    BY <2>10 DEF sleep_100ms
  <2>11. CASE kill_child(t)
    BY <2>11 DEF kill_child
  <2>12. CASE reap_child(t)
    BY <2>12 DEF reap_child
  <2>13. CASE unblock_chld(t)
    BY <2>13 DEF unblock_chld
  <2>14. CASE restore_chld(t)
    BY <2>14 DEF restore_chld
  <2>15. CASE restore_int(t)
    BY <2>15 DEF restore_int
  <2>16. CASE restore_quit(t)
    BY <2>16 DEF restore_quit
  <2>17. CASE child_end(t)
    BY <2>17 DEF child_end, Ends
  <2>18. CASE child_die(t)
    BY <2>18 DEF child_die, Ends
  <2>20. CASE stray_end(t)
    BY <2>20 DEF stray_end
  <2>19. QED BY <1>2, <2>1, <2>2, <2>3, <2>4, <2>5, <2>6, <2>7, <2>8, <2>9,
             <2>10, <2>11, <2>12, <2>13, <2>14, <2>15, <2>16, <2>17, <2>18, <2>20
             DEF Step
<1>3. QED BY <1>1, <1>2 DEF Next, Terminated


(* When no call is under way the dispositions are the host's own and       *)
(* SIGCHLD is not blocked, if calls do not overlap and sigaction and       *)
(* sigprocmask do not fail (with overlapping calls the host stays deaf to  *)
(* SIGINT: rlcmd.c:141).                                                   *)
THEOREM SignalsAlwaysRestored ==
  ASSUME NEW c, Callers = {c}, "sig" \notin Failures
  PROVE  Spec => []SignalsRestored
<1>1. Init => RestoreInv(c)
  BY DEF Init, RestoreInv, Unblocked, Forked, Tty
<1>2. TypeInv => TypeOK
  BY DEF TypeInv
<1>3. TypeOK /\ TypeOK' /\ RestoreInv(c) /\ [Next]_vars => RestoreInv(c)'
  BY RestoreStep
<1>4. TypeOK /\ RestoreInv(c) => SignalsRestored
  <2> SUFFICES ASSUME TypeOK, RestoreInv(c), Quiet
               PROVE  /\ tty = [s \in Tty |-> "host"]
                      /\ chld = host
                      /\ \A t \in Callers : ~mask[t]
    BY DEF SignalsRestored
  <2>1. pc[c] = "idle" BY DEF Quiet
  <2>2. tty["INT"] = "host" /\ tty["QUIT"] = "host" BY <2>1 DEF RestoreInv
  <2>3. chld = host /\ ~mask[c] BY <2>1 DEF RestoreInv, Unblocked, Forked
  <2>4. tty = [s \in Tty |-> "host"] BY <2>2 DEF TypeOK, Tty
  <2>5. QED BY <2>3, <2>4
<1>5. QED BY <1>1, <1>2, <1>3, <1>4, TypeAlways, PTL DEF Spec
=============================================================================
