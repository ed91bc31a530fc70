------------------------------ MODULE Executor ------------------------------
(***************************************************************************)
(* One command under OSExecutor (internal/toolchain/executor.go): a leader *)
(* and a helper in a process group of their own, the pipes they write to,  *)
(* the context that may be cancelled, and the escalation of signals.  The  *)
(* helper stays in the group.                                              *)
(***************************************************************************)
EXTENDS Integers

VARIABLES
    cmd,    \* where Run stands and what it will return
    group   \* the leader and the helper

executorVars == <<cmd, group>>

ExecutorInit ==
    /\ cmd = [at |-> "start", cancelled |-> FALSE, done |-> FALSE, signal |-> "none",
              over |-> FALSE, code |-> 0, error |-> "none"]
    /\ group = [leader |-> "none", helper |-> "none", holds |-> FALSE, ignores |-> FALSE]

(* The helper may have been started with the pipes or without, and may     *)
(* ignore SIGTERM.                                                         *)
StartCommand ==
    /\ cmd.at = "start" /\ ~cmd.cancelled
    /\ \E helper \in {"none", "alive"}, holds \in BOOLEAN, ignores \in BOOLEAN :
          group' = [leader |-> "alive", helper |-> helper,
                    holds |-> holds /\ helper = "alive", ignores |-> ignores]
    /\ cmd' = [cmd EXCEPT !.at = "waiting"]

(* No such program, or a context that is over already.                     *)
StartFails ==
    /\ cmd.at = "start"
    /\ cmd' = [cmd EXCEPT !.at = "returned", !.error = "start"]
    /\ UNCHANGED group

Cancel ==
    /\ ~cmd.cancelled /\ cmd.at # "returned"
    /\ cmd' = [cmd EXCEPT !.cancelled = TRUE]
    /\ UNCHANGED group

-----------------------------------------------------------------------------
(* --- What the processes do ------------------------------------------------ *)
LeaderExits ==
    /\ group.leader = "alive"
    /\ group' = [group EXCEPT !.leader = "dead"]
    /\ \E code \in {0, 1} : cmd' = [cmd EXCEPT !.code = code]

HelperExits ==
    /\ group.helper = "alive"
    /\ group' = [group EXCEPT !.helper = "dead", !.holds = FALSE]
    /\ UNCHANGED cmd

HelperClosesPipes ==
    /\ group.helper = "alive" /\ group.holds
    /\ group' = [group EXCEPT !.holds = FALSE]
    /\ UNCHANGED cmd

(* limitedBuffer's Write drops what is over the limit and lets the writer  *)
(* go on.  It may be bypassed: io.Copy takes the ReadFrom the buffer is    *)
(* embedded with, which keeps everything; then this step never happens.    *)
OutputExceeds ==
    /\ ~cmd.over /\ (group.leader = "alive" \/ group.holds)
    /\ cmd' = [cmd EXCEPT !.over = TRUE]
    /\ UNCHANGED group

(* A signal reaches whoever is left: SIGKILL everyone, SIGTERM those that  *)
(* do not ignore it.                                                       *)
SignalArrives ==
    /\ cmd.signal # "none"
    /\ LET deaf == cmd.signal = "term" /\ group.ignores IN
       /\ group.leader = "alive" \/ (group.helper = "alive" /\ ~deaf)
       /\ group' = [group EXCEPT
                      !.leader = "dead",
                      !.helper = IF @ = "alive" /\ ~deaf THEN "dead" ELSE @,
                      !.holds = @ /\ deaf]
    /\ cmd' = [cmd EXCEPT !.code = IF group.leader = "alive" THEN -1 ELSE @]

(* cmd.Wait: the leader is reaped and every writer of the pipes is gone.   *)
WaitReturns ==
    /\ group.leader = "dead" /\ ~group.holds /\ ~cmd.done
    /\ cmd' = [cmd EXCEPT !.done = TRUE]
    /\ UNCHANGED group

-----------------------------------------------------------------------------
(* --- waitOrCancel, finishCanceled and the result -------------------------- *)
(* When both are ready the select takes either.                            *)
Finished ==
    /\ cmd.at = "waiting" /\ cmd.done
    /\ cmd' = [cmd EXCEPT !.at = "reporting"]
    /\ UNCHANGED group

TerminateGroup ==
    /\ cmd.at = "waiting" /\ cmd.cancelled
    /\ cmd' = [cmd EXCEPT !.at = "terminating", !.signal = "term"]
    /\ UNCHANGED group

(* Fault: reports the command over without waiting for the kill.           *)
FaultKillGroup ==
    /\ cmd.at = "terminating"
    /\ cmd' = [cmd EXCEPT !.at = "reporting", !.signal = "kill"]
    /\ UNCHANGED group

(* 250 ms later.                                                           *)
KillGroup ==
    /\ cmd.at = "terminating"
    /\ cmd' = [cmd EXCEPT !.at = "killing", !.signal = "kill"]
    /\ UNCHANGED group

(* A clean exit under cancellation is an error with no exit code.          *)
FinishCanceled ==
    /\ cmd.at \in {"terminating", "killing"} /\ cmd.done
    /\ cmd' = [cmd EXCEPT !.at = "reporting", !.code = IF @ = 0 THEN -1 ELSE @]
    /\ UNCHANGED group

CommandError ==
    IF cmd.over THEN "limit"
    ELSE IF cmd.cancelled THEN "cancelled"
    ELSE IF cmd.code # 0 THEN "exit"
    ELSE "none"

ReturnResult ==
    /\ cmd.at = "reporting"
    /\ cmd' = [cmd EXCEPT !.at = "returned", !.error = CommandError]
    /\ UNCHANGED group

ExecutorNext ==
    \/ StartCommand \/ StartFails \/ Cancel
    \/ LeaderExits \/ HelperExits \/ HelperClosesPipes \/ OutputExceeds
    \/ SignalArrives \/ WaitReturns
    \/ Finished \/ TerminateGroup \/ KillGroup \/ FinishCanceled \/ ReturnResult

ExecutorSpec == ExecutorInit /\ [][ExecutorNext]_executorVars

-----------------------------------------------------------------------------
(***************************************************************************)
(* When Run returns, however the command's own end and the cancellation    *)
(* raced, the leader is reaped, nobody can write into the output that is   *)
(* being parsed, and a result without an error is the whole output of a    *)
(* command that ended by itself with status 0 (waitOrCancel,               *)
(* finishCanceled, commandError).                                          *)
(***************************************************************************)
ReturnedRunIsOver ==
    cmd.at = "returned" /\ cmd.error # "start" =>
        /\ group.leader = "dead" /\ ~group.holds
        /\ cmd.error = "none" => cmd.code = 0 /\ ~cmd.over /\ cmd.signal = "none"
        /\ cmd.signal # "none" => cmd.error \in {"cancelled", "limit"}

=============================================================================
