------------------------------ MODULE Shutdown ------------------------------
(***************************************************************************)
(* The threshold action of app.c in detail: spawn_shutdown_command starts  *)
(* `systemctl --no-block poweroff`, and observe_startup watches the child  *)
(* for a grace period, then kills and reaps it.  The calls block the event *)
(* loop.  Monitor sees only their result and that they take at most        *)
(* MaxAction milliseconds; it also has the dry run, which spawns nothing.  *)
(*                                                                         *)
(* pc names the statement about to be executed:                            *)
(*   "idle"      outside the action, in the event loop                     *)
(*   "start"     observe_startup reads the clock for the first time        *)
(*   "waitpid"   waitpid(WNOHANG)        "now"   the clock, in the loop    *)
(*   "sleep"     in nanosleep            "kill"  kill(SIGKILL)             *)
(*   "reap"      in the waitpid that blocks                                *)
(***************************************************************************)
EXTENDS Base, Sequences, FiniteSets

CONSTANTS
  LS_STARTUP_GRACE_MS, LS_SHUTDOWN_RETRY_MS,
  KillTime,     \* bound: ms a process takes to die of SIGKILL
  MaxCalls,     \* bound: calls of spawn_shutdown_command
  MaxClock,     \* bound: the last clock value of a behaviour
  MaxHeld,      \* bound: ms for which a call may be held up by the scheduler
  Faults        \* system calls that may fail: "spawn", "clock", "waitpid",
                \* "sleep"

PCs == {"idle", "start", "waitpid", "now", "sleep", "kill", "reap"}

MaxAction == LS_STARTUP_GRACE_MS + LS_SHUTDOWN_RETRY_MS + KillTime

ASSUME ShutdownAssumption ==
  /\ LS_STARTUP_GRACE_MS \in Nat \ {0}
  /\ LS_SHUTDOWN_RETRY_MS \in Nat \ {0}
  /\ KillTime \in Nat
  /\ MaxCalls \in Nat
  /\ MaxClock \in Nat
  /\ MaxClock < UINT64_MAX
  /\ MaxHeld \in Nat
  /\ Faults \subseteq {"spawn", "clock", "waitpid", "sleep"}

VARIABLES
  clock,        \* the monotonic clock
  pc,           \* control state, see above
  result,       \* what the last call returned, "none" before the first one
  calls,        \* number of calls so far
  deadline_ms,  \* end of the grace period of the current call
  wake,         \* clock value at which the current sleep ends, or by which a
                \* killed child is dead
  children,     \* the children spawned so far, the last one being child_pid
  began,        \* history: clock value at which the current call began
  ended,        \* history: clock value at which child_pid ended
  held,         \* history: ms for which the last observation was held up
  faults        \* history: system calls that have failed while a child was
                \* being observed

vars == <<clock, pc, result, calls, deadline_ms, wake, children, began, ended,
          held, faults>>

Child == [state : {"running", "killed", "zombie", "gone"},
          status : {"none", "success", "error", "signal"},
          asked : BOOLEAN]    \* it has asked systemd to power off

child_pid == Len(children)

Init ==
  /\ clock = 0
  /\ pc = "idle"
  /\ result = "none"
  /\ calls = 0
  /\ deadline_ms = 0
  /\ wake = 0
  /\ children = <<>>
  /\ began = 0
  /\ ended = 0
  /\ held = 0
  /\ faults = 0

-----------------------------------------------------------------------------
(* The process.                                                            *)

\* The action is over and returns r to check_threshold.
Return(r) == pc' = "idle" /\ result' = r

\* check_threshold runs the action, again after each LS_ACTION_FAILED and
\* never after LS_ACTION_TRIGGERED, which stops the loop.
Call ==
  /\ pc = "idle"
  /\ result \in {"none", "FAILED"}
  /\ calls < MaxCalls
  /\ clock + MaxAction + MaxHeld <= MaxClock
  /\ calls' = calls + 1
  /\ began' = clock

\* posix_spawn, or the preparation of its file actions, fails: no child.
spawn_fails ==
  /\ Call
  /\ "spawn" \in Faults
  /\ Return("FAILED")
  /\ UNCHANGED <<clock, deadline_ms, wake, children, ended, held, faults>>

spawn_shutdown_command ==
  /\ Call
  /\ children' = Append(children, [state |-> "running", status |-> "none",
                                   asked |-> FALSE])
  /\ ended' = 0
  /\ held' = 0
  /\ pc' = "start"
  /\ UNCHANGED <<clock, result, deadline_ms, wake, faults>>

observe_startup ==
  /\ pc = "start"
  /\ deadline_ms' = ls_add_sat(clock, LS_STARTUP_GRACE_MS)
  /\ pc' = "waitpid"
  /\ UNCHANGED <<clock, result, calls, wake, children, began, ended, held,
                 faults>>

\* Mutant: any exit of the command is taken for its success.
consume_child_status_any(status) == "TRIGGERED"

consume_child_status(status) ==
  IF status = "success" THEN "TRIGGERED" ELSE "FAILED"

Reap == children' = [children EXCEPT ![child_pid].state = "gone"]

waitpid_reaps ==
  /\ pc = "waitpid"
  /\ children[child_pid].state = "zombie"
  /\ Reap
  /\ Return(consume_child_status(children[child_pid].status))
  /\ UNCHANGED <<clock, calls, deadline_ms, wake, began, ended, held,
                 faults>>

\* Mutant: once the deadline has passed the child is not looked at again.
waitpid_running_gives_up ==
  /\ pc = "waitpid"
  /\ children[child_pid].state # "zombie" \/ clock >= deadline_ms
  /\ pc' = "now"
  /\ UNCHANGED <<clock, result, calls, deadline_ms, wake, children, began, ended, held,
                 faults>>

\* waitpid returns 0: the child has not ended.
waitpid_running ==
  /\ pc = "waitpid"
  /\ children[child_pid].state # "zombie"
  /\ pc' = "now"
  /\ UNCHANGED <<clock, result, calls, deadline_ms, wake, children, began, ended, held,
                 faults>>

\* Mutant: the grace period is compared with the wrong bound.
overrun_late == clock > deadline_ms + LS_SHUTDOWN_RETRY_MS

overrun == clock >= deadline_ms

\* The grace period is not over: sleep_retry_window.
sleep_retry_window ==
  /\ pc = "now"
  /\ ~overrun
  /\ wake' = clock + LS_SHUTDOWN_RETRY_MS
  /\ pc' = "sleep"
  /\ UNCHANGED <<clock, result, calls, deadline_ms, children, began, ended, held,
                 faults>>

sleep_ends ==
  /\ pc = "sleep"
  /\ clock >= wake
  /\ pc' = "waitpid"
  /\ UNCHANGED <<clock, result, calls, deadline_ms, wake, children, began, ended, held,
                 faults>>

grace_over ==
  /\ pc = "now"
  /\ overrun
  /\ pc' = "kill"
  /\ UNCHANGED <<clock, result, calls, deadline_ms, wake, children, began, ended, held,
                 faults>>

\* Mutant: the child is not killed before it is waited for.
kill_child_not ==
  /\ pc = "kill"
  /\ wake' = clock + KillTime
  /\ pc' = "reap"
  /\ UNCHANGED <<clock, result, calls, deadline_ms, children, began, ended, held,
                 faults>>

\* kill(child_pid, SIGKILL): of no effect on a child that has already ended.
kill_child ==
  /\ pc = "kill"
  /\ children' = [children EXCEPT ![child_pid].state =
                    IF @ = "running" THEN "killed" ELSE @]
  /\ wake' = clock + KillTime
  /\ pc' = "reap"
  /\ UNCHANGED <<clock, result, calls, deadline_ms, began, ended, held,
                 faults>>

\* Mutant: the blocking waitpid is left out.
reap_not ==
  /\ pc = "reap"
  /\ Return("FAILED")
  /\ UNCHANGED <<clock, calls, deadline_ms, wake, children, began, ended, held,
                 faults>>

\* waitpid(child_pid, &reaped_status, 0) returns; reaped_status is not used.
reap ==
  /\ pc = "reap"
  /\ children[child_pid].state = "zombie"
  /\ Reap
  /\ Return("FAILED")
  /\ UNCHANGED <<clock, calls, deadline_ms, wake, began, ended, held,
                 faults>>

\* The clock, either waitpid or nanosleep fails: the child is left as it is.
observation_fails ==
  /\ \/ pc \in {"start", "now"} /\ "clock" \in Faults
     \/ pc \in {"waitpid", "reap"} /\ "waitpid" \in Faults
     \/ pc = "sleep" /\ "sleep" \in Faults
  /\ Return("FAILED")
  /\ faults' = faults + 1
  /\ UNCHANGED <<clock, calls, deadline_ms, wake, children, began, ended, held>>

-----------------------------------------------------------------------------
(* The environment: systemctl, and time.                                   *)

Ends(c, status) ==
  /\ children' = [children EXCEPT ![c].state = "zombie", ![c].status = status]
  /\ ended' = IF c = child_pid THEN clock ELSE ended

\* systemctl asks systemd to power off; it may be killed before it exits.
ChildAsks ==
  \E c \in DOMAIN children :
    /\ children[c].state = "running"
    /\ ~children[c].asked
    /\ children' = [children EXCEPT ![c].asked = TRUE]
    /\ UNCHANGED <<clock, pc, result, calls, deadline_ms, wake, began, ended, held,
                 faults>>

\* It exits with code 0 once it has asked, with another code if it could not,
\* or somebody else kills it.
ChildEnds ==
  \E c \in DOMAIN children :
    /\ children[c].state = "running"
    /\ \/ children[c].asked /\ Ends(c, "success")
       \/ ~children[c].asked /\ Ends(c, "error")
       \/ Ends(c, "signal")
    /\ UNCHANGED <<clock, pc, result, calls, deadline_ms, wake, began, held, faults>>

\* A killed process dies.
ChildDies ==
  \E c \in DOMAIN children :
    /\ children[c].state = "killed"
    /\ Ends(c, "signal")
    /\ UNCHANGED <<clock, pc, result, calls, deadline_ms, wake, began, held, faults>>

\* Time passes in the event loop, in a sleep, while a killed child dies, and
\* wherever else the process is held up.
Tick ==
  /\ clock < MaxClock
  /\ clock' = clock + 1
  /\ \/ pc = "idle" /\ UNCHANGED held
     \/ pc \in {"sleep", "reap"} /\ clock < wake /\ UNCHANGED held
     \/ pc # "idle" /\ held < MaxHeld /\ held' = held + 1
  /\ UNCHANGED <<pc, result, calls, deadline_ms, wake, children, began, ended,
                 faults>>

\* The observation goes on: no system call fails in this step.
Observe ==
  \/ observe_startup \/ waitpid_reaps \/ waitpid_running
  \/ sleep_retry_window \/ sleep_ends \/ grace_over \/ kill_child \/ reap

Action ==
  \/ spawn_fails \/ spawn_shutdown_command
  \/ Observe \/ observation_fails

\* The behaviour ends when the clock does.
Done == pc = "idle" /\ clock = MaxClock /\ UNCHANGED vars

Next == Action \/ ChildAsks \/ ChildEnds \/ ChildDies \/ Tick \/ Done

Spec == Init /\ [][Next]_vars

\* The process runs, time passes, and a killed process dies.  A child that was
\* not killed may hang for ever, and no system call has to fail.
Fairness == WF_vars(Observe) /\ WF_vars(Tick) /\ WF_vars(ChildDies)

FairSpec == Spec /\ Fairness

-----------------------------------------------------------------------------
TypeOK ==
  /\ clock \in 0 .. MaxClock
  /\ pc \in PCs
  /\ result \in {"none", "TRIGGERED", "FAILED"}
  /\ calls \in 0 .. MaxCalls
  /\ deadline_ms \in Uint64
  /\ wake \in Nat
  /\ children \in Seq(Child)
  /\ began \in 0 .. MaxClock
  /\ ended \in 0 .. MaxClock
  /\ held \in 0 .. MaxHeld
  /\ faults \in 0 .. calls

Unreaped == {c \in DOMAIN children : children[c].state # "gone"}

\* observe_startup must not assume "optimistically ... that the shutdown was
\* handed off": when run_shutdown_action returns LS_ACTION_TRIGGERED, on which
\* check_threshold ends the monitoring for good, the command has asked systemd
\* for the poweroff and has been reaped.
NotOptimistic ==
  result = "TRIGGERED" => /\ children[child_pid].asked
                          /\ children[child_pid].state = "gone"

\* A failed action is run again at each further failed probe for as long as the
\* outage lasts.  The commands it leaves behind, running or zombies, are no more
\* than the observations that a failing system call cut short: an overrun, an
\* error exit or a failed spawn leaves none.
NothingLeftBehind == pc = "idle" => Cardinality(Unreaped) <= faults

\* When no system call fails and the process is not held up, a command that
\* handed the shutdown off and exited within the grace period is never reported
\* as failed, even if it ended during the last sleep of the observation.  A
\* process held up between waitpid and its next look at the clock may report a
\* command that ended in the meantime as failed, and then runs it once more.
InTimeIsTriggered ==
  (/\ pc = "idle" /\ result = "FAILED" /\ faults = 0 /\ held = 0
   /\ children # <<>> /\ children[child_pid].status = "success")
    => ended >= deadline_ms

\* The event loop, and with it the watchdog heartbeat, is blocked by a call for
\* at most MaxAction ms and the time the process was held up, even if the
\* command hangs: the bound that Monitor assumes of run_shutdown_action.
\* copilot-instructions.md:288 has the child observed "for at most 1 s"; that is
\* the grace period alone, and the bound adds the last sleep and the kill.
WithinMaxAction == pc # "idle" => clock <= began + MaxAction + held

\* run_shutdown_action returns to the event loop, even from a command that
\* never ends by itself.
ActionReturns == (pc # "idle") ~> (pc = "idle")
=============================================================================
