------------------------------ MODULE Service ------------------------------
(***************************************************************************)
(* The life of the linkstay process, from main to its exit: the steps of   *)
(* app_init and app_run and how each failure unwinds, the descriptors the  *)
(* process owns, its signal mask, and what it tells systemd.  The event    *)
(* loop, which Monitor has in detail, is one control point here.           *)
(*                                                                         *)
(* pc names the call about to be made:                                     *)
(*   "config"       ls_config_resolve         "notify"    ls_notify_init   *)
(*   "icmp"         ls_icmp_open              "mask"      sigprocmask and  *)
(*   "signalfd"     signalfd, both in ls_loop_watch_signals                *)
(*   "clock"        ls_now_ms in app_run      "ready"     log_startup      *)
(*   "loop"         in ls_loop_run            "log_shutdown"               *)
(*   "close", "restore"   the two halves of ls_loop_destroy                *)
(*   "app_destroy"                                                         *)
(* and "exited" after main has returned, "killed" after the default action *)
(* of a watched signal, "crashed" after any other: SIGKILL, or SIGABRT     *)
(* from systemd's watchdog.  ls_addr_parse and the slot registrations      *)
(* cannot fail where app.c calls them: config.c has parsed the same        *)
(* target, and the slots outnumber the registrations.                      *)
(***************************************************************************)
EXTENDS Integers, Sequences

CONSTANTS
  Signals,    \* signals sent to the process
  Faults      \* calls that may fail: "config", "notify", "icmp", "mask",
              \* "signalfd", "clock", "ready", "loop"

\* The signals app_run watches, with their numbers.
Watched == {"SIGINT", "SIGUSR1", "SIGTERM"}
Signo == [SIGINT |-> 2, SIGUSR1 |-> 10, SIGTERM |-> 15]

ASSUME ServiceAssumption ==
  /\ Signals \subseteq Watched
  /\ Faults \subseteq {"config", "notify", "icmp", "mask", "signalfd", "clock",
                       "ready", "loop"}

VARIABLES
  pc,         \* control state, see above
  rc,         \* the value main returns, once decided
  open,       \* the descriptors the process has open
  inherited,  \* the signal mask the process started with
  blocked,    \* its signal mask
  pending,    \* signals sent and neither read nor delivered
  told,       \* READY and STOPPING notifications, in order (a STOPPING that
              \* cannot be sent is ignored by the code and counts as told)
  cause       \* history: why the loop ended, "none" before

vars == <<pc, rc, open, inherited, blocked, pending, told, cause>>

LS_EXIT_SUCCESS == 0
LS_EXIT_FAILURE == 1

Over == {"exited", "killed"}
Dead == Over \cup {"crashed"}

Init ==
  /\ pc = "config"
  /\ rc = LS_EXIT_SUCCESS
  /\ open = {}
  /\ inherited \in SUBSET Signals
  /\ blocked = inherited
  /\ pending = {}
  /\ told = <<>>
  /\ cause = "none"

-----------------------------------------------------------------------------
\* Pending signals that the mask does not hold back.  The kernel delivers one
\* before the process executes another statement.
Deliverable == pending \ blocked

Step(from, to) == Deliverable = {} /\ pc = from /\ pc' = to

\* The call at from fails: control goes to the unwinding step to.
Fails(from, to) ==
  /\ from \in Faults
  /\ Step(from, to)
  /\ rc' = LS_EXIT_FAILURE

ls_config_resolve ==
  /\ \/ Step("config", "notify") /\ UNCHANGED rc
     \/ Fails("config", "exited")
  /\ UNCHANGED <<open, inherited, blocked, pending, told, cause>>

\* A descriptor is owned once the call that opens it has succeeded.
ls_notify_init ==
  /\ \/ Step("notify", "icmp") /\ open' = open \cup {"notify"} /\ UNCHANGED rc
     \/ Fails("notify", "app_destroy") /\ UNCHANGED open
  /\ UNCHANGED <<inherited, blocked, pending, told, cause>>

ls_icmp_open ==
  /\ \/ Step("icmp", "mask") /\ open' = open \cup {"icmp"} /\ UNCHANGED rc
     \/ Fails("icmp", "app_destroy") /\ UNCHANGED open
  /\ UNCHANGED <<inherited, blocked, pending, told, cause>>

\* Mutant: the statistics signal is left out of the mask.
block_signals_without_SIGUSR1 ==
  /\ \/ /\ Step("mask", "signalfd")
        /\ blocked' = blocked \cup {"SIGINT", "SIGTERM"}
        /\ UNCHANGED rc
     \/ Fails("mask", "app_destroy") /\ UNCHANGED blocked
  /\ UNCHANGED <<open, inherited, pending, told, cause>>

\* The first half of ls_loop_watch_signals.  When it fails, ls_loop_destroy
\* finds neither a descriptor nor a mask to restore.
block_signals ==
  /\ \/ Step("mask", "signalfd") /\ blocked' = blocked \cup Watched /\ UNCHANGED rc
     \/ Fails("mask", "app_destroy") /\ UNCHANGED blocked
  /\ UNCHANGED <<open, inherited, pending, told, cause>>

\* Mutant: the failing signalfd does not roll the mask back.
open_signalfd_no_rollback ==
  /\ \/ /\ Step("signalfd", "clock")
        /\ open' = open \cup {"signalfd"}
        /\ UNCHANGED <<rc, blocked>>
     \/ Fails("signalfd", "app_destroy") /\ UNCHANGED <<open, blocked>>
  /\ UNCHANGED <<inherited, pending, told, cause>>

\* The second half of ls_loop_watch_signals: a failure restores the mask.
open_signalfd ==
  /\ \/ /\ Step("signalfd", "clock")
        /\ open' = open \cup {"signalfd"}
        /\ UNCHANGED <<rc, blocked>>
     \/ /\ Fails("signalfd", "app_destroy")
        /\ blocked' = inherited
        /\ UNCHANGED open
  /\ UNCHANGED <<inherited, pending, told, cause>>

\* Arming the timers needs the clock.
arm_timers ==
  /\ \/ Step("clock", "ready") /\ UNCHANGED rc
     \/ Fails("clock", "close")
  /\ UNCHANGED <<open, inherited, blocked, pending, told, cause>>

log_startup ==
  /\ \/ Step("ready", "loop") /\ told' = Append(told, "READY") /\ UNCHANGED rc
     \/ Fails("ready", "close") /\ UNCHANGED told
  /\ UNCHANGED <<open, inherited, blocked, pending, cause>>

-----------------------------------------------------------------------------
(* ls_loop_run.                                                            *)

\* Mutant: the exit code of the loop is not handed on.
LoopEnds_drops_code(why, code) ==
  /\ Step("loop", "log_shutdown")
  /\ cause' = why
  /\ UNCHANGED rc

\* The loop returns code to app_run.
LoopEnds(why, code) ==
  /\ Step("loop", "log_shutdown")
  /\ cause' = why
  /\ rc' = code

\* Mutant: SIGTERM is read and ignored.
on_signal_ignores_SIGTERM ==
  /\ pending # {}
  /\ LET s == CHOOSE s \in pending : \A t \in pending : Signo[s] <= Signo[t]
     IN  /\ pending' = pending \ {s}
         /\ \/ s = "SIGINT" /\ LoopEnds("signal", LS_EXIT_SUCCESS)
            \/ s # "SIGINT" /\ Step("loop", "loop") /\ UNCHANGED <<rc, cause>>
  /\ UNCHANGED <<open, inherited, blocked, told>>

\* dispatch_signal_fd reads the pending signal with the lowest number.
on_signal ==
  /\ pending # {}
  /\ LET s == CHOOSE s \in pending : \A t \in pending : Signo[s] <= Signo[t]
     IN  /\ pending' = pending \ {s}
         /\ \/ s # "SIGUSR1" /\ LoopEnds("signal", LS_EXIT_SUCCESS)
            \/ s = "SIGUSR1" /\ Step("loop", "loop") /\ UNCHANGED <<rc, cause>>
  /\ UNCHANGED <<open, inherited, blocked, told>>

\* Mutant: the action ends the loop as an error does.
threshold_fails ==
  /\ LoopEnds("threshold", LS_EXIT_FAILURE)
  /\ UNCHANGED <<open, inherited, blocked, pending, told>>

\* The threshold action, simulated or triggered, ends the loop.
threshold ==
  /\ LoopEnds("threshold", LS_EXIT_SUCCESS)
  /\ UNCHANGED <<open, inherited, blocked, pending, told>>

\* A fatal error of the loop or of a probe.
loop_fails ==
  /\ "loop" \in Faults
  /\ LoopEnds("error", LS_EXIT_FAILURE)
  /\ UNCHANGED <<open, inherited, blocked, pending, told>>

-----------------------------------------------------------------------------
(* Unwinding.                                                              *)

\* STOPPING=1 and the final statistics.
log_shutdown ==
  /\ Step("log_shutdown", "close")
  /\ told' = Append(told, "STOPPING")
  /\ UNCHANGED <<rc, open, inherited, blocked, pending, cause>>

\* The first half of ls_loop_destroy.
close_signalfd ==
  /\ Step("close", "restore")
  /\ open' = open \ {"signalfd"}
  /\ UNCHANGED <<rc, inherited, blocked, pending, told, cause>>

\* The second half: signals that nobody read become deliverable.  sigprocmask
\* cannot fail for the mask it gave out; the code would only log it (loop.c:42).
restore_mask ==
  /\ Step("restore", "app_destroy")
  /\ blocked' = inherited
  /\ UNCHANGED <<rc, open, inherited, pending, told, cause>>

app_destroy ==
  /\ Step("app_destroy", "exited")
  /\ open' = open \ {"notify", "icmp"}
  /\ UNCHANGED <<rc, inherited, blocked, pending, told, cause>>

-----------------------------------------------------------------------------
(* The environment.                                                        *)

SignalArrives(s) ==
  /\ pc \notin Dead
  /\ pending' = pending \cup {s}
  /\ UNCHANGED <<pc, rc, open, inherited, blocked, told, cause>>

\* The default action of every watched signal is to terminate the process.
SignalKills ==
  /\ pc \notin Dead
  /\ Deliverable # {}
  /\ pc' = "killed"
  /\ open' = {}
  /\ UNCHANGED <<rc, inherited, blocked, pending, told, cause>>

\* No mask holds this one back.
Crash ==
  /\ pc \notin Dead
  /\ pc' = "crashed"
  /\ open' = {}
  /\ UNCHANGED <<rc, inherited, blocked, pending, told, cause>>

Terminated == pc \in Dead /\ UNCHANGED vars

Startup ==
  \/ ls_config_resolve \/ ls_notify_init \/ ls_icmp_open
  \/ block_signals \/ open_signalfd \/ arm_timers \/ log_startup

Run == on_signal \/ threshold \/ loop_fails

Unwind == log_shutdown \/ close_signalfd \/ restore_mask \/ app_destroy

Next ==
  \/ Startup \/ Run \/ Unwind
  \/ \E s \in Signals : SignalArrives(s)
  \/ SignalKills
  \/ Crash
  \/ Terminated

Spec == Init /\ [][Next]_vars

-----------------------------------------------------------------------------
TypeOK ==
  /\ pc \in {"config", "notify", "icmp", "mask", "signalfd", "clock", "ready",
             "loop", "log_shutdown", "close", "restore", "app_destroy"} \cup Dead
  /\ rc \in {LS_EXIT_SUCCESS, LS_EXIT_FAILURE}
  /\ open \subseteq {"notify", "icmp", "signalfd"}
  /\ inherited \subseteq Signals
  /\ blocked \subseteq Watched
  /\ pending \subseteq Signals
  /\ told \in Seq({"READY", "STOPPING"})
  /\ cause \in {"none", "signal", "threshold", "error"}

\* Whichever call of app_init or app_run fails, main returns with every
\* descriptor closed that was opened, and with the signal mask it was started
\* with.
ResourcesReleased == pc = "exited" => open = {} /\ blocked = inherited

\* systemd hears READY=1 and STOPPING=1 as a pair or hears neither: no watched
\* signal can end the process between the two, and a startup that failed does
\* not announce a stop.
EveryStopAnnounced == pc \in Over => told \in {<<>>, <<"READY", "STOPPING">>}

\* main returns 0 exactly when the loop was ended by a stop signal or by the
\* threshold action, and 1 after every fatal error: what decides whether
\* systemd restarts the service.
ExitCodes ==
  pc = "exited" => ((rc = LS_EXIT_SUCCESS) <=> (cause \in {"signal", "threshold"}))

(* What holds at each control point, from which the properties follow.     *)

Descriptors ==
  /\ pc \in {"config", "notify"} \cup Dead => open = {}
  /\ pc = "icmp" => open = {"notify"}
  /\ pc \in {"mask", "signalfd", "restore"} => open = {"notify", "icmp"}
  /\ pc \in {"clock", "ready", "loop", "log_shutdown", "close"}
       => open = {"notify", "icmp", "signalfd"}
  /\ pc = "app_destroy" => open \subseteq {"notify", "icmp"}

\* While the loop is wired every watched signal is blocked, and nowhere else
\* does the mask differ from the inherited one.
Mask ==
  pc # "crashed" =>
    blocked = IF pc \in {"signalfd", "clock", "ready", "loop", "log_shutdown",
                         "close", "restore"}
              THEN inherited \cup Watched ELSE inherited

Verdict ==
  /\ pc \in {"config", "notify", "icmp", "mask", "signalfd", "clock", "ready"}
       => told = <<>> /\ cause = "none"
  /\ pc = "loop" => told = <<"READY">> /\ cause = "none"
  /\ pc = "log_shutdown" => told = <<"READY">>
  /\ pc \in {"close", "restore", "app_destroy"} \cup Over
       => told \in {<<>>, <<"READY", "STOPPING">>}
  /\ pc \in {"log_shutdown", "close", "restore", "app_destroy", "exited"}
       => ((rc = LS_EXIT_SUCCESS) <=> (cause \in {"signal", "threshold"}))

Inductive == TypeOK /\ Descriptors /\ Mask /\ Verdict

\* A stop by SIGTERM or SIGINT, or by the threshold action, ends with exit code
\* 0, never by a signal.  (It does not hold: a signal that arrives after the
\* last one the loop read is still pending when ls_loop_destroy restores the
\* mask.)
CleanStopExitsZero == pc = "killed" => cause \notin {"signal", "threshold"}
=============================================================================
