---------------------------- MODULE Supervision ----------------------------
(***************************************************************************)
(* The process of module Service under systemd, as linkstay.service        *)
(* configures it: Type=notify, Restart=on-failure, a start limit, and stop *)
(* requests.  A restarted process begins with everything that app_init     *)
(* zeroes, the failure count among it, while the outage goes on.           *)
(*                                                                         *)
(* The manager is external; it follows the keys of the unit file.  Time is *)
(* abstracted: the window of the start limit (StartLimitIntervalSec) can   *)
(* expire only while a process runs its loop, because StartLimitBurst      *)
(* starts with their delays (RestartSec) fit in it otherwise.              *)
(***************************************************************************)
EXTENDS Service

CONSTANTS
  Threshold,        \* fail_threshold
  StartLimitBurst,
  MaxFailures,      \* bound: crashes, loop errors and failing poweroff commands
  MaxRequests       \* bound: signals sent by others than the manager

ASSUME SupervisionAssumption ==
  /\ Threshold \in Nat \ {0} /\ StartLimitBurst \in Nat \ {0}
  /\ MaxFailures \in Nat /\ MaxRequests \in Nat
  /\ "SIGTERM" \in Signals

VARIABLES
  unit,               \* "active", "auto-restart", "inactive" or "failed"
  starts,             \* starts in the window of the start limit
  stop,               \* an operator asked systemd to stop the unit
  consecutive_fails,  \* field of app_t
  outage,             \* the target is unreachable from now on
  failures, requests  \* counters of the bounds

manager == <<unit, starts, stop>>
probes == <<consecutive_fails, outage>>
counts == <<failures, requests>>
allVars == <<vars, manager, probes, counts>>

UnitInit ==
  /\ Init /\ inherited = {}
  /\ unit = "active" /\ starts = 1 /\ stop = FALSE
  /\ consecutive_fails = 0 /\ outage = FALSE
  /\ failures = 0 /\ requests = 0
-----------------------------------------------------------------------------
(* The process: the steps of Service, and the probes of its loop.          *)

ProcessStep ==
  /\ Startup \/ Unwind \/ on_signal \/ SignalKills
  /\ UNCHANGED <<manager, probes, counts>>

ReplyArrives ==
  /\ ~outage
  /\ Step("loop", "loop")
  /\ consecutive_fails' = 0
  /\ UNCHANGED <<rc, open, inherited, blocked, pending, told, cause, outage,
                 manager, counts>>

\* Mutant: a failed probe is not counted.
ProbeFails_uncounted == Step("loop", "loop") /\ UNCHANGED allVars

\* A failed probe, with the threshold action at the end of it; a poweroff
\* command that fails leaves the loop running.
ProbeFails ==
  /\ consecutive_fails' = consecutive_fails + 1
  /\ \/ /\ consecutive_fails' < Threshold
        /\ Step("loop", "loop")
        /\ UNCHANGED <<rc, open, inherited, blocked, pending, told, cause, counts>>
     \/ /\ consecutive_fails' >= Threshold
        /\ threshold
        /\ UNCHANGED counts
     \/ /\ consecutive_fails' >= Threshold
        /\ Step("loop", "loop")
        /\ failures < MaxFailures /\ failures' = failures + 1
        /\ UNCHANGED <<rc, open, inherited, blocked, pending, told, cause, requests>>
  /\ UNCHANGED <<manager, outage>>

ProcessFails ==
  /\ loop_fails \/ Crash
  /\ failures < MaxFailures /\ failures' = failures + 1
  /\ UNCHANGED <<manager, probes, requests>>
-----------------------------------------------------------------------------
(* systemd.                                                                *)

\* The signal that ended a killed process: the kernel takes the lowest.
Killer == CHOOSE s \in Deliverable : \A t \in Deliverable : Signo[s] <= Signo[t]

\* Restart=on-failure: a non-zero exit, a signal other than SIGTERM and SIGINT,
\* or an end before READY=1.
Failure ==
  \/ pc = "exited" /\ rc # LS_EXIT_SUCCESS
  \/ pc = "killed" /\ Killer = "SIGUSR1"
  \/ pc = "crashed"
  \/ told = <<>>

\* The manager reaps the process.
ProcessEnds ==
  /\ unit = "active"
  /\ pc \in Dead
  /\ unit' = CASE Failure /\ ~stop -> "auto-restart"
               [] Failure /\ stop  -> "failed"
               [] OTHER            -> "inactive"
  /\ UNCHANGED <<vars, starts, stop, probes, counts>>

\* Another process, from main on.
Started ==
  /\ pc' = "config" /\ rc' = LS_EXIT_SUCCESS
  /\ open' = {} /\ pending' = {} /\ told' = <<>> /\ cause' = "none"
  /\ blocked' = inherited /\ UNCHANGED inherited

\* RestartSec has passed: another process, which zeroes its app_t.
Restart ==
  /\ unit = "auto-restart"
  /\ starts < StartLimitBurst
  /\ unit' = "active" /\ starts' = starts + 1
  /\ Started
  /\ consecutive_fails' = 0
  /\ UNCHANGED <<stop, outage, counts>>

StartLimitHit ==
  /\ unit = "auto-restart"
  /\ starts >= StartLimitBurst
  /\ unit' = "failed"
  /\ UNCHANGED <<vars, starts, stop, probes, counts>>

WindowExpires ==
  /\ pc = "loop" /\ starts > 0
  /\ starts' = 0
  /\ UNCHANGED <<vars, unit, stop, probes, counts>>

\* systemctl stop: SIGTERM to a process, or no more restart.
StopRequested ==
  /\ ~stop /\ unit \in {"active", "auto-restart"}
  /\ stop' = TRUE
  /\ \/ unit = "active" /\ SignalArrives("SIGTERM") /\ UNCHANGED unit
     \/ unit = "active" /\ pc \in Dead /\ UNCHANGED <<vars, unit>>
     \/ unit = "auto-restart" /\ unit' = "inactive" /\ UNCHANGED vars
  /\ UNCHANGED <<starts, probes, counts>>

Manager == ProcessEnds \/ Restart \/ StartLimitHit
-----------------------------------------------------------------------------
(* Others.                                                                 *)

RequestArrives(s) ==
  /\ requests < MaxRequests /\ requests' = requests + 1
  /\ SignalArrives(s)
  /\ UNCHANGED <<manager, probes, failures>>

OutageBegins ==
  /\ ~outage /\ outage' = TRUE
  /\ UNCHANGED <<vars, manager, consecutive_fails, counts>>

UnitNext ==
  \/ ProcessStep \/ ReplyArrives \/ ProbeFails \/ ProcessFails
  \/ Manager \/ WindowExpires \/ StopRequested
  \/ (\E s \in Signals : RequestArrives(s)) \/ OutageBegins

\* The process runs; its loop reads a pending signal and ends a probe again and
\* again; systemd reaps and restarts.
UnitFairness ==
  /\ WF_allVars((Startup \/ Unwind \/ SignalKills)
                /\ UNCHANGED <<manager, probes, counts>>)
  /\ WF_allVars(on_signal /\ UNCHANGED <<manager, probes, counts>>)
  /\ WF_allVars(ProbeFails \/ ReplyArrives)
  /\ WF_allVars(Manager)

UnitSpec == UnitInit /\ [][UnitNext]_allVars /\ UnitFairness
-----------------------------------------------------------------------------
\* After the threshold action the unit is not started again
\* (Restart=on-failure and exit code 0), whatever is signalled or requested
\* meanwhile.  There are two exceptions: a crash while unwinding, and a SIGUSR1
\* that the loop had not read when it ended, which kills the process once the
\* mask is restored.
ActionIsFinal ==
  [][cause = "threshold" /\ cause' = "none" =>
       \/ pc = "crashed"
       \/ pc = "killed" /\ "SIGUSR1" \in pending]_allVars

\* A stop request ends the unit: wherever SIGTERM finds the process, during its
\* startup, in the loop, while it unwinds or between two processes, it ends by
\* itself and is not started again.
StopCompletes == stop ~> (unit \in {"inactive", "failed"})

\* An outage that lasts ends in the threshold action, unless systemd has given
\* the unit up or it was stopped: restarts lose the failure count, but only as
\* often as the process fails, which is finitely often, and a process that
\* fails to start hits the start limit.
OutageIsActedOn ==
  outage ~> (cause = "threshold" \/ unit \in {"inactive", "failed"})
=============================================================================
