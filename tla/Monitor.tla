------------------------------ MODULE Monitor ------------------------------
(***************************************************************************)
(* The monitor of app.c: the probe lifecycle, the failure count and the    *)
(* threshold action, as the callbacks of the event loop (Loop), over a raw *)
(* ICMP socket (Icmp).  The environment is the clock, a network that       *)
(* loses, delays, duplicates and reorders replies and delivers unrelated   *)
(* packets to the same socket, a kernel that refuses sends or reports      *)
(* errors, and signals.                                                    *)
(*                                                                         *)
(* A behaviour starts where app_run calls ls_loop_run, and ends when       *)
(* ls_loop_run returns.                                                    *)
(***************************************************************************)
EXTENDS Loop, Icmp, Sequences

CONSTANTS
  \* The resolved configuration, and the heartbeat period of notify.c.
  interval_ms, timeout_ms, start_delay_ms, fail_threshold, poweroff,
  watchdog_interval_ms,          \* 0 when systemd asked for no heartbeat
  LS_MAX_REPLY_DRAIN_PER_WAKEUP,
  \* The environment.
  MaxAction,     \* bound: ms that spawning and observing systemctl can take
  MaxQueue,      \* bound: packets the socket buffer holds
  Lifetime,      \* bound: a reply arrives before this many probes have followed
  Unrelated,     \* packets other than our replies that reach the socket
  Signals,       \* signals sent to the process
  Faults         \* kernel failures that happen: "clock", "poll", "signalfd",
                 \* "socket", "send", "notify"

ASSUME ConfigAssumption ==
  /\ interval_ms \in Nat \ {0}
  /\ timeout_ms \in 1 .. interval_ms - 1
  /\ start_delay_ms \in Nat
  /\ fail_threshold \in 1 .. INT_MAX
  /\ poweroff \in BOOLEAN
  /\ watchdog_interval_ms \in Nat
  /\ LS_MAX_REPLY_DRAIN_PER_WAKEUP \in Nat \ {0}

ASSUME EnvironmentAssumption ==
  /\ MaxAction \in Nat
  /\ MaxQueue \in Nat
  /\ Lifetime \in Nat \ {0}
  /\ \A p \in Unrelated :
       /\ p \in Packet /\ p.probe = 0
       /\ p.from = "target" /\ p.type = "echo_reply" /\ p.id = "self" => p.seq = 0
  /\ Signals \subseteq {"SIGINT", "SIGUSR1", "SIGTERM"}
  /\ Faults \subseteq {"clock", "poll", "signalfd", "socket", "send", "notify"}

\* No deadline of a behaviour reaches the value that means "disarmed".
ASSUME RangeAssumption ==
  MaxClock + interval_ms + start_delay_ms + watchdog_interval_ms < UINT64_MAX

\* No packet is in the network and the socket buffer for so long that its
\* sequence number is used again.
ASSUME LifetimeAssumption == Lifetime + MaxQueue <= UINT16_MAX

VARIABLES
  sequence,             \* icmp.sequence, of the last request built
  probe_sequence,       \* sequence of the outstanding probe, 0 when idle
  probe_sent_ns,        \* clock when it was sent, 0 when idle
  consecutive_fails,
  stats,                \* the counters ok and failed
  watchdog_last_failed, \* the last heartbeat could not be sent
  net,                  \* requests the target may still answer
  sockbuf,              \* packets waiting in the socket buffer
  sock_err,             \* the socket has a pending error
  pending,              \* blocked signals waiting for the signalfd
  \* History, read by the properties only.
  probes,               \* probes sent or refused by the kernel so far
  credited,             \* probe answered by the last reply that was accepted
  last_ok,              \* clock of the last success, at first of the first probe
  last_beat,            \* clock of the last heartbeat that systemd received
  actions               \* threshold actions run

probeVars == <<probe_sequence, probe_sent_ns>>
policyVars == <<consecutive_fails, stats, credited, last_ok, actions>>
sendVars == <<sequence, net, probes>>
watchdogVars == <<watchdog_last_failed, last_beat>>
socketVars == <<sockbuf, sock_err>>
appVars == <<probeVars, policyVars, sendVars, watchdogVars, socketVars, pending>>
vars == <<loopVars, appVars>>

\* app_run: timers armed before the loop runs.
Init ==
  /\ LoopInit([watchdog |-> IF watchdog_interval_ms > 0
                            THEN ls_timer_arm_after(0, watchdog_interval_ms)
                            ELSE Disarmed,
               reply |-> Disarmed,
               ping |-> ls_timer_arm_after(0, start_delay_ms)])
  /\ sequence = 0
  /\ probe_sequence = 0
  /\ probe_sent_ns = 0
  /\ consecutive_fails = 0
  /\ stats = [ok |-> 0, failed |-> 0]
  /\ watchdog_last_failed = FALSE
  /\ net = {}
  /\ sockbuf = << >>
  /\ sock_err = FALSE
  /\ pending = {}
  /\ probes = 0
  /\ credited = 0
  /\ last_ok = start_delay_ms
  /\ last_beat = 0
  /\ actions = 0

-----------------------------------------------------------------------------
(* Outcome of a probe.                                                     *)

\* Mutant: the expected sequence is not cleared.
probe_reset_keeps_sequence ==
  /\ probe_sent_ns' = 0
  /\ deadline' = [deadline EXCEPT !["reply"] = Disarmed]
  /\ UNCHANGED probe_sequence

probe_reset ==
  /\ probe_sent_ns' = 0
  /\ probe_sequence' = 0
  /\ deadline' = [deadline EXCEPT !["reply"] = Disarmed]

\* Outcomes of run_shutdown_action.  With poweroff the process is blocked
\* while systemctl is observed: see check_threshold.
run_shutdown_action ==
  IF poweroff THEN {"TRIGGERED", "FAILED"} ELSE {"SIMULATED"}

\* Mutant: one failure more than the threshold is needed.
check_threshold_off_by_one(fails) ==
  \/ /\ fails <= fail_threshold
     /\ UNCHANGED <<clock, actions>> /\ KeepRunning
  \/ /\ fails > fail_threshold
     /\ actions' = actions + 1
     /\ ls_loop_stop(LS_EXIT_SUCCESS)
     /\ UNCHANGED clock

\* Runs the threshold action once fails consecutive probes have failed.  A
\* failed action leaves the monitor running with the count preserved.
check_threshold(fails) ==
  \/ /\ fails < fail_threshold
     /\ UNCHANGED <<clock, actions>> /\ KeepRunning
  \/ /\ fails >= fail_threshold
     /\ actions' = actions + 1
     /\ \E result \in run_shutdown_action :
          IF result = "FAILED" THEN KeepRunning ELSE ls_loop_stop(LS_EXIT_SUCCESS)
     /\ \E d \in 0 .. (IF poweroff THEN MaxAction ELSE 0) :
          /\ clock + d <= MaxClock
          /\ clock' = clock + d

\* Mutant: the count starts over when the shutdown command failed.
probe_failed_forgets ==
  /\ stats' = [stats EXCEPT !.failed = ls_add_sat(@, 1)]
  /\ check_threshold(consecutive_fails + 1)
  /\ consecutive_fails' = IF actions' # actions /\ ~stopping' THEN 0
                          ELSE consecutive_fails + 1
  /\ UNCHANGED <<credited, last_ok>>

\* probe_failed, and the check_threshold that every caller runs after it.
probe_failed ==
  /\ consecutive_fails' = consecutive_fails + 1
  /\ stats' = [stats EXCEPT !.failed = ls_add_sat(@, 1)]
  /\ check_threshold(consecutive_fails + 1)
  /\ UNCHANGED <<credited, last_ok>>

\* Mutant: a success does not reset the failure count.
probe_succeeded_keeps_count(p) ==
  /\ stats' = [stats EXCEPT !.ok = ls_add_sat(@, 1)]
  /\ credited' = p.probe
  /\ last_ok' = clock
  /\ UNCHANGED <<consecutive_fails, actions, clock>> /\ KeepRunning

\* probe_succeeded, for the reply p.
probe_succeeded(p) ==
  /\ consecutive_fails' = 0
  /\ stats' = [stats EXCEPT !.ok = ls_add_sat(@, 1)]
  /\ credited' = p.probe
  /\ last_ok' = clock
  /\ UNCHANGED <<actions, clock>> /\ KeepRunning

\* app_fail: the loop stops with an error, nothing else is decided.
app_fail ==
  /\ ls_loop_stop(LS_EXIT_FAILURE)
  /\ UNCHANGED <<clock, policyVars>>

-----------------------------------------------------------------------------
(* drain_and_match_reply reads at most LS_MAX_REPLY_DRAIN_PER_WAKEUP       *)
(* packets and ends in one of three ways.                                  *)

\* Mutant: one packet is read per wakeup.
Acceptable_first_packet ==
  {i \in 1 .. Min({1, Len(sockbuf)}) :
     /\ ls_icmp_recv(sockbuf[i], probe_sequence) = "MATCHED"
     /\ ls_timer_armed(deadline["reply"])}

\* Positions of the packets read that would be accepted.
Acceptable ==
  {i \in 1 .. Min({LS_MAX_REPLY_DRAIN_PER_WAKEUP, Len(sockbuf)}) :
     /\ ls_icmp_recv(sockbuf[i], probe_sequence) = "MATCHED"
     /\ ls_timer_armed(deadline["reply"])}

Consume(n) == sockbuf' = SubSeq(sockbuf, n + 1, Len(sockbuf))

\* It returns true: the first acceptable packet ends the probe.
drain_matches ==
  /\ ~sock_err
  /\ \E i \in Acceptable :
       /\ \A j \in Acceptable : i <= j
       /\ Consume(i)
       /\ probe_succeeded(sockbuf[i])
  /\ probe_reset
  /\ UNCHANGED sock_err

\* It returns false with the loop stopped: recvfrom reported the socket's
\* pending error.
drain_fails ==
  /\ sock_err
  /\ sock_err' = FALSE
  /\ probe_reset
  /\ app_fail
  /\ UNCHANGED sockbuf

\* It returns false: nothing to accept among the packets read.
drain_exhausts ==
  /\ ~sock_err
  /\ Acceptable = {}
  /\ Consume(Min({LS_MAX_REPLY_DRAIN_PER_WAKEUP, Len(sockbuf)}))
  /\ UNCHANGED sock_err

-----------------------------------------------------------------------------
(* Timer callbacks.                                                        *)

on_watchdog_timer ==
  /\ pc = "watchdog"
  /\ Elapsed("watchdog")
  /\ \E sent \in (IF "notify" \in Faults THEN BOOLEAN ELSE {TRUE}) :
       /\ watchdog_last_failed' = ~sent
       /\ last_beat' = IF sent THEN clock ELSE last_beat
  /\ deadline' = [deadline EXCEPT !["watchdog"] =
                    ls_timer_step(@, watchdog_interval_ms, now_ms)]
  /\ pc' = NextSlot["watchdog"]
  /\ UNCHANGED <<clock, now_ms, wake, revents, stopping, exit_code>>
  /\ UNCHANGED <<probeVars, policyVars, sendVars, socketVars, pending>>

\* Mutant: no last drain before the probe is given up.
on_reply_timer_no_drain ==
  /\ pc = "reply"
  /\ Elapsed("reply")
  /\ probe_reset /\ probe_failed
  /\ Continue(NextSlot["reply"])
  /\ UNCHANGED <<now_ms, wake, revents, sendVars, watchdogVars, pending, socketVars>>

\* Mutant: the handler goes on after a fatal receive error.
on_reply_timer_goes_on ==
  /\ pc = "reply"
  /\ Elapsed("reply")
  /\ \/ drain_matches
     \/ /\ sock_err /\ sock_err' = FALSE /\ UNCHANGED sockbuf
        /\ probe_reset /\ probe_failed
     \/ drain_exhausts /\ probe_reset /\ probe_failed
  /\ Continue(NextSlot["reply"])
  /\ UNCHANGED <<now_ms, wake, revents, sendVars, watchdogVars, pending>>

\* The reply deadline: a last drain, and a failed probe if it finds nothing.
on_reply_timer ==
  /\ pc = "reply"
  /\ Elapsed("reply")
  /\ \/ drain_matches
     \/ drain_fails
     \/ drain_exhausts /\ probe_reset /\ probe_failed
  /\ Continue(NextSlot["reply"])
  /\ UNCHANGED <<now_ms, wake, revents, sendVars, watchdogVars, pending>>

\* ls_icmp_send_echo advances the sequence, then hands the request to the
\* kernel.  Requests that are too old to be answered leave the network.  Which
\* errno the kernel returns is its choice, so the status is one of the three the
\* code makes of it.  sendto on a raw socket does not report an error pending on
\* it, so sock_err stays for the next recvfrom.
ls_icmp_send_echo(status) ==
  LET seq == next_sequence(sequence)
      old == {r \in net : r.probe <= probes + 1 - Lifetime}
  IN  /\ sequence' = seq
      /\ probes' = IF status = "ERROR" THEN probes ELSE probes + 1
      /\ net' = (net \ old) \cup
                  (IF status = "OK" THEN {[probe |-> probes + 1, seq |-> seq]} ELSE {})

StepPing ==
  [deadline EXCEPT !["ping"] = ls_timer_step(@, interval_ms, now_ms)]

\* A probe is outstanding: the period is skipped, only the schedule moves on.
ping_skipped ==
  /\ ls_timer_armed(deadline["reply"])
  /\ deadline' = StepPing
  /\ UNCHANGED <<clock, stopping, exit_code, probeVars, policyVars, sendVars>>

ping_error ==
  /\ ls_icmp_send_echo("ERROR")
  /\ deadline' = StepPing
  /\ app_fail
  /\ UNCHANGED probeVars

\* Mutant: a refused probe is retried at once.
ping_unreachable_retries ==
  /\ ls_icmp_send_echo("UNREACHABLE")
  /\ probe_failed
  /\ UNCHANGED <<deadline, probeVars>>

ping_unreachable ==
  /\ ls_icmp_send_echo("UNREACHABLE")
  /\ deadline' = StepPing
  /\ probe_failed
  /\ UNCHANGED probeVars

\* Mutant: the timeout is counted from when the probe was due.
ping_sent_due_time ==
  /\ ls_icmp_send_echo("OK")
  /\ probe_sent_ns' = clock
  /\ probe_sequence' = sequence'
  /\ deadline' = [StepPing EXCEPT !["reply"] =
                    ls_timer_arm_after(deadline["ping"], timeout_ms)]
  /\ UNCHANGED <<clock, stopping, exit_code, policyVars>>

ping_sent ==
  /\ ls_icmp_send_echo("OK")
  /\ probe_sent_ns' = clock
  /\ probe_sequence' = sequence'
  /\ deadline' = [StepPing EXCEPT !["reply"] =
                    ls_timer_arm_after(now_ms, timeout_ms)]
  /\ UNCHANGED <<clock, stopping, exit_code, policyVars>>

\* Mutant: probes overlap.
on_ping_timer_overlaps ==
  /\ pc = "ping"
  /\ Elapsed("ping")
  /\ ping_unreachable \/ ping_sent
  /\ Continue(NextSlot["ping"])
  /\ UNCHANGED <<now_ms, wake, revents, watchdogVars, socketVars, pending>>

on_ping_timer ==
  /\ pc = "ping"
  /\ Elapsed("ping")
  /\ \/ ping_skipped
     \/ /\ ~ls_timer_armed(deadline["reply"])
        /\ \/ "send" \in Faults /\ ping_error
           \/ ping_unreachable
           \/ ping_sent
  /\ Continue(NextSlot["ping"])
  /\ UNCHANGED <<now_ms, wake, revents, watchdogVars, socketVars, pending>>

-----------------------------------------------------------------------------
(* Descriptor callbacks.                                                   *)

Signo == [SIGINT |-> 2, SIGUSR1 |-> 10, SIGTERM |-> 15]

\* Mutant: SIGTERM is not a stop signal.
StopSignals_without_SIGTERM == {"SIGINT"}

\* on_signal: these stop the loop, SIGUSR1 only logs.
StopSignals == {"SIGINT", "SIGTERM"}

\* The signalfd returns one siginfo per read, the lowest pending signal first.
dispatch_signal_fd ==
  /\ pc = "signalfd"
  /\ revents["signalfd"] = "in"
  /\ LET signo == CHOOSE s \in pending : \A r \in pending : Signo[s] <= Signo[r]
     IN  /\ pending' = pending \ {signo}
         /\ IF signo \in StopSignals
            THEN ls_loop_stop(LS_EXIT_SUCCESS) ELSE KeepRunning
  /\ Continue(NextFd["signalfd"])
  /\ UNCHANGED <<clock, now_ms, deadline, wake, revents>>
  /\ UNCHANGED <<probeVars, policyVars, sendVars, watchdogVars, socketVars>>

on_icmp_readable ==
  /\ pc = "icmpfd"
  /\ revents["icmpfd"] = "in"
  /\ \/ drain_matches
     \/ drain_fails
     \/ /\ drain_exhausts
        /\ UNCHANGED <<clock, deadline, probeVars, policyVars>> /\ KeepRunning
  /\ Continue(NextFd["icmpfd"])
  /\ UNCHANGED <<now_ms, wake, revents, sendVars, watchdogVars, pending>>

-----------------------------------------------------------------------------
(* The environment.                                                        *)

\* What poll(2) reports now; an error of the socket hides its readability.
Ready ==
  [signalfd |-> IF pending # {} THEN "in" ELSE "none",
   icmpfd |-> IF sock_err THEN "err" ELSE IF sockbuf # << >> THEN "in" ELSE "none"]

\* The target's reply to r, possibly not the last one, reaches the socket.
ReplyArrives(r) ==
  /\ Len(sockbuf) < MaxQueue
  /\ sockbuf' = Append(sockbuf, Reply(r))
  /\ net' \in {net, net \ {r}}
  /\ UNCHANGED <<loopVars, probeVars, policyVars, watchdogVars>>
  /\ UNCHANGED <<sequence, probes, sock_err, pending>>

UnrelatedArrives(p) ==
  /\ Len(sockbuf) < MaxQueue
  /\ sockbuf' = Append(sockbuf, p)
  /\ UNCHANGED <<loopVars, probeVars, policyVars, sendVars, watchdogVars>>
  /\ UNCHANGED <<sock_err, pending>>

SocketFails ==
  /\ "socket" \in Faults
  /\ ~sock_err
  /\ sock_err' = TRUE
  /\ UNCHANGED <<loopVars, probeVars, policyVars, sendVars, watchdogVars>>
  /\ UNCHANGED <<sockbuf, pending>>

SignalArrives(s) ==
  /\ pending' = pending \cup {s}
  /\ UNCHANGED <<loopVars, probeVars, policyVars, sendVars, watchdogVars, socketVars>>

\* The process waits: no descriptor is ready, or only a socket in error keeps
\* poll(2) returning at once, which takes time too.
Waiting == Ready["signalfd"] = "none" /\ Ready["icmpfd"] # "in"

Environment ==
  /\ pc # "stopped"
  /\ \/ Tick(Waiting) /\ UNCHANGED appVars
     \/ \E r \in net : ReplyArrives(r)
     \/ \E p \in Unrelated : UnrelatedArrives(p)
     \/ SocketFails
     \/ \E s \in Signals : SignalArrives(s)

\* The steps of the loop itself.
LoopStep ==
  /\ \/ refresh_now
     \/ "clock" \in Faults /\ refresh_now_fails
     \/ \E t \in Timers : skip_timer(t)
     \/ poll
     \/ poll_ready(Ready)
     \/ "signalfd" \in Faults /\ poll_ready([Ready EXCEPT !["signalfd"] = "err"])
     \/ poll_empty(Ready)
     \/ "poll" \in Faults /\ poll_fails
     \/ \E fd \in Fds : skip_fd(fd)
     \/ critical_fd_fails
  /\ UNCHANGED appVars

Process ==
  \/ LoopStep
  \/ on_watchdog_timer
  \/ on_reply_timer
  \/ on_ping_timer
  \/ dispatch_signal_fd
  \/ on_icmp_readable

\* ls_loop_run has returned.
Stopped == pc = "stopped" /\ UNCHANGED vars

Next == Process \/ Environment \/ Stopped

Spec == Init /\ [][Next]_vars

\* The kernel schedules the process whenever it can run.
FairSpec == Spec /\ WF_vars(Process)

-----------------------------------------------------------------------------
(* Properties.                                                             *)

Outstanding == IF ls_timer_armed(deadline["reply"]) THEN 1 ELSE 0

\* The loop stopped because of a fatal error.
Fatal == stopping /\ exit_code = LS_EXIT_FAILURE

\* Every variable keeps its type; in particular no deadline leaves uint64_t
\* and no sequence number leaves uint16_t.
TypeOK ==
  /\ LoopTypeOK
  /\ sequence \in Uint16
  /\ probe_sequence \in Uint16
  /\ probe_sent_ns \in 0 .. MaxClock
  /\ consecutive_fails \in Nat
  /\ stats \in [ok : Uint64, failed : Uint64]
  /\ watchdog_last_failed \in BOOLEAN
  /\ net \subseteq [probe : Nat, seq : Uint16]
  /\ sockbuf \in Seq(Packet)
  /\ sock_err \in BOOLEAN
  /\ pending \subseteq Signals
  /\ probes \in Nat
  /\ credited \in Nat
  /\ last_ok \in Nat
  /\ last_beat \in 0 .. MaxClock
  /\ actions \in Nat

\* The armed reply timer is the single source of truth for an outstanding
\* probe: it is armed exactly while a sequence is expected, and that is the
\* sequence of the last request, so a cleared probe matches no reply.
OneProbe ==
  /\ ls_timer_armed(deadline["reply"]) <=> probe_sequence # 0
  /\ probe_sequence # 0 => probe_sequence = sequence

\* Every probe has exactly one outcome: unless a receive error stopped the
\* monitor, the probes are those counted ok, those counted failed and the
\* one outstanding.
ProbeAccounting == ~Fatal => stats.ok + stats.failed + Outstanding = probes

\* consecutive_fails is exactly the number of finished probes since the last
\* one whose own reply was accepted: neither a late nor a duplicated reply to
\* an earlier probe, nor an unrelated packet, ever interrupts a failure streak.
StreakIsReal == ~Fatal => consecutive_fails + Outstanding = probes - credited

\* The threshold action runs only when the last fail_threshold probes all
\* went unanswered, and none is still outstanding.
ActionJustified ==
  [][actions' # actions =>
       /\ ~ls_timer_armed(deadline'["reply"])
       /\ probes' - credited >= fail_threshold]_vars

\* One probe per period, however late the loop runs and whatever it catches
\* up: the threshold action cannot happen before fail_threshold - 1 whole
\* periods after the first probe was due.
NoEarlyAction ==
  actions > 0 => clock >= start_delay_ms + (fail_threshold - 1) * interval_ms

\* A receive error stops the monitor with a failure exit code and decides
\* nothing else: no failure is counted and no shutdown is run because of it.
ReceiveErrorIsFinal ==
  [][sock_err /\ ~sock_err' =>
       /\ stopping' /\ exit_code' = LS_EXIT_FAILURE
       /\ UNCHANGED policyVars]_vars

\* A period is skipped only while the outstanding probe still has time left:
\* its timeout, once due, is always handled before the next probe.
TimeoutFirst ==
  [][pc = "ping" /\ deadline'["ping"] # deadline["ping"] /\ probes' = probes
       /\ ~stopping' => now_ms < deadline["reply"]]_vars

\* A probe is given up only after its whole timeout.
FullTimeout ==
  [][pc = "reply" /\ stats'.failed # stats.failed =>
       clock - probe_sent_ns >= timeout_ms]_vars

\* A probe counted as timed out had no reply waiting in the socket buffer.
NoReplyLeftBehind ==
  [][pc = "reply" /\ stats'.failed # stats.failed =>
       \A i \in 1 .. Len(sockbuf) : sockbuf[i].probe # probes]_vars

\* systemd receives a heartbeat within the period it asked for, which is
\* twice the period of the heartbeat timer.
WatchdogAlive ==
  watchdog_interval_ms > 0 => clock - last_beat <= 2 * watchdog_interval_ms

\* A lasting outage is acted upon, and again and again while the shutdown
\* command fails: a monitor still in its loop had a success, or was started, at
\* most fail_threshold periods and one timeout ago, plus for every command that
\* failed the time it took, one period and one timeout.  Commands of earlier
\* outages count too, so that the bound is exact for the first outage only.
OutageDetected ==
  ~stopping => clock <= last_ok + fail_threshold * interval_ms + timeout_ms
                          + actions * (interval_ms + timeout_ms + MaxAction)

\* SIGTERM and SIGINT stop the loop, unless SIGUSR1 (which has a lower number
\* than SIGTERM and is therefore read first) keeps arriving for ever.
StopHonoured ==
  <>[]("SIGUSR1" \notin pending) =>
    (pending \cap {"SIGINT", "SIGTERM"} # {} ~> pc = "stopped")

\* A probe whose deadline has come is resolved, whatever the descriptors
\* report meanwhile.
DueProbeResolved ==
  \A n \in 1 .. MaxClock :
    (probes = n /\ Outstanding = 1 /\ clock >= deadline["reply"])
      ~> (probes > n \/ Outstanding = 0 \/ pc = "stopped")
=============================================================================
