------------------------------- MODULE Report ------------------------------
(***************************************************************************)
(* What the monitor reports: the statistics of stats.c and the status that *)
(* notify.c shows in systemd, driven by the probe events of app.c.         *)
(*                                                                         *)
(* clock counts nanoseconds of the monotonic clock since boot.  Reading    *)
(* it, in nanoseconds or milliseconds, yields UINT64_MAX when the system   *)
(* call fails, and the socket to systemd may refuse any datagram.  When a  *)
(* probe is due, answered or timed out is the business of module Monitor:  *)
(* here a probe may be sent whenever none is outstanding and may end at    *)
(* any later time.                                                         *)
(***************************************************************************)
EXTENDS Stats, Notify

CONSTANTS
  NS_PER_MS,    \* 1000000
  Environment,  \* environments that systemd may start the process in
  MaxClock,     \* last instant
  MaxProbes     \* number of probes that may end

ASSUME ReportAssumption == /\ NS_PER_MS \in Nat \ {0}
                           /\ MaxClock \in Nat /\ MaxClock < UINT64_MAX
                           /\ MaxProbes \in Nat /\ MaxProbes <= UINT64_MAX

ASSUME SystemdAssumption ==
  \A env \in Environment :
    /\ env.socket \in {"unset", "invalid", "refused", "connects"}
    /\ env.watchdog_usec \in Text /\ env.watchdog_pid \in Text
    /\ env.pid \in 1 .. PID_SPACE - 1

VARIABLES
  systemd,            \* the environment this process was started in
  clock,              \* the monotonic clock
  pc,                 \* "starting", "running", "stopping" or "done"
  stats, notify,      \* fields of app_t
  consecutive_fails,  \* field of app_t
  outstanding,        \* the reply timer is armed
  probe_sent_ns,      \* field of app_t
  called,             \* argument and result of the last ls_notify_statusf
  shown               \* the status that systemd shows

vars == <<systemd, clock, pc, stats, notify, consecutive_fails, outstanding,
          probe_sent_ns, called, shown>>

ls_now_ms == {UINT64_MAX, clock \div NS_PER_MS}
ls_now_ns == {UINT64_MAX, clock}

\* ls_notify_statusf with the text that status stands for.
ls_notify_statusf(status) ==
  \E now_ms \in ls_now_ms, sends \in BOOLEAN :
    LET r == notify_status(notify, status, now_ms, sends) IN
    /\ notify' = r.notify
    /\ called' = [status |-> status, ok |-> r.ok]
    /\ shown' = IF r.delivered THEN status ELSE shown

\* The fields of the statistics line.
log_statistics(s, now_ms) ==
  [uptime |-> ls_stats_uptime_sec(s, now_ms), total |-> ls_stats_total(s),
   ok |-> s.ok, failed |-> s.failed, rate |-> ls_stats_success_rate(s),
   min |-> ls_stats_min_latency(s), avg |-> ls_stats_avg_latency(s),
   max |-> ls_stats_max_latency(s)]

Init ==
  /\ clock \in 0 .. MaxClock
  /\ pc = "starting"
  /\ systemd \in Environment
  /\ notify = ls_notify_init(systemd)
  /\ \E now_ms \in ls_now_ms : stats = ls_stats_init(now_ms)
  /\ consecutive_fails = 0
  /\ outstanding = FALSE
  /\ probe_sent_ns = 0
  /\ called = [status |-> NoStatus, ok |-> TRUE]
  /\ shown = NoStatus

\* READY and the first status; without the socket or READY the start fails.
log_startup ==
  /\ pc = "starting"
  /\ \/ notify.opened /\ pc' = "running" /\ ls_notify_statusf([kind |-> "start"])
     \/ pc' = "done" /\ UNCHANGED <<notify, called, shown>>
  /\ UNCHANGED <<clock, stats, consecutive_fails, outstanding,
                 probe_sent_ns>>

probe_failed ==
  /\ consecutive_fails' = consecutive_fails + 1
  /\ stats' = ls_stats_add_fail(stats)
  /\ ls_notify_statusf([kind |-> "unreachable", fails |-> consecutive_fails'])

probe_succeeded(us) ==
  /\ consecutive_fails' = 0
  /\ stats' = ls_stats_add_ok(stats, us)
  /\ ls_notify_statusf([kind |-> "online", last |-> us,
                        avg |-> ls_stats_avg_latency(stats'),
                        rate |-> ls_stats_success_rate(stats')])

\* The latency of a matched reply, zero when a clock reading is missing.
Latency_us(now_ns) ==
  IF now_ns # UINT64_MAX /\ probe_sent_ns # UINT64_MAX
     /\ now_ns >= probe_sent_ns
  THEN Microseconds(now_ns - probe_sent_ns) ELSE {0}

\* on_ping_timer, when the kernel takes the request: the time is read after
\* the send.
SendEcho ==
  /\ pc = "running"
  /\ ~outstanding
  /\ \E now_ns \in ls_now_ns : probe_sent_ns' = now_ns
  /\ outstanding' = TRUE
  /\ UNCHANGED <<clock, pc, stats, notify, consecutive_fails, called, shown>>

\* on_ping_timer, when the kernel refuses the request.
SendRefused ==
  /\ pc = "running"
  /\ ~outstanding
  /\ ls_stats_total(stats) < MaxProbes
  /\ probe_failed
  /\ UNCHANGED <<clock, pc, outstanding, probe_sent_ns>>

\* drain_and_match_reply, when it finds the reply.
ReplyMatched ==
  /\ pc = "running"
  /\ outstanding
  /\ ls_stats_total(stats) < MaxProbes
  /\ outstanding' = FALSE
  /\ probe_sent_ns' = 0
  /\ \E now_ns \in ls_now_ns : \E us \in Latency_us(now_ns) : probe_succeeded(us)
  /\ UNCHANGED <<clock, pc>>

\* on_reply_timer, when no reply is there.
TimedOut ==
  /\ pc = "running"
  /\ outstanding
  /\ ls_stats_total(stats) < MaxProbes
  /\ outstanding' = FALSE
  /\ probe_sent_ns' = 0
  /\ probe_failed
  /\ UNCHANGED <<clock, pc>>

\* app_fail: a send or a receive failed.
app_fail ==
  /\ pc = "running"
  /\ pc' = "stopping"
  /\ ls_notify_statusf([kind |-> "error"])
  /\ outstanding' \in {FALSE, outstanding}
  /\ probe_sent_ns' = IF outstanding' THEN probe_sent_ns ELSE 0
  /\ UNCHANGED <<clock, stats, consecutive_fails>>

\* The loop stops for a signal or the threshold.
ls_loop_stop ==
  /\ pc = "running"
  /\ pc' = "stopping"
  /\ UNCHANGED <<clock, stats, notify, consecutive_fails, outstanding,
                 probe_sent_ns, called, shown>>

\* The last statistics line, then app_destroy.
log_shutdown ==
  /\ pc = "stopping"
  /\ pc' = "done"
  /\ notify' = ls_notify_destroy(notify)
  /\ UNCHANGED <<clock, stats, consecutive_fails, outstanding,
                 probe_sent_ns, called, shown>>

Tick ==
  /\ clock < MaxClock
  /\ clock' = clock + 1
  /\ UNCHANGED <<pc, stats, notify, consecutive_fails, outstanding,
                 probe_sent_ns, called, shown>>

Next == /\ \/ log_startup \/ SendEcho \/ SendRefused \/ ReplyMatched \/ TimedOut
           \/ app_fail \/ ls_loop_stop \/ log_shutdown \/ Tick
        /\ UNCHANGED systemd

Spec == Init /\ [][Next]_vars
-----------------------------------------------------------------------------
Status ==
  [kind : {"none", "start", "error"}] \cup
  [kind : {"unreachable"}, fails : Nat] \cup
  [kind : {"online"}, last : Nat, avg : Nat \X Nat, rate : Nat \X Nat]

\* Every variable has its type: counters and accumulators of app.c, stats.c and
\* notify.c stay within uint64_t.
TypeOK ==
  /\ systemd \in Environment
  /\ clock \in 0 .. MaxClock
  /\ pc \in {"starting", "running", "stopping", "done"}
  /\ stats \in ls_stats_t
  /\ notify \in [opened : BOOLEAN, watchdog_usec : Uint64,
                 last_status : Status, last_status_ms : Uint64]
  /\ consecutive_fails \in Nat
  /\ outstanding \in BOOLEAN
  /\ probe_sent_ns \in Uint64
  /\ called \in [status : Status, ok : BOOLEAN]
  /\ shown \in Status

\* When a status call of app.c returns true, systemd shows that status, whether
\* it was sent or suppressed as a repetition (notify_status): failing sends and
\* failing clocks never make the deduplication hide a change.
ShownIsCurrent == called.ok => shown = called.status

\* The statistics line keeps min <= avg <= max (stats.c, log_statistics), and a
\* success rate of at most 100%, because probes never overlap: the latencies
\* add up to at most the time since boot, so the sum never saturates.
LatencyOrder ==
  LET line == log_statistics(stats, clock \div NS_PER_MS) IN
  /\ line.rate[1] <= line.rate[2]
  /\ line.min * line.avg[2] <= line.avg[1]
  /\ line.avg[1] <= line.max * line.avg[2]
  /\ line.avg[1] * NS_PER_US <= clock

\* WATCHDOG_USEC sets a deadline that uint64_t can hold.
SetsDeadline(env) ==
  env.watchdog_usec.form = "number" /\ env.watchdog_usec.n \in 1 .. UINT64_MAX

\* WATCHDOG_PID is the number of this process, or is not set.
NamesUs(env) ==
  \/ env.watchdog_pid.form = "unset"
  \/ env.watchdog_pid.form = "number" /\ env.watchdog_pid.n = env.pid

\* WATCHDOG_PID is a number that no process has, because it is beyond pid_t, and
\* that is narrowed to the number of this process.
NamesUsNarrowed(env) ==
  /\ env.watchdog_pid.form = "number" /\ env.watchdog_pid.n >= PID_SPACE
  /\ env.watchdog_pid.n % PID_SPACE = env.pid

\* The heartbeat of notify.c honours the contract systemd passes.  The process
\* that WATCHDOG_PID names (or any, when unset) pings at least twice per
\* WATCHDOG_USEC, for every deadline of two milliseconds or more, and not more
\* often than that rounding needs.  There is no heartbeat when WATCHDOG_USEC is
\* unset, malformed, zero or out of range, nor when WATCHDOG_PID is malformed or
\* a number other than the process's own; with one exception, where the code
\* departs from copilot-instructions.md:341 ("does not match `getpid()`"): a
\* number beyond pid_t is compared after narrowing (notify.c:54), so the cast can
\* make it match.
HeartbeatPeriod ==
  LET usec == systemd.watchdog_usec.n
      interval == ls_notify_watchdog_interval_ms(notify)
  IN  notify.opened =>
        /\ SetsDeadline(systemd) /\ NamesUs(systemd) =>
             /\ interval > 0
             /\ usec >= 2 * USEC_PER_MS =>
                  /\ 2 * interval * USEC_PER_MS <= usec
                  /\ usec < 2 * (interval + 1) * USEC_PER_MS
        /\ interval > 0 =>
             /\ SetsDeadline(systemd)
             /\ NamesUs(systemd) \/ NamesUsNarrowed(systemd)
=============================================================================
