------------------------ MODULE MonitorTimingProofs ------------------------
(***************************************************************************)
(* What a step of Monitor may never do, that Monitor implements Policy,    *)
(* and what Monitor does in time.                                          *)
(***************************************************************************)
EXTENDS MonitorProofs

\* A receive error in drain_and_match_reply stops the monitor with a failure and counts
\* nothing.
THEOREM ReceiveErrorsAreFinal == Spec => ReceiveErrorIsFinal
<1> DEFINE A == sock_err /\ ~sock_err' =>
                  /\ stopping' /\ exit_code' = LS_EXIT_FAILURE
                  /\ UNCHANGED policyVars
<1>1. Books /\ [Next]_vars => A
  <2> SUFFICES ASSUME Books, [Next]_vars, sock_err, ~sock_err'
               PROVE  /\ stopping' /\ exit_code' = LS_EXIT_FAILURE
                      /\ UNCHANGED policyVars
    OBVIOUS
  <2>1. drain_fails
    <3>1. ~on_ping_timer
      BY Zenon DEF on_ping_timer, socketVars
    <3>2. CASE on_reply_timer
      BY <3>2 DEF on_reply_timer, drain_matches, drain_exhausts
    <3>3. CASE on_icmp_readable
      BY <3>3 DEF on_icmp_readable, drain_matches, drain_exhausts
    <3> QED BY <3>1, <3>2, <3>3, IdleStep, Zenon DEF Next, Process, Stopped
  <2> QED BY <2>1 DEF drain_fails, app_fail, ls_loop_stop
<1> QED BY <1>1, BooksHold, PTL DEF Spec, ReceiveErrorIsFinal

\* on_ping_timer skips a period only while the outstanding probe has time left.
THEOREM TimeoutsComeFirst == Spec => TimeoutFirst
<1> DEFINE A == pc = "ping" /\ deadline'["ping"] # deadline["ping"] /\ probes' = probes
                  /\ ~stopping' => now_ms < deadline["reply"]
<1>1. Books /\ [Next]_vars => A
  <2> SUFFICES ASSUME Books, [Next]_vars, pc = "ping",
                      deadline'["ping"] # deadline["ping"], probes' = probes, ~stopping'
               PROVE  now_ms < deadline["reply"]
    OBVIOUS
  <2>1. on_ping_timer
    BY IdleStep, Zenon DEF Next, Process, Stopped, on_reply_timer, on_icmp_readable
  <2>2. ping_skipped
    <3>1. probes \in Nat
      BY DEF Books, TypeOK
    <3> QED BY <2>1, <3>1 DEF on_ping_timer, ping_error, ping_unreachable, ping_sent, app_fail,
                   ls_loop_stop, ls_icmp_send_echo
  <2> QED BY <2>2, BookTypes DEF ping_skipped, Books, Control, Elapsed
<1> QED BY <1>1, BooksHold, PTL DEF Spec, TimeoutFirst

\* A failed probe is a failure of Policy.
LEMMA FailRefines ==
  ASSUME Books, Books', probe_failed, ~stopping, ~ls_timer_armed(deadline'["reply"])
  PROVE  P!Fail
<1>1. Mode' = IF stopping' THEN "stopped" ELSE "idle"
  BY DEF Mode, ls_timer_armed, Disarmed
<1>2. ~stopping' \/ stopping' = TRUE
  BY DEF Books, TypeOK, LoopTypeOK
<1> QED BY <1>1, <1>2, FailOutcome, Zenon DEF P!Fail, P!Stop

\* A drain that ends the probe is an answered probe, or a halt, of Policy.
LEMMA DrainRefines ==
  ASSUME Books, Books', drain_matches \/ drain_fails, ~stopping
  PROVE  P!Next
<1>1. CASE drain_matches
  <2>1. ls_timer_armed(deadline["reply"]) /\ ~ls_timer_armed(deadline'["reply"])
    BY <1>1, MatchEffect, ReplyDeadline DEF Books
  <2>2. /\ consecutive_fails' = 0 /\ UNCHANGED <<actions, stopping, exit_code>>
    BY <1>1, MatchEffect DEF Books
  <2>3. Mode = "waiting" /\ Mode' = "idle"
    BY <2>1, <2>2 DEF Mode, ls_timer_armed, Disarmed
  <2> QED BY <2>2, <2>3 DEF P!Next, P!Answered
<1>2. CASE drain_fails
  <2>1. Mode # "stopped" /\ Mode' = "stopped"
    BY <1>2 DEF drain_fails, app_fail, ls_loop_stop, Mode
  <2> QED BY <1>2, <2>1 DEF drain_fails, app_fail, ls_loop_stop, policyVars, LS_EXIT_FAILURE,
                          P!Next, P!Halt, P!Stop
<1> QED BY <1>1, <1>2

\* on_ping_timer sends, is refused, halts, or leaves the state of Policy alone.
LEMMA PingRefines ==
  ASSUME Books, Books', on_ping_timer
  PROVE  P!Next \/ UNCHANGED <<Mode, consecutive_fails, actions, exit_code>>
<1>1. ~stopping
  BY NotFatal DEF on_ping_timer
<1>2. CASE ping_skipped
  <2>1. deadline'["reply"] = deadline["reply"]
    BY <1>2, ReplyDeadline DEF ping_skipped
  <2> QED BY <1>2, <2>1 DEF ping_skipped, policyVars, Mode, ls_timer_armed, Disarmed
<1>3. CASE ping_error
  <2>1. Mode # "stopped" /\ Mode' = "stopped"
    BY <1>1, <1>3 DEF ping_error, app_fail, ls_loop_stop, Mode
  <2> QED BY <1>3, <2>1 DEF ping_error, app_fail, ls_loop_stop, policyVars, LS_EXIT_FAILURE,
                          P!Next, P!Halt, P!Stop
<1>4. CASE ping_unreachable /\ ~ls_timer_armed(deadline["reply"])
  <2>1. Mode = "idle"
    BY <1>1, <1>4 DEF Mode
  <2>2. ~ls_timer_armed(deadline'["reply"])
    BY <1>4, ReplyDeadline DEF ping_unreachable
  <2>3. P!Fail
    BY <1>1, <1>4, <2>2, FailRefines DEF ping_unreachable
  <2> QED BY <2>1, <2>3 DEF P!Next, P!Refused
<1>5. CASE ping_sent /\ ~ls_timer_armed(deadline["reply"])
  <2>1. ls_timer_armed(deadline'["reply"])
    BY <1>5, ReplyDeadline
  <2>2. UNCHANGED <<consecutive_fails, actions, stopping, exit_code>>
    BY <1>5 DEF ping_sent, policyVars
  <2>3. Mode = "idle" /\ Mode' = "waiting"
    BY <1>1, <1>5, <2>1, <2>2 DEF Mode, ls_timer_armed, Disarmed
  <2> QED BY <2>2, <2>3 DEF P!Next, P!Send
<1> QED BY <1>2, <1>3, <1>4, <1>5 DEF on_ping_timer

\* The event loop with its callbacks implements Policy: every step is one of its steps or
\* a stutter.
THEOREM MonitorImplementsPolicy == Spec => ImplementsPolicy
<1>1. Init => P!Init
  <2> SUFFICES ASSUME Init PROVE P!Init
    OBVIOUS
  <2>1. Mode = "idle"
    BY DEF Init, LoopInit, Mode, ls_timer_armed
  <2> QED BY <2>1 DEF Init, LoopInit, P!Init, LS_EXIT_SUCCESS
<1>2. Books /\ Books' /\ [Next]_vars => [P!Next]_(P!vars)
  <2> SUFFICES ASSUME Books, Books', [Next]_vars
               PROVE  P!Next \/ UNCHANGED <<Mode, consecutive_fails, actions, exit_code>>
    BY DEF P!vars
  <2>1. CASE on_ping_timer
    BY <2>1, PingRefines
  <2>2. CASE on_reply_timer
    <3>1. ~stopping /\ ls_timer_armed(deadline["reply"])
      BY <2>2, NotFatal DEF on_reply_timer, Elapsed
    <3>2. CASE drain_matches \/ drain_fails
      BY <3>1, <3>2, DrainRefines
    <3>3. CASE probe_reset /\ probe_failed
      <4>1. P!Fail
        BY <3>1, <3>3, ReplyDeadline, FailRefines
      <4>2. Mode = "waiting"
        BY <3>1 DEF Mode
      <4> QED BY <4>1, <4>2 DEF P!Next, P!TimedOut
    <3> QED BY <2>2, <3>2, <3>3 DEF on_reply_timer
  <2>3. CASE on_icmp_readable
    <3>1. ~stopping
      BY <2>3, NotFatal DEF on_icmp_readable
    <3>2. CASE drain_matches \/ drain_fails
      BY <3>1, <3>2, DrainRefines
    <3>3. CASE UNCHANGED <<clock, deadline, probeVars, policyVars>> /\ KeepRunning
      BY <3>3 DEF policyVars, KeepRunning, Mode, ls_timer_armed, Disarmed
    <3> QED BY <2>3, <3>2, <3>3 DEF on_icmp_readable
  <2>4. CASE LoopStep \/ on_watchdog_timer \/ dispatch_signal_fd \/ Environment
               \/ UNCHANGED vars
    <3>1. /\ UNCHANGED <<consecutive_fails, actions>>
          /\ deadline'["reply"] = deadline["reply"]
      BY <2>4, IdleStep, Zenon DEF policyVars
    <3>2. CASE stopping' = stopping
      BY <2>4, <3>1, <3>2, IdleStep DEF Mode, ls_timer_armed, Disarmed
    <3>3. CASE stopping' # stopping
      <4>1. stopping' = TRUE /\ ~stopping /\ exit_code' \in {0, 1}
        BY <2>4, <3>3, IdleStep, Zenon DEF Books, TypeOK, LoopTypeOK
      <4>2. Mode # "stopped" /\ Mode' = "stopped"
        BY <4>1 DEF Mode
      <4> QED BY <3>1, <4>1, <4>2 DEF P!Next, P!Halt, P!Stop
    <3> QED BY <3>2, <3>3
  <2> QED BY <2>1, <2>2, <2>3, <2>4 DEF Next, Process, Stopped
<1> QED BY <1>1, <1>2, BooksHold, PTL DEF Spec, ImplementsPolicy, P!Spec

-----------------------------------------------------------------------------
(* Whole timeouts.                                                         *)

\* on_reply_timer gives a probe up only after its whole timeout, however late the loop wakes
\* up, provided that nothing takes time between reading the clock and running the timers.
THEOREM TimeoutsAreWhole ==
  ASSUME Stalls \cap Timers = {}, poweroff => MaxAction = 0
  PROVE  Spec => FullTimeout
<1> DEFINE Inv == ~stopping => WholeTimeouts
           A == pc = "reply" /\ stats'.failed # stats.failed =>
                  clock - probe_sent_ns >= timeout_ms
<1>1. Init => Inv
  BY DEF Init, LoopInit, WholeTimeouts, Timers, Outstanding, ls_timer_armed
<1>2. Books /\ Books' /\ Inv /\ [Next]_vars => Inv'
  <2> SUFFICES ASSUME Books, Books', Inv, [Next]_vars, ~stopping'
               PROVE  WholeTimeouts'
    OBVIOUS
  <2>1. WholeTimeouts /\ TypeOK /\ clock \in Nat
    BY StillRunning, BookTypes DEF Books
  <2>2. pc \in Timers => clock' = clock
    <3>1. ASSUME probe_failed PROVE clock' = clock
      BY <2>1, <3>1, FailedProbe, Constants, ConfigAssumption
    <3>2. on_reply_timer \/ on_ping_timer => clock' = clock
      BY <2>1, <3>1, ReplyEffect, PingEffect
    <3>3. on_watchdog_timer \/ on_icmp_readable => clock' = clock
      BY <2>1, ReadableEffect, Zenon DEF on_watchdog_timer
    <3>4. PassMoves /\ pc \in Timers => clock' = clock
      BY DEF PassMoves, Tick, Timers, Fds, poll, loopVars
    <3> QED BY <3>2, <3>3, <3>4, PassStep
  <2> QED BY <2>1, <2>2, WholeTimeoutsStep
<1>3. Books /\ Inv /\ [Next]_vars => A
  <2> SUFFICES ASSUME Books, Inv, [Next]_vars, pc = "reply", stats'.failed # stats.failed
               PROVE  clock - probe_sent_ns >= timeout_ms
    OBVIOUS
  <2>1. Elapsed("reply")
    BY TimedOut DEF on_reply_timer
  <2>2. WholeTimeouts
    BY NotFatal
  <2> QED BY <2>1, <2>2, DueAfterTimeout
<1> HIDE DEF Inv
<1> QED BY <1>1, <1>2, <1>3, BooksHold, PTL DEF Spec, FullTimeout

-----------------------------------------------------------------------------
(* A process that is never held up.                                        *)

\* poll(2) is called with a timeout that ends no later than timer t is due, counted from the
\* clock value the loop works with.
LEMMA PollWake ==
  ASSUME TypeOK, poll, NEW t \in Timers, deadline[t] < UINT64_MAX
  PROVE  /\ wake' \in Nat /\ clock <= wake'
         /\ deadline[t] <= now_ms => wake' = clock
         /\ deadline[t] > now_ms => wake' <= clock + (deadline[t] - now_ms)
<1>1. /\ clock \in Nat /\ now_ms \in Nat /\ deadline[t] \in Nat /\ UINT64_MAX \in Nat
      /\ INT_MAX \in Nat
  BY BookTypes, Constants DEF TypeOK, LoopTypeOK, Uint64
<1>3. nearest \in Nat /\ nearest <= deadline[t]
  BY NearestType, Constants DEF TypeOK, Uint64
<1>4. nearest # UINT64_MAX
  BY <1>1, <1>3
<1>5. CASE nearest <= now_ms
  <2>1. wake' = clock
    BY <1>1, <1>4, <1>5 DEF poll, poll_timeout_ms
  <2> QED BY <1>1, <2>1
<1>6. CASE nearest > now_ms
  <2>1. nearest - now_ms \in Nat /\ deadline[t] > now_ms
    BY <1>1, <1>3, <1>6
  <2>2. /\ Min({nearest - now_ms, INT_MAX}) \in Nat
        /\ Min({nearest - now_ms, INT_MAX}) <= nearest - now_ms
    BY <1>1, <2>1, MinPair
  <2>3. wake' = clock + Min({nearest - now_ms, INT_MAX})
    <3>1. poll_timeout_ms = Min({nearest - now_ms, INT_MAX})
      BY <1>1, <1>3, <1>4, <1>6 DEF poll_timeout_ms
    <3> QED BY <2>2, <3>1 DEF poll
  <2> HIDE DEF nearest
  <2> QED BY <1>1, <1>3, <2>1, <2>2, <2>3
<1> QED BY <1>1, <1>3, <1>5, <1>6

\* The step with which the loop stops takes no time, unless it is a shutdown command.
LEMMA StopEffect ==
  ASSUME TypeOK, [Next]_vars, pc' = "stopped"
  PROVE  /\ UNCHANGED <<last_beat, deadline["watchdog"]>>
         /\ clock' = clock \/ (pc \in {"reply", "ping"} /\ clock' <= clock + MaxAction)
<1>1. ASSUME probe_failed PROVE clock' <= clock + MaxAction
  BY <1>1, FailedProbe, BookTypes, Constants
<1>2. CASE on_reply_timer
  <2>1. /\ pc = "reply" /\ probe_reset /\ UNCHANGED last_beat
        /\ clock' = clock \/ probe_failed
    BY <1>2, MatchEffect DEF on_reply_timer, drain_fails, app_fail, watchdogVars
  <2>2. deadline'["watchdog"] = deadline["watchdog"]
    BY <2>1 DEF probe_reset, TypeOK, LoopTypeOK, Timers
  <2> QED BY <1>1, <2>1, <2>2
<1>3. CASE on_ping_timer
  <2>1. /\ pc = "ping" /\ UNCHANGED last_beat /\ Elapsed("ping")
        /\ ping_skipped \/ ping_error \/ ping_unreachable \/ ping_sent
    BY <1>3 DEF on_ping_timer, watchdogVars
  <2>2. clock' = clock \/ probe_failed
    BY <2>1 DEF ping_skipped, ping_error, ping_sent, ping_unreachable, app_fail
  <2>3. deadline'["watchdog"] = StepPing["watchdog"]
    <3>1. CASE ping_sent
      BY <3>1, StepPingType DEF ping_sent, Timers
    <3>2. CASE ~ping_sent
      BY <2>1, <3>2 DEF ping_skipped, ping_error, ping_unreachable
    <3> QED BY <3>1, <3>2
  <2>4. StepPing["watchdog"] = deadline["watchdog"]
    BY <2>1, PingMoves
  <2> QED BY <1>1, <2>1, <2>2, <2>3, <2>4
<1>4. CASE on_icmp_readable
  <2>1. UNCHANGED <<clock, last_beat>> /\ (probe_reset \/ UNCHANGED deadline)
    BY <1>4, MatchEffect DEF on_icmp_readable, drain_fails, app_fail, watchdogVars
  <2>2. deadline'["watchdog"] = deadline["watchdog"]
    BY <2>1 DEF probe_reset, TypeOK, LoopTypeOK, Timers
  <2> QED BY <2>1, <2>2
<1>5. CASE LoopStep
  <2>1. UNCHANGED <<clock, deadline, last_beat>>
    BY <1>5 DEF LoopStep, refresh_now, refresh_now_fails, skip_timer, poll, poll_ready,
         poll_empty, poll_fails, skip_fd, critical_fd_fails, appVars, watchdogVars
  <2> QED BY <2>1
<1>6. CASE dispatch_signal_fd
  BY <1>6 DEF dispatch_signal_fd, watchdogVars
<1>7. CASE on_watchdog_timer
  <2>1. pc = "watchdog" /\ pc' = "reply"
    BY <1>7 DEF on_watchdog_timer, NextSlot
  <2> QED BY <2>1
<1>8. CASE Environment
  <2>1. UNCHANGED pc
    BY <1>8 DEF Environment, Tick, ReplyArrives, UnrelatedArrives, SocketFails, SignalArrives,
         loopVars
  <2> QED BY <1>8, <2>1 DEF Environment
<1>9. CASE UNCHANGED vars
  BY <1>9 DEF vars, loopVars, appVars, watchdogVars
<1> QED BY <1>2, <1>3, <1>4, <1>5, <1>6, <1>7, <1>8, <1>9 DEF Next, Process, Stopped

\* The heartbeat timer after on_watchdog_timer.
LEMMA BeatEffect ==
  ASSUME TypeOK, on_watchdog_timer, watchdog_interval_ms > 0
  PROVE  /\ pc = "watchdog" /\ pc' = "reply" /\ UNCHANGED <<clock, now_ms>>
         /\ deadline["watchdog"] \in Nat /\ deadline["watchdog"] <= now_ms
         /\ deadline'["watchdog"] = IF deadline["watchdog"] + watchdog_interval_ms < now_ms
                                    THEN now_ms + watchdog_interval_ms
                                    ELSE deadline["watchdog"] + watchdog_interval_ms
         /\ "notify" \notin Faults => last_beat' = clock
<1>1. /\ deadline["watchdog"] \in Nat /\ now_ms \in Nat /\ now_ms <= MaxClock
      /\ watchdog_interval_ms \in Nat
  BY BookTypes, Constants DEF TypeOK, LoopTypeOK, Timers, Uint64
<1>2. deadline["watchdog"] <= now_ms /\ ls_timer_armed(deadline["watchdog"])
  BY DEF on_watchdog_timer, Elapsed
<1>3. /\ ls_add_sat(deadline["watchdog"], watchdog_interval_ms)
           = deadline["watchdog"] + watchdog_interval_ms
      /\ ls_add_sat(now_ms, watchdog_interval_ms) = now_ms + watchdog_interval_ms
  <2>1. /\ deadline["watchdog"] + watchdog_interval_ms <= UINT64_MAX
        /\ now_ms + watchdog_interval_ms <= UINT64_MAX
    BY <1>1, <1>2, Constants
  <2> QED BY <1>1, <2>1, AddSatExact
<1>4. deadline'["watchdog"] = ls_timer_step(deadline["watchdog"], watchdog_interval_ms, now_ms)
  BY DEF on_watchdog_timer, TypeOK, LoopTypeOK, Timers
<1>5. deadline'["watchdog"] = IF deadline["watchdog"] + watchdog_interval_ms < now_ms
                              THEN now_ms + watchdog_interval_ms
                              ELSE deadline["watchdog"] + watchdog_interval_ms
  <2>1. watchdog_interval_ms # 0
    BY <1>1
  <2> QED BY <1>2, <1>3, <1>4, <2>1 DEF ls_timer_step
<1>6. "notify" \notin Faults => last_beat' = clock
  BY DEF on_watchdog_timer
<1> QED BY <1>1, <1>2, <1>5, <1>6 DEF on_watchdog_timer, NextSlot

\* The heartbeat timer stays close to the last heartbeat, and the clock close to the timer.
LEMMA HeartbeatStep ==
  ASSUME Books, Books', [Next]_vars, Heartbeat, Stalls = {}, "notify" \notin Faults,
         watchdog_interval_ms > 0
  PROVE  Heartbeat'
<1>1. /\ TypeOK /\ TypeOK' /\ Control /\ Control'
  BY DEF Books
<1>2. /\ clock \in Nat /\ clock' \in Nat /\ now_ms \in Nat /\ now_ms' \in Nat
      /\ wake \in Nat /\ wake' \in Nat /\ now_ms <= MaxClock
      /\ deadline["watchdog"] \in Nat /\ deadline'["watchdog"] \in Nat
      /\ last_beat \in Nat /\ last_beat <= MaxClock /\ last_beat' \in Nat
      /\ MaxAction \in Nat /\ watchdog_interval_ms \in Nat /\ UINT64_MAX \in Nat
      /\ MaxClock + watchdog_interval_ms < UINT64_MAX
  <2>1. ASSUME TypeOK
        PROVE  /\ clock \in Nat /\ now_ms \in Nat /\ wake \in Nat /\ now_ms <= MaxClock
               /\ deadline["watchdog"] \in Nat
               /\ last_beat \in Nat /\ last_beat <= MaxClock
    BY <2>1, Constants DEF TypeOK, LoopTypeOK, Timers, Uint64
  <2>2. ASSUME TypeOK'
        PROVE  /\ clock' \in Nat /\ now_ms' \in Nat /\ wake' \in Nat
               /\ deadline'["watchdog"] \in Nat /\ last_beat' \in Nat
    BY <2>2, Constants DEF TypeOK, LoopTypeOK, Timers, Uint64
  <2>3. /\ MaxAction \in Nat /\ watchdog_interval_ms \in Nat /\ UINT64_MAX \in Nat
        /\ MaxClock + watchdog_interval_ms < UINT64_MAX
    BY Constants
  <2> QED BY <1>1, <2>1, <2>2, <2>3, Zenon
<1>3. deadline["watchdog"] < UINT64_MAX
  BY <1>2, LoopAssumption DEF Heartbeat
<1>4. CASE pc' = "stopped"
  <2>1. /\ UNCHANGED <<last_beat, deadline["watchdog"]>>
        /\ clock' = clock \/ (pc \in {"reply", "ping"} /\ clock' <= clock + MaxAction)
    BY <1>1, <1>4, StopEffect
  <2>2. clock' <= deadline["watchdog"] + 2 * MaxAction
    BY <1>2, <2>1 DEF Heartbeat, Horizon
  <2> QED BY <1>2, <1>4, <2>1, <2>2 DEF Heartbeat, Horizon
<1>5. CASE pc' # "stopped"
  <2>1. ~stopping'
    BY <1>1, <1>5 DEF Control
  <2>2. CASE on_watchdog_timer
    <3>1. now_ms = clock
      BY <1>1, <2>2, BeatEffect DEF Heartbeat
    <3> QED BY <1>1, <1>2, <2>2, <3>1, BeatEffect DEF Heartbeat, Horizon
  <2>3. CASE on_reply_timer
    <3>1. /\ pc = "reply" /\ pc' = "ping" /\ UNCHANGED <<now_ms, last_beat, deadline["watchdog"]>>
          /\ clock' <= clock + MaxAction
      BY <1>1, <1>2, <2>1, <2>3, ReplyEffect, FailedProbe
    <3> QED BY <1>2, <3>1 DEF Heartbeat, Horizon
  <2>4. CASE on_ping_timer
    <3>1. /\ pc = "ping" /\ pc' = "poll" /\ UNCHANGED <<now_ms, last_beat, deadline["watchdog"]>>
          /\ clock' <= clock + MaxAction
      BY <1>1, <1>2, <2>1, <2>4, PingEffect, FailedProbe
    <3> QED BY <1>2, <3>1 DEF Heartbeat, Horizon
  <2>5. CASE on_icmp_readable
    <3>1. /\ pc = "icmpfd" /\ pc' = "refresh"
          /\ UNCHANGED <<clock, now_ms, last_beat, deadline["watchdog"]>>
      BY <1>1, <2>1, <2>5, ReadableEffect
    <3> QED BY <1>2, <3>1 DEF Heartbeat, Horizon
  <2>6. CASE ~on_watchdog_timer /\ ~on_reply_timer /\ ~on_ping_timer /\ ~on_icmp_readable
    <3>1. UNCHANGED <<deadline, last_beat>> /\ PassMoves
      BY <2>1, <2>6, PassStep
    <3>2. CASE poll
      <4>1. /\ clock <= wake'
            /\ deadline["watchdog"] <= now_ms => wake' = clock
            /\ deadline["watchdog"] > now_ms => wake' <= clock + (deadline["watchdog"] - now_ms)
        BY <1>1, <1>3, <3>2, PollWake DEF Timers
      <4>2. pc = "poll" /\ pc' = "polling" /\ UNCHANGED <<clock, now_ms>>
        BY <3>2 DEF poll
      <4>3. wake' <= deadline["watchdog"] + 2 * MaxAction
        BY <1>2, <4>1, <4>2 DEF Heartbeat
      <4> QED BY <3>1, <4>1, <4>2, <4>3 DEF Heartbeat, Horizon
    <3>3. CASE Tick(Waiting)
      <4>1. pc = "polling" /\ pc' = "polling" /\ UNCHANGED <<wake, now_ms>> /\ clock' <= wake
        BY <1>2, <3>3 DEF Tick
      <4> QED BY <3>1, <4>1 DEF Heartbeat, Horizon
    <3>4. CASE UNCHANGED loopVars
      BY <3>1, <3>4 DEF loopVars, Heartbeat, Horizon
    <3>5. CASE pc = "watchdog" /\ ~Elapsed("watchdog") /\ pc' = "reply" /\ UNCHANGED <<clock, now_ms>>
      <4>1. now_ms <= deadline["watchdog"]
        BY <1>2, <1>3, <3>5 DEF Elapsed, ls_timer_armed, Disarmed
      <4> QED BY <1>2, <3>1, <3>5, <4>1 DEF Heartbeat, Horizon
    <3>6. CASE /\ UNCHANGED <<clock, now_ms>>
               /\ <<pc, pc'>> \in {<<"reply", "ping">>, <<"ping", "poll">>,
                                   <<"polling", "wakeup">>, <<"polling", "refresh">>,
                                   <<"signalfd", "icmpfd">>, <<"icmpfd", "refresh">>}
      BY <1>2, <3>1, <3>6 DEF Heartbeat, Horizon
    <3>7. CASE /\ <<pc, pc'>> \in {<<"refresh", "watchdog">>, <<"wakeup", "signalfd">>}
               /\ now_ms' = clock /\ clock' = clock
      BY <1>2, <3>1, <3>7 DEF Heartbeat, Horizon
    <3> QED BY <3>1, <3>2, <3>3, <3>4, <3>5, <3>6, <3>7
         DEF PassMoves, Timers, Fds, NextSlot, NextFd
  <2> QED BY <2>2, <2>3, <2>4, <2>5, <2>6
<1> QED BY <1>4, <1>5

\* systemd receives a heartbeat in time from a process that is never held up, if the heartbeat
\* period leaves room for the two shutdown commands a pass of the loop can run.
THEOREM HeartbeatsArrive ==
  ASSUME Stalls = {}, "notify" \notin Faults, 2 * MaxAction <= watchdog_interval_ms
  PROVE  Spec => []WatchdogAlive
<1>1. CASE watchdog_interval_ms > 0
  <2>1. Init => Heartbeat
    <3> SUFFICES ASSUME Init PROVE Heartbeat
      OBVIOUS
    <3>1. deadline["watchdog"] = watchdog_interval_ms
      BY <1>1, Constants, AddSatExact DEF Init, LoopInit, ls_timer_arm_after
    <3> QED BY <1>1, <3>1, Constants DEF Init, LoopInit, Heartbeat, Horizon
  <2>2. Books /\ Books' /\ Heartbeat /\ [Next]_vars => Heartbeat'
    BY <1>1, HeartbeatStep
  <2>3. Books /\ Heartbeat => WatchdogAlive
    <3> SUFFICES ASSUME Books, Heartbeat PROVE WatchdogAlive
      OBVIOUS
    <3>1. /\ clock \in Nat /\ last_beat \in Nat /\ deadline["watchdog"] \in Nat /\ wake \in Nat
      BY Constants DEF Books, TypeOK, LoopTypeOK, Timers, Uint64
    <3> QED BY <3>1, Constants DEF Heartbeat, Horizon, WatchdogAlive
  <2> QED BY <2>1, <2>2, <2>3, BooksHold, PTL DEF Spec
<1>2. CASE ~(watchdog_interval_ms > 0)
  <2>1. WatchdogAlive
    BY <1>2 DEF WatchdogAlive
  <2> QED BY <2>1, PTL
<1> QED BY <1>1, <1>2

-----------------------------------------------------------------------------
(* How soon an outage is acted upon.                                       *)

\* The two bounds of an outage, without the products in their definitions.
LEMMA Bounds ==
  ASSUME NEW ok \in Nat, NEW a \in Nat, NEW c \in Nat
  PROVE  LET due(n) == ok + a * Retry + (n + 1) * interval_ms
             limit(n) == ok + n * Retry + fail_threshold * interval_ms
         IN  /\ due(c) \in Nat /\ limit(a) \in Nat
             /\ ok + interval_ms <= due(c) /\ ok <= limit(a)
             /\ due(c + 1) = due(c) + interval_ms
             /\ c < fail_threshold => due(c) <= limit(a)
             /\ limit(a + 1) = limit(a) + Retry
<1> DEFINE x == a * Retry
           y == (c + 1) * interval_ms
           z == fail_threshold * interval_ms
<1>1. x \in Nat /\ (a + 1) * Retry = x + Retry
  BY TimingConstants
<1>2. /\ y \in Nat /\ ((c + 1) + 1) * interval_ms = y + interval_ms
      /\ y = c * interval_ms + interval_ms /\ c * interval_ms \in Nat
      /\ c + 1 <= fail_threshold => y <= z
  BY Periods, TimingConstants
<1>3. z \in Nat
  BY Periods, TimingConstants
<1>4. c < fail_threshold => c + 1 <= fail_threshold
  BY TimingConstants
<1> HIDE DEF x, y, z
<1>5. /\ ok + x + y \in Nat /\ ok + x + z \in Nat
      /\ ok + interval_ms <= ok + x + y /\ ok <= ok + x + z
      /\ ok + x + (y + interval_ms) = (ok + x + y) + interval_ms
      /\ c < fail_threshold => ok + x + y <= ok + x + z
      /\ ok + (x + Retry) + z = (ok + x + z) + Retry
  BY <1>1, <1>2, <1>3, <1>4, TimingConstants
<1> QED BY <1>1, <1>2, <1>5 DEF x, y, z

\* The bounds of a state.
LEMMA OutageBounds ==
  ASSUME TypeOK
  PROVE  /\ Due \in Nat /\ Limit \in Nat
         /\ last_ok + interval_ms <= Due /\ last_ok <= Limit
         /\ consecutive_fails < fail_threshold => Due <= Limit
<1>1. last_ok \in Nat /\ actions \in Nat /\ consecutive_fails \in Nat
  BY TimingTypes
<1>2. Due \in Nat /\ last_ok + interval_ms <= Due
  BY <1>1, Bounds, Zenon DEF Due
<1>3. Limit \in Nat /\ last_ok <= Limit
  BY <1>1, Bounds, Zenon DEF Limit
<1>4. consecutive_fails < fail_threshold => Due <= Limit
  BY <1>1, Bounds, Zenon DEF Due, Limit
<1> QED BY <1>2, <1>3, <1>4

\* A success starts over.
LEMMA SuccessBounds ==
  ASSUME TypeOK', last_ok' = clock
  PROVE  /\ Due' \in Nat /\ Limit' \in Nat /\ clock + interval_ms <= Due'
<1>1. last_ok' \in Nat /\ actions' \in Nat /\ consecutive_fails' \in Nat
  BY DEF TypeOK
<1>2. /\ Due' = last_ok' + actions' * Retry + (consecutive_fails' + 1) * interval_ms
      /\ Limit' = last_ok' + actions' * Retry + fail_threshold * interval_ms
  BY DEF Due, Limit, Retry
<1> QED BY <1>1, <1>2, Bounds, Zenon

\* A failure below the threshold allows for one more period.
LEMMA FailureBounds ==
  ASSUME TypeOK, UNCHANGED <<last_ok, actions>>, consecutive_fails' = consecutive_fails + 1
  PROVE  Due' = Due + interval_ms
<1>1. Due' = last_ok + actions * Retry + ((consecutive_fails + 1) + 1) * interval_ms
  BY DEF Due, Retry
<1> QED BY <1>1, TimingTypes, Bounds DEF Due

\* A shutdown command allows for one more Retry.
LEMMA ActionBounds ==
  ASSUME TypeOK, UNCHANGED last_ok, actions' = actions + 1
  PROVE  Limit' = Limit + Retry
<1>1. Limit' = last_ok + (actions + 1) * Retry + fail_threshold * interval_ms
  BY DEF Limit, Retry
<1>2. last_ok \in Nat /\ actions \in Nat
  BY TimingTypes
<1>3. last_ok + (actions + 1) * Retry + fail_threshold * interval_ms
        = (last_ok + actions * Retry + fail_threshold * interval_ms) + Retry
  BY <1>2, Bounds
<1> QED BY <1>1, <1>3, Zenon DEF Limit

\* The step that completes the threshold is the last one of the outage.
LEMMA ThresholdBounds ==
  ASSUME TypeOK, consecutive_fails + 1 >= fail_threshold, consecutive_fails < fail_threshold
  PROVE  Due = Limit
<1>1. consecutive_fails + 1 = fail_threshold
  BY TimingTypes, TimingConstants
<1> QED BY <1>1 DEF Due, Limit

\* A step that leaves the deadlines and the streak alone leaves the bounds alone.
LEMMA SameBounds ==
  ASSUME UNCHANGED <<deadline["reply"], policyVars>>
  PROVE  Due' = Due /\ Limit' = Limit /\ Outstanding' = Outstanding
BY DEF Due, Limit, Retry, Outstanding, policyVars

\* The ping timer is armed, and so is the reply timer of an outstanding probe.
LEMMA ArmedTimers ==
  ASSUME Books
  PROVE  /\ deadline["ping"] < UINT64_MAX
         /\ Outstanding = 1 => deadline["reply"] < UINT64_MAX
         /\ Outstanding = 1 => probes > 0
         /\ Outstanding \in {0, 1}
<1>1. TypeOK /\ deadline["ping"] <= UINT64_MAX /\ deadline["reply"] <= UINT64_MAX
  BY DEF Books, TypeOK, LoopTypeOK, Timers, Uint64
<1>2. ls_timer_armed(deadline["ping"])
  BY <1>1, FewProbes DEF Books
<1>3. Outstanding = 1 => probes > 0
  BY <1>1, TimingTypes DEF Books, Counts
<1> QED BY <1>1, <1>2, <1>3, TimingTypes, Constants DEF ls_timer_armed, Disarmed, Outstanding

\* poll(2) sleeps until the next probe or the timeout of the last one at the latest.
LEMMA TimelyPoll ==
  ASSUME Books, TypeOK', Timely, poll, UNCHANGED <<deadline, policyVars, probes>>
  PROVE  Timely'
<1>1. TypeOK /\ Control
  BY DEF Books
<1>2. /\ pc = "poll" /\ pc' = "polling" /\ UNCHANGED <<clock, now_ms>>
      /\ UNCHANGED <<deadline["ping"], deadline["reply"], last_ok, consecutive_fails>>
  BY DEF poll, policyVars
<1>3. /\ Due' = Due /\ Limit' = Limit /\ Outstanding' = Outstanding
      /\ Due \in Nat /\ Limit \in Nat
  BY <1>1, SameBounds, OutageBounds
<1>4. now_ms <= clock
  BY <1>1 DEF Control
<1>5. /\ wake' \in Nat /\ clock <= wake'
      /\ deadline["ping"] <= now_ms => wake' = clock
      /\ deadline["ping"] > now_ms => wake' <= clock + (deadline["ping"] - now_ms)
  BY <1>1, ArmedTimers, PollWake DEF Timers
<1>6. Outstanding = 1 =>
        /\ deadline["reply"] <= now_ms => wake' = clock
        /\ deadline["reply"] > now_ms => wake' <= clock + (deadline["reply"] - now_ms)
  BY <1>1, ArmedTimers, PollWake DEF Timers
<1>7. Prompt'
  BY <1>2, <1>3, <1>5 DEF Timely, Prompt, Horizon
<1>8. consecutive_fails < fail_threshold => Punctual'
  BY <1>1, <1>2, <1>3, <1>5, <1>6, TimingTypes DEF Timely, Punctual, Horizon
<1>9. consecutive_fails >= fail_threshold => Overdue'
  BY <1>1, <1>2, <1>3, <1>4, <1>5, <1>6, TimingTypes, TimingConstants
     DEF Timely, Overdue, Horizon, Lag
<1> QED BY <1>2, <1>7, <1>8, <1>9 DEF Timely

\* The other steps between two callbacks.
LEMMA TimelyPass ==
  ASSUME Books, TypeOK', Timely, PassMoves, Stalls = {}, UNCHANGED <<deadline, policyVars, probes>>
  PROVE  Timely'
<1>1. TypeOK /\ now_ms <= clock
  BY DEF Books, Control
<1>2. UNCHANGED <<deadline["ping"], deadline["reply"], last_ok, consecutive_fails>>
  BY DEF policyVars
<1>3. /\ Due' = Due /\ Limit' = Limit /\ Outstanding' = Outstanding
      /\ Due \in Nat /\ Limit \in Nat
  BY <1>1, SameBounds, OutageBounds
<1>4. CASE poll
  BY <1>4, TimelyPoll
<1>5. CASE Tick(Waiting)
  <2>1. pc = "polling" /\ pc' = "polling" /\ UNCHANGED <<wake, now_ms>> /\ clock' <= wake
    BY <1>1, <1>5, TimingTypes DEF Tick
  <2> QED BY <1>2, <1>3, <2>1 DEF Timely, Prompt, Punctual, Overdue, Horizon, Lag
<1>6. CASE UNCHANGED loopVars
  BY <1>2, <1>3, <1>6 DEF loopVars, Timely, Prompt, Punctual, Overdue, Horizon, Lag
<1>7. CASE /\ UNCHANGED <<clock, now_ms>>
           /\ <<pc, pc'>> \in {<<"watchdog", "reply">>, <<"reply", "ping">>, <<"ping", "poll">>,
                               <<"polling", "wakeup">>, <<"polling", "refresh">>,
                               <<"signalfd", "icmpfd">>, <<"icmpfd", "refresh">>}
  <2>1. Prompt'
    BY <1>2, <1>3, <1>7, TimingTypes, <1>1 DEF Timely, Prompt, Horizon
  <2>2. consecutive_fails < fail_threshold => Punctual'
    BY <1>1, <1>2, <1>3, <1>7, TimingTypes DEF Timely, Prompt, Punctual, Horizon
  <2>3. consecutive_fails >= fail_threshold => Overdue'
    BY <1>1, <1>2, <1>3, <1>7, TimingTypes, TimingConstants DEF Timely, Prompt, Overdue, Horizon, Lag
  <2> QED BY <1>2, <2>1, <2>2, <2>3 DEF Timely
<1>8. CASE /\ <<pc, pc'>> \in {<<"refresh", "watchdog">>, <<"wakeup", "signalfd">>}
           /\ now_ms' = clock /\ clock' = clock
  <2>1. Prompt'
    BY <1>1, <1>2, <1>3, <1>8, TimingTypes, TimingConstants DEF Timely, Prompt, Horizon
  <2>2. consecutive_fails < fail_threshold => Punctual'
    BY <1>1, <1>2, <1>3, <1>8, TimingTypes DEF Timely, Prompt, Punctual, Horizon
  <2>3. consecutive_fails >= fail_threshold => Overdue'
    BY <1>1, <1>2, <1>3, <1>8, TimingTypes, TimingConstants
       DEF Timely, Prompt, Overdue, Horizon, Lag
  <2> QED BY <1>2, <2>1, <2>2, <2>3 DEF Timely
<1> QED BY <1>4, <1>5, <1>6, <1>7, <1>8 DEF PassMoves, Timers, Fds, NextSlot, NextFd

\* A success is followed by the next probe after one period at most.
LEMMA TimelySuccess ==
  ASSUME Books, TypeOK', Timely, Outstanding = 1, Outstanding' = 0, now_ms = clock,
         UNCHANGED <<clock, now_ms, probes, deadline["ping"]>>,
         last_ok' = clock, consecutive_fails' = 0, pc' \in {"ping", "refresh"}
  PROVE  Timely'
<1>1. TypeOK /\ probes > 0
  BY ArmedTimers DEF Books
<1>2. deadline["ping"] <= clock + interval_ms
  BY <1>1 DEF Timely, Prompt
<1>3. Due' \in Nat /\ clock + interval_ms <= Due'
  BY SuccessBounds
<1>4. Prompt'
  BY <1>1, <1>2, TimingTypes DEF Prompt, Horizon
<1>5. Punctual'
  BY <1>1, <1>2, <1>3, TimingTypes, TimingConstants DEF Punctual, Horizon
<1>6. ~(0 >= fail_threshold)
  BY TimingConstants
<1> QED BY <1>4, <1>5, <1>6 DEF Timely

\* A failed probe, whose timeout is over or whose request was refused, is followed by the
\* next one after a period; at the threshold, after the shutdown command as well.
LEMMA TimelyFailure ==
  ASSUME Books, TypeOK', Timely, probe_failed, Outstanding' = 0, UNCHANGED now_ms,
         pc \in {"reply", "ping"}, pc' \in {"ping", "poll"},
         deadline'["ping"] <= now_ms + interval_ms,
         consecutive_fails < fail_threshold =>
           /\ clock <= Due + timeout_ms /\ now_ms = clock
           /\ deadline'["ping"] <= Due + interval_ms /\ clock <= deadline'["ping"],
         consecutive_fails >= fail_threshold => clock <= Limit + timeout_ms
  PROVE  Timely'
<1>1. TypeOK /\ now_ms <= clock
  BY DEF Books, Control
<1>2. Due \in Nat /\ Limit \in Nat
  BY <1>1, OutageBounds
<1>3. /\ consecutive_fails' = consecutive_fails + 1 /\ UNCHANGED last_ok
      /\ clock' \in Nat /\ clock' >= clock
  BY <1>1, FailedProbe
<1>4. deadline'["ping"] \in Nat
  BY Constants DEF TypeOK, LoopTypeOK, Timers, Uint64
<1>5. Prompt'
  BY <1>1, <1>3, <1>4, TimingTypes DEF Prompt, Horizon
<1>6. CASE consecutive_fails + 1 < fail_threshold
  <2>1. UNCHANGED <<clock, actions>>
    BY <1>1, <1>6, FailedProbe, TimingTypes, TimingConstants
  <2>2. Due' = Due + interval_ms
    BY <1>1, <1>3, <2>1, FailureBounds
  <2>3. consecutive_fails < fail_threshold
    BY <1>1, <1>6, TimingTypes, TimingConstants
  <2>4. Punctual'
    BY <1>1, <1>2, <1>4, <2>1, <2>2, <2>3, TimingTypes, TimingConstants DEF Punctual, Horizon
  <2>5. ~(consecutive_fails' >= fail_threshold)
    BY <1>1, <1>3, <1>6, TimingTypes, TimingConstants
  <2> QED BY <1>5, <2>4, <2>5 DEF Timely
<1>7. CASE consecutive_fails + 1 >= fail_threshold
  <2>1. actions' = actions + 1 /\ clock' <= clock + MaxAction
    BY <1>1, <1>7, FailedProbe, TimingTypes, TimingConstants
  <2>2. Limit' = Limit + interval_ms + timeout_ms + MaxAction
    BY <1>1, <1>2, <1>3, <2>1, ActionBounds, TimingConstants
  <2>3. clock <= Limit + timeout_ms
    <3>1. CASE consecutive_fails < fail_threshold
      BY <1>1, <1>7, <3>1, ThresholdBounds
    <3>2. CASE consecutive_fails >= fail_threshold
      BY <3>2
    <3> QED BY <1>1, <3>1, <3>2, TimingTypes, TimingConstants
  <2>4. Overdue'
    <3>1. clock' <= Limit'
      BY <1>1, <1>2, <1>3, <2>1, <2>2, <2>3, TimingTypes, TimingConstants
    <3>2. deadline'["ping"] + (clock' - now_ms) <= Limit'
      BY <1>1, <1>2, <1>3, <1>4, <2>1, <2>2, <2>3, TimingTypes, TimingConstants
    <3> QED BY <3>1, <3>2 DEF Overdue, Horizon, Lag
  <2>5. ~(consecutive_fails' < fail_threshold)
    BY <1>1, <1>3, <1>7, TimingTypes, TimingConstants
  <2> QED BY <1>5, <2>4, <2>5 DEF Timely
<1> QED BY <1>1, <1>6, <1>7, TimingTypes, TimingConstants

\* on_ping_timer in a period that is skipped.
LEMMA TimelySkip ==
  ASSUME Books, TypeOK', Timely, Outstanding = 1, pc = "ping", pc' = "poll", Elapsed("ping"),
         deadline'["ping"] = StepPing["ping"],
         UNCHANGED <<clock, now_ms, deadline["reply"], probes, policyVars>>
  PROVE  Timely'
<1>1. TypeOK /\ now_ms <= clock
  BY DEF Books, Control
<1>2. /\ Due' = Due /\ Limit' = Limit /\ Outstanding' = 1 /\ Due \in Nat /\ Limit \in Nat
      /\ UNCHANGED <<last_ok, consecutive_fails>>
  BY <1>1, SameBounds, OutageBounds DEF policyVars
<1>3. now_ms < deadline["reply"]
  <2>1. ~Elapsed("reply")
    BY DEF Books, Control
  <2> QED BY <1>1, <2>1, TimingTypes DEF Elapsed, Outstanding
<1>4. /\ deadline["ping"] <= now_ms
      /\ deadline'["ping"] = IF deadline["ping"] + interval_ms < now_ms
                             THEN now_ms + interval_ms ELSE deadline["ping"] + interval_ms
  BY <1>1, PingMoves
<1>5. Prompt'
  BY <1>1, <1>2, <1>4, TimingTypes, TimingConstants DEF Timely, Prompt, Horizon
<1>6. ASSUME consecutive_fails < fail_threshold PROVE Punctual'
  <2>1. /\ now_ms = clock /\ clock <= deadline["ping"] /\ clock <= deadline["reply"]
        /\ deadline["reply"] <= Due + timeout_ms
        /\ deadline["ping"] < deadline["reply"] => deadline["ping"] <= Due
    BY <1>6 DEF Timely, Punctual, Horizon
  <2>2. deadline["reply"] <= now_ms + timeout_ms
    BY DEF Timely, Prompt
  <2>3. /\ clock <= deadline'["ping"] /\ deadline'["ping"] <= Due + interval_ms
        /\ ~(deadline'["ping"] < deadline["reply"])
    BY <1>1, <1>2, <1>3, <1>4, <2>1, <2>2, TimingTypes, TimingConstants
  <2> QED BY <1>2, <2>1, <2>3 DEF Punctual, Horizon
<1>7. consecutive_fails >= fail_threshold => Overdue'
  BY <1>1, <1>2 DEF Timely, Overdue, Horizon, Lag
<1> QED BY <1>2, <1>5, <1>6, <1>7 DEF Timely

\* on_ping_timer with a request that is sent.
LEMMA TimelySend ==
  ASSUME Books, TypeOK', Timely, Outstanding = 0, pc = "ping", pc' = "poll", Elapsed("ping"),
         deadline'["ping"] = StepPing["ping"], deadline'["reply"] = now_ms + timeout_ms,
         UNCHANGED <<clock, now_ms, policyVars>>
  PROVE  Timely'
<1>1. TypeOK /\ now_ms <= clock
  BY DEF Books, Control
<1>2. /\ Due' = Due /\ Limit' = Limit /\ Due \in Nat /\ Limit \in Nat
      /\ UNCHANGED <<last_ok, consecutive_fails>>
  BY <1>1, OutageBounds DEF policyVars, Due, Limit, Retry
<1>3. last_ok + interval_ms <= Due /\ last_ok \in Nat
  BY <1>1, OutageBounds, TimingTypes
<1>4. /\ deadline["ping"] <= now_ms
      /\ deadline'["ping"] = IF deadline["ping"] + interval_ms < now_ms
                             THEN now_ms + interval_ms ELSE deadline["ping"] + interval_ms
  BY <1>1, PingMoves
<1>5. Prompt'
  BY <1>1, <1>4, TimingTypes, TimingConstants DEF Prompt, Horizon
<1>6. ASSUME consecutive_fails < fail_threshold PROVE Punctual'
  <2>1. now_ms = clock /\ clock <= Due /\ deadline["ping"] <= Due
    BY <1>6 DEF Timely, Punctual, Horizon
  <2>2. deadline["ping"] < clock => deadline["ping"] <= last_ok
    BY <1>6 DEF Timely, Punctual, Horizon
  <2>3. deadline'["ping"] < deadline'["reply"] => deadline'["ping"] <= Due
    BY <1>1, <1>2, <1>3, <1>4, <2>1, <2>2, TimingTypes, TimingConstants
  <2>4. /\ clock <= deadline'["ping"] /\ clock <= deadline'["reply"]
        /\ deadline'["reply"] <= Due + timeout_ms /\ deadline'["ping"] <= Due + interval_ms
    BY <1>1, <1>2, <1>4, <2>1, TimingTypes, TimingConstants
  <2>5. Outstanding' # 0
    <3>1. now_ms + timeout_ms # UINT64_MAX
      BY <1>1, BookTypes, Constants
    <3> QED BY <3>1 DEF Outstanding, ls_timer_armed, Disarmed
  <2> QED BY <1>2, <2>1, <2>3, <2>4, <2>5 DEF Punctual, Horizon
<1>7. ASSUME consecutive_fails >= fail_threshold PROVE Overdue'
  <2>1. clock <= Limit
    BY <1>7 DEF Timely, Overdue, Horizon
  <2>2. /\ clock <= Limit + timeout_ms
        /\ deadline'["reply"] + (clock - now_ms) <= Limit + timeout_ms
    BY <1>1, <1>2, <2>1, TimingTypes, TimingConstants
  <2>3. Outstanding' # 0
    <3>1. now_ms + timeout_ms # UINT64_MAX
      BY <1>1, BookTypes, Constants
    <3> QED BY <3>1 DEF Outstanding, ls_timer_armed, Disarmed
  <2> QED BY <1>2, <2>2, <2>3 DEF Overdue, Horizon, Lag
<1> QED BY <1>2, <1>5, <1>6, <1>7 DEF Timely

\* on_reply_timer, with a late reply or with a timeout.
LEMMA TimelyReplyTimer ==
  ASSUME Books, TypeOK', Timely, on_reply_timer, ~stopping'
  PROVE  Timely'
<1>1. TypeOK
  BY DEF Books
<1>2. /\ pc = "reply" /\ pc' = "ping" /\ UNCHANGED <<now_ms, probes, deadline["ping"]>>
      /\ Outstanding' = 0 /\ Elapsed("reply")
  BY <1>1, ReplyEffect
<1>3. Outstanding = 1 /\ now_ms = clock /\ deadline["reply"] <= clock
  BY <1>1, <1>2, TimingTypes DEF Elapsed, Outstanding, Timely, Prompt
<1>4. CASE consecutive_fails' = 0 /\ last_ok' = clock /\ UNCHANGED clock
  BY <1>2, <1>3, <1>4, TimelySuccess
<1>5. CASE probe_failed
  <2>1. deadline["ping"] <= now_ms + interval_ms
    BY <1>3, ArmedTimers DEF Timely, Prompt
  <2>2. ASSUME consecutive_fails < fail_threshold
        PROVE  /\ clock <= Due + timeout_ms /\ deadline["ping"] <= Due + interval_ms
               /\ clock <= deadline["ping"]
    <3>1. /\ clock <= deadline["ping"] /\ clock <= deadline["reply"]
          /\ deadline["reply"] <= Due + timeout_ms /\ deadline["ping"] <= Due + interval_ms
      BY <1>2, <1>3, <2>2 DEF Timely, Punctual, Horizon
    <3>2. Due \in Nat
      BY <1>1, OutageBounds
    <3> QED BY <1>1, <3>1, <3>2, TimingTypes, TimingConstants
  <2>3. consecutive_fails >= fail_threshold => clock <= Limit + timeout_ms
    BY <1>2, <1>3 DEF Timely, Overdue, Horizon
  <2> QED BY <1>2, <1>3, <1>5, <2>1, <2>2, <2>3, TimelyFailure
<1> QED BY <1>1, <1>4, <1>5, ReplyEffect

\* on_ping_timer, in a period that is skipped, with a request that is refused and with one
\* that is sent.
LEMMA TimelyPingTimer ==
  ASSUME Books, TypeOK', Timely, on_ping_timer, ~stopping'
  PROVE  Timely'
<1>1. TypeOK
  BY DEF Books
<1>2. /\ pc = "ping" /\ pc' = "poll" /\ Elapsed("ping") /\ UNCHANGED now_ms
      /\ deadline'["ping"] = StepPing["ping"]
  BY <1>1, PingEffect, Zenon
<1>3. CASE /\ Outstanding = 1 /\ deadline'["reply"] = deadline["reply"]
           /\ UNCHANGED <<clock, policyVars, probes>>
  BY <1>2, <1>3, TimelySkip, Zenon
<1>4. CASE Outstanding = 0 /\ deadline'["reply"] = deadline["reply"] /\ probe_failed
  <2>1. /\ deadline["ping"] <= now_ms
        /\ deadline'["ping"] = IF deadline["ping"] + interval_ms < now_ms
                               THEN now_ms + interval_ms ELSE deadline["ping"] + interval_ms
    BY <1>1, <1>2, PingMoves
  <2>2. Outstanding' = 0 /\ Due \in Nat /\ Limit \in Nat
    BY <1>1, <1>4, OutageBounds DEF Outstanding
  <2>3. deadline'["ping"] <= now_ms + interval_ms
    BY <1>1, <2>1, TimingTypes, TimingConstants
  <2>4. ASSUME consecutive_fails < fail_threshold
        PROVE  /\ clock <= Due + timeout_ms /\ now_ms = clock
               /\ deadline'["ping"] <= Due + interval_ms /\ clock <= deadline'["ping"]
    <3>1. now_ms = clock /\ clock <= Due /\ deadline["ping"] <= Due
      BY <1>2, <1>4, <2>4 DEF Timely, Punctual, Horizon
    <3> QED BY <1>1, <2>1, <2>2, <3>1, TimingTypes, TimingConstants
  <2>5. ASSUME consecutive_fails >= fail_threshold PROVE clock <= Limit + timeout_ms
    <3>1. clock <= Limit
      BY <1>2, <1>4, <2>5 DEF Timely, Overdue, Horizon
    <3> QED BY <1>1, <2>2, <3>1, TimingTypes, TimingConstants
  <2> QED BY <1>2, <1>4, <2>2, <2>3, <2>4, <2>5, TimelyFailure
<1>5. CASE /\ Outstanding = 0 /\ deadline'["reply"] = now_ms + timeout_ms
           /\ UNCHANGED <<clock, policyVars>>
  BY <1>2, <1>5, TimelySend
<1> QED BY <1>1, <1>3, <1>4, <1>5, PingEffect, Zenon

\* Every step of a monitor that is never held up keeps its timing.
LEMMA DetectionStep ==
  ASSUME Books, Books', Detection, [Next]_vars, Stalls = {}
  PROVE  Detection'
<1> SUFFICES ASSUME ~stopping' PROVE Timely'
  BY DEF Detection
<1>1. Books /\ TypeOK /\ TypeOK' /\ Timely
  BY StillRunning DEF Books, Detection
<1>2. CASE on_watchdog_timer
  <2>1. /\ pc = "watchdog" /\ pc' = "reply"
        /\ UNCHANGED <<clock, now_ms, policyVars, probes, deadline["ping"], deadline["reply"]>>
    BY <1>1, <1>2, Zenon DEF on_watchdog_timer, NextSlot, TypeOK, LoopTypeOK, Timers, sendVars
  <2>2. /\ Due' = Due /\ Limit' = Limit /\ Outstanding' = Outstanding
        /\ UNCHANGED <<last_ok, consecutive_fails>>
    BY <2>1, SameBounds, Zenon DEF policyVars
  <2> QED BY <1>1, <2>1, <2>2, Zenon DEF Timely, Prompt, Punctual, Overdue, Horizon, Lag
<1>3. CASE on_reply_timer
  BY <1>1, <1>3, TimelyReplyTimer
<1>4. CASE on_ping_timer
  BY <1>1, <1>4, TimelyPingTimer
<1>5. CASE on_icmp_readable
  <2>1. /\ pc = "icmpfd" /\ pc' = "refresh" /\ UNCHANGED <<clock, now_ms, probes, deadline["ping"]>>
    BY <1>1, <1>5, ReadableEffect
  <2>2. now_ms = clock
    BY <1>1, <2>1 DEF Timely, Prompt
  <2>3. CASE /\ Outstanding = 1 /\ Outstanding' = 0 /\ consecutive_fails' = 0 /\ last_ok' = clock
    BY <1>1, <2>1, <2>2, <2>3, TimelySuccess
  <2>4. CASE UNCHANGED <<deadline, policyVars>>
    <3>1. /\ Due' = Due /\ Limit' = Limit /\ Outstanding' = Outstanding
          /\ UNCHANGED <<last_ok, consecutive_fails>>
      BY <2>4, SameBounds DEF policyVars
    <3> QED BY <1>1, <2>1, <2>4, <3>1, Zenon DEF Timely, Prompt, Punctual, Overdue, Horizon, Lag
  <2> QED BY <1>1, <1>5, <2>3, <2>4, ReadableEffect
<1>6. CASE ~on_watchdog_timer /\ ~on_reply_timer /\ ~on_ping_timer /\ ~on_icmp_readable
  BY <1>1, <1>6, PassStep, TimelyPass
<1> QED BY <1>2, <1>3, <1>4, <1>5, <1>6

\* An outage is acted upon in time by a process that is never held up: a monitor still in its
\* loop had a success, or was started, at most fail_threshold periods and one timeout ago, not
\* counting what its failed shutdown commands cost.
THEOREM OutagesAreDetected ==
  ASSUME Stalls = {}
  PROVE  Spec => []OutageDetected
<1>1. Init => Detection
  <2> SUFFICES ASSUME Init PROVE Timely
    BY DEF Detection
  <2>1. /\ deadline["ping"] = start_delay_ms /\ Outstanding = 0
        /\ clock = 0 /\ now_ms = 0 /\ pc = "refresh" /\ probes = 0
        /\ last_ok = start_delay_ms /\ consecutive_fails = 0
    <3>1. ls_timer_arm_after(0, start_delay_ms) = start_delay_ms
      BY Constants, AddSatExact DEF ls_timer_arm_after
    <3>2. deadline["ping"] = start_delay_ms /\ Outstanding = 0
      BY <3>1 DEF Init, LoopInit, Outstanding, ls_timer_armed
    <3> QED BY <3>2 DEF Init, LoopInit
  <2>2. TypeOK
    BY InitType
  <2>3. Due \in Nat /\ start_delay_ms <= Due
    BY <2>1, <2>2, OutageBounds, TimingTypes, TimingConstants
  <2>4. fail_threshold > 0 /\ fail_threshold \in Nat /\ start_delay_ms \in Nat
    BY Constants
  <2> QED BY <2>1, <2>3, <2>4 DEF Timely, Prompt, Punctual, Horizon
<1>2. Books /\ Books' /\ Detection /\ [Next]_vars => Detection'
  BY DetectionStep
<1>3. Books /\ Detection => OutageDetected
  <2> SUFFICES ASSUME Books, Timely
               PROVE  clock <= last_ok + fail_threshold * interval_ms + timeout_ms
                                 + actions * (interval_ms + timeout_ms + MaxAction)
    BY DEF Detection, OutageDetected
  <2>1. TypeOK /\ Outstanding \in {0, 1}
    BY ArmedTimers DEF Books
  <2>2. Due \in Nat /\ Limit \in Nat /\ (consecutive_fails < fail_threshold => Due <= Limit)
    BY <2>1, OutageBounds
  <2>3. clock <= Horizon /\ Horizon \in Nat
    BY <2>1, TimingTypes DEF Timely, Prompt, Horizon
  <2>4. Horizon <= Limit + timeout_ms
    <3>1. CASE consecutive_fails < fail_threshold
      <4>1. Horizon <= Due \/ (Horizon <= deadline["reply"] /\ deadline["reply"] <= Due + timeout_ms)
        BY <2>1, <3>1 DEF Timely, Punctual
      <4> QED BY <2>1, <2>2, <2>3, <3>1, <4>1, TimingTypes, TimingConstants
    <3>2. CASE consecutive_fails >= fail_threshold
      BY <2>1, <2>2, <2>3, <3>2, TimingConstants DEF Timely, Overdue
    <3> QED BY <2>1, <3>1, <3>2, TimingTypes, TimingConstants
  <2>5. clock <= Limit + timeout_ms
    BY <2>1, <2>2, <2>3, <2>4, TimingTypes, TimingConstants
  <2>6. Limit + timeout_ms = last_ok + fail_threshold * interval_ms + timeout_ms
                               + actions * (interval_ms + timeout_ms + MaxAction)
    <3>1. /\ fail_threshold * interval_ms \in Nat /\ actions * Retry \in Nat /\ last_ok \in Nat
          /\ Retry = interval_ms + timeout_ms + MaxAction
      BY <2>1, TimingTypes, TimingConstants, Periods
    <3>2. \A a, b, c, d \in Nat : a + b + c + d = a + c + d + b
      OBVIOUS
    <3> QED BY <3>1, <3>2, TimingConstants DEF Limit
  <2> QED BY <2>5, <2>6
<1> QED BY <1>1, <1>2, <1>3, BooksHold, PTL DEF Spec
=============================================================================
