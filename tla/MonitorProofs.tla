--------------------------- MODULE MonitorProofs ---------------------------
(***************************************************************************)
(* Type correctness of Monitor, its control and its bookkeeping, and what  *)
(* its actions do, which the other proofs use.                             *)
(***************************************************************************)
EXTENDS MonitorInvariant, TLAPS

\* The arithmetic facts about the constants.
LEMMA Constants ==
  /\ UINT64_MAX \in Nat /\ UINT64_MAX > 0
  /\ UINT16_MAX \in Nat /\ UINT16_MAX > 0
  /\ MaxClock \in Nat
  /\ INT_MAX \in Nat
  /\ interval_ms \in Nat /\ interval_ms > 0
  /\ timeout_ms \in Nat /\ timeout_ms > 0 /\ timeout_ms < interval_ms
  /\ start_delay_ms \in Nat
  /\ fail_threshold \in Nat /\ fail_threshold > 0
  /\ watchdog_interval_ms \in Nat
  /\ LS_MAX_REPLY_DRAIN_PER_WAKEUP \in Nat /\ LS_MAX_REPLY_DRAIN_PER_WAKEUP > 0
  /\ MaxAction \in Nat
  /\ MaxQueue \in Nat
  /\ Lifetime \in Nat /\ Lifetime > 0
  /\ MaxClock + interval_ms + start_delay_ms + watchdog_interval_ms < UINT64_MAX
  /\ Lifetime + MaxQueue <= UINT16_MAX
BY Uint64Assumption, Uint16Assumption, LoopAssumption, ConfigAssumption,
   EnvironmentAssumption, RangeAssumption, LifetimeAssumption

\* Saturating addition stays in uint64_t.
LEMMA AddSatType ==
  ASSUME NEW a \in Uint64, NEW b \in Nat
  PROVE  ls_add_sat(a, b) \in Uint64
BY Uint64Assumption DEF ls_add_sat, Uint64

\* Saturating addition is addition when the sum fits.
LEMMA AddSatExact ==
  ASSUME NEW a \in Nat, NEW b \in Nat, a + b <= UINT64_MAX
  PROVE  ls_add_sat(a, b) = a + b
BY Uint64Assumption DEF ls_add_sat

\* The minimum of two naturals, as poll_timeout_ms and the drain limit use it.
LEMMA MinPair ==
  ASSUME NEW a \in Nat, NEW b \in Nat
  PROVE  /\ Min({a, b}) \in Nat
         /\ Min({a, b}) <= a
         /\ Min({a, b}) <= b
         /\ Min({a, b}) = a \/ Min({a, b}) = b
BY DEF Min

\* The nearest deadline that poll_timeout_ms looks for is a deadline.
LEMMA NearestType ==
  ASSUME LoopTypeOK
  PROVE  nearest \in Uint64 /\ \A t \in Timers : nearest <= deadline[t]
<1>1. {deadline[t] : t \in Timers} =
        {deadline["watchdog"], deadline["reply"], deadline["ping"]}
  BY DEF Timers
<1>2. /\ deadline["watchdog"] \in Uint64
      /\ deadline["reply"] \in Uint64
      /\ deadline["ping"] \in Uint64
  BY DEF LoopTypeOK, Timers
<1>3. ASSUME NEW a \in Uint64, NEW b \in Uint64, NEW c \in Uint64
      PROVE  \E x \in {a, b, c} : \A y \in {a, b, c} : x =< y
  BY Constants DEF Uint64
<1>4. PICK x \in {deadline[t] : t \in Timers} : \A y \in {deadline[t] : t \in Timers} : x =< y
  <2> DEFINE Least(S) == \E x \in S : \A y \in S : x =< y
  <2>1. \A a, b, c \in Uint64 : Least({a, b, c})
    BY <1>3, Zenon
  <2> HIDE DEF Least
  <2>2. Least({deadline["watchdog"], deadline["reply"], deadline["ping"]})
    BY <1>2, <2>1, Zenon
  <2>3. Least({deadline[t] : t \in Timers})
    BY <1>1, <2>2, Zenon
  <2> QED BY <2>3, Zenon DEF Least
<1>5. /\ nearest \in {deadline[t] : t \in Timers}
      /\ \A y \in {deadline[t] : t \in Timers} : nearest =< y
  BY <1>4, Zenon DEF nearest, Min
<1>6. nearest \in Uint64
  BY <1>1, <1>2, <1>5, Zenon
<1> QED BY <1>5, <1>6, Zenon

\* The timeout handed to poll(2) is -1 or not negative.
LEMMA PollTimeoutType ==
  ASSUME LoopTypeOK
  PROVE  poll_timeout_ms = -1 \/ poll_timeout_ms \in Nat
<1>1. nearest \in Nat /\ now_ms \in Nat
  BY NearestType DEF Uint64, LoopTypeOK
<1>2. nearest > now_ms => nearest - now_ms \in Nat
  BY <1>1
<1> QED BY <1>1, <1>2, MinPair, Constants DEF poll_timeout_ms

\* ls_timer_step leaves a deadline in uint64_t.
LEMMA TimerStepType ==
  ASSUME NEW d \in Uint64, NEW i \in Nat, NEW n \in Uint64
  PROVE  ls_timer_step(d, i, n) \in Uint64
BY Constants DEF ls_timer_step, ls_timer_armed, ls_add_sat, Disarmed, Uint64

\* The state in which app_run enters the loop is well typed.
LEMMA InitType == Init => TypeOK
<1> SUFFICES ASSUME Init PROVE TypeOK
  OBVIOUS
<1>1. LoopTypeOK
  <2> USE DEF Init, LoopInit
  <2>1. deadline \in [Timers -> Uint64]
    BY Constants DEF Timers, Uint64, Disarmed, ls_timer_arm_after, ls_add_sat
  <2>2. clock \in 0 .. MaxClock /\ now_ms \in 0 .. MaxClock /\ wake \in Nat
    BY Constants
  <2>3. pc \in PCs /\ stopping \in BOOLEAN /\ exit_code \in {LS_EXIT_SUCCESS, LS_EXIT_FAILURE}
    BY Zenon DEF PCs
  <2>4. revents \in [Fds -> Events]
    BY DEF Events
  <2> QED BY <2>1, <2>2, <2>3, <2>4 DEF LoopTypeOK
<1>2. /\ sequence \in Uint16 /\ probe_sequence \in Uint16
      /\ probe_sent_ns \in 0 .. MaxClock /\ last_beat \in 0 .. MaxClock
      /\ consecutive_fails \in Nat /\ probes \in Nat /\ credited \in Nat
      /\ last_ok \in Nat /\ actions \in Nat
      /\ stats \in [ok : Uint64, failed : Uint64]
  BY Constants DEF Init, Uint16, Uint64
<1>3. sockbuf \in Seq(Packet)
  BY DEF Init
<1> QED BY <1>1, <1>2, <1>3, Zenon DEF Init, TypeOK

\* poll(2) reports an event for each descriptor slot.
LEMMA ReadyType == TypeOK => Ready \in [Fds -> Events]
BY DEF Ready, Fds, Events

\* The steps of ls_loop_run between the callbacks keep the types.
LEMMA LoopStepType == TypeOK /\ LoopStep => TypeOK'
<1> SUFFICES ASSUME TypeOK, LoopStep PROVE TypeOK'
  OBVIOUS
<1>1. LoopTypeOK'
  <2> USE DEF TypeOK, LoopTypeOK, PCs, Timers, Fds, LS_EXIT_FAILURE
  <2>1. CASE refresh_now BY <2>1 DEF refresh_now
  <2>2. CASE refresh_now_fails BY <2>2 DEF refresh_now_fails, ls_loop_stop
  <2>3. CASE \E t \in Timers : skip_timer(t)
    BY <2>3 DEF skip_timer, NextSlot, Timers
  <2>4. CASE poll BY <2>4, PollTimeoutType, Constants DEF poll
  <2>5. CASE poll_ready(Ready) BY <2>5, ReadyType DEF poll_ready
  <2>6. CASE poll_ready([Ready EXCEPT !["signalfd"] = "err"])
    <3>1. [Ready EXCEPT !["signalfd"] = "err"] \in [Fds -> Events]
      BY ReadyType DEF Events, Fds
    <3> QED BY <2>6, <3>1 DEF poll_ready
  <2>7. CASE poll_empty(Ready) BY <2>7 DEF poll_empty
  <2>8. CASE poll_fails BY <2>8 DEF poll_fails, ls_loop_stop
  <2>9. CASE \E fd \in Fds : skip_fd(fd)
    BY <2>9 DEF skip_fd, NextFd, Fds
  <2>10. CASE critical_fd_fails BY <2>10 DEF critical_fd_fails, ls_loop_stop
  <2> QED BY <2>1, <2>2, <2>3, <2>4, <2>5, <2>6, <2>7, <2>8, <2>9, <2>10 DEF LoopStep
<1> QED BY <1>1 DEF TypeOK, LoopStep, appVars, probeVars, policyVars, sendVars,
                    watchdogVars, socketVars

\* The packet that drain_and_match_reply accepts is one that is in the buffer.
LEMMA AcceptableFacts ==
  ASSUME TypeOK, drain_matches
  PROVE  /\ \E i \in 1 .. Len(sockbuf) :
              /\ sockbuf[i] \in Packet
              /\ ls_icmp_recv(sockbuf[i], probe_sequence) = "MATCHED"
              /\ Consume(i)
              /\ probe_succeeded(sockbuf[i])
         /\ ls_timer_armed(deadline["reply"])
<1>1. Len(sockbuf) \in Nat /\ sockbuf \in Seq(Packet)
  BY DEF TypeOK
<1>2. PICK i \in Acceptable : Consume(i) /\ probe_succeeded(sockbuf[i])
  BY Zenon DEF drain_matches
<1>3. i \in 1 .. Len(sockbuf)
  BY <1>1, Constants, MinPair DEF Acceptable
<1>4. sockbuf[i] \in Packet
  BY <1>1, <1>3
<1>5. ls_icmp_recv(sockbuf[i], probe_sequence) = "MATCHED" /\ ls_timer_armed(deadline["reply"])
  BY Zenon DEF Acceptable
<1> QED BY <1>2, <1>3, <1>4, <1>5, Zenon

\* What an accepted reply does to the policy.
LEMMA MatchEffect ==
  ASSUME TypeOK, drain_matches
  PROVE  /\ ls_timer_armed(deadline["reply"]) /\ probe_reset
         /\ consecutive_fails' = 0 /\ last_ok' = clock
         /\ UNCHANGED <<actions, clock, stopping, exit_code>>
         /\ stats' = [stats EXCEPT !.ok = ls_add_sat(stats.ok, 1)]
         /\ stats'.failed = stats.failed
<1>1. ls_timer_armed(deadline["reply"]) /\ probe_reset
  BY AcceptableFacts, Zenon DEF drain_matches
<1>2. /\ consecutive_fails' = 0 /\ last_ok' = clock
      /\ UNCHANGED <<actions, clock, stopping, exit_code>>
      /\ stats' = [stats EXCEPT !.ok = ls_add_sat(stats.ok, 1)]
  <2>1. PICK p : probe_succeeded(p)
    BY Zenon DEF drain_matches
  <2> QED BY <2>1 DEF probe_succeeded, KeepRunning
<1>3. stats'.failed = stats.failed
  BY <1>2 DEF TypeOK
<1> QED BY <1>1, <1>2, <1>3

\* Reading packets leaves a sequence of packets in the socket buffer.
LEMMA ConsumeType ==
  ASSUME TypeOK, NEW n \in Nat, Consume(n)
  PROVE  sockbuf' \in Seq(Packet)
<1>1. sockbuf \in Seq(Packet) /\ Len(sockbuf) \in Nat
  BY DEF TypeOK
<1>2. \A i \in n + 1 .. Len(sockbuf) : sockbuf[i] \in Packet
  BY <1>1
<1> QED BY <1>1, <1>2 DEF Consume

\* What an outcome of a probe may do to the loop and to the policy.
LEMMA FailEffect ==
  ASSUME TypeOK, probe_failed
  PROVE  /\ consecutive_fails' = consecutive_fails + 1
         /\ stats' \in [ok : Uint64, failed : Uint64]
         /\ clock' \in 0 .. MaxClock /\ clock' >= clock
         /\ stopping' \in BOOLEAN
         /\ exit_code' \in {LS_EXIT_SUCCESS, LS_EXIT_FAILURE}
         /\ actions' \in Nat
         /\ credited' = credited /\ last_ok' = last_ok
<1>1. stats' \in [ok : Uint64, failed : Uint64]
  <2>1. stats \in [ok : Uint64, failed : Uint64] /\ 1 \in Nat
    BY DEF TypeOK
  <2>2. ls_add_sat(stats.failed, 1) \in Uint64
    BY <2>1, AddSatType
  <2> QED BY <2>1, <2>2 DEF probe_failed
<1>2. clock' \in 0 .. MaxClock /\ clock' >= clock
  <2>1. clock \in 0 .. MaxClock /\ clock \in Nat
    BY Constants DEF TypeOK, LoopTypeOK
  <2>2. CASE UNCHANGED clock
    BY <2>1, <2>2
  <2>3. CASE \E d \in 0 .. (IF poweroff THEN MaxAction ELSE 0) :
               clock + d <= MaxClock /\ clock' = clock + d
    <3>1. PICK d \in 0 .. (IF poweroff THEN MaxAction ELSE 0) :
                 clock + d <= MaxClock /\ clock' = clock + d
      BY <2>3
    <3>2. d \in Nat
      BY Constants
    <3> QED BY <2>1, <3>1, <3>2, Constants
  <2> QED BY <2>2, <2>3 DEF probe_failed, check_threshold
<1>3. stopping' \in BOOLEAN /\ exit_code' \in {LS_EXIT_SUCCESS, LS_EXIT_FAILURE}
  BY Zenon DEF probe_failed, check_threshold, TypeOK, LoopTypeOK, KeepRunning, ls_loop_stop
<1>4. actions' \in Nat
  BY DEF probe_failed, check_threshold, TypeOK
<1> QED BY <1>1, <1>2, <1>3, <1>4 DEF probe_failed

\* Types after a drain that accepted a reply.
LEMMA DrainMatchesType ==
  ASSUME TypeOK, drain_matches
  PROVE  /\ sockbuf' \in Seq(Packet) /\ sock_err' \in BOOLEAN
         /\ probe_sent_ns' = 0 /\ probe_sequence' = 0
         /\ deadline' = [deadline EXCEPT !["reply"] = Disarmed]
         /\ consecutive_fails' = 0
         /\ stats' \in [ok : Uint64, failed : Uint64]
         /\ credited' \in Nat /\ last_ok' \in Nat
         /\ UNCHANGED <<actions, clock, stopping, exit_code>>
<1>1. sockbuf' \in Seq(Packet)
  BY AcceptableFacts, ConsumeType
<1>2. stats' \in [ok : Uint64, failed : Uint64]
  <2>1. stats \in [ok : Uint64, failed : Uint64] /\ 1 \in Nat
    BY DEF TypeOK
  <2>2. ls_add_sat(stats.ok, 1) \in Uint64
    BY <2>1, AddSatType
  <2> QED BY <2>1, <2>2, MatchEffect
<1>3. credited' \in Nat
  BY AcceptableFacts DEF probe_succeeded, Packet
<1>4. last_ok' \in Nat
  BY MatchEffect DEF TypeOK, LoopTypeOK
<1>5. sock_err' \in BOOLEAN
  BY Zenon DEF drain_matches, TypeOK
<1> QED BY <1>1, <1>2, <1>3, <1>4, <1>5, MatchEffect DEF probe_reset

\* Types after a drain that met a receive error.
LEMMA DrainFailsType ==
  ASSUME TypeOK, drain_fails
  PROVE  /\ UNCHANGED sockbuf /\ sock_err' = FALSE
         /\ probe_sent_ns' = 0 /\ probe_sequence' = 0
         /\ deadline' = [deadline EXCEPT !["reply"] = Disarmed]
         /\ UNCHANGED <<clock, policyVars>>
         /\ stopping' = TRUE /\ exit_code' = LS_EXIT_FAILURE
BY DEF drain_fails, probe_reset, app_fail, ls_loop_stop

\* Types after a drain that accepted nothing.
LEMMA DrainExhaustsType ==
  ASSUME TypeOK, drain_exhausts
  PROVE  sockbuf' \in Seq(Packet) /\ UNCHANGED sock_err
<1>1. Min({LS_MAX_REPLY_DRAIN_PER_WAKEUP, Len(sockbuf)}) \in Nat
  BY Constants, MinPair DEF TypeOK
<1> QED BY <1>1, ConsumeType DEF drain_exhausts

\* on_watchdog_timer keeps the types.
LEMMA WatchdogType == TypeOK /\ on_watchdog_timer => TypeOK'
<1> SUFFICES ASSUME TypeOK, on_watchdog_timer PROVE TypeOK'
  OBVIOUS
<1>1. ls_timer_step(deadline["watchdog"], watchdog_interval_ms, now_ms) \in Uint64
  <2>1. /\ deadline["watchdog"] \in Uint64 /\ watchdog_interval_ms \in Nat
        /\ now_ms \in Uint64
    BY Constants DEF TypeOK, LoopTypeOK, Timers, Uint64
  <2> QED BY <2>1, TimerStepType
<1>2. deadline' \in [Timers -> Uint64]
  BY <1>1, Zenon DEF on_watchdog_timer, TypeOK, LoopTypeOK
<1>3. LoopTypeOK'
  BY <1>2 DEF on_watchdog_timer, TypeOK, LoopTypeOK, NextSlot, PCs, Timers
<1>4. last_beat' \in 0 .. MaxClock /\ watchdog_last_failed' \in BOOLEAN
  BY DEF on_watchdog_timer, TypeOK, LoopTypeOK
<1> QED BY <1>3, <1>4 DEF on_watchdog_timer, TypeOK, probeVars, policyVars, sendVars,
                          socketVars

\* Disarming the reply timer keeps the deadlines in uint64_t.
LEMMA DisarmReplyType ==
  ASSUME TypeOK
  PROVE  [deadline EXCEPT !["reply"] = Disarmed] \in [Timers -> Uint64]
<1>1. Disarmed \in Uint64 /\ deadline \in [Timers -> Uint64]
  BY Constants DEF TypeOK, LoopTypeOK, Disarmed, Uint64
<1> QED BY <1>1, Zenon

\* on_reply_timer keeps the types.
LEMMA ReplyTimerType == TypeOK /\ on_reply_timer => TypeOK'
<1> SUFFICES ASSUME TypeOK, on_reply_timer PROVE TypeOK'
  OBVIOUS
<1>1. /\ pc' \in PCs
      /\ UNCHANGED <<now_ms, wake, revents, sendVars, watchdogVars, pending>>
  BY DEF on_reply_timer, Continue, NextSlot, PCs, Timers
<1>2. CASE drain_matches
  <2>1. LoopTypeOK'
    BY <1>1, <1>2, DrainMatchesType, DisarmReplyType, Zenon DEF TypeOK, LoopTypeOK
  <2>2. /\ 0 \in Uint16 /\ 0 \in 0 .. MaxClock /\ 0 \in Nat
    BY Constants DEF Uint16
  <2> QED BY <1>1, <1>2, <2>1, <2>2, DrainMatchesType DEF TypeOK, sendVars, watchdogVars
<1>3. CASE drain_fails
  <2>1. LoopTypeOK'
    BY <1>1, <1>3, DrainFailsType, DisarmReplyType, Zenon DEF TypeOK, LoopTypeOK
  <2>2. /\ 0 \in Uint16 /\ 0 \in 0 .. MaxClock
    BY Constants DEF Uint16
  <2> QED BY <1>1, <1>3, <2>1, <2>2, DrainFailsType, Zenon
          DEF TypeOK, sendVars, watchdogVars, policyVars
<1>4. CASE drain_exhausts /\ probe_reset /\ probe_failed
  <2>1. LoopTypeOK'
    BY <1>1, <1>4, FailEffect, DisarmReplyType DEF TypeOK, LoopTypeOK, probe_reset
  <2>2. /\ 0 \in Uint16 /\ 0 \in 0 .. MaxClock
    BY Constants DEF Uint16
  <2>3. consecutive_fails' \in Nat /\ credited' \in Nat /\ last_ok' \in Nat
    BY <1>4, FailEffect DEF TypeOK
  <2> QED BY <1>1, <1>4, <2>1, <2>2, <2>3, DrainExhaustsType, FailEffect
          DEF TypeOK, sendVars, watchdogVars, probe_reset
<1> QED BY <1>2, <1>3, <1>4 DEF on_reply_timer

\* on_icmp_readable keeps the types.
LEMMA IcmpReadableType == TypeOK /\ on_icmp_readable => TypeOK'
<1> SUFFICES ASSUME TypeOK, on_icmp_readable PROVE TypeOK'
  OBVIOUS
<1>1. /\ pc' \in PCs
      /\ UNCHANGED <<now_ms, wake, revents, sendVars, watchdogVars, pending>>
  BY DEF on_icmp_readable, Continue, NextFd, PCs, Timers
<1>2. CASE drain_matches
  <2>1. LoopTypeOK'
    BY <1>1, <1>2, DrainMatchesType, DisarmReplyType, Zenon DEF TypeOK, LoopTypeOK
  <2>2. /\ 0 \in Uint16 /\ 0 \in 0 .. MaxClock /\ 0 \in Nat
    BY Constants DEF Uint16
  <2> QED BY <1>1, <1>2, <2>1, <2>2, DrainMatchesType DEF TypeOK, sendVars, watchdogVars
<1>3. CASE drain_fails
  <2>1. LoopTypeOK'
    BY <1>1, <1>3, DrainFailsType, DisarmReplyType, Zenon DEF TypeOK, LoopTypeOK
  <2>2. /\ 0 \in Uint16 /\ 0 \in 0 .. MaxClock
    BY Constants DEF Uint16
  <2> QED BY <1>1, <1>3, <2>1, <2>2, DrainFailsType, Zenon
          DEF TypeOK, sendVars, watchdogVars, policyVars
<1>4. CASE /\ drain_exhausts
           /\ UNCHANGED <<clock, deadline, probeVars, policyVars>> /\ KeepRunning
  BY <1>1, <1>4, DrainExhaustsType
     DEF TypeOK, LoopTypeOK, sendVars, watchdogVars, probeVars, policyVars, KeepRunning
<1> QED BY <1>2, <1>3, <1>4 DEF on_icmp_readable

\* ls_icmp_send_echo keeps the types, and the sequence it uses is never 0.
LEMMA SendType ==
  ASSUME TypeOK, NEW status, ls_icmp_send_echo(status)
  PROVE  /\ sequence' \in Uint16 /\ sequence' # 0
         /\ probes' \in Nat
         /\ net' \subseteq [probe : Nat, seq : Uint16]
<1>1. sequence' \in Uint16 /\ sequence' # 0
  BY Constants DEF ls_icmp_send_echo, next_sequence, TypeOK, Uint16
<1>2. probes \in Nat /\ probes' \in Nat
  BY DEF ls_icmp_send_echo, TypeOK
<1>3. [probe |-> probes + 1, seq |-> sequence'] \in [probe : Nat, seq : Uint16]
  BY <1>1, <1>2
<1>4. net' \subseteq net \cup {[probe |-> probes + 1, seq |-> sequence']}
  BY DEF ls_icmp_send_echo
<1> QED BY <1>1, <1>2, <1>3, <1>4 DEF TypeOK

\* Stepping the ping timer, and arming the reply timer, keep deadlines in uint64_t.
LEMMA StepPingType ==
  ASSUME TypeOK
  PROVE  /\ StepPing \in [Timers -> Uint64]
         /\ StepPing["reply"] = deadline["reply"]
<1>1. deadline["ping"] \in Uint64 /\ interval_ms \in Nat /\ now_ms \in Uint64
  BY Constants DEF TypeOK, LoopTypeOK, Timers, Uint64
<1>2. ls_timer_step(deadline["ping"], interval_ms, now_ms) \in Uint64
  BY <1>1, TimerStepType
<1> QED BY <1>2 DEF StepPing, TypeOK, LoopTypeOK, Timers

\* on_ping_timer keeps the types.
LEMMA PingTimerType == TypeOK /\ on_ping_timer => TypeOK'
<1> SUFFICES ASSUME TypeOK, on_ping_timer PROVE TypeOK'
  OBVIOUS
<1>1. /\ pc' \in PCs
      /\ UNCHANGED <<now_ms, wake, revents, watchdogVars, socketVars, pending>>
  BY DEF on_ping_timer, Continue, NextSlot, PCs, Timers
<1>2. CASE ping_skipped
  BY <1>1, <1>2, StepPingType
     DEF ping_skipped, TypeOK, LoopTypeOK, watchdogVars, socketVars, probeVars,
         policyVars, sendVars
<1>3. CASE ping_error
  <2>1. LoopTypeOK'
    BY <1>1, <1>3, StepPingType
       DEF ping_error, app_fail, ls_loop_stop, TypeOK, LoopTypeOK
  <2>2. /\ sequence' \in Uint16 /\ probes' \in Nat
        /\ net' \subseteq [probe : Nat, seq : Uint16]
    BY <1>3, SendType DEF ping_error
  <2> QED BY <1>1, <1>3, <2>1, <2>2
          DEF ping_error, app_fail, TypeOK, watchdogVars, socketVars, probeVars, policyVars
<1>4. CASE ping_unreachable
  <2>1. LoopTypeOK'
    BY <1>1, <1>4, StepPingType, FailEffect DEF ping_unreachable, TypeOK, LoopTypeOK
  <2>2. /\ sequence' \in Uint16 /\ probes' \in Nat
        /\ net' \subseteq [probe : Nat, seq : Uint16]
    BY <1>4, SendType DEF ping_unreachable
  <2>3. /\ consecutive_fails' \in Nat /\ credited' \in Nat /\ last_ok' \in Nat
        /\ actions' \in Nat /\ stats' \in [ok : Uint64, failed : Uint64]
    BY <1>4, FailEffect DEF ping_unreachable, TypeOK
  <2> QED BY <1>1, <1>4, <2>1, <2>2, <2>3
          DEF ping_unreachable, TypeOK, watchdogVars, socketVars, probeVars
<1>5. CASE ping_sent
  <2>1. ls_timer_arm_after(now_ms, timeout_ms) \in Uint64
    BY Constants DEF ls_timer_arm_after, ls_add_sat, Uint64, TypeOK, LoopTypeOK
  <2>2. LoopTypeOK'
    BY <1>1, <1>5, <2>1, StepPingType, Zenon DEF ping_sent, TypeOK, LoopTypeOK
  <2>3. /\ sequence' \in Uint16 /\ probes' \in Nat
        /\ net' \subseteq [probe : Nat, seq : Uint16]
    BY <1>5, SendType DEF ping_sent
  <2> QED BY <1>1, <1>5, <2>2, <2>3
          DEF ping_sent, TypeOK, LoopTypeOK, watchdogVars, socketVars, policyVars
<1> QED BY <1>2, <1>3, <1>4, <1>5 DEF on_ping_timer

\* dispatch_signal_fd keeps the types.
LEMMA SignalType == TypeOK /\ dispatch_signal_fd => TypeOK'
<1> SUFFICES ASSUME TypeOK, dispatch_signal_fd PROVE TypeOK'
  OBVIOUS
<1>1. pending' \subseteq pending
  BY DEF dispatch_signal_fd
<1>2. LoopTypeOK'
  BY Zenon DEF dispatch_signal_fd, TypeOK, LoopTypeOK, ls_loop_stop, KeepRunning, Continue,
         NextFd, PCs, Fds
<1> QED BY <1>1, <1>2 DEF dispatch_signal_fd, TypeOK, probeVars, policyVars, sendVars,
                          watchdogVars, socketVars

\* The clock, the network, the kernel and signals keep the types.
LEMMA EnvironmentType == TypeOK /\ Environment => TypeOK'
<1> SUFFICES ASSUME TypeOK, Environment PROVE TypeOK'
  OBVIOUS
<1> USE DEF probeVars, policyVars, sendVars, watchdogVars, socketVars, loopVars
<1>1. CASE Tick(Waiting) /\ UNCHANGED appVars
  <2>1. LoopTypeOK'
    BY <1>1, Constants DEF Tick, TypeOK, LoopTypeOK
  <2> QED BY <1>1, <2>1 DEF TypeOK, appVars
<1>2. CASE \E r \in net : ReplyArrives(r)
  <2>1. PICK r \in net : ReplyArrives(r)
    BY <1>2
  <2>2. Reply(r) \in Packet
    BY DEF Reply, Packet, TypeOK
  <2>3. sockbuf' \in Seq(Packet)
    BY <2>1, <2>2 DEF ReplyArrives, TypeOK
  <2>4. net' \subseteq net
    BY <2>1 DEF ReplyArrives
  <2> QED BY <2>1, <2>3, <2>4 DEF ReplyArrives, TypeOK, LoopTypeOK
<1>3. CASE \E p \in Unrelated : UnrelatedArrives(p)
  <2>1. PICK p \in Unrelated : UnrelatedArrives(p)
    BY <1>3
  <2>2. p \in Packet
    BY EnvironmentAssumption
  <2>3. sockbuf' \in Seq(Packet)
    BY <2>1, <2>2 DEF UnrelatedArrives, TypeOK
  <2> QED BY <2>1, <2>3 DEF UnrelatedArrives, TypeOK, LoopTypeOK
<1>4. CASE SocketFails
  BY <1>4 DEF SocketFails, TypeOK, LoopTypeOK
<1>5. CASE \E s \in Signals : SignalArrives(s)
  BY <1>5 DEF SignalArrives, TypeOK, LoopTypeOK
<1> QED BY <1>1, <1>2, <1>3, <1>4, <1>5 DEF Environment

\* A stuttering step keeps the types.
LEMMA StutterType == TypeOK /\ UNCHANGED vars => TypeOK'
BY DEF TypeOK, LoopTypeOK, vars, loopVars, appVars, probeVars, policyVars, sendVars,
       watchdogVars, socketVars

\* Every variable of the monitor keeps its type: no deadline leaves uint64_t and no
\* sequence number leaves uint16_t, for every configuration and environment.
THEOREM TypeCorrect == Spec => []TypeOK
<1>1. TypeOK /\ [Next]_vars => TypeOK'
  BY LoopStepType, WatchdogType, ReplyTimerType, PingTimerType, SignalType,
     IcmpReadableType, EnvironmentType, StutterType DEF Next, Process, Stopped
<1> QED BY <1>1, InitType, PTL DEF Spec

-----------------------------------------------------------------------------
(* Control.                                                                *)

\* The steps of ls_loop_run between the callbacks preserve Control.
LEMMA ControlLoop == TypeOK /\ Control /\ LoopStep => Control'
<1> SUFFICES ASSUME TypeOK, Control, LoopStep PROVE Control'
  OBVIOUS
<1> USE DEF Control
<1>1. UNCHANGED <<clock, deadline>>
  BY DEF LoopStep, refresh_now, refresh_now_fails, skip_timer, poll, poll_ready,
         poll_empty, poll_fails, skip_fd, critical_fd_fails
<1>2. now_ms' \in {now_ms, clock}
  BY DEF LoopStep, refresh_now, refresh_now_fails, skip_timer, poll, poll_ready,
         poll_empty, poll_fails, skip_fd, critical_fd_fails
<1>3. (now_ms <= clock)'
  BY <1>1, <1>2 DEF TypeOK, LoopTypeOK
<1>4. (stopping <=> pc = "stopped")'
  <2>1. CASE \E t \in Timers : skip_timer(t)
    BY <2>1 DEF skip_timer, NextSlot, Timers
  <2>2. CASE \E fd \in Fds : skip_fd(fd)
    BY <2>2 DEF skip_fd, NextFd, Fds
  <2>3. CASE refresh_now_fails \/ poll_fails \/ critical_fd_fails
    BY <2>3, Zenon DEF refresh_now_fails, poll_fails, critical_fd_fails, ls_loop_stop
  <2>4. CASE refresh_now \/ poll \/ poll_empty(Ready)
    BY <2>4 DEF refresh_now, poll, poll_empty
  <2>5. ASSUME NEW events, poll_ready(events)
        PROVE  (stopping <=> pc = "stopped")'
    BY <2>5 DEF poll_ready
  <2> QED BY <2>1, <2>2, <2>3, <2>4, <2>5, Zenon DEF LoopStep
<1>5. ASSUME pc' = "ping" PROVE ~Elapsed("reply")'
  <2>1. skip_timer("reply")
    <3>1. ASSUME NEW t \in Timers, skip_timer(t) PROVE t = "reply"
      BY <1>5, <3>1 DEF skip_timer, NextSlot, Timers
    <3>2. ASSUME NEW fd \in Fds PROVE ~skip_fd(fd)
      BY <1>5 DEF skip_fd, NextFd, Fds
    <3>3. /\ ~refresh_now /\ ~refresh_now_fails /\ ~poll /\ ~poll_empty(Ready) /\ ~poll_fails
          /\ ~critical_fd_fails
      BY <1>5 DEF refresh_now, refresh_now_fails, poll, poll_empty, poll_fails, critical_fd_fails
    <3>4. ASSUME NEW events PROVE ~poll_ready(events)
      BY <1>5 DEF poll_ready
    <3> QED BY <3>1, <3>2, <3>3, <3>4, Zenon DEF LoopStep
  <2> QED BY <2>1 DEF skip_timer, Elapsed
<1> QED BY <1>3, <1>4, <1>5

\* The callbacks preserve Control: a callback that stops the loop is the last one.
LEMMA ControlCallback == TypeOK /\ Control /\ Process => Control'
<1> SUFFICES ASSUME TypeOK, Control, Process PROVE Control'
  OBVIOUS
<1> USE DEF Control, Continue
<1>1. CASE on_watchdog_timer
  BY <1>1, Zenon DEF on_watchdog_timer, NextSlot
<1>2. CASE on_reply_timer
  <2>1. deadline' = [deadline EXCEPT !["reply"] = Disarmed]
    BY <1>2 DEF on_reply_timer, drain_matches, drain_fails, probe_reset
  <2>2. ~Elapsed("reply")'
    BY <2>1 DEF Elapsed, ls_timer_armed, TypeOK, LoopTypeOK, Timers
  <2>3. clock' >= clock /\ clock' \in Nat /\ UNCHANGED now_ms
    <3>1. clock \in Nat /\ UNCHANGED now_ms
      BY <1>2, Constants DEF on_reply_timer, TypeOK, LoopTypeOK
    <3>2. CASE drain_matches BY <3>1, <3>2, DrainMatchesType
    <3>3. CASE drain_fails BY <3>1, <3>3, DrainFailsType
    <3>4. CASE probe_failed BY <3>1, <3>4, FailEffect, Constants
    <3> QED BY <1>2, <3>2, <3>3, <3>4 DEF on_reply_timer
  <2>4. (now_ms <= clock)'
    BY <2>3 DEF TypeOK, LoopTypeOK
  <2> QED BY <1>2, <2>2, <2>4, Zenon DEF on_reply_timer, NextSlot
<1>3. CASE on_ping_timer
  <2>1. clock' >= clock /\ clock' \in Nat /\ UNCHANGED now_ms
    BY <1>3, FailEffect, Constants
       DEF on_ping_timer, ping_skipped, ping_error, ping_unreachable, ping_sent, app_fail,
           TypeOK, LoopTypeOK
  <2>2. (now_ms <= clock)'
    BY <2>1 DEF TypeOK, LoopTypeOK
  <2> QED BY <1>3, <2>2 DEF on_ping_timer, NextSlot
<1>4. CASE dispatch_signal_fd
  BY <1>4, Zenon DEF dispatch_signal_fd, NextFd
<1>5. CASE on_icmp_readable
  <2>1. UNCHANGED <<clock, now_ms>>
    BY <1>5, DrainMatchesType, DrainFailsType, Zenon DEF on_icmp_readable
  <2> QED BY <1>5, <2>1, Zenon DEF on_icmp_readable, NextFd
<1> QED BY <1>1, <1>2, <1>3, <1>4, <1>5, ControlLoop DEF Process

\* The environment preserves Control: the clock only goes forward.
LEMMA ControlOthers == TypeOK /\ Control /\ (Environment \/ UNCHANGED vars) => Control'
<1> SUFFICES ASSUME TypeOK, Control, Environment \/ UNCHANGED vars PROVE Control'
  OBVIOUS
<1>1. clock' \in {clock, clock + 1} /\ UNCHANGED <<pc, now_ms, deadline, stopping>>
  BY DEF Environment, Tick, ReplyArrives, UnrelatedArrives, SocketFails, SignalArrives,
         loopVars, vars
<1>2. (now_ms <= clock)'
  BY <1>1 DEF Control, TypeOK, LoopTypeOK
<1> QED BY <1>1, <1>2 DEF Control, Elapsed

-----------------------------------------------------------------------------
(* The books: Schedule, OneProbe, Counts and ProbeAccounting.              *)

\* Multiplication, for the steps that count periods.
LEMMA Periods ==
  ASSUME NEW a \in Nat, NEW b \in Nat
  PROVE  /\ a * interval_ms \in Nat
         /\ (a + 1) * interval_ms = a * interval_ms + interval_ms
         /\ a <= a * interval_ms
         /\ a <= b => a * interval_ms <= b * interval_ms
<1>1. interval_ms \in Nat /\ interval_ms >= 1
  BY Constants
<1>2. a * interval_ms \in Nat /\ (a + 1) * interval_ms = a * interval_ms + interval_ms
  BY <1>1
<1>3. a <= a * interval_ms
  BY <1>1
<1>4. a <= b => a * interval_ms <= b * interval_ms
  BY <1>1
<1> QED BY <1>2, <1>3, <1>4

\* The probes fit their counters.
LEMMA FewProbes ==
  ASSUME TypeOK, Schedule
  PROVE  probes + 1 < UINT64_MAX /\ ls_timer_armed(deadline["ping"])
<1>1. probes \in Nat /\ deadline["ping"] \in Nat
  BY DEF TypeOK, LoopTypeOK, Timers, Uint64
<1>2. probes * interval_ms \in Nat /\ probes <= probes * interval_ms
  BY <1>1, Periods
<1>3. CASE probes = 0
  BY <1>1, <1>3, Constants DEF Schedule, ls_timer_armed, Disarmed
<1>4. CASE probes > 0
  <2>1. /\ probes - 1 \in Nat /\ (probes - 1) * interval_ms \in Nat
        /\ probes - 1 <= (probes - 1) * interval_ms
    BY <1>1, <1>4, Periods
  <2>2. clock \in 0 .. MaxClock
    BY DEF TypeOK, LoopTypeOK
  <2> QED BY <1>1, <1>2, <1>4, <2>1, <2>2, Constants DEF Schedule, ls_timer_armed, Disarmed
<1> QED BY <1>1, <1>3, <1>4

\* The types of what the books are about.
LEMMA BookTypes ==
  ASSUME TypeOK
  PROVE  /\ clock \in Nat /\ clock <= MaxClock /\ now_ms \in Nat /\ now_ms <= MaxClock
         /\ deadline["ping"] \in Nat /\ deadline["reply"] \in Nat
         /\ probe_sequence \in Nat /\ sequence \in Nat
         /\ consecutive_fails \in Nat /\ probes \in Nat /\ actions \in Nat
         /\ stats.ok \in Nat /\ stats.failed \in Nat
BY Constants DEF TypeOK, LoopTypeOK, Timers, Uint64, Uint16

\* A step that neither starts nor ends a probe.
LEMMA QuietStep ==
  ASSUME Books, TypeOK', Control',
         deadline'["ping"] = deadline["ping"], deadline'["reply"] = deadline["reply"],
         UNCHANGED <<probe_sequence, sequence, consecutive_fails, stats, probes, actions>>,
         clock' >= clock, Fatal => Fatal'
  PROVE  Books'
<1>1. Schedule'
  <2>1. clock \in Nat /\ clock' \in Nat /\ probes \in Nat
    BY Constants DEF Books, TypeOK, LoopTypeOK
  <2>2. probes > 0 => (probes - 1) * interval_ms \in Nat
    BY <2>1, Periods
  <2> QED BY <2>1, <2>2, Constants DEF Schedule, Books
<1>2. OneProbe'
  BY DEF Books, OneProbe, ls_timer_armed, Disarmed
<1>3. Outstanding' = Outstanding
  BY DEF Outstanding, ls_timer_armed, Disarmed
<1>4. Counts'
  BY <1>3 DEF Books, Counts
<1>5. ProbeAccounting'
  BY <1>3 DEF Books, ProbeAccounting
<1> QED BY <1>1, <1>2, <1>4, <1>5 DEF Books

\* The end of the outstanding probe: Schedule and OneProbe.
LEMMA ResetStep ==
  ASSUME Books, TypeOK', Control', probe_reset, UNCHANGED <<sequence, probes>>,
         clock' >= clock
  PROVE  Schedule' /\ OneProbe' /\ Outstanding' = 0
<1>1. deadline'["ping"] = deadline["ping"] /\ deadline'["reply"] = UINT64_MAX
  BY DEF probe_reset, Books, TypeOK, LoopTypeOK, Timers, Disarmed
<1>2. Schedule'
  <2>1. clock \in Nat /\ clock' \in Nat /\ probes \in Nat
    BY Constants DEF Books, TypeOK, LoopTypeOK
  <2>2. probes > 0 => (probes - 1) * interval_ms \in Nat
    BY <2>1, Periods
  <2> QED BY <1>1, <2>1, <2>2, Constants DEF Schedule, Books
<1>3. OneProbe' /\ Outstanding' = 0
  BY <1>1 DEF probe_reset, OneProbe, Outstanding, ls_timer_armed, Disarmed
<1> QED BY <1>2, <1>3

\* An accepted reply moves the outstanding probe to the successes.
LEMMA SuccessStep ==
  ASSUME Books, TypeOK', Control', drain_matches, UNCHANGED <<sequence, probes>>
  PROVE  Books'
<1>1. /\ ls_timer_armed(deadline["reply"]) /\ probe_reset
      /\ consecutive_fails' = 0 /\ UNCHANGED <<actions, clock, stopping, exit_code>>
      /\ stats' = [stats EXCEPT !.ok = ls_add_sat(stats.ok, 1)] /\ stats'.failed = stats.failed
  BY MatchEffect, Zenon DEF Books
<1>2. Outstanding = 1
  BY <1>1 DEF Outstanding
<1>3. Schedule' /\ OneProbe' /\ Outstanding' = 0
  BY <1>1, ResetStep, BookTypes DEF Books
<1>4. Counts'
  BY <1>1, <1>3, BookTypes DEF Books, Counts
<1>5. ProbeAccounting'
  <2>1. Fatal' = Fatal
    BY <1>1 DEF Fatal
  <2>2. ASSUME ~Fatal PROVE stats.ok + 1 <= UINT64_MAX
    BY <2>2, <1>2, FewProbes, BookTypes, Constants DEF Books, ProbeAccounting
  <2>3. ASSUME ~Fatal PROVE stats'.ok = stats.ok + 1
    <3>1. stats'.ok = ls_add_sat(stats.ok, 1)
      BY <1>1 DEF Books, TypeOK
    <3> QED BY <3>1, <2>2, <2>3, BookTypes, AddSatExact DEF Books
  <2>4. stats'.failed = stats.failed
    BY <1>1
  <2> QED BY <2>1, <2>3, <2>4, <1>2, <1>3, BookTypes DEF Books, ProbeAccounting
<1> QED BY <1>3, <1>4, <1>5 DEF Books

\* A receive error ends the bookkeeping: the loop is stopped with a failure.
LEMMA FatalDrainStep ==
  ASSUME Books, TypeOK', Control', drain_fails, UNCHANGED <<sequence, probes>>
  PROVE  Books'
<1>1. Schedule' /\ OneProbe' /\ Outstanding' = 0
  BY ResetStep, BookTypes DEF drain_fails, app_fail, Books
<1>2. Fatal'
  BY DEF drain_fails, app_fail, ls_loop_stop, Fatal, LS_EXIT_FAILURE
<1>3. Outstanding \in {0, 1}
  BY DEF Outstanding
<1>4. Counts'
  BY <1>1, <1>3, BookTypes DEF drain_fails, app_fail, policyVars, Books, Counts
<1> QED BY <1>1, <1>2, <1>4 DEF Books, ProbeAccounting

\* A failure adds one to the failures, and runs the action only if there were
\* enough of them.
LEMMA FailCounts ==
  ASSUME Books, probe_failed, TypeOK', ~stopping,
         probes' \in Nat, Outstanding' = 0,
         consecutive_fails + 1 <= probes',
         probes <= probes',
         stats.ok + stats.failed + 1 = probes', probes' <= UINT64_MAX
  PROVE  Counts' /\ ProbeAccounting'
<1>1. stats'.ok = stats.ok /\ stats'.failed = ls_add_sat(stats.failed, 1)
  BY DEF probe_failed, Books, TypeOK
<1>2. stats'.failed = stats.failed + 1
  BY <1>1, BookTypes, AddSatExact, Constants DEF Books
<1>3. ProbeAccounting'
  BY <1>1, <1>2, BookTypes DEF ProbeAccounting, Books
<1>4. consecutive_fails' = consecutive_fails + 1
  BY DEF probe_failed
<1>5. actions' = actions \/ consecutive_fails + 1 >= fail_threshold
  BY DEF probe_failed, check_threshold
<1>6. Counts'
  BY <1>4, <1>5, BookTypes, Constants DEF Counts, Books
<1> QED BY <1>3, <1>6

\* While the loop runs no fatal error has happened.
LEMMA NotFatal ==
  ASSUME Books, pc # "stopped"
  PROVE  ~stopping /\ ~Fatal
BY DEF Books, Control, Fatal

\* A timeout moves the outstanding probe to the failures.
LEMMA TimeoutStep ==
  ASSUME Books, TypeOK', Control', pc # "stopped", ls_timer_armed(deadline["reply"]),
         probe_reset, probe_failed, UNCHANGED <<sequence, probes>>
  PROVE  Books'
<1>1. Outstanding = 1
  BY DEF Outstanding
<1>2. Schedule' /\ OneProbe' /\ Outstanding' = 0
  BY ResetStep, FailEffect DEF Books
<1>3. /\ consecutive_fails + 1 <= probes /\ stats.ok + stats.failed + 1 = probes
      /\ probes <= UINT64_MAX
  BY <1>1, NotFatal, FewProbes, BookTypes, Constants DEF Books, Counts, ProbeAccounting
<1>4. Counts' /\ ProbeAccounting'
  BY <1>2, <1>3, FailCounts, NotFatal, BookTypes DEF Books
<1> QED BY <1>2, <1>4 DEF Books

\* The next period of the ping timer is a whole interval later, in the range
\* of the deadlines.
LEMMA StepPingValue ==
  ASSUME TypeOK, Elapsed("ping")
  PROVE  /\ StepPing["ping"] \in Nat
         /\ StepPing["ping"] >= deadline["ping"] + interval_ms
         /\ StepPing["ping"] <= MaxClock + interval_ms
<1>1. StepPing["ping"] = ls_timer_step(deadline["ping"], interval_ms, now_ms)
  BY DEF StepPing, TypeOK, LoopTypeOK, Timers
<1>2. deadline["ping"] <= now_ms /\ ls_timer_armed(deadline["ping"])
  BY BookTypes DEF Elapsed
<1>3. /\ ls_add_sat(deadline["ping"], interval_ms) = deadline["ping"] + interval_ms
      /\ ls_add_sat(now_ms, interval_ms) = now_ms + interval_ms
  <2>1. deadline["ping"] + interval_ms <= UINT64_MAX /\ now_ms + interval_ms <= UINT64_MAX
    BY <1>2, BookTypes, Constants
  <2> QED BY <2>1, BookTypes, Constants, AddSatExact
<1>4. interval_ms # 0
  BY Constants
<1> QED BY <1>1, <1>2, <1>3, <1>4, BookTypes, Constants DEF ls_timer_step

\* A period of the ping timer in which a probe is sent or refused, or none is.
LEMMA PingSchedule ==
  ASSUME Books, Elapsed("ping"), deadline'["ping"] = StepPing["ping"],
         probes' \in {probes, probes + 1}, clock' \in Nat, clock' >= clock
  PROVE  Schedule'
<1>1. /\ clock \in Nat /\ probes \in Nat /\ deadline["ping"] \in Nat
      /\ deadline["ping"] <= clock
  BY BookTypes DEF Books, Control, Elapsed
<1>2. /\ deadline'["ping"] \in Nat
      /\ deadline'["ping"] >= deadline["ping"] + interval_ms
      /\ deadline'["ping"] <= MaxClock + interval_ms
  BY StepPingValue DEF Books
<1>3. /\ probes * interval_ms \in Nat
      /\ (probes + 1) * interval_ms = probes * interval_ms + interval_ms
  BY <1>1, Periods
<1>4. deadline["ping"] >= start_delay_ms + probes * interval_ms
  BY DEF Books, Schedule
<1>5. CASE probes' = probes
  <2>1. probes > 0 => (probes - 1) * interval_ms \in Nat
    BY <1>1, Periods
  <2> QED BY <1>1, <1>2, <1>3, <1>4, <1>5, <2>1, Constants DEF Books, Schedule
<1>6. CASE probes' = probes + 1
  <2>1. probes' - 1 = probes
    BY <1>1, <1>6
  <2> QED BY <1>1, <1>2, <1>3, <1>4, <1>6, <2>1, Constants DEF Schedule
<1> QED BY <1>5, <1>6

\* on_ping_timer preserves Books, whether the period is skipped or the probe is sent,
\* refused or fatal.
LEMMA PingStep == Books /\ TypeOK' /\ Control' /\ on_ping_timer => Books'
<1> SUFFICES ASSUME Books, TypeOK', Control', on_ping_timer PROVE Books'
  OBVIOUS
<1>1. Elapsed("ping") /\ ~stopping /\ ~Fatal
  BY NotFatal DEF on_ping_timer
<1>2. StepPing["reply"] = deadline["reply"] /\ StepPing \in [Timers -> Uint64]
  BY StepPingType DEF Books
<1>3. clock \in Nat /\ clock' \in Nat
  BY Constants DEF Books, TypeOK, LoopTypeOK
<1>4. CASE ping_skipped
  <2>1. UNCHANGED <<clock, stopping, exit_code, probe_sequence, sequence,
                    consecutive_fails, stats, probes, actions>>
    BY <1>4 DEF ping_skipped, probeVars, policyVars, sendVars
  <2>2. deadline'["ping"] = StepPing["ping"] /\ deadline'["reply"] = deadline["reply"]
    BY <1>2, <1>4 DEF ping_skipped
  <2>3. Schedule'
    BY <1>1, <1>3, <2>1, <2>2, PingSchedule
  <2>4. Outstanding' = Outstanding /\ OneProbe' /\ Fatal' = Fatal
    BY <2>1, <2>2 DEF Outstanding, OneProbe, Books, Fatal, ls_timer_armed, Disarmed
  <2> QED BY <2>1, <2>3, <2>4 DEF Books, Counts, ProbeAccounting
<1>5. CASE ping_error /\ ~ls_timer_armed(deadline["reply"])
  <2>1. UNCHANGED <<clock, probe_sequence, consecutive_fails, stats, probes, actions>>
    BY <1>5 DEF ping_error, app_fail, probeVars, policyVars, ls_icmp_send_echo
  <2>2. deadline'["ping"] = StepPing["ping"] /\ deadline'["reply"] = deadline["reply"]
    BY <1>2, <1>5 DEF ping_error
  <2>3. Schedule'
    BY <1>1, <1>3, <2>1, <2>2, PingSchedule
  <2>4. Outstanding' = Outstanding /\ OneProbe' /\ Fatal'
    BY <1>5, <2>1, <2>2 DEF Outstanding, OneProbe, Books, Fatal, ls_timer_armed, Disarmed,
         ping_error, app_fail, ls_loop_stop, LS_EXIT_FAILURE
  <2> QED BY <2>1, <2>3, <2>4 DEF Books, Counts, ProbeAccounting
<1>6. CASE ping_unreachable /\ ~ls_timer_armed(deadline["reply"])
  <2>1. UNCHANGED probe_sequence /\ probes' = probes + 1
    BY <1>6 DEF ping_unreachable, probeVars, ls_icmp_send_echo
  <2>2. deadline'["ping"] = StepPing["ping"] /\ deadline'["reply"] = deadline["reply"]
    BY <1>2, <1>6 DEF ping_unreachable
  <2>3. Schedule'
    BY <1>1, <1>3, <1>6, <2>1, <2>2, PingSchedule, FailEffect DEF ping_unreachable, Books
  <2>4. Outstanding = 0 /\ Outstanding' = 0 /\ OneProbe'
    BY <1>6, <2>1, <2>2 DEF Outstanding, OneProbe, Books, ls_timer_armed, Disarmed
  <2>5. /\ consecutive_fails + 1 <= probes' /\ stats.ok + stats.failed + 1 = probes'
        /\ probes' \in Nat /\ probes <= probes' /\ probes' <= UINT64_MAX
    BY <1>1, <2>1, <2>4, FewProbes, BookTypes, Constants DEF Books, Counts, ProbeAccounting
  <2>6. Counts' /\ ProbeAccounting'
    BY <1>1, <1>6, <2>4, <2>5, FailCounts DEF ping_unreachable
  <2> QED BY <2>3, <2>4, <2>6 DEF Books
<1>7. CASE ping_sent /\ ~ls_timer_armed(deadline["reply"])
  <2>1. /\ UNCHANGED <<clock, stopping, exit_code, consecutive_fails, stats, actions>>
        /\ probes' = probes + 1 /\ probe_sequence' = sequence'
    BY <1>7 DEF ping_sent, policyVars, ls_icmp_send_echo
  <2>2. /\ deadline'["ping"] = StepPing["ping"]
        /\ deadline'["reply"] = ls_add_sat(now_ms, timeout_ms)
    BY <1>2, <1>7 DEF ping_sent, ls_timer_arm_after, Timers
  <2>3. deadline'["reply"] # UINT64_MAX
    <3>1. now_ms \in Nat /\ now_ms <= MaxClock
      BY BookTypes, Zenon DEF Books
    <3>2. now_ms + timeout_ms < UINT64_MAX
      BY <3>1, Constants
    <3> QED BY <2>2, <3>1, <3>2, Constants DEF ls_add_sat
  <2>4. Schedule'
    <3>1. clock' \in Nat /\ clock' >= clock
      BY <2>1, BookTypes DEF Books
    <3>2. probes' \in {probes, probes + 1}
      BY <2>1
    <3> QED BY <1>1, <1>3, <2>2, <3>1, <3>2, PingSchedule, Zenon
  <2>5. sequence' # 0
    BY <1>7, SendType DEF ping_sent, Books
  <2>6. Outstanding = 0 /\ Outstanding' = 1 /\ OneProbe' /\ Fatal' = Fatal
    BY <1>7, <2>1, <2>3, <2>5 DEF Outstanding, OneProbe, ls_timer_armed, Disarmed, Fatal
  <2> QED BY <2>1, <2>4, <2>6, BookTypes, Constants DEF Books, Counts, ProbeAccounting
<1> QED BY <1>4, <1>5, <1>6, <1>7 DEF on_ping_timer

\* Books holds when app_run enters the loop.
LEMMA BooksInit == Init => Books
<1> SUFFICES ASSUME Init PROVE Books
  OBVIOUS
<1>1. TypeOK
  BY InitType
<1>2. /\ deadline["reply"] = UINT64_MAX
      /\ deadline["ping"] = start_delay_ms
  <2>1. /\ deadline["reply"] = Disarmed
        /\ deadline["ping"] = ls_add_sat(0, start_delay_ms)
    BY DEF Init, LoopInit, ls_timer_arm_after
  <2>2. ls_add_sat(0, start_delay_ms) = start_delay_ms
    BY Constants DEF ls_add_sat
  <2> QED BY <2>1, <2>2, Zenon DEF Disarmed
<1>3. Control
  BY <1>2 DEF Init, LoopInit, Control
<1>4. Schedule
  <2>1. probes = 0
    BY Zenon DEF Init
  <2>2. /\ start_delay_ms <= MaxClock + interval_ms + start_delay_ms
        /\ start_delay_ms >= start_delay_ms + 0 * interval_ms
    BY Constants
  <2>3. ~(0 > 0)
    OBVIOUS
  <2> QED BY <1>2, <2>1, <2>2, <2>3, Zenon DEF Schedule
<1>5. OneProbe /\ Outstanding = 0
  BY <1>2 DEF Init, OneProbe, Outstanding, ls_timer_armed, Disarmed
<1>6. Counts /\ ProbeAccounting
  BY <1>5 DEF Init, Counts, ProbeAccounting
<1> QED BY <1>1, <1>3, <1>4, <1>5, <1>6 DEF Books

\* Every step preserves Books.
LEMMA BooksNext == Books /\ [Next]_vars => Books'
<1> SUFFICES ASSUME Books, [Next]_vars PROVE Books'
  OBVIOUS
<1>1. TypeOK' /\ Control'
  BY LoopStepType, WatchdogType, ReplyTimerType, PingTimerType, SignalType,
     IcmpReadableType, EnvironmentType, StutterType, ControlCallback, ControlOthers
     DEF Next, Process, Stopped, Books
<1>2. CASE on_ping_timer
  BY <1>1, <1>2, PingStep
<1>3. CASE on_reply_timer
  <2>1. /\ UNCHANGED <<sequence, probes>> /\ pc # "stopped"
        /\ ls_timer_armed(deadline["reply"])
    BY <1>3 DEF on_reply_timer, sendVars, Elapsed
  <2> QED BY <1>1, <1>3, <2>1, SuccessStep, FatalDrainStep, TimeoutStep DEF on_reply_timer
<1>4. CASE on_icmp_readable
  <2>1. UNCHANGED <<sequence, probes>>
    BY <1>4 DEF on_icmp_readable, sendVars
  <2>2. CASE drain_matches
    BY <1>1, <2>1, <2>2, SuccessStep
  <2>3. CASE drain_fails
    BY <1>1, <2>1, <2>3, FatalDrainStep
  <2>4. CASE UNCHANGED <<clock, deadline, probeVars, policyVars>> /\ KeepRunning
    BY <1>1, <2>1, <2>4, QuietStep, BookTypes
       DEF probeVars, policyVars, KeepRunning, Fatal, Books
  <2> QED BY <1>4, <2>2, <2>3, <2>4 DEF on_icmp_readable
<1>5. CASE on_watchdog_timer
  <2>1. deadline'["ping"] = deadline["ping"] /\ deadline'["reply"] = deadline["reply"]
    BY <1>5 DEF on_watchdog_timer, Books, TypeOK, LoopTypeOK, Timers
  <2>2. UNCHANGED <<clock, stopping, exit_code, probe_sequence, sequence,
                    consecutive_fails, stats, probes, actions>>
    BY <1>5 DEF on_watchdog_timer, probeVars, policyVars, sendVars
  <2>3. clock' >= clock
    BY <2>2, BookTypes DEF Books
  <2> QED BY <1>1, <2>1, <2>2, <2>3, QuietStep, Zenon DEF Fatal
<1>6. CASE dispatch_signal_fd
  <2>1. Fatal => Fatal'
    BY <1>6, NotFatal DEF dispatch_signal_fd
  <2>2. UNCHANGED <<clock, deadline, probe_sequence, sequence, consecutive_fails,
                    stats, probes, actions>>
    BY <1>6 DEF dispatch_signal_fd, probeVars, policyVars, sendVars
  <2>3. clock' >= clock
    BY <2>2, BookTypes DEF Books
  <2> QED BY <1>1, <2>1, <2>2, <2>3, QuietStep, Zenon
<1>7. CASE LoopStep
  <2>1. /\ UNCHANGED <<clock, deadline>> /\ pc # "stopped"
    BY <1>7 DEF LoopStep, refresh_now, refresh_now_fails, skip_timer, poll, poll_ready,
         poll_empty, poll_fails, skip_fd, critical_fd_fails, Timers, Fds
  <2>2. UNCHANGED <<probe_sequence, sequence, consecutive_fails, stats, probes, actions>>
    BY <1>7 DEF LoopStep, appVars, probeVars, policyVars, sendVars
  <2>3. clock' >= clock
    BY <2>1, BookTypes DEF Books
  <2>4. ~Fatal
    BY <2>1, NotFatal
  <2> QED BY <1>1, <2>1, <2>2, <2>3, <2>4, QuietStep, Zenon
<1>8. CASE Environment \/ UNCHANGED vars
  <2>1. /\ clock' \in {clock, clock + 1}
        /\ UNCHANGED <<deadline, stopping, exit_code, probe_sequence, sequence,
                       consecutive_fails, stats, probes, actions>>
    BY <1>8, Zenon DEF Environment, Tick, ReplyArrives, UnrelatedArrives, SocketFails,
         SignalArrives, loopVars, vars, appVars, probeVars, policyVars, sendVars
  <2> QED BY <1>1, <2>1, QuietStep, BookTypes DEF Fatal, Books
<1> QED BY <1>2, <1>3, <1>4, <1>5, <1>6, <1>7, <1>8 DEF Next, Process, Stopped

\* The bookkeeping of the monitor holds in every reachable state, for every configuration, every
\* drain limit and every environment that satisfies the assumptions.
THEOREM BooksHold == Spec => []Books
<1>1. Init => Books
  BY BooksInit
<1>2. Books /\ [Next]_vars => Books'
  BY BooksNext
<1> QED BY <1>1, <1>2, PTL DEF Spec

-----------------------------------------------------------------------------
(* What the actions do, when the bookkeeping holds.                        *)

\* The steps in which nothing is decided about a probe.
LEMMA IdleStep ==
  ASSUME Books,
         LoopStep \/ on_watchdog_timer \/ dispatch_signal_fd \/ Environment \/ UNCHANGED vars
  PROVE  /\ UNCHANGED <<policyVars, probes>> /\ (sock_err => sock_err')
         /\ deadline'["reply"] = deadline["reply"] /\ deadline'["ping"] = deadline["ping"]
         /\ stopping' # stopping => stopping' = TRUE /\ exit_code' \in {0, 1}
         /\ stopping' = stopping => exit_code' = exit_code
<1>1. CASE LoopStep
  <2>1. UNCHANGED deadline
    BY <1>1, Zenon DEF LoopStep, refresh_now, refresh_now_fails, skip_timer, poll, poll_ready,
         poll_empty, poll_fails, skip_fd, critical_fd_fails
  <2>2. /\ stopping' # stopping => stopping' = TRUE /\ exit_code' \in {0, 1}
        /\ stopping' = stopping => exit_code' = exit_code
    BY <1>1, Zenon DEF LoopStep, refresh_now, refresh_now_fails, skip_timer, poll, poll_ready,
         poll_empty, poll_fails, skip_fd, critical_fd_fails, ls_loop_stop, LS_EXIT_FAILURE,
         Books, Control, Timers, Fds
  <2> QED BY <1>1, <2>1, <2>2 DEF LoopStep, appVars, sendVars, socketVars
<1>2. CASE on_watchdog_timer
  BY <1>2 DEF on_watchdog_timer, sendVars, socketVars, Books, TypeOK, LoopTypeOK,
       Timers
<1>3. CASE dispatch_signal_fd
  BY <1>3, NotFatal DEF dispatch_signal_fd, sendVars, socketVars, ls_loop_stop, KeepRunning,
       LS_EXIT_SUCCESS
<1>4. CASE Environment \/ UNCHANGED vars
  <2>1. /\ UNCHANGED <<policyVars, probes, deadline, stopping, exit_code>>
        /\ sock_err => sock_err'
    <3>1. CASE Tick(Waiting) /\ UNCHANGED appVars
      BY <3>1 DEF Tick, appVars, sendVars, socketVars
    <3>2. CASE \E r \in net : ReplyArrives(r)
      BY <3>2 DEF ReplyArrives, loopVars
    <3>3. CASE \E p \in Unrelated : UnrelatedArrives(p)
      BY <3>3 DEF UnrelatedArrives, loopVars, sendVars
    <3>4. CASE SocketFails
      BY <3>4 DEF SocketFails, loopVars, sendVars
    <3>5. CASE \E s \in Signals : SignalArrives(s)
      BY <3>5 DEF SignalArrives, loopVars, sendVars, socketVars
    <3>6. CASE UNCHANGED vars
      BY <3>6 DEF vars, loopVars, appVars, sendVars, socketVars
    <3> QED BY <1>4, <3>1, <3>2, <3>3, <3>4, <3>5, <3>6, Zenon DEF Environment
  <2> QED BY <2>1
<1> QED BY <1>1, <1>2, <1>3, <1>4, Zenon

\* The three ways in which a drain ends, and what a failed probe does.
LEMMA FailOutcome ==
  ASSUME Books, Books', probe_failed, ~stopping
  PROVE  /\ consecutive_fails' = consecutive_fails + 1 /\ UNCHANGED credited
         /\ ~Fatal'
         /\ \/ /\ consecutive_fails + 1 < fail_threshold
               /\ UNCHANGED <<actions, stopping, exit_code>>
            \/ /\ consecutive_fails + 1 >= fail_threshold
               /\ actions' = actions + 1
               /\ \/ stopping' = TRUE /\ exit_code' = 0
                  \/ poweroff /\ UNCHANGED <<stopping, exit_code>>
BY ConfigAssumption DEF probe_failed, check_threshold, run_shutdown_action, KeepRunning, ls_loop_stop, Fatal,
       LS_EXIT_SUCCESS, LS_EXIT_FAILURE

\* The reply timer after each kind of step of a probe.
LEMMA ReplyDeadline ==
  ASSUME Books, Books'
  PROVE  /\ probe_reset => ~ls_timer_armed(deadline'["reply"])
         /\ deadline' = StepPing => deadline'["reply"] = deadline["reply"]
         /\ ping_sent => ls_timer_armed(deadline'["reply"])
<1>1. probe_reset => ~ls_timer_armed(deadline'["reply"])
  BY DEF probe_reset, Books, TypeOK, LoopTypeOK, Timers, ls_timer_armed
<1>2. deadline' = StepPing => deadline'["reply"] = deadline["reply"]
  BY StepPingType DEF Books
<1>3. ASSUME ping_sent PROVE ls_timer_armed(deadline'["reply"])
  <2>1. sequence' # 0 /\ probe_sequence' = sequence'
    BY <1>3, SendType DEF ping_sent, Books
  <2> QED BY <2>1 DEF Books, OneProbe, ls_timer_armed, Disarmed
<1> QED BY <1>1, <1>2, <1>3

\* The types that the arithmetic of the timing proofs needs.
LEMMA TimingTypes ==
  ASSUME TypeOK
  PROVE  /\ clock \in Nat /\ now_ms \in Nat /\ wake \in Nat /\ last_ok \in Nat
         /\ deadline["ping"] \in Nat /\ deadline["reply"] \in Nat /\ probes \in Nat
         /\ consecutive_fails \in Nat /\ actions \in Nat
BY Constants DEF TypeOK, LoopTypeOK, Timers, Uint64

\* So are the constants it needs.
LEMMA TimingConstants ==
  /\ interval_ms \in Nat /\ timeout_ms \in Nat /\ timeout_ms < interval_ms
  /\ MaxAction \in Nat /\ fail_threshold \in Nat /\ fail_threshold > 0
  /\ Retry \in Nat /\ Retry = interval_ms + timeout_ms + MaxAction
BY Constants DEF Retry

\* The steps that run no timer callback and read no packet: what they do to the control
\* state and the time.
PassMoves ==
  \/ pc = "refresh" /\ pc' = "watchdog" /\ now_ms' = clock /\ clock' = clock
  \/ pc = "wakeup" /\ pc' = "signalfd" /\ now_ms' = clock /\ clock' = clock
  \/ \E t \in Timers : pc = t /\ ~Elapsed(t) /\ pc' = NextSlot[t] /\ UNCHANGED <<clock, now_ms>>
  \/ poll
  \/ pc = "polling" /\ pc' \in {"wakeup", "refresh"} /\ UNCHANGED <<clock, now_ms>>
  \/ \E fd \in Fds : pc = fd /\ pc' = NextFd[fd] /\ UNCHANGED <<clock, now_ms>>
  \/ Tick(Waiting)
  \/ UNCHANGED loopVars

\* Nothing else happens in a step of the running loop without such a callback.
LEMMA PassStep ==
  ASSUME Books, [Next]_vars, ~stopping',
         ~on_watchdog_timer, ~on_reply_timer, ~on_ping_timer, ~on_icmp_readable
  PROVE  /\ UNCHANGED <<deadline, probe_sent_ns, policyVars, probes, last_beat>>
         /\ PassMoves
<1> USE DEF PassMoves
<1>1. CASE LoopStep
  <2>1. UNCHANGED <<deadline, probe_sent_ns, policyVars, probes, last_beat>>
    BY <1>1, Zenon DEF LoopStep, refresh_now, refresh_now_fails, skip_timer, poll, poll_ready,
         poll_empty, poll_fails, skip_fd, critical_fd_fails, appVars, sendVars, probeVars,
         watchdogVars
  <2>2. PassMoves
    BY <1>1, Zenon DEF LoopStep, refresh_now, refresh_now_fails, skip_timer, poll_ready,
         poll_empty, poll_fails, skip_fd, critical_fd_fails, ls_loop_stop
  <2> QED BY <2>1, <2>2
<1>2. CASE dispatch_signal_fd
  BY <1>2 DEF dispatch_signal_fd, Continue, Fds, sendVars, probeVars, watchdogVars
<1>3. CASE Environment
  <2>1. CASE Tick(Waiting) /\ UNCHANGED appVars
    BY <2>1 DEF Tick, appVars, sendVars, probeVars, watchdogVars
  <2>2. CASE \E r \in net : ReplyArrives(r)
    BY <2>2 DEF ReplyArrives, loopVars, probeVars, watchdogVars
  <2>3. CASE \E p \in Unrelated : UnrelatedArrives(p)
    BY <2>3 DEF UnrelatedArrives, loopVars, sendVars, probeVars, watchdogVars
  <2>4. CASE SocketFails
    BY <2>4 DEF SocketFails, loopVars, sendVars, probeVars, watchdogVars
  <2>5. CASE \E s \in Signals : SignalArrives(s)
    BY <2>5 DEF SignalArrives, loopVars, sendVars, probeVars, watchdogVars
  <2> QED BY <1>3, <2>1, <2>2, <2>3, <2>4, <2>5, Zenon DEF Environment
<1>4. CASE UNCHANGED vars
  BY <1>4 DEF vars, loopVars, appVars, sendVars, probeVars, watchdogVars
<1> QED BY <1>1, <1>2, <1>3, <1>4, Zenon DEF Next, Process, Stopped

\* What a failed probe does to the streak and the time.
LEMMA FailedProbe ==
  ASSUME TypeOK, probe_failed
  PROVE  /\ consecutive_fails' = consecutive_fails + 1
         /\ UNCHANGED last_ok
         /\ clock' \in Nat /\ clock' >= clock
         /\ \/ /\ consecutive_fails + 1 < fail_threshold
               /\ UNCHANGED <<clock, actions>>
            \/ /\ consecutive_fails + 1 >= fail_threshold
               /\ actions' = actions + 1
               /\ clock' <= clock + MaxAction
               /\ ~poweroff => clock' = clock
<1>1. clock \in Nat /\ fail_threshold \in Nat /\ MaxAction \in Nat /\ MaxClock \in Nat
  BY BookTypes, Constants
<1>2. check_threshold(consecutive_fails + 1)
  BY DEF probe_failed
<1>3. \/ /\ consecutive_fails + 1 < fail_threshold
         /\ UNCHANGED <<clock, actions>>
      \/ /\ consecutive_fails + 1 >= fail_threshold
         /\ actions' = actions + 1
         /\ \E d \in 0 .. (IF poweroff THEN MaxAction ELSE 0) : clock' = clock + d
  BY <1>2 DEF check_threshold
<1>4. \A d \in 0 .. (IF poweroff THEN MaxAction ELSE 0) :
        d \in Nat /\ d <= MaxAction /\ (~poweroff => d = 0)
  BY <1>1
<1> QED BY <1>1, <1>3, <1>4 DEF probe_failed

\* on_reply_timer ends the outstanding probe with a success or a failure, unless it stops.
LEMMA ReplyEffect ==
  ASSUME TypeOK, on_reply_timer, ~stopping'
  PROVE  /\ pc = "reply" /\ pc' = "ping" /\ Elapsed("reply")
         /\ UNCHANGED <<now_ms, probes, last_beat, deadline["ping"], deadline["watchdog"]>>
         /\ Outstanding' = 0
         /\ \/ /\ drain_matches
               /\ consecutive_fails' = 0 /\ last_ok' = clock /\ UNCHANGED <<clock, actions>>
            \/ drain_exhausts /\ probe_failed
<1>1. /\ pc = "reply" /\ pc' = "ping" /\ Elapsed("reply")
      /\ UNCHANGED <<now_ms, probes, last_beat>>
  BY Zenon DEF on_reply_timer, Continue, NextSlot, sendVars, watchdogVars
<1>2. /\ probe_reset
      /\ \/ /\ drain_matches
            /\ consecutive_fails' = 0 /\ last_ok' = clock /\ UNCHANGED <<clock, actions>>
         \/ drain_exhausts /\ probe_failed
  BY MatchEffect DEF on_reply_timer, drain_fails, app_fail, ls_loop_stop
<1>3. /\ deadline'["ping"] = deadline["ping"] /\ deadline'["watchdog"] = deadline["watchdog"]
      /\ deadline'["reply"] = Disarmed
  BY <1>2 DEF probe_reset, TypeOK, LoopTypeOK, Timers
<1> QED BY <1>1, <1>2, <1>3, Zenon DEF Outstanding, ls_timer_armed

\* on_icmp_readable ends the outstanding probe with a success or decides nothing, unless
\* it stops.
LEMMA ReadableEffect ==
  ASSUME TypeOK, on_icmp_readable, ~stopping'
  PROVE  /\ pc = "icmpfd" /\ pc' = "refresh"
         /\ UNCHANGED <<clock, now_ms, probes, last_beat, actions,
                        deadline["ping"], deadline["watchdog"]>>
         /\ \/ /\ drain_matches /\ Outstanding = 1 /\ Outstanding' = 0
               /\ consecutive_fails' = 0 /\ last_ok' = clock
            \/ /\ drain_exhausts
               /\ UNCHANGED <<deadline, probe_sent_ns, policyVars>>
<1>1. /\ pc = "icmpfd" /\ pc' = "refresh"
      /\ UNCHANGED <<now_ms, probes, last_beat>>
  BY Zenon DEF on_icmp_readable, Continue, NextFd, sendVars, watchdogVars
<1>2. CASE drain_matches
  <2>1. /\ probe_reset /\ consecutive_fails' = 0 /\ last_ok' = clock
        /\ UNCHANGED <<clock, actions>>
    BY <1>2, MatchEffect
  <2>2. /\ deadline'["ping"] = deadline["ping"] /\ deadline'["watchdog"] = deadline["watchdog"]
        /\ deadline'["reply"] = Disarmed
    BY <2>1 DEF probe_reset, TypeOK, LoopTypeOK, Timers
  <2>3. Outstanding = 1 /\ Outstanding' = 0
    BY <1>2, <2>2, MatchEffect DEF Outstanding, ls_timer_armed
  <2> QED BY <1>1, <1>2, <2>1, <2>2, <2>3
<1>3. CASE drain_exhausts /\ UNCHANGED <<clock, deadline, probeVars, policyVars>>
  BY <1>1, <1>3 DEF probeVars, policyVars
<1> QED BY <1>2, <1>3 DEF on_icmp_readable, drain_fails, app_fail, ls_loop_stop

\* The ping timer moves on by a period, from its own deadline or from now when that is past.
LEMMA PingMoves ==
  ASSUME TypeOK, Elapsed("ping")
  PROVE  /\ deadline["ping"] <= now_ms
         /\ StepPing["reply"] = deadline["reply"]
         /\ StepPing["watchdog"] = deadline["watchdog"]
         /\ StepPing["ping"] = IF deadline["ping"] + interval_ms < now_ms
                               THEN now_ms + interval_ms ELSE deadline["ping"] + interval_ms
<1>1. StepPing["ping"] = ls_timer_step(deadline["ping"], interval_ms, now_ms)
  BY DEF StepPing, TypeOK, LoopTypeOK, Timers
<1>2. deadline["ping"] <= now_ms /\ ls_timer_armed(deadline["ping"])
  BY BookTypes DEF Elapsed
<1>3. /\ ls_add_sat(deadline["ping"], interval_ms) = deadline["ping"] + interval_ms
      /\ ls_add_sat(now_ms, interval_ms) = now_ms + interval_ms
  <2>1. deadline["ping"] + interval_ms <= UINT64_MAX /\ now_ms + interval_ms <= UINT64_MAX
    BY <1>2, BookTypes, Constants
  <2> QED BY <2>1, BookTypes, Constants, AddSatExact
<1>4. interval_ms # 0
  BY Constants
<1>5. StepPing["watchdog"] = deadline["watchdog"] /\ StepPing["reply"] = deadline["reply"]
  BY DEF StepPing, TypeOK, LoopTypeOK, Timers
<1> QED BY <1>1, <1>2, <1>3, <1>4, <1>5 DEF ls_timer_step

\* on_ping_timer skips the period, is refused or sends, unless it stops.
LEMMA PingEffect ==
  ASSUME TypeOK, on_ping_timer, ~stopping'
  PROVE  /\ pc = "ping" /\ pc' = "poll" /\ Elapsed("ping")
         /\ UNCHANGED <<now_ms, last_beat, deadline["watchdog"]>>
         /\ deadline'["ping"] = StepPing["ping"]
         /\ \/ /\ Outstanding = 1 /\ deadline'["reply"] = deadline["reply"]
               /\ UNCHANGED <<clock, probe_sent_ns, policyVars, probes, net>>
            \/ /\ Outstanding = 0 /\ deadline'["reply"] = deadline["reply"]
               /\ probes' = probes + 1 /\ ls_icmp_send_echo("UNREACHABLE") /\ probe_failed
            \/ /\ Outstanding = 0 /\ deadline'["reply"] = now_ms + timeout_ms
               /\ probes' = probes + 1 /\ probe_sent_ns' = clock
               /\ [probe |-> probes', seq |-> sequence'] \in net'
               /\ UNCHANGED <<clock, policyVars>>
<1>1. /\ pc = "ping" /\ pc' = "poll" /\ Elapsed("ping")
      /\ UNCHANGED <<now_ms, last_beat>>
  BY Zenon DEF on_ping_timer, Continue, NextSlot, watchdogVars
<1>2. /\ StepPing["reply"] = deadline["reply"] /\ StepPing["watchdog"] = deadline["watchdog"]
  BY <1>1, PingMoves
<1>3. ~ping_error
  BY DEF ping_error, app_fail, ls_loop_stop
<1>4. CASE ping_skipped
  BY <1>1, <1>2, <1>4 DEF ping_skipped, Outstanding, probeVars, sendVars
<1>5. CASE ping_unreachable /\ ~ls_timer_armed(deadline["reply"])
  BY <1>1, <1>2, <1>5, Zenon DEF ping_unreachable, Outstanding, ls_icmp_send_echo
<1>6. CASE ping_sent /\ ~ls_timer_armed(deadline["reply"])
  <2>1. ls_timer_arm_after(now_ms, timeout_ms) = now_ms + timeout_ms
    BY BookTypes, Constants, AddSatExact DEF ls_timer_arm_after
  <2>2. /\ deadline'["reply"] = now_ms + timeout_ms
        /\ deadline'["ping"] = StepPing["ping"]
        /\ deadline'["watchdog"] = StepPing["watchdog"]
    BY <1>6, <2>1, StepPingType DEF ping_sent, Timers
  <2>3. probes' = probes + 1 /\ [probe |-> probes', seq |-> sequence'] \in net'
    BY <1>6 DEF ping_sent, ls_icmp_send_echo
  <2> QED BY <1>1, <1>2, <1>6, <2>2, <2>3, Zenon DEF ping_sent, Outstanding
<1> QED BY <1>3, <1>4, <1>5, <1>6, Zenon DEF on_ping_timer

-----------------------------------------------------------------------------
(* Whole timeouts.                                                         *)

\* The reply deadline stays a whole timeout after the request as long as nothing takes time
\* between reading the clock and running the timers.
LEMMA WholeTimeoutsStep ==
  ASSUME Books, Books', [Next]_vars, WholeTimeouts, ~stopping',
         Stalls \cap Timers = {}, pc \in Timers => clock' = clock
  PROVE  WholeTimeouts'
<1>1. TypeOK /\ clock \in Nat /\ timeout_ms \in Nat
  BY BookTypes, Constants DEF Books
<1>2. CASE on_watchdog_timer
  <2>1. /\ pc = "watchdog" /\ pc' = "reply"
        /\ UNCHANGED <<clock, now_ms, probe_sent_ns, deadline["reply"]>>
    BY <1>1, <1>2, Zenon DEF on_watchdog_timer, NextSlot, probeVars, TypeOK, LoopTypeOK, Timers
  <2> QED BY <2>1 DEF WholeTimeouts, Timers, Outstanding
<1>3. CASE on_reply_timer
  <2>1. pc = "reply" /\ UNCHANGED now_ms /\ Outstanding' = 0
    BY <1>1, <1>3, ReplyEffect
  <2> QED BY <2>1 DEF WholeTimeouts, Timers
<1>4. CASE on_ping_timer
  <2>1. pc = "ping" /\ pc' = "poll" /\ now_ms = clock
    BY <1>1, <1>4, PingEffect DEF WholeTimeouts, Timers
  <2>2. Outstanding' = 1 => deadline'["reply"] = probe_sent_ns' + timeout_ms
    <3>1. CASE Outstanding = 1 /\ deadline'["reply"] = deadline["reply"] /\ UNCHANGED probe_sent_ns
      BY <3>1, Zenon DEF WholeTimeouts
    <3>2. CASE Outstanding = 0 /\ deadline'["reply"] = deadline["reply"]
      BY <3>2 DEF Outstanding
    <3>3. CASE deadline'["reply"] = now_ms + timeout_ms /\ probe_sent_ns' = clock
      BY <2>1, <3>3, Zenon
    <3> QED BY <1>1, <1>4, <3>1, <3>2, <3>3, PingEffect, Zenon
  <2> QED BY <2>1, <2>2 DEF WholeTimeouts, Timers
<1>5. CASE on_icmp_readable
  <2>1. pc' = "refresh"
    BY <1>1, <1>5, ReadableEffect
  <2>2. Outstanding' = 1 => deadline'["reply"] = probe_sent_ns' + timeout_ms
    BY <1>1, <1>5, ReadableEffect DEF WholeTimeouts, Outstanding
  <2> QED BY <2>1, <2>2 DEF WholeTimeouts, Timers
<1>6. CASE ~on_watchdog_timer /\ ~on_reply_timer /\ ~on_ping_timer /\ ~on_icmp_readable
  <2>1. UNCHANGED <<deadline, probe_sent_ns>> /\ PassMoves
    BY <1>6, PassStep
  <2>2. pc' \in Timers => now_ms' = clock'
    <3>1. CASE Tick(Waiting)
      BY <3>1 DEF Tick, WholeTimeouts, Timers
    <3>2. CASE \E t \in Timers :
                 pc = t /\ ~Elapsed(t) /\ pc' = NextSlot[t] /\ UNCHANGED <<clock, now_ms>>
      BY <3>2, Zenon DEF WholeTimeouts
    <3>3. CASE \E fd \in Fds : pc = fd /\ pc' = NextFd[fd] /\ UNCHANGED <<clock, now_ms>>
      BY <3>3 DEF Timers, Fds, NextFd
    <3>4. CASE poll
      BY <3>4 DEF poll, Timers
    <3>5. CASE UNCHANGED loopVars
      BY <3>5 DEF loopVars, WholeTimeouts
    <3>6. CASE pc' \in {"signalfd", "wakeup", "refresh"}
      BY <3>6 DEF Timers
    <3>7. CASE now_ms' = clock /\ clock' = clock
      BY <3>7
    <3> QED BY <2>1, <3>1, <3>2, <3>3, <3>4, <3>5, <3>6, <3>7 DEF PassMoves
  <2> QED BY <2>1, <2>2 DEF WholeTimeouts, Outstanding
<1> QED BY <1>2, <1>3, <1>4, <1>5, <1>6

\* A due timer of a whole timeout: the timeout has passed.
LEMMA DueAfterTimeout ==
  ASSUME Books, WholeTimeouts, Elapsed("reply"), pc = "reply"
  PROVE  clock - probe_sent_ns >= timeout_ms
<1>1. /\ now_ms \in Nat /\ clock \in Nat /\ probe_sent_ns \in Nat /\ timeout_ms \in Nat
      /\ deadline["reply"] \in Nat
  BY BookTypes, Constants DEF Books, TypeOK
<1>2. Outstanding = 1 /\ now_ms >= deadline["reply"] /\ now_ms = clock
  BY DEF Elapsed, Outstanding, WholeTimeouts, Timers
<1> QED BY <1>1, <1>2 DEF WholeTimeouts

\* A monitor that still runs ran before.
LEMMA StillRunning ==
  ASSUME Books, [Next]_vars, ~stopping'
  PROVE  ~stopping
<1> SUFFICES ASSUME stopping PROVE FALSE
  OBVIOUS
<1>1. pc = "stopped" /\ stopping' # stopping
  BY Zenon DEF Books, Control
<1>2. ~LoopStep
  BY <1>1, Zenon DEF LoopStep, refresh_now, refresh_now_fails, skip_timer, poll, poll_ready,
       poll_empty, poll_fails, skip_fd, critical_fd_fails, Timers, Fds
<1>3. ~on_watchdog_timer /\ ~on_reply_timer /\ ~on_ping_timer
  BY <1>1 DEF on_watchdog_timer, on_reply_timer, on_ping_timer
<1>4. ~dispatch_signal_fd /\ ~on_icmp_readable /\ ~Environment
  BY <1>1 DEF dispatch_signal_fd, on_icmp_readable, Environment
<1>5. ~UNCHANGED vars
  BY <1>1, Zenon DEF vars, loopVars
<1> QED BY <1>2, <1>3, <1>4, <1>5 DEF Next, Process, Stopped

\* A failure counted in the reply slot is a timeout that no packet read could avert.
LEMMA TimedOut ==
  ASSUME Books, [Next]_vars, pc = "reply", stats'.failed # stats.failed
  PROVE  on_reply_timer /\ drain_exhausts
<1>1. on_reply_timer
  BY IdleStep, Zenon DEF Next, Process, Stopped, on_ping_timer, on_icmp_readable, policyVars
<1>2. ~drain_matches
  BY MatchEffect DEF Books
<1>3. ~drain_fails
  BY DEF drain_fails, app_fail, policyVars
<1> QED BY <1>1, <1>2, <1>3 DEF on_reply_timer
=============================================================================
