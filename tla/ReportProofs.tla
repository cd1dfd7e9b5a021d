---------------------------- MODULE ReportProofs ---------------------------
(***************************************************************************)
(* Proofs about the statistics and the status shown by systemd, for every  *)
(* width of the types, every unit and every environment.                   *)
(***************************************************************************)
EXTENDS Report, TLAPS

ls_notify_t == [opened : BOOLEAN, watchdog_usec : Uint64,
                last_status : Status, last_status_ms : Uint64]

\* The last status that notify.c remembers is the one that systemd shows.
Remembered == shown = notify.last_status

\* The latencies in the statistics s add up to at most limit nanoseconds, and
\* the extremes bound the average.
Accumulated(s, limit) ==
  /\ s.ok + s.failed <= MaxProbes
  /\ s.latency_sum_us * NS_PER_US <= limit
  /\ s.ok = 0 => /\ s.latency_sum_us = 0
                 /\ s.latency_min_us = NO_SAMPLE /\ s.latency_max_us = NO_SAMPLE
  /\ s.ok > 0 => /\ s.latency_min_us # NO_SAMPLE /\ s.latency_max_us # NO_SAMPLE
                 /\ s.latency_min_us * s.ok <= s.latency_sum_us
                 /\ s.latency_sum_us <= s.latency_max_us * s.ok

\* Everything counted so far was over when the outstanding probe was sent.
Limit == IF outstanding /\ probe_sent_ns # UINT64_MAX THEN probe_sent_ns ELSE clock

Inductive == /\ TypeOK
             /\ Remembered /\ ShownIsCurrent
             /\ Limit <= clock /\ Accumulated(stats, Limit)

-----------------------------------------------------------------------------
(* Arithmetic.                                                             *)

\* Whole division.
LEMMA Quotient ==
  \A a \in Nat, b \in Nat \ {0} :
    a \div b \in Nat /\ a \div b <= a
      /\ (a \div b) * b <= a /\ a < ((a \div b) + 1) * b
OBVIOUS

\* Remainder of a small number.
LEMMA SmallRemainder == \A a \in Nat, b \in Nat : a < b => a % b = a
OBVIOUS

\* Products.
LEMMA Product == \A a, b \in Nat : a * b \in Nat
OBVIOUS

\* Products grow with a factor.
LEMMA Monotone == \A a, b, k \in Nat : a <= b => a * k <= b * k
OBVIOUS

\* One more factor is one more summand.
LEMMA Successor == \A a, k \in Nat : a * (k + 1) = a * k + a
OBVIOUS

\* A positive factor does not decrease a number.
LEMMA Factor == \A a \in Nat, k \in Nat \ {0} : a <= a * k
OBVIOUS

\* Distribution.
LEMMA Distribute == \A a, b, k \in Nat : (a + b) * k = a * k + b * k
OBVIOUS

\* Readings of the clock fit the type, and a valid one is below UINT64_MAX.
LEMMA Readings ==
  ASSUME clock \in 0 .. MaxClock
  PROVE  /\ clock \in Nat /\ clock < UINT64_MAX
         /\ ls_now_ms \subseteq Uint64
         /\ ls_now_ns \subseteq Uint64
<1>1. clock \div NS_PER_MS \in Nat /\ clock \div NS_PER_MS <= clock
  BY Quotient, ReportAssumption
<1>. QED
  BY <1>1, ReportAssumption, Uint64Assumption DEF ls_now_ms, ls_now_ns, Uint64

-----------------------------------------------------------------------------
(* The status.                                                             *)

\* A status call keeps the types and the memory of what is shown, and returns
\* true only if the status is shown.
LEMMA StatusCall ==
  ASSUME clock \in 0 .. MaxClock, notify \in ls_notify_t, shown \in Status,
         Remembered, NEW status \in Status, ls_notify_statusf(status)
  PROVE  /\ notify' \in ls_notify_t
         /\ called' \in [status : Status, ok : BOOLEAN]
         /\ shown' \in Status
         /\ Remembered' /\ ShownIsCurrent'
<1>1. PICK now_ms \in ls_now_ms, sends \in BOOLEAN :
        LET r == notify_status(notify, status, now_ms, sends)
        IN  /\ notify' = r.notify
            /\ called' = [status |-> status, ok |-> r.ok]
            /\ shown' = IF r.delivered THEN status ELSE shown
  BY DEF ls_notify_statusf
<1>2. now_ms \in Uint64 /\ 0 \in Uint64
  BY Readings, Uint64Assumption DEF Uint64
<1>3. CASE ~notify.opened
  BY <1>1, <1>3 DEF notify_status, Remembered, ShownIsCurrent
<1>4. CASE notify.opened /\ Duplicate(notify, status, now_ms)
  BY <1>1, <1>4 DEF notify_status, Remembered, ShownIsCurrent, Duplicate
<1>5. CASE notify.opened /\ ~Duplicate(notify, status, now_ms) /\ ~sends
  BY <1>1, <1>5 DEF notify_status, Remembered, ShownIsCurrent
<1>6. CASE notify.opened /\ ~Duplicate(notify, status, now_ms) /\ sends
  <2>. DEFINE ms == IF now_ms = UINT64_MAX THEN 0 ELSE now_ms
  <2>1. /\ notify' = [notify EXCEPT !.last_status = status, !.last_status_ms = ms]
        /\ called' = [status |-> status, ok |-> TRUE]
        /\ shown' = status
    BY <1>1, <1>6 DEF notify_status
  <2>2. ms \in Uint64
    BY <1>2
  <2>. HIDE DEF ms
  <2>. QED  BY <2>1, <2>2 DEF ls_notify_t, Remembered, ShownIsCurrent
<1>. QED  BY <1>3, <1>4, <1>5, <1>6

-----------------------------------------------------------------------------
(* The statistics.                                                         *)

\* The counters are far from saturating.
LEMMA Totals ==
  ASSUME NEW s \in ls_stats_t, NEW limit, Accumulated(s, limit)
  PROVE  ls_stats_total(s) = s.ok + s.failed
BY ReportAssumption, Uint64Assumption
   DEF ls_stats_t, Accumulated, ls_stats_total, ls_add_sat, Uint64

\* A failure changes one counter.
LEMMA FailAdded ==
  ASSUME NEW s \in ls_stats_t, NEW limit, Accumulated(s, limit),
         ls_stats_total(s) < MaxProbes
  PROVE  ls_stats_add_fail(s) \in ls_stats_t
           /\ Accumulated(ls_stats_add_fail(s), limit)
<1>1. s.ok \in Nat /\ s.failed \in Nat /\ s.ok + s.failed < MaxProbes
  BY Totals, Uint64Assumption DEF ls_stats_t, Uint64
<1>2. ls_add_sat(s.failed, 1) = s.failed + 1 /\ s.failed + 1 \in Uint64
  BY <1>1, ReportAssumption, Uint64Assumption DEF ls_add_sat, Uint64
<1>. DEFINE t == ls_stats_add_fail(s)
<1>3. t = [s EXCEPT !.failed = s.failed + 1]
  BY <1>2 DEF ls_stats_add_fail
<1>4. /\ t \in ls_stats_t
      /\ t.ok = s.ok /\ t.failed = s.failed + 1
      /\ t.latency_sum_us = s.latency_sum_us
      /\ t.latency_min_us = s.latency_min_us
      /\ t.latency_max_us = s.latency_max_us
  BY <1>2, <1>3 DEF ls_stats_t
<1>. HIDE DEF t
<1>5. t.ok + t.failed <= MaxProbes
  BY <1>1, <1>4, ReportAssumption
<1>6. Accumulated(t, limit)
  BY <1>4, <1>5, Zenon DEF Accumulated
<1>. QED  BY <1>4, <1>6 DEF t

\* A success of us microseconds is accumulated without saturation.
LEMMA OkAdded ==
  ASSUME NEW s \in ls_stats_t, NEW limit \in Nat, Accumulated(s, limit),
         ls_stats_total(s) < MaxProbes, NEW us \in Nat, NEW later \in Nat,
         limit + us * NS_PER_US <= later, later < UINT64_MAX
  PROVE  ls_stats_add_ok(s, us) \in ls_stats_t
           /\ Accumulated(ls_stats_add_ok(s, us), later)
<1>. DEFINE N == NS_PER_US
            ok == s.ok
            sum == s.latency_sum_us
            min == s.latency_min_us
            max == s.latency_max_us
            t == ls_stats_add_ok(s, us)
<1>0. N \in Nat \ {0} /\ UINT64_MAX \in Nat
  BY UnitsAssumption, Uint64Assumption
<1>1. /\ ok \in Nat /\ s.failed \in Nat /\ sum \in Nat
      /\ min \in 0 .. UINT64_MAX /\ max \in 0 .. UINT64_MAX
      /\ ok + s.failed < MaxProbes
  BY Totals, Uint64Assumption DEF ls_stats_t, Uint64
<1>2. ls_add_sat(ok, 1) = ok + 1 /\ ok + 1 \in Uint64
  BY <1>1, ReportAssumption, Uint64Assumption DEF ls_add_sat, Uint64
<1>3. (sum + us) * N <= later /\ sum + us < UINT64_MAX
  <2>1. sum * N <= limit
    BY DEF Accumulated
  <2>2. (sum + us) * N = sum * N + us * N
    BY <1>0, <1>1, Distribute
  <2>3. sum * N \in Nat /\ us * N \in Nat
    BY <1>0, <1>1, Product
  <2>4. (sum + us) * N <= later
    BY <2>1, <2>2, <2>3
  <2>5. sum + us <= (sum + us) * N
    BY <1>0, <1>1, Factor
  <2>6. (sum + us) * N \in Nat
    BY <2>2, <2>3
  <2>. QED  BY <1>0, <1>1, <2>4, <2>5, <2>6
<1>4. ls_add_sat(sum, us) = sum + us /\ sum + us \in Uint64
  BY <1>0, <1>1, <1>3 DEF ls_add_sat, Uint64
<1>5. us \in Uint64 /\ us # UINT64_MAX
  BY <1>0, <1>1, <1>3 DEF Uint64
<1>. DEFINE min2 == IF us < min THEN us ELSE min
            max2 == IF max = NO_SAMPLE \/ us > max THEN us ELSE max
<1>6. t = [s EXCEPT !.ok = ok + 1, !.latency_sum_us = sum + us,
                    !.latency_min_us = min2, !.latency_max_us = max2]
  BY <1>2, <1>4 DEF ls_stats_add_ok
<1>7. min2 \in Uint64 /\ max2 \in Uint64
  BY <1>1, <1>5 DEF Uint64
<1>8. /\ min2 # NO_SAMPLE /\ max2 # NO_SAMPLE
      /\ min2 <= us /\ us <= max2
      /\ min2 <= min /\ (max # NO_SAMPLE => max <= max2)
  BY <1>0, <1>1, <1>5 DEF NO_SAMPLE, Uint64
<1>. HIDE DEF min2, max2, t
<1>9. /\ t \in ls_stats_t
      /\ t.ok = ok + 1 /\ t.failed = s.failed
      /\ t.latency_sum_us = sum + us
      /\ t.latency_min_us = min2 /\ t.latency_max_us = max2
  BY <1>2, <1>4, <1>6, <1>7 DEF ls_stats_t
<1>10. min2 * (ok + 1) <= sum + us /\ sum + us <= max2 * (ok + 1)
  <2>0. min2 \in Nat /\ max2 \in Nat
    BY <1>7, Uint64Assumption DEF Uint64
  <2>1. /\ min2 * (ok + 1) = min2 * ok + min2
        /\ max2 * (ok + 1) = max2 * ok + max2
    BY <1>1, <2>0, Successor
  <2>2. min2 * ok <= sum /\ sum <= max2 * ok
    <3>1. CASE ok = 0
      BY <2>0, <3>1 DEF Accumulated
    <3>2. CASE ok > 0
      <4>1. max # NO_SAMPLE /\ min * ok <= sum /\ sum <= max * ok
        BY <3>2 DEF Accumulated
      <4>2. min2 * ok <= min * ok /\ max * ok <= max2 * ok
        BY <1>0, <1>1, <1>8, <2>0, <4>1, Monotone
      <4>3. /\ min2 * ok \in Nat /\ min * ok \in Nat
            /\ max * ok \in Nat /\ max2 * ok \in Nat
        BY <1>0, <1>1, <2>0, Product
      <4>. QED  BY <1>1, <4>1, <4>2, <4>3
    <3>. QED  BY <1>1, <3>1, <3>2
  <2>3. min2 * ok \in Nat /\ max2 * ok \in Nat
    BY <1>1, <2>0, Product
  <2>. QED  BY <1>1, <1>8, <2>0, <2>1, <2>2, <2>3
<1>11. t.ok + t.failed <= MaxProbes /\ t.ok # 0
  BY <1>1, <1>9, ReportAssumption
<1>12. Accumulated(t, later)
  BY <1>3, <1>8, <1>9, <1>10, <1>11 DEF Accumulated
<1>. QED  BY <1>9, <1>12 DEF t

\* A latency is at most the time since the probe was sent.
LEMMA LatencyBound ==
  ASSUME clock \in 0 .. MaxClock, probe_sent_ns \in Uint64,
         outstanding, Limit <= clock,
         NEW now_ns \in ls_now_ns, NEW us \in Latency_us(now_ns)
  PROVE  us \in Nat /\ Limit \in Nat /\ Limit + us * NS_PER_US <= clock
<1>. USE UnitsAssumption, Uint64Assumption
<1>0. clock \in Nat /\ clock < UINT64_MAX /\ probe_sent_ns \in Nat
  BY Readings DEF Uint64
<1>1. CASE us = 0
  BY <1>0, <1>1 DEF Limit
<1>2. CASE us # 0
  <2>1. /\ now_ns # UINT64_MAX /\ probe_sent_ns # UINT64_MAX
        /\ now_ns >= probe_sent_ns
        /\ us \in Microseconds(now_ns - probe_sent_ns)
    BY <1>2 DEF Latency_us
  <2>2. now_ns = clock /\ Limit = probe_sent_ns
    BY <2>1 DEF ls_now_ns, Limit
  <2>. DEFINE ns == clock - probe_sent_ns
              q == ns \div NS_PER_US
  <2>3. ns \in Nat
    BY <1>0, <2>1, <2>2
  <2>. HIDE DEF ns
  <2>4. q \in Nat /\ q * NS_PER_US <= ns
    BY <2>3, Quotient
  <2>5. us \in {q} \cup {k \in {q - 1} : k >= 0 /\ ns % NS_PER_US = 0}
    BY <2>1, <2>2 DEF Microseconds, ns
  <2>. HIDE DEF q
  <2>6. us \in Nat /\ us <= q
    BY <2>4, <2>5
  <2>7. us * NS_PER_US <= q * NS_PER_US
    BY <2>4, <2>6, Monotone
  <2>8. us * NS_PER_US \in Nat /\ q * NS_PER_US \in Nat
    BY <2>4, <2>6, Product
  <2>9. us * NS_PER_US <= ns
    BY <2>3, <2>4, <2>7, <2>8
  <2>. QED  BY <1>0, <2>2, <2>6, <2>8, <2>9 DEF ns
<1>. QED  BY <1>1, <1>2

\* Every failed probe, refused or timed out.
LEMMA FailedKept ==
  ASSUME Inductive, ls_stats_total(stats) < MaxProbes, probe_failed,
         UNCHANGED <<systemd, clock>>,
         pc' \in {"starting", "running", "stopping", "done"},
         outstanding' = FALSE, probe_sent_ns' \in Uint64
  PROVE  Inductive'
<1>. DEFINE status == [kind |-> "unreachable", fails |-> consecutive_fails']
<1>1. status \in Status
  BY DEF probe_failed, Inductive, TypeOK, Status
<1>2. /\ notify' \in ls_notify_t
      /\ called' \in [status : Status, ok : BOOLEAN]
      /\ shown' \in Status
      /\ Remembered' /\ ShownIsCurrent'
  BY <1>1, StatusCall DEF probe_failed, Inductive, TypeOK, ls_notify_t
<1>3. stats' \in ls_stats_t /\ Accumulated(stats', Limit)
  BY FailAdded DEF probe_failed, Inductive, TypeOK
<1>4. Limit' = clock
  BY DEF Limit
<1>5. Limit' <= clock' /\ Accumulated(stats', Limit')
  <2>1. clock \in Nat /\ Limit \in Nat /\ stats'.latency_sum_us * NS_PER_US \in Nat
    BY <1>3, Readings, Product, UnitsAssumption, Uint64Assumption
       DEF Inductive, TypeOK, Limit, Uint64, ls_stats_t
  <2>2. stats'.latency_sum_us * NS_PER_US <= clock
    BY <1>3, <2>1 DEF Inductive, Accumulated
  <2>. QED  BY <1>3, <1>4, <2>1, <2>2 DEF Accumulated
<1>6. TypeOK'
  <2>1. /\ systemd' \in Environment
        /\ clock' \in 0 .. MaxClock /\ consecutive_fails' \in Nat
    BY DEF probe_failed, Inductive, TypeOK
  <2>2. outstanding' \in BOOLEAN
    OBVIOUS
  <2>. QED  BY <1>2, <1>3, <2>1, <2>2, Zenon DEF TypeOK, ls_notify_t
<1>. QED  BY <1>2, <1>5, <1>6 DEF Inductive

\* A matched reply.
LEMMA MatchedKept ==
  ASSUME Inductive, ReplyMatched, UNCHANGED systemd
  PROVE  Inductive'
<1>0. PICK now_ns \in ls_now_ns : \E us \in Latency_us(now_ns) : probe_succeeded(us)
  BY DEF ReplyMatched
<1>1. PICK us \in Latency_us(now_ns) : probe_succeeded(us)
  BY <1>0
<1>2. /\ us \in Nat /\ Limit \in Nat /\ Limit + us * NS_PER_US <= clock
      /\ clock \in Nat /\ clock < UINT64_MAX
  BY LatencyBound, Readings DEF Inductive, TypeOK, ReplyMatched
<1>3. stats' \in ls_stats_t /\ Accumulated(stats', clock)
  BY <1>1, <1>2, OkAdded DEF probe_succeeded, ReplyMatched, Inductive, TypeOK
<1>4. Limit' = clock /\ UNCHANGED clock
  BY DEF Limit, ReplyMatched
<1>. DEFINE status == [kind |-> "online", last |-> us,
                       avg |-> ls_stats_avg_latency(stats'),
                       rate |-> ls_stats_success_rate(stats')]
<1>5. status \in Status
  <2>1. stats'.ok \in Nat /\ stats'.latency_sum_us \in Nat
    BY <1>3, Uint64Assumption DEF ls_stats_t, Uint64
  <2>2. ls_stats_total(stats') \in Nat
    BY <1>3, Totals, Uint64Assumption DEF ls_stats_t, Uint64
  <2>3. /\ ls_stats_avg_latency(stats') \in Nat \X Nat
        /\ ls_stats_success_rate(stats') \in Nat \X Nat
    BY <2>1, <2>2 DEF ls_stats_avg_latency, ls_stats_success_rate
  <2>. QED  BY <1>2, <2>3 DEF Status
<1>6. /\ notify' \in ls_notify_t
      /\ called' \in [status : Status, ok : BOOLEAN]
      /\ shown' \in Status
      /\ Remembered' /\ ShownIsCurrent'
  BY <1>1, <1>5, StatusCall DEF probe_succeeded, Inductive, TypeOK, ls_notify_t
<1>7. TypeOK'
  <2>1. /\ systemd' \in Environment
        /\ clock' \in 0 .. MaxClock /\ consecutive_fails' \in Nat
        /\ pc' \in {"starting", "running", "stopping", "done"}
    BY <1>1 DEF probe_succeeded, ReplyMatched, Inductive, TypeOK
  <2>2. outstanding' \in BOOLEAN
    BY Zenon DEF ReplyMatched
  <2>3. 0 \in Uint64
    BY Uint64Assumption DEF Uint64
  <2>4. probe_sent_ns' \in Uint64
    BY <2>3 DEF ReplyMatched
  <2>. QED  BY <1>3, <1>6, <2>1, <2>2, <2>4, Zenon DEF TypeOK, ls_notify_t
<1>. QED  BY <1>2, <1>3, <1>4, <1>6, <1>7 DEF Inductive

\* Steps that leave the statistics alone, whether they show a status or not.
LEMMA QuietKept ==
  ASSUME Inductive, UNCHANGED <<systemd, stats, consecutive_fails>>,
         pc' \in {"starting", "running", "stopping", "done"},
         clock' \in 0 .. MaxClock, outstanding' \in BOOLEAN, probe_sent_ns' \in Uint64,
         Limit <= Limit', Limit' <= clock',
         notify' \in ls_notify_t, called' \in [status : Status, ok : BOOLEAN],
         shown' \in Status, Remembered', ShownIsCurrent'
  PROVE  Inductive'
<1>1. TypeOK'
  BY DEF Inductive, TypeOK, ls_notify_t
<1>2. /\ Limit \in Nat /\ Limit' \in Nat
      /\ stats.latency_sum_us * NS_PER_US \in Nat
  <2>1. clock \in Nat /\ clock' \in Nat /\ probe_sent_ns \in Nat /\ probe_sent_ns' \in Nat
    BY ReportAssumption, Uint64Assumption DEF Inductive, TypeOK, Uint64
  <2>2. stats.latency_sum_us \in Nat
    BY Uint64Assumption DEF Inductive, TypeOK, Uint64, ls_stats_t
  <2>. QED  BY <2>1, <2>2, Product, UnitsAssumption DEF Limit
<1>3. Accumulated(stats', Limit')
  <2>1. stats.latency_sum_us * NS_PER_US <= Limit'
    BY <1>2 DEF Inductive, Accumulated
  <2>. QED  BY <2>1 DEF Inductive, Accumulated
<1>. QED  BY <1>1, <1>3 DEF Inductive

-----------------------------------------------------------------------------
(* The theorems.                                                           *)

\* The process starts with no status and no samples.
LEMMA InitInductive == Init => Inductive
<1>. SUFFICES ASSUME Init PROVE Inductive
  OBVIOUS
<1>. USE Uint64Assumption DEF Init
<1>1. clock \in 0 .. MaxClock /\ clock \in Nat /\ Limit = clock
  BY Readings DEF Limit
<1>2. systemd \in Environment /\ notify = ls_notify_init(systemd)
  OBVIOUS
<1>3. NoStatus \in Status
  BY DEF NoStatus, Status
<1>4. notify \in ls_notify_t /\ notify.last_status = NoStatus
  <2>1. systemd.watchdog_usec \in Text
    BY <1>2, SystemdAssumption
  <2>2. parse_uint64(systemd.watchdog_usec) => systemd.watchdog_usec.n \in Uint64
    BY <2>1 DEF parse_uint64, Text, Uint64
  <2>3. 0 \in Uint64
    BY DEF Uint64
  <2>. QED  BY <1>2, <1>3, <2>2, <2>3 DEF ls_notify_init, ls_notify_t
<1>5. PICK now_ms \in ls_now_ms : stats = ls_stats_init(now_ms)
  OBVIOUS
<1>6. /\ stats \in ls_stats_t
      /\ stats.ok = 0 /\ stats.failed = 0 /\ stats.latency_sum_us = 0
      /\ stats.latency_min_us = NO_SAMPLE /\ stats.latency_max_us = NO_SAMPLE
  BY <1>1, <1>5, Readings DEF ls_stats_init, ls_stats_t, NO_SAMPLE, Uint64
<1>7. Accumulated(stats, Limit)
  BY <1>1, <1>6, UnitsAssumption, ReportAssumption DEF Accumulated
<1>8. TypeOK
  <2>1. /\ pc \in {"starting", "running", "stopping", "done"}
        /\ consecutive_fails \in Nat
    OBVIOUS
  <2>2. outstanding \in BOOLEAN
    BY Zenon
  <2>3. probe_sent_ns \in Uint64
    BY DEF Uint64
  <2>4. called \in [status : Status, ok : BOOLEAN] /\ shown \in Status
    BY <1>3
  <2>. QED  BY <1>1, <1>2, <1>4, <1>6, <2>1, <2>2, <2>3, <2>4, Zenon DEF TypeOK, ls_notify_t
<1>. QED  BY <1>1, <1>4, <1>7, <1>8 DEF Inductive, Remembered, ShownIsCurrent

\* Every step preserves the invariant.
LEMMA StepInductive ==
  ASSUME Inductive, [Next]_vars
  PROVE  Inductive'
<1>0. /\ clock \in 0 .. MaxClock /\ clock \in Nat /\ clock < UINT64_MAX
      /\ probe_sent_ns \in Uint64 /\ outstanding \in BOOLEAN /\ Limit \in Nat
      /\ Limit <= clock /\ 0 \in Uint64 /\ clock \in Uint64 /\ UINT64_MAX \in Uint64
  BY Readings, Uint64Assumption DEF Inductive, TypeOK, Limit, Uint64
<1>a. /\ notify \in ls_notify_t /\ called \in [status : Status, ok : BOOLEAN]
      /\ shown \in Status /\ Remembered /\ ShownIsCurrent
  BY DEF Inductive, TypeOK, ls_notify_t
<1>b. pc \in {"starting", "running", "stopping", "done"}
  BY DEF Inductive, TypeOK
<1>c. UNCHANGED systemd
  BY DEF Next, vars
<1>1. CASE log_startup
  <2>1. /\ UNCHANGED <<clock, stats, consecutive_fails, outstanding, probe_sent_ns>>
        /\ pc' \in {"running", "done"} /\ Limit' = Limit
    BY <1>1 DEF log_startup, Limit
  <2>2. [kind |-> "start"] \in Status
    BY DEF Status
  <2>3. /\ notify' \in ls_notify_t /\ called' \in [status : Status, ok : BOOLEAN]
        /\ shown' \in Status /\ Remembered' /\ ShownIsCurrent'
    <3>1. CASE ls_notify_statusf([kind |-> "start"])
      BY <1>0, <1>a, <2>2, <3>1, StatusCall
    <3>2. CASE UNCHANGED <<notify, called, shown>>
      BY <1>a, <3>2 DEF Remembered, ShownIsCurrent
    <3>. QED  BY <1>1, <3>1, <3>2 DEF log_startup
  <2>. QED  BY <1>0, <2>1, <2>3, <1>c, QuietKept
<1>2. CASE SendEcho
  <2>1. /\ UNCHANGED <<clock, pc, stats, notify, consecutive_fails, called, shown>>
        /\ outstanding' = TRUE /\ probe_sent_ns' \in {UINT64_MAX, clock}
        /\ ~outstanding
    BY <1>2 DEF SendEcho, ls_now_ns
  <2>2. Limit = clock /\ Limit' = clock
    BY <2>1 DEF Limit
  <2>3. Remembered' /\ ShownIsCurrent'
    BY <1>a, <2>1 DEF Remembered, ShownIsCurrent
  <2>. QED  BY <1>0, <1>a, <1>b, <2>1, <2>2, <2>3, <1>c, QuietKept
<1>3. CASE SendRefused
  BY <1>0, <1>3, <1>b, <1>c, FailedKept DEF SendRefused
<1>4. CASE ReplyMatched
  BY <1>4, <1>c, MatchedKept
<1>5. CASE TimedOut
  BY <1>0, <1>5, <1>b, <1>c, FailedKept DEF TimedOut
<1>6. CASE app_fail
  <2>1. /\ UNCHANGED <<clock, stats, consecutive_fails>>
        /\ outstanding' \in {FALSE, outstanding} /\ pc' = "stopping"
        /\ probe_sent_ns' = IF outstanding' THEN probe_sent_ns ELSE 0
    BY <1>6 DEF app_fail
  <2>2. [kind |-> "error"] \in Status
    BY DEF Status
  <2>3. /\ notify' \in ls_notify_t /\ called' \in [status : Status, ok : BOOLEAN]
        /\ shown' \in Status /\ Remembered' /\ ShownIsCurrent'
    BY <1>0, <1>6, <1>a, <2>2, StatusCall DEF app_fail
  <2>4. CASE outstanding'
    <3>1. Limit' = Limit /\ outstanding' \in BOOLEAN /\ probe_sent_ns' \in Uint64
      BY <1>0, <2>1, <2>4 DEF Limit
    <3>. QED  BY <1>0, <2>1, <2>3, <3>1, <1>c, QuietKept
  <2>5. CASE ~outstanding'
    <3>1. Limit' = clock /\ outstanding' \in BOOLEAN /\ probe_sent_ns' \in Uint64
      BY <1>0, <2>1, <2>5 DEF Limit
    <3>. QED  BY <1>0, <2>1, <2>3, <3>1, <1>c, QuietKept
  <2>. QED  BY <2>4, <2>5
<1>7. CASE ls_loop_stop \/ log_shutdown \/ UNCHANGED vars
  <2>1. /\ UNCHANGED <<clock, stats, consecutive_fails, outstanding, probe_sent_ns>>
        /\ UNCHANGED <<called, shown>>
        /\ pc' = pc \/ pc' \in {"stopping", "done"}
    BY <1>7 DEF ls_loop_stop, log_shutdown, vars
  <2>2. notify' \in ls_notify_t /\ notify'.last_status = notify.last_status
    BY <1>7, <1>a DEF ls_loop_stop, log_shutdown, vars, ls_notify_destroy, ls_notify_t
  <2>3. Remembered' /\ ShownIsCurrent'
    BY <1>a, <2>1, <2>2 DEF Remembered, ShownIsCurrent
  <2>4. Limit' = Limit
    BY <2>1 DEF Limit
  <2>. QED  BY <1>0, <1>a, <1>b, <2>1, <2>2, <2>3, <2>4, <1>c, QuietKept
<1>8. CASE Tick
  <2>1. /\ UNCHANGED <<pc, stats, notify, consecutive_fails, outstanding,
                       probe_sent_ns, called, shown>>
        /\ clock' = clock + 1 /\ clock' \in 0 .. MaxClock
    BY <1>0, <1>8, ReportAssumption DEF Tick
  <2>2. Limit <= Limit' /\ Limit' <= clock'
    BY <1>0, <2>1 DEF Limit, Uint64
  <2>3. Remembered' /\ ShownIsCurrent'
    BY <1>a, <2>1 DEF Remembered, ShownIsCurrent
  <2>. QED  BY <1>0, <1>a, <1>b, <2>1, <2>2, <2>3, <1>c, QuietKept
<1>. QED
  BY <1>1, <1>2, <1>3, <1>4, <1>5, <1>6, <1>7, <1>8 DEF Next

\* Every reachable state satisfies the invariant.
THEOREM ReportInvariance == Spec => []Inductive
<1>1. Inductive /\ [Next]_vars => Inductive'
  BY StepInductive
<1>. QED  BY InitInductive, <1>1, PTL DEF Spec

\* No counter or accumulator leaves its type.
THEOREM ReportTypes == Spec => []TypeOK
<1>1. Inductive => TypeOK
  BY DEF Inductive
<1>. QED  BY <1>1, ReportInvariance, PTL

\* The deduplication never hides a change of the status.
THEOREM StatusIsShown == Spec => []ShownIsCurrent
<1>1. Inductive => ShownIsCurrent
  BY DEF Inductive
<1>. QED  BY <1>1, ReportInvariance, PTL

\* The accumulators keep min <= avg <= max, because no sum saturates.
THEOREM LatenciesAreOrdered == Spec => []LatencyOrder
<1>1. Inductive => LatencyOrder
  <2>. SUFFICES ASSUME Inductive PROVE LatencyOrder
    OBVIOUS
  <2>. USE UnitsAssumption, Uint64Assumption
  <2>1. /\ stats \in ls_stats_t /\ Accumulated(stats, Limit)
        /\ stats.ok \in Nat /\ stats.failed \in Nat /\ stats.latency_sum_us \in Nat
        /\ clock \in Nat /\ Limit \in Nat /\ Limit <= clock
        /\ ls_stats_total(stats) = stats.ok + stats.failed
    BY Readings, Totals DEF Inductive, TypeOK, ls_stats_t, Uint64, Limit
  <2>2. stats.latency_sum_us * NS_PER_US <= clock
    <3>1. stats.latency_sum_us * NS_PER_US \in Nat
      BY <2>1, Product
    <3>. QED  BY <2>1, <3>1 DEF Accumulated
  <2>3. CASE stats.ok = 0
    BY <2>1, <2>3 DEF LatencyOrder, log_statistics, Accumulated, ls_stats_success_rate,
       ls_stats_avg_latency, ls_stats_min_latency, ls_stats_max_latency
  <2>4. CASE stats.ok # 0
    BY <2>1, <2>2, <2>4 DEF LatencyOrder, log_statistics, Accumulated,
       ls_stats_success_rate, ls_stats_avg_latency, ls_stats_min_latency,
       ls_stats_max_latency
  <2>. QED  BY <2>3, <2>4
<1>. QED  BY <1>1, ReportInvariance, PTL

-----------------------------------------------------------------------------
(* The watchdog.                                                           *)

\* The notifier keeps the watchdog period that its environment asked for.
Contract ==
  /\ systemd \in Environment /\ notify \in ls_notify_t
  /\ notify.watchdog_usec = ls_notify_init(systemd).watchdog_usec
  /\ notify.opened => ls_notify_init(systemd).opened

\* No status call changes the socket or the period.
LEMMA StatusKeeps ==
  ASSUME notify \in ls_notify_t, NEW status, ls_notify_statusf(status)
  PROVE  /\ notify'.watchdog_usec = notify.watchdog_usec
         /\ notify'.opened = notify.opened
BY DEF ls_notify_statusf, notify_status, ls_notify_t

\* Every step keeps the contract.
LEMMA ContractKept ==
  ASSUME Contract, Inductive, Inductive', [Next]_vars
  PROVE  Contract'
<1>1. notify \in ls_notify_t /\ notify' \in ls_notify_t
  BY DEF Inductive, TypeOK, ls_notify_t
<1>2. UNCHANGED systemd
  BY DEF Next, vars
<1>3. /\ notify'.watchdog_usec = notify.watchdog_usec
      /\ notify'.opened => notify.opened
  <2>1. CASE \E status : ls_notify_statusf(status)
    BY <1>1, <2>1, StatusKeeps
  <2>2. CASE UNCHANGED notify
    BY <2>2
  <2>3. CASE log_shutdown
    BY <1>1, <2>3 DEF log_shutdown, ls_notify_destroy, ls_notify_t
  <2>. QED
    BY <2>1, <2>2, <2>3 DEF Next, vars, log_startup, SendEcho, SendRefused,
       ReplyMatched, TimedOut, app_fail, ls_loop_stop, Tick, probe_failed,
       probe_succeeded
<1>. QED  BY <1>1, <1>2, <1>3 DEF Contract

\* The period that follows from the environment.
LEMMA Period ==
  ASSUME NEW env \in Environment, ls_notify_init(env).opened,
         NEW n, n.opened, n.watchdog_usec = ls_notify_init(env).watchdog_usec
  PROVE  LET usec == env.watchdog_usec.n
             interval == ls_notify_watchdog_interval_ms(n)
         IN  /\ SetsDeadline(env) /\ NamesUs(env) =>
                  /\ interval > 0
                  /\ usec >= 2 * USEC_PER_MS =>
                       /\ 2 * interval * USEC_PER_MS <= usec
                       /\ usec < 2 * (interval + 1) * USEC_PER_MS
             /\ interval > 0 => SetsDeadline(env) /\ (NamesUs(env) \/ NamesUsNarrowed(env))
<1>. DEFINE usec == env.watchdog_usec.n
            unit == USEC_PER_MS * 2
            half == usec \div unit
            interval == ls_notify_watchdog_interval_ms(n)
<1>1. /\ env.pid \in 1 .. PID_SPACE - 1
      /\ PID_SPACE \in Nat /\ USEC_PER_MS \in Nat \ {0} /\ unit \in Nat \ {0}
  BY SystemdAssumption, NotifyAssumption
<1>2. env.socket = "connects"
  BY DEF ls_notify_init
<1>3. ASSUME env.watchdog_usec.form = "number", usec \in 1 .. UINT64_MAX,
             \/ env.watchdog_pid.form = "unset"
             \/ env.watchdog_pid.form = "number" /\ env.watchdog_pid.n = env.pid
      PROVE  /\ interval > 0
             /\ usec >= 2 * USEC_PER_MS =>
                  /\ 2 * interval * USEC_PER_MS <= usec
                  /\ usec < 2 * (interval + 1) * USEC_PER_MS
  <2>0. usec \in Nat \ {0}
    BY <1>3, Uint64Assumption
  <2>1. env.pid \in Nat /\ env.pid < PID_SPACE
    BY <1>1
  <2>2. env.pid % PID_SPACE = env.pid
    BY <1>1, <2>1, SmallRemainder
  <2>3. watchdog_pid_matches_self(env.watchdog_pid, env.pid)
    <3>1. PID_SPACE <= UINT64_MAX \div 2 /\ UINT64_MAX \div 2 \in Nat
      BY NotifyAssumption, Uint64Assumption
    <3>2. env.pid \in 1 .. UINT64_MAX \div 2
      BY <1>1, <2>1, <3>1
    <3>. QED  BY <1>3, <2>2, <3>2 DEF watchdog_pid_matches_self
  <2>4. parse_uint64(env.watchdog_usec)
    BY <1>3, Uint64Assumption DEF parse_uint64
  <2>5. n.opened /\ n.watchdog_usec = usec
    BY <1>2, <2>3, <2>4 DEF ls_notify_init
  <2>6. interval = IF half = 0 THEN 1 ELSE half
    BY <2>0, <2>5 DEF ls_notify_watchdog_interval_ms
  <2>7. half \in Nat /\ half * unit <= usec /\ usec < (half + 1) * unit
    BY <1>1, <2>0, Quotient
  <2>. HIDE DEF interval, half
  <2>8. interval > 0
    BY <2>6, <2>7
  <2>9. ASSUME usec >= 2 * USEC_PER_MS
        PROVE  interval = half
    BY <1>1, <2>0, <2>6, <2>7, <2>9
  <2>10. /\ half * unit = 2 * half * USEC_PER_MS
         /\ (half + 1) * unit = 2 * (half + 1) * USEC_PER_MS
    <3>1. \A a, b \in Nat : a * (b * 2) = 2 * a * b
      OBVIOUS
    <3>2. half + 1 \in Nat
      BY <2>7
    <3>. QED  BY <1>1, <2>7, <3>1, <3>2
  <2>. QED  BY <2>7, <2>8, <2>9, <2>10
<1>4. ASSUME interval > 0
      PROVE  SetsDeadline(env) /\ (NamesUs(env) \/ NamesUsNarrowed(env))
  <2>1. n.watchdog_usec # 0
    BY <1>4 DEF ls_notify_watchdog_interval_ms
  <2>2. /\ n.watchdog_usec = usec /\ parse_uint64(env.watchdog_usec)
        /\ watchdog_pid_matches_self(env.watchdog_pid, env.pid)
    BY <2>1 DEF ls_notify_init
  <2>3. SetsDeadline(env)
    <3>1. usec \in Nat
      BY SystemdAssumption DEF Text
    <3>. QED  BY <2>1, <2>2, <3>1, Uint64Assumption DEF parse_uint64, SetsDeadline
  <2>4. CASE env.watchdog_pid.form = "unset"
    BY <2>3, <2>4 DEF NamesUs
  <2>5. CASE env.watchdog_pid.form = "number"
    <3>. DEFINE k == env.watchdog_pid.n
    <3>1. k \in Nat /\ k % PID_SPACE = env.pid
      BY <2>2, <2>5, Uint64Assumption DEF watchdog_pid_matches_self
    <3>. HIDE DEF k
    <3>2. CASE k < PID_SPACE
      <4>1. k = env.pid
        BY <1>1, <3>1, <3>2, SmallRemainder
      <4>. QED  BY <2>3, <2>5, <4>1 DEF NamesUs, k
    <3>3. CASE k >= PID_SPACE
      BY <2>3, <2>5, <3>1, <3>3 DEF NamesUsNarrowed, k
    <3>. QED  BY <1>1, <3>1, <3>2, <3>3
  <2>. QED  BY <2>2, <2>4, <2>5 DEF watchdog_pid_matches_self
<1>. QED  BY <1>3, <1>4 DEF SetsDeadline, NamesUs

\* Whatever systemd passes, the heartbeat is neither off nor late when it is asked
\* for, and off when it is not, except for the narrowed numbers.
THEOREM HeartbeatsAreInTime == Spec => []HeartbeatPeriod
<1>1. Init => Contract
  <2>1. Init => notify \in ls_notify_t
    BY InitInductive DEF Inductive, TypeOK, ls_notify_t
  <2>. QED  BY <2>1 DEF Init, Contract
<1>2. Contract /\ Inductive /\ Inductive' /\ [Next]_vars => Contract'
  BY ContractKept
<1>3. Contract => HeartbeatPeriod
  <2>. SUFFICES ASSUME Contract, notify.opened PROVE HeartbeatPeriod
    BY DEF HeartbeatPeriod
  <2>. QED  BY Period DEF Contract, HeartbeatPeriod
<1>. QED  BY <1>1, <1>2, <1>3, ReportInvariance, PTL DEF Spec
=============================================================================
