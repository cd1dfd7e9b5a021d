-------------------------- MODULE MonitorInvariant --------------------------
(***************************************************************************)
(* The inductive invariant from which the safety properties of Monitor     *)
(* follow.                                                                 *)
(***************************************************************************)
EXTENDS MonitorRefinement

\* The loop is left as soon as it is asked to stop, it never works with a
\* clock value from the future, and the ping slot is reached only after a due
\* reply timer was handled.
Control ==
  /\ stopping <=> pc = "stopped"
  /\ now_ms <= clock
  /\ pc = "ping" => ~Elapsed("reply")

\* The ping timer is always armed and pays a whole period for every probe, so
\* probe n is not sent before its period has come.
Schedule ==
  /\ deadline["ping"] <= MaxClock + interval_ms + start_delay_ms
  /\ deadline["ping"] >= start_delay_ms + probes * interval_ms
  /\ probes > 0 => clock >= start_delay_ms + (probes - 1) * interval_ms

\* There are no more failures in a row than probes that are over, and the
\* action takes fail_threshold of them.
Counts ==
  /\ consecutive_fails + Outstanding <= probes
  /\ actions > 0 => fail_threshold <= probes

Books ==
  /\ TypeOK
  /\ Control
  /\ Schedule
  /\ OneProbe
  /\ Counts
  /\ ProbeAccounting

\* seq is the sequence number of probe n, which is fewer than UINT16_MAX
\* probes old, so that the number was used once since.
Numbered(seq, n) ==
  /\ n \in 1 .. probes
  /\ \/ sequence - seq = probes - n
     \/ sequence - seq + UINT16_MAX = probes - n

\* p is the reply to no probe, or to one that is at most age probes old.
Traceable(p, age) ==
  \/ /\ p.probe = 0
     /\ \A s \in 1 .. UINT16_MAX : ls_icmp_recv(p, s) = "IGNORED"
  \/ /\ Numbered(p.seq, p.probe)
     /\ probes - p.probe <= age

\* A waiting packet is read before the ping timer can fire again.
ToBeRead ==
  \/ pc \in {"poll", "polling"}
  \/ pc \in {"wakeup", "signalfd", "icmpfd"} /\ revents["icmpfd"] = "in"

\* A packet waits in the socket buffer for one more probe at most per packet
\* before it, because every wakeup reads one or more: the age of a packet plus
\* its position is bounded.  The bound is one higher between a probe and the
\* end of the next wakeup.
AgeBound == IF ToBeRead THEN Lifetime + MaxQueue ELSE Lifetime + MaxQueue - 1

\* The replies that can still arrive are those of recent probes.
NetAges ==
  \A r \in net : Numbered(r.seq, r.probe) /\ probes - r.probe < Lifetime

\* So are the replies that can still be read.
BufferAges ==
  \A i \in 1 .. Len(sockbuf) : Traceable(sockbuf[i], AgeBound - i)

Ages ==
  /\ ~stopping => NetAges
  /\ ~stopping /\ ~sock_err => BufferAges
  /\ ~stopping /\ ~sock_err /\ pc \in {"wakeup", "signalfd", "icmpfd"} =>
       revents["icmpfd"] # "err"
  /\ Len(sockbuf) <= MaxQueue

\* What every reachable state satisfies and every step preserves.
Inductive == Books /\ Ages /\ StreakIsReal

\* A packet that answers a probe is an echo reply of the target to us.
Genuine ==
  \A i \in 1 .. Len(sockbuf) :
    sockbuf[i].probe # 0 =>
      sockbuf[i].from = "target" /\ sockbuf[i].type = "echo_reply" /\ sockbuf[i].id = "self"

-----------------------------------------------------------------------------
(* Timing, when the process is never held up (Stalls = {}).                *)

\* The latest clock value at which the process makes its next step.
Horizon == IF pc = "polling" THEN wake ELSE clock

\* How much later than the clock value it works with a pass of the loop is:
\* the time its shutdown commands took, by which the next poll(2) oversleeps.
Lag == IF pc \in {"ping", "poll"} THEN clock - now_ms ELSE 0

\* The loop works with the current time until a shutdown command runs, and its
\* deadlines lie at most a period and a timeout ahead.
Prompt ==
  /\ clock <= Horizon
  /\ pc \in {"watchdog", "reply", "signalfd", "icmpfd"} => now_ms = clock
  /\ probes > 0 => deadline["ping"] <= now_ms + interval_ms
  /\ Outstanding = 1 => deadline["reply"] <= now_ms + timeout_ms

\* What a failed shutdown command costs at most before the next one: its own
\* time, the wait for the next probe, and the timeout of that probe.
Retry == interval_ms + timeout_ms + MaxAction

\* When the next probe of an outage is due at the latest, and when the monitor
\* acts upon the outage at the latest but for the timeout of the last probe.
Due == last_ok + actions * Retry + (consecutive_fails + 1) * interval_ms
Limit == last_ok + actions * Retry + fail_threshold * interval_ms

\* Before the threshold is reached the probes of an outage are sent by Due.  A
\* period is skipped only when the probe that is then outstanding was sent late,
\* right after the last success, and the skip makes up for that.
Punctual ==
  LET ping == deadline["ping"]
      reply == deadline["reply"]
  IN  /\ pc \in {"ping", "poll"} => now_ms = clock
      /\ Outstanding = 0 =>
           /\ Horizon <= Due
           /\ ping <= Due
           /\ ping < Horizon => ping <= last_ok
      /\ Outstanding = 1 =>
           /\ Horizon <= ping
           /\ Horizon <= reply
           /\ reply <= Due + timeout_ms
           /\ ping <= Due + interval_ms
           /\ ping < reply => ping <= Due

\* From then on every failed shutdown command is paid for by one Retry.
Overdue ==
  /\ Outstanding = 0 => Horizon <= Limit /\ deadline["ping"] + Lag <= Limit
  /\ Outstanding = 1 => /\ Horizon <= Limit + timeout_ms
                        /\ deadline["reply"] + Lag <= Limit + timeout_ms

Timely ==
  /\ Prompt
  /\ consecutive_fails < fail_threshold => Punctual
  /\ consecutive_fails >= fail_threshold => Overdue

Detection == ~stopping => Timely

\* The heartbeat timer is examined in every pass before anything takes time,
\* and a pass runs the shutdown command twice at most.
Heartbeat ==
  LET beat == deadline["watchdog"]
  IN  /\ clock <= Horizon
      /\ pc \in {"watchdog", "signalfd", "icmpfd", "reply"} => now_ms = clock
      /\ pc \in {"reply", "ping", "poll"} => now_ms <= beat
      /\ pc = "ping" => clock <= now_ms + MaxAction
      /\ pc = "poll" => clock <= now_ms + 2 * MaxAction
      /\ Horizon <= beat + 2 * MaxAction
      /\ beat <= last_beat + watchdog_interval_ms

-----------------------------------------------------------------------------
(* Timing, when the process may be held up, but not between reading the    *)
(* clock and running its timers, and shutdown commands take no time.       *)

\* The timers work with the current time, so the reply deadline is a whole
\* timeout after the request was sent.
WholeTimeouts ==
  /\ pc \in Timers => now_ms = clock
  /\ Outstanding = 1 => deadline["reply"] = probe_sent_ns + timeout_ms
=============================================================================
