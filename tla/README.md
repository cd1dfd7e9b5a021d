# LinkStay: specification and proofs

LinkStay is a systemd service that probes one address with ICMP echo requests
and powers the machine off when a given number of probes in a row fail. This
directory holds TLA+ modules that model it, the TLC configurations that check
them on small instances, and TLAPS proofs of their main properties for all
parameters. `PROJECT.json` maps every definition to the lines it models and
lists the runs, mutants, hazards, findings and theorems.

## 1. The system

One thread runs a `poll(2)` loop. Everything concurrent is outside the process:
the clock, the network, the kernel, signals, the `systemctl` child, systemd.

| Part | State | Operations | What makes it hard | What must hold |
|---|---|---|---|---|
| Event loop (`loop.c`, `loop.h`) | `now_ms`, timer deadlines (`UINT64_MAX` = disarmed), `revents`, `stopping`, `exit_code` | `refresh_now`, `fire_timers`, `poll_timeout_ms`, `dispatch_fds`, `ls_loop_stop`, timer operations | one clock value per pass, used after callbacks that block; firing order; events that outlive their cause | timeouts before new probes; stop requests honoured; no busy loop that starves timers |
| Probe lifecycle and policy (`app.c`) | `probe_sequence`, `probe_sent_ns`, reply timer, `consecutive_fails` | `on_ping_timer`, `on_reply_timer`, `on_icmp_readable`, `drain_and_match_reply`, `probe_*`, `check_threshold` | replies late, duplicated, reordered, foreign; a reply racing its timeout; late wakeups; refused sends | one probe at a time, one outcome each; the failure count is real; the action is neither early nor missed |
| Shutdown command (`app.c`) | child process, grace deadline | spawn, `waitpid` polling, kill, reap | the child is concurrent; blocks the loop; system calls fail midway; retried at each failure | never believed too early; nothing left behind; bounded |
| Process lifecycle (`app.c`, `loop.c`) | descriptors, signal mask, exit code | `app_init`, `app_run`, `ls_loop_watch_signals`, `ls_loop_destroy`, `app_destroy` | any step fails; signals at any time | everything released; READY/STOPPING paired; right exit code |
| ICMP probe (`icmp.c`) | `sequence`, identifier, both buffers | send, receive and match, open, filter | 16-bit sequence reuse; offsets that depend on the packet; reused buffers; byte order | exactly the reply to the last request matches |
| Notifier (`notify.c`) | socket, last status, watchdog period | READY, STATUS, WATCHDOG, STOPPING | failing sends and clocks, deduplication | what is shown is true; heartbeat within systemd's deadline |
| Statistics (`stats.c`) | counters, latency accumulators | add, aggregate | saturation | min <= avg <= max |
| Configuration (`config.c`, `addr.c`) | the table position, the fields | parse, validate | limits of integers and durations | accepted as meant, rejected for a reason, safe for the monitor |
| systemd (`linkstay.service`) | unit state, starts in the window | restart on failure, start limit, stop, watchdog | a restart forgets the count; a stop meets the process anywhere | a stop ends the unit; the action is not undone by a restart |

Interactions: the loop calls the callbacks of `app.c`; those use the ICMP socket
and the timers, and ask the loop to stop. `check_threshold` runs the shutdown
command inside a callback, so the command's duration is time the loop is blind.
`app_run` wires the parts before the loop and unwinds them after it.

## 2. Modules

| Module | Models |
|---|---|
| `Base` | saturating `uint64_t` arithmetic, with the width as a parameter |
| `Loop` | the event loop; `pc` is the statement of `ls_loop_run` about to be executed |
| `Icmp` | sequence numbers, and matching of a packet reduced to the fields that are compared |
| `Monitor` | `app.c`'s callbacks on top of `Loop` and `Icmp`, composed with the environment; its safety and liveness properties |
| `Policy` | abstract specification: probes, outcomes, threshold, without time, packets or loop |
| `MonitorRefinement` | the refinement mapping from `Monitor` to `Policy` |
| `MonitorInvariant` | the inductive invariants of `Monitor` |
| `Link` | `Monitor` with a history of its link: has it been healthy, and when was the first probe of the current streak sent |
| `MCMonitor`, `MCLink` | packets and environments of the TLC instances |
| `MonitorProofs` | types, bookkeeping, what each step does |
| `MonitorSafetyProofs` | the age of packets, the failure count, the healthy link |
| `MonitorTimingProofs` | order of events, refinement, timeouts, heartbeat, detection of an outage |
| `Shutdown`, `ShutdownProofs` | the shutdown command and its observation, with the child as a concurrent process |
| `Service` | the life of the process, with signals, descriptors and exit code |
| `Supervision`, `SupervisionProofs` | `Service` composed with systemd (restart, start limit, stop) and with the failure count; the proofs about both |
| `Stats` | counters, latency accumulators and the statistics line, as operators on `ls_stats_t` |
| `Notify` | the environment contract, deduplicated STATUS and the watchdog period, as operators on `ls_notify_t` |
| `Report`, `MCReport`, `ReportProofs` | `Stats` and `Notify` driven by the probe events of `app.c`, with failing clocks and datagrams |
| `Config`, `MCConfig`, `ConfigProofs` | defaults, the table of variables, every applier, the cross-checks, the banner's durations |
| `Wire`, `MCWire`, `WireProofs` | the bytes of `icmp.c`: request, checksum, BPF filter, matching in a reused buffer |

### How the code appears in Monitor

* One action per callback and per step of the loop. A callback is atomic, as it
  is for the program's own state; packets, errors, signals and time come between
  any two steps. `probe_failed` includes the `check_threshold` that both of its
  callers run next; `on_reply_timer` includes the last drain.
* `clock` is the machine's clock, `now_ms` the loop's copy. Time passes in
  `poll(2)`, while the shutdown command is observed (`MaxAction`), and at the
  control points in the constant `Stalls`, which stand for a process that is not
  scheduled.
* `net` holds the requests that may still be answered: a request stays after an
  answer (duplicates), is answered in any order, or never. `Unrelated` are the
  packets of other traffic that a raw socket also receives. `Lifetime` bounds in
  probes how late a reply arrives. `sock_err` is a pending socket error: it hides
  readability from `dispatch_fds` and is what the next `recvfrom` returns.
* `probes`, `credited`, `last_ok`, `last_beat` and `actions` are history, read
  by properties only. The field `probe` of a packet is history too.
* Log text, latencies and STATUS messages are in `Report`, not here. Nothing in
  the program reads them back to decide anything.
* The clock that `ls_now_ms` reads (`CLOCK_MONOTONIC_COARSE`) has a granularity
  of some milliseconds. The model has a single clock, whose unit may be read as
  that granularity.

### How the parts fit together

* `Shutdown` has the part of `check_threshold` that `Monitor` reduces to a result
  and a duration: `WithinMaxAction` is what justifies the constant `MaxAction`.
* `Service` has the loop as one control point and adds what is before and after
  it; the initial state of `Monitor` is its control point `loop`.
* `Supervision` extends `Service`. Its steps in the loop are probes that fail or
  are answered; the probe that reaches the threshold takes `Service`'s step
  `threshold`. A crash leaves no chance to unwind. systemd's start-limit window
  is abstracted to a count that may be forgotten while the loop runs.
* `Config`'s `SafeForMonitor` is `Monitor`'s `ConfigAssumption`, and the part of
  its `RangeAssumption` that a configuration can break: start delay and period
  together do not take a deadline to `UINT64_MAX`.
* `Wire` takes `Icmp`'s `ls_icmp_recv` as the specification of its matching: the
  byte-level code accepts exactly the packets that `Monitor` treats as matched.

### Abstractions of data

* `Report` compares status texts as records of the values they print. The uptime
  is left out of them: two `online` texts already differ in the success ratio,
  which changes with each probe. Averages and rates are pairs (numerator,
  denominator). The conversion of nanoseconds to microseconds, which the code does
  in `double`, may round either way (`Microseconds`).
* `Config` has the text of a number as a record: does it start with a digit,
  which number do the digits spell, what follows them. What a rejected
  configuration holds is not looked at, since `main` exits.
* `Wire` has the size of a byte as a parameter. A nibble is what holds the length
  of the IPv4 header, a byte is two nibbles, a 16-bit word two bytes. With the
  code's 16 values of a nibble these are the real sizes; TLC has 4, and headers
  scaled to match, so that options fit the receive buffer and a sum carries.

## 3. What TLC checks

| Run | Question | Properties |
|---|---|---|
| `monitor_safety` | Does the policy hold when the process is held up anywhere, the command fails and takes time, system calls fail, and sequence numbers wrap? | `TypeOK` `OneProbe` `ProbeAccounting` `StreakIsReal` `NoEarlyAction` `Inductive` `ActionJustified` `ReceiveErrorIsFinal` `TimeoutFirst` `ImplementsPolicy` |
| `monitor_timing` | Does a process that is scheduled in time act on an outage in time, and meet the watchdog deadline while commands hang and the socket is in error? | `OutageDetected` `WatchdogAlive` |
| `monitor_late` | Is a probe given up only when its time is over and no reply waits, and is a healthy link never reported as failing and no burst of probes sent, although the loop wakes up late? | `HealthyLink` `NoBurst` `FullTimeout` `NoReplyLeftBehind` |
| `monitor_liveness` | Do stop signals and due probes get their turn? | `StopHonoured` `DueProbeResolved` |
| `shutdown` | Is the command believed too early, left behind, missed when it succeeds, or waited for without end? | `NotOptimistic` `NothingLeftBehind` `InTimeIsTriggered` `WithinMaxAction` `ActionReturns` |
| `supervision` | Does every way out release, announce and return what it should, and what do restarts, the start limit and stop requests make of an outage? | `ResourcesReleased` `EveryStopAnnounced` `ExitCodes` `ActionIsFinal` `StopCompletes` `OutageIsActedOn` |
| `report` | Is what systemd and the log are told true when clocks and datagrams fail, in every kind of environment? | `ShownIsCurrent` `LatencyOrder` `HeartbeatPeriod` |
| `config` | Is every text accepted as it is meant or rejected for a reason, and is what is accepted safe? | `AcceptedAsMeant` `OnlyBadRejected` `SafeForMonitor` `BannerReadsBack` |
| `wire` | Do filter, offsets and buffers accept exactly the reply, and is the checksum right? | `TypeOK` `OnlyRepliesMatch` `EveryReplyMatches` `ChecksumVerifies` |

The type invariants of `Shutdown`, `Service`, `Report` and `Config` are proved
(section 4), so their runs do not repeat them.

Three runs show a disagreement between a text of the repository and the code:

| Run | Violated | What happens |
|---|---|---|
| `drain_limit` | `NoReplyLeftBehind` | A drain reads at most 32 packets. Behind that many others, the reply of a probe is not seen, and the probe counts as failed where the comment says that no reply was waiting. |
| `stale_now` | `FullTimeout` | After a failed shutdown command that blocked the loop, the ping callback of the same pass computes the reply deadline from the clock value of before. The probe gets less than its timeout, down to nothing. |
| `late_signal` | `CleanStopExitsZero` | A watched signal that arrives after the loop's last read is delivered when the mask is restored, and kills a process that was to exit with 0. |

Some properties carry an exception or a bound that a reader of the documents
would not expect:

* `ActionIsFinal` has an exception for the same reason as `late_signal`: a SIGUSR1
  that the loop had not read when it ended kills the process while it unwinds.
  systemd counts that as a failure and starts the unit again, as after a crash.
* `HeartbeatPeriod` has an exception for a `WATCHDOG_PID` beyond `pid_t`. No process
  has such a number, but the code compares it after narrowing (`notify.c:54`), so
  one that is congruent to the own pid enables the heartbeat, where
  `copilot-instructions.md:340-342` has it disabled when the number "does not match
  `getpid()`". The environments of the run include one.
* `WithinMaxAction`: `copilot-instructions.md:288` says that the child is observed
  "for at most 1 s". That is the grace period. The loop is blocked for longer, by
  the rest of the last retry sleep and the time a killed child takes to die.
* `InTimeIsTriggered` is about a process that is not held up and whose system calls
  succeed. One that is held up at the deadline may kill and report as failed a
  command that succeeded meanwhile; it is then run again.
* `NothingLeftBehind` allows one child per failing system call, because the code
  gives up on the child in these cases.
* `OutageDetected` counts every command since the start, so that its bound is exact
  for the first outage and laxer after a recovery.
* `EveryStopAnnounced` counts a STOPPING=1 that could not be sent as announced: the
  code discards the result of that send.

The runs of `Monitor`, `Shutdown` and `Service` check for deadlock; a stopped
process stutters explicitly. `supervision`, `report`, `config` and `wire` do not,
because their systems really end: the unit is inactive or failed, the process is
done, the configuration is resolved or rejected, the packets are used up.

### Bounds

* `Monitor`: `MaxClock` lets three to five periods happen. With a threshold of 2
  that is an action, a failed action with another after it, and a streak
  interrupted by a reply. In `monitor_safety` the fourth probe reuses the number
  of the first. `monitor_late` has a threshold of 3, the shortest streak for which
  `NoBurst` asks for a period. In `monitor_liveness` two probes become due.
* `MaxQueue` of 1 or 2 packets with a drain limit of 1 or 2 has both a buffer
  that one drain empties and (`drain_limit`) one that it does not. `monitor_late`
  states its properties for buffers no larger than the limit, which is where they
  hold.
* `UINT16_MAX` is 3 or 4, so numbers wrap in the runs; `UINT64_MAX` is 63,
  beyond every deadline (`RangeAssumption`); `INT_MAX` is 3 in `monitor_timing`,
  so that the poll timeout is cut.
* `monitor_late`: the process is held up anywhere except between reading the
  clock and running the timers. `stale_now` is what happens there.
  `monitor_timing` and `monitor_liveness`: it is not held up, since a bound on
  reaction time needs a process that runs.
* `shutdown`: two calls suffice for a child left behind by the first to run
  next to the second; a grace period of 3 and a retry period of 2 make the last
  sleep go past the deadline. Each call may be held up for 1 ms anywhere.
* `supervision`: threshold, start limit and number of failures are all 3, so that
  a restart loses a count of 2, the start limit is hit, and the limit is also
  escaped by a window that expires. Two signals besides the stop request arrive
  at any control point.
* `report`: 3 probes within 8 instants, of which 2 are a microsecond and 3 a
  millisecond; `UINT64_MAX` is 20. The 15 environments have the four kinds of
  socket, unset and malformed texts, numbers beyond the type, a process id that
  is the process's own, another's or beyond the id space, and periods around
  the 2 ms below which half of it rounds to zero.
* `config`: numbers around 0, `INT_MAX`, `INT_MAX` seconds, and the values whose
  product with 1000 (here 3) wraps around `UINT64_MAX`, each with every suffix.
* `wire`: both families, both byte orders, with and without the filter; start
  sequences at the wrap-around and at the byte boundaries, process ids whose low
  16 bits are zero and not, empty packets, packets one byte short of the ICMP
  header and whole ones, with and without options. Three sends and two receives reuse both buffers.

### Fairness

* `Monitor`: weak fairness of the process, since the kernel schedules a runnable
  process. Nothing is assumed of the network. `StopHonoured` is conditional on
  SIGUSR1 not arriving for ever, because one signal is read per pass, the lowest
  number first.
* `Shutdown`: the observation takes its next step, time passes, and a process
  that was sent SIGKILL dies. A command that was not killed may hang for ever, and
  no system call has to fail.
* `Supervision`: the process takes its next step during startup and unwinding, its
  loop reads a pending signal and ends probes again and again (`monitor_liveness`
  shows both of the real loop), and systemd reaps and restarts. Failures are
  bounded by `MaxFailures`: with a process that fails for ever nothing can be
  promised.

## 4. What is proved

For all values of the constants that satisfy the named assumptions:

| Module | Theorem | Property |
|---|---|---|
| `MonitorProofs` | `TypeCorrect`, `BooksHold` | `TypeOK` |
| `MonitorSafetyProofs` | `Invariance` | `Inductive` |
| | `OneProbeAtATime` | `OneProbe` |
| | `EveryProbeCounted` | `ProbeAccounting` |
| | `StreaksAreReal` | `StreakIsReal` |
| | `ActionsAreNotEarly` | `NoEarlyAction` |
| | `ActionsAreJustified` | `ActionJustified` |
| | `RepliesAreNotOverlooked` | `NoReplyLeftBehind`, if `MaxQueue` is at most the drain limit |
| | `HealthyLinkNeverFails` | `HealthyLink`, if also the process is not held up in the timers |
| | `ProbesKeepPace` | `NoBurst` |
| `MonitorTimingProofs` | `ReceiveErrorsAreFinal` | `ReceiveErrorIsFinal` |
| | `TimeoutsComeFirst` | `TimeoutFirst` |
| | `MonitorImplementsPolicy` | `ImplementsPolicy` |
| | `TimeoutsAreWhole` | `FullTimeout`, if the process is not held up in the timers and commands take no time |
| | `HeartbeatsArrive` | `WatchdogAlive`, if the process is not held up, datagrams arrive, and two commands take no longer than half the deadline |
| | `OutagesAreDetected` | `OutageDetected`, if the process is not held up |
| `ShutdownProofs` | `ShutdownInvariance`, `ShutdownTypes` | `TypeOK` |
| | `NeverOptimistic` | `NotOptimistic` |
| | `NoChildIsLeft` | `NothingLeftBehind` |
| | `SuccessIsSeen` | `InTimeIsTriggered` |
| | `ActionIsBounded` | `WithinMaxAction` |
| `SupervisionProofs` | `ServiceInvariance`, `ServiceTypes` | `TypeOK` |
| | `AllIsReleased` | `ResourcesReleased` |
| | `StopsAreAnnounced` | `EveryStopAnnounced` |
| | `ExitCodesAreRight` | `ExitCodes` |
| | `UnitInvariance`, `ActionsAreFinal` | `ActionIsFinal` |
| `ReportProofs` | `ReportInvariance`, `ReportTypes` | `TypeOK` |
| | `StatusIsShown` | `ShownIsCurrent` |
| | `LatenciesAreOrdered` | `LatencyOrder` |
| | `HeartbeatsAreInTime` | `HeartbeatPeriod` |
| `ConfigProofs` | `ConfigInvariance`, `ConfigTypes` | `TypeOK` |
| | `TextsAreUnderstood` | `AcceptedAsMeant` |
| | `NoneIsRejectedWrongly` | `OnlyBadRejected` |
| | `ResolvedIsSafe` | `SafeForMonitor` |
| | `BannerIsTrue` | `BannerReadsBack` |
| `WireProofs` | `WireTypes` | `TypeOK` |
| | `VerdictsAreExact`, `NoFalseMatch` | `OnlyRepliesMatch` |
| | `NoReplyMissed` | `EveryReplyMatches` |
| | `ChecksumsVerify` | `ChecksumVerifies` |

Assumptions of `Monitor`: `ConfigAssumption` (what `config.c` validates, see
`ResolvedIsSafe`), `EnvironmentAssumption` (an unrelated packet is not a reply of
the target with our identifier, except with sequence 0), `RangeAssumption` (no
deadline reaches `UINT64_MAX`), `LifetimeAssumption`
(`Lifetime + MaxQueue <= UINT16_MAX`: no packet is on its way or in the buffer
until its number is used again). The last one is needed because 16 bits are all
that the code compares: a reply older than one round of the sequence would be
taken for the reply to the current probe. The other modules assume the order of
the widths of the types, positive units, and clocks below `UINT64_MAX`. `Wire`
assumes an even packet size for which the sum of the words fits in 32 bits, and a
receive buffer that holds the longest IPv4 header and an ICMP header
(`WireAssumption`); the fields and the lengths of arriving packets are arbitrary.

Five theorems about `Monitor` have a hypothesis of their own, which their run
shares. None can be dropped:

* `Stalls = {}` (`OutagesAreDetected`, `HeartbeatsArrive`): a bound on reaction
  time says nothing of a process that is not scheduled.
* `Stalls \cap Timers = {}`, `poweroff => MaxAction = 0` (`TimeoutsAreWhole`) and
  `MaxQueue <= LS_MAX_REPLY_DRAIN_PER_WAKEUP` (`RepliesAreNotOverlooked`): the
  runs `stale_now` and `drain_limit` show what happens otherwise.
  `HealthyLinkNeverFails` needs the first and the last of them.
* `2 * MaxAction <= watchdog_interval_ms` (`HeartbeatsArrive`): one pass may run
  the shutdown command twice, for a probe that timed out and for a send that is
  refused right after it. The code observes a command for 1 s (`LS_STARTUP_GRACE_MS`)
  and the unit has `WatchdogSec=30`, so two commands are far below the 15 s. The
  theorem needs datagrams to arrive too, since a heartbeat that is not sent is not
  received.

### The arguments

`Monitor` (`MonitorInvariant`):

* `Control`: the loop leaves as soon as it is asked to, `now_ms` is never ahead
  of the clock, and the ping slot is reached only with no due reply timer. The
  last part gives `TimeoutFirst`.
* `Schedule`: the ping deadline is at least `start_delay_ms` plus one period per
  probe. It pays for every probe in advance, counted from the start. With `Counts`
  it gives `NoEarlyAction`. It says nothing of a burst later on, which the time
  that went by would have paid for: that is `NoBurst`.
* `Pace` gives `NoBurst`: from the first probe of a streak on, each probe moves the
  ping deadline by a period, and `ls_timer_step` leaves no deadline behind the
  clock of its pass, so that no more than one probe is ever owed.
* `OneProbe`, `ProbeAccounting`: inductive together with the types.
* `Ages`: why a stale packet is never taken for the current reply. A request
  leaves the network after `Lifetime` probes. A buffered packet gets older only
  when a probe is sent, and between two probes the loop has polled, and if the
  socket was readable it has read a packet; so the age of a packet plus its place
  in the buffer is bounded by `Lifetime + MaxQueue`. `Numbered` ties a sequence
  number to a probe as long as that bound is below `UINT16_MAX`. Hence an
  accepted reply answers the last probe, which gives `StreakIsReal`.
* `Books` is all of this but `Ages` and `StreakIsReal`. The theorems of
  `MonitorTimingProofs` rest on it alone: neither the order of events nor the
  timing depends on the age of packets.
* `Genuine` and `Ages` give `NoReplyLeftBehind`: a buffered packet that answers
  the current probe has its number, so a drain that reaches it accepts it.
  `Reach` gives `HealthyLink`: on a healthy link the reply is on its way or in the
  buffer, and in the buffer once the reply timer is due.
* `Heartbeat`: the watchdog timer is examined in every pass before anything takes
  time. So a heartbeat is late by at most the commands of one pass.
* `Detection`: `OutageDetected` bounds the clock while the process has not stopped.
  The time since the last reply is at most `fail_threshold` periods and one timeout,
  plus a period, a timeout and the time of the command (`Retry`) for each command
  that has failed. Before the threshold (`Punctual`) every probe of the outage is
  sent by `Due`. The difficulty is the skipped period: a probe still outstanding
  when the next one is due makes `on_ping_timer` skip. That happens only to a probe
  that was sent late, right after the last success, and the skip makes up for it.
  After the threshold (`Overdue`) a command has blocked the loop, whose `now_ms`
  is then stale; the next `poll(2)` sleeps too long by just that time (`Lag`), and
  the next probe may have to be skipped once. One `Retry` pays for both. A
  bound without that timeout would not hold.

`Shutdown`: `Calling` and `Left` say which children each control point can leave;
`Progress` bounds the clock at each control point (by the deadline plus one
sleep, plus `KillTime` in the last `waitpid`), which gives `WithinMaxAction`;
`EndedLate` says that a child found running at the deadline ended later, which
gives `InTimeIsTriggered`; `Asked` says that exit code 0 implies the request.

`Service` has an invariant by control point: what is open, what is blocked, what
has been told. Signals cannot be delivered while the loop is wired
(`WiredIsSafe`). `Supervision` keeps that invariant across restarts and adds that
a killed process died of a signal that was pending, and that systemd restarts only
failures (`Ending`).

`Report`: what the notifier remembers as its last status is what systemd shows
(`Remembered`), which makes the deduplication safe. The latencies add up to at
most the time at which the last probe ended (`Limit`, `Accumulated`), because
probes do not overlap: so the sum never saturates, and average and extremes stay
in order. The notifier keeps the period that its environment asked for
(`Contract`), and `Period` is the arithmetic of that period and of the narrowed pid.

`Config`: up to the current variable every field has the value that its text
denotes (`Meant`); the rest is arithmetic about the appliers, in particular that
the checked multiplication and the two limits never let a wrapped value through,
and that a printed duration reads back (`PrintedReadsBack`).

`Wire`: `Exact` says that the verdict on the packet delivered last is that of
`Icmp`'s `ls_icmp_recv` on its fields. It is no invariant of the buffers, since
the bytes behind a short packet are those of an earlier one: the proof shows that
no such byte decides, by the lengths that are checked first. The checksum needs
facts about every number and every buffer, by induction: `Carry` folds a sum to a
word congruent to it modulo `UINT16_MAX` (`CarryValue`); sums of words in the
byte order of the host and of the network are congruent up to a factor `BYTE`
(`SumsScale`), which is invertible because `BYTE * BYTE` is congruent to 1; and
storing the complement makes the sum congruent to 0 and not 0. The library's
induction theorems cannot be used with these provers. Each such lemma takes the
least number that refutes it instead (`LeastNatural`, `Rounds`) and derives a
contradiction.

### Only model-checked

* Liveness: `StopHonoured`, `DueProbeResolved`, `ActionReturns`, `StopCompletes`,
  `OutageIsActedOn`. Liveness under fairness and ENABLED are out of the prover's
  reach.

All invariants and action properties of the passing runs are stated by a theorem.

## 5. Not modelled

* Logging, and the texts of latencies, uptimes and errors: output only; no
  decision and no property depends on them. The same holds for `ls_config_dump`.
* The parsing of addresses: `addr.c` hands it to `inet_pton`. `Config` only knows
  whether a target is a literal, and of which family.
* The registration limits of the loop: three timers and two descriptors are
  registered at fixed places, and the slots are sized for them.
* `TimeoutStartSec` and `TimeoutStopSec` as clocks: `StopCompletes` shows that a
  stop needs no timeout to complete.
* The width of `consecutive_fails`: it would take 2^31 failed probes with a
  failing poweroff command to overflow, which no bound of these models reaches.
* One composition of everything: the loop of `Supervision` is abstract, and its
  assumptions about it are what `Monitor` shows of the real one.
