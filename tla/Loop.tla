------------------------------- MODULE Loop -------------------------------
(***************************************************************************)
(* The single-threaded event loop of loop.c and loop.h: the clock it reads *)
(* once per pass, its timer slots (absolute deadlines, UINT64_MAX meaning  *)
(* disarmed), poll(2) with the timeout computed from the nearest deadline, *)
(* and the order in which timers fire and descriptors are dispatched.      *)
(*                                                                         *)
(* pc names the statement of ls_loop_run the process is about to execute:  *)
(*   "refresh"                      refresh_now at the top of the loop     *)
(*   "watchdog", "reply", "ping"    the timer slots, in registration order *)
(*   "poll", "polling"              the call of poll(2), and blocked in it *)
(*   "wakeup"                       refresh_now after poll returned > 0    *)
(*   "signalfd", "icmpfd"           the descriptor slots, in slot order    *)
(*   "stopped"                      ls_loop_run has returned               *)
(* The callbacks are actions of the module that extends this one.          *)
(***************************************************************************)
EXTENDS Base, FiniteSetsExt

CONSTANTS
  INT_MAX,    \* largest poll(2) timeout
  MaxClock,   \* bound: the last clock value of a behaviour
  Stalls      \* control points at which the process may be held up, so that
              \* time passes there although it is not waiting

Timers == {"watchdog", "reply", "ping"}
Fds == {"signalfd", "icmpfd"}
Events == {"none", "in", "err"}
PCs == {"refresh", "poll", "polling", "wakeup", "stopped"} \cup Timers \cup Fds

ASSUME LoopAssumption ==
  /\ INT_MAX \in Nat \ {0}
  /\ MaxClock \in Nat
  /\ Stalls \subseteq PCs

VARIABLES
  clock,      \* the monotonic clock of the machine, in ms
  pc,         \* control state, see above
  now_ms,     \* loop->now_ms, the clock value the loop works with
  deadline,   \* deadline[t]: deadline_ms of timer t
  wake,       \* clock value at which the current poll(2) times out, 0 outside it
  revents,    \* revents[fd]: what the last poll(2) reported
  stopping,   \* loop->stopping
  exit_code   \* loop->exit_code

loopVars == <<clock, pc, now_ms, deadline, wake, revents, stopping, exit_code>>

LS_EXIT_SUCCESS == 0
LS_EXIT_FAILURE == 1

-----------------------------------------------------------------------------
(* Timer operations, on the deadline of a timer.                           *)

Disarmed == UINT64_MAX

ls_timer_armed(d) == d # Disarmed

ls_timer_arm_after(base_ms, delta_ms) == ls_add_sat(base_ms, delta_ms)

\* Mutant: missed periods are all made up for.
ls_timer_step_no_skip(d, interval, now) ==
  IF interval = 0 THEN Disarmed
  ELSE ls_add_sat(IF ls_timer_armed(d) THEN d ELSE now, interval)

\* The next deadline of a periodic timer: in phase with the last one unless
\* that would already be in the past.
ls_timer_step(d, interval, now) ==
  IF interval = 0 THEN Disarmed
  ELSE LET next == ls_add_sat(IF ls_timer_armed(d) THEN d ELSE now, interval)
       IN  IF next < now THEN ls_add_sat(now, interval) ELSE next

Elapsed(t) == ls_timer_armed(deadline[t]) /\ now_ms >= deadline[t]

-----------------------------------------------------------------------------
(* Control flow of ls_loop_run.                                            *)

LoopInit(first) ==
  /\ clock = 0
  /\ pc = "refresh"
  /\ now_ms = 0
  /\ deadline = first
  /\ wake = 0
  /\ revents = [fd \in Fds |-> "none"]
  /\ stopping = FALSE
  /\ exit_code = LS_EXIT_SUCCESS

ls_loop_stop(code) == stopping' = TRUE /\ exit_code' = code

KeepRunning == UNCHANGED <<stopping, exit_code>>

\* Control after a callback: the next slot, unless the callback stopped the loop.
Continue(slot) == pc' = IF stopping' THEN "stopped" ELSE slot

\* refresh_now, at the top of the loop and after poll(2).
refresh_now ==
  /\ \/ pc = "refresh" /\ pc' = "watchdog"
     \/ pc = "wakeup" /\ pc' = "signalfd"
  /\ now_ms' = clock
  /\ UNCHANGED <<clock, deadline, wake, revents, stopping, exit_code>>

\* refresh_now when the clock cannot be read.
refresh_now_fails ==
  /\ pc \in {"refresh", "wakeup"}
  /\ ls_loop_stop(LS_EXIT_FAILURE)
  /\ pc' = "stopped"
  /\ UNCHANGED <<clock, now_ms, deadline, wake, revents>>

\* Mutant: the ping timer was registered before the reply timer.
NextSlot_ping_first == [watchdog |-> "ping", ping |-> "reply", reply |-> "poll"]

\* The slot that fire_timers examines after t, or poll(2) after the last one.
NextSlot == [watchdog |-> "reply", reply |-> "ping", ping |-> "poll"]

\* fire_timers passes over a timer that is disarmed or not yet due.
skip_timer(t) ==
  /\ pc = t
  /\ ~Elapsed(t)
  /\ pc' = NextSlot[t]
  /\ UNCHANGED <<clock, now_ms, deadline, wake, revents, stopping, exit_code>>

\* Mutant: the poll timeout does not look at the watchdog timer.
nearest_without_watchdog == Min({deadline[t] : t \in {"reply", "ping"}})

nearest == Min({deadline[t] : t \in Timers})

poll_timeout_ms ==
  IF nearest = UINT64_MAX THEN -1
  ELSE IF nearest <= now_ms THEN 0
  ELSE Min({nearest - now_ms, INT_MAX})

\* The call of poll(2): it blocks until a descriptor is ready or the timeout,
\* counted from the moment of the call, has passed.
poll ==
  /\ pc = "poll"
  /\ wake' = IF poll_timeout_ms = -1 THEN UINT64_MAX ELSE clock + poll_timeout_ms
  /\ pc' = "polling"
  /\ UNCHANGED <<clock, now_ms, deadline, revents, stopping, exit_code>>

\* poll(2) returns > 0 with the events of the descriptors.
poll_ready(events) ==
  /\ pc = "polling"
  /\ \E fd \in Fds : events[fd] # "none"
  /\ revents' = events
  /\ wake' = 0
  /\ pc' = "wakeup"
  /\ UNCHANGED <<clock, now_ms, deadline, stopping, exit_code>>

\* poll(2) returns 0 at its timeout, or -1 with EINTR at any time.
poll_empty(events) ==
  /\ pc = "polling"
  /\ \A fd \in Fds : events[fd] = "none"
  /\ wake' = 0
  /\ pc' = "refresh"
  /\ UNCHANGED <<clock, now_ms, deadline, revents, stopping, exit_code>>

\* poll(2) returns -1 with any other errno.
poll_fails ==
  /\ pc = "polling"
  /\ ls_loop_stop(LS_EXIT_FAILURE)
  /\ wake' = 0
  /\ pc' = "stopped"
  /\ UNCHANGED <<clock, now_ms, deadline, revents>>

\* Mutant: the loop polls again without firing timers after a wakeup.
NextFd_no_timers == [signalfd |-> "icmpfd", icmpfd |-> "poll"]

\* Mutant: only the first descriptor slot is examined.
NextFd_first_only == [signalfd |-> "refresh", icmpfd |-> "refresh"]

\* The slot that dispatch_fds examines after fd, or the top of the loop.
NextFd == [signalfd |-> "icmpfd", icmpfd |-> "refresh"]

\* dispatch_fds has nothing to do for fd, or fd is the non-critical icmpfd and
\* is in error: readable or not, its callback is not run.
skip_fd(fd) ==
  /\ pc = fd
  /\ \/ revents[fd] = "none"
     \/ revents[fd] = "err" /\ fd = "icmpfd"
  /\ pc' = NextFd[fd]
  /\ UNCHANGED <<clock, now_ms, deadline, wake, revents, stopping, exit_code>>

\* An error of the critical signalfd stops the loop.
critical_fd_fails ==
  /\ pc = "signalfd"
  /\ revents["signalfd"] = "err"
  /\ ls_loop_stop(LS_EXIT_FAILURE)
  /\ pc' = "stopped"
  /\ UNCHANGED <<clock, now_ms, deadline, wake, revents>>

-----------------------------------------------------------------------------
\* Time passes while the process waits in poll(2) and where it is held up.
Tick(blocked) ==
  /\ clock < MaxClock
  /\ pc \in Stalls \/ (pc = "polling" /\ clock < wake /\ blocked)
  /\ clock' = clock + 1
  /\ UNCHANGED <<pc, now_ms, deadline, wake, revents, stopping, exit_code>>

LoopTypeOK ==
  /\ clock \in 0 .. MaxClock
  /\ pc \in PCs
  /\ now_ms \in 0 .. MaxClock
  /\ deadline \in [Timers -> Uint64]
  /\ wake \in Nat
  /\ revents \in [Fds -> Events]
  /\ stopping \in BOOLEAN
  /\ exit_code \in {LS_EXIT_SUCCESS, LS_EXIT_FAILURE}
=============================================================================
