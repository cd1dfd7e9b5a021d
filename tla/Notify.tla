------------------------------- MODULE Notify ------------------------------
(***************************************************************************)
(* The systemd notifier of notify.c as operators on its record.  systemd   *)
(* passes the socket and the watchdog contract in environment variables;   *)
(* a variable may be unset, malformed, or spell a number, which may be too *)
(* large for the type it is read into.                                     *)
(***************************************************************************)
EXTENDS Base

CONSTANTS
  DEDUP_WINDOW_MS,   \* LS_NOTIFY_DEDUP_WINDOW_MS
  USEC_PER_MS,       \* 1000
  PID_SPACE          \* number of values of pid_t

ASSUME NotifyAssumption == /\ DEDUP_WINDOW_MS \in Nat
                           /\ USEC_PER_MS \in Nat \ {0}
                           /\ PID_SPACE \in Nat \ {0}
                           /\ PID_SPACE <= UINT64_MAX \div 2

Text == [form : {"unset", "malformed", "number"}, n : Nat]

NoStatus == [kind |-> "none"]

\* parse_uint64: a decimal uint64_t and nothing else.
parse_uint64(text) == text.form = "number" /\ text.n <= UINT64_MAX

\* WATCHDOG_PID names this process, or nobody in particular; the number is
\* read as a long and narrowed to pid_t before it is compared.
watchdog_pid_matches_self(text, pid) ==
  \/ text.form = "unset"
  \/ /\ text.form = "number" /\ text.n \in 1 .. UINT64_MAX \div 2
     /\ text.n % PID_SPACE = pid

\* The notifier, whose socket systemd's path leads to, or the closed one.
ls_notify_init(env) ==
  [opened |-> env.socket = "connects",
   watchdog_usec |-> IF /\ env.socket = "connects"
                        /\ parse_uint64(env.watchdog_usec)
                        /\ watchdog_pid_matches_self(env.watchdog_pid, env.pid)
                     THEN env.watchdog_usec.n ELSE 0,
   last_status |-> NoStatus,
   last_status_ms |-> 0]

ls_notify_destroy(n) == [n EXCEPT !.opened = FALSE]

\* Mutant: any status is held back within the window.
Duplicate_any(n, status, now_ms) ==
  /\ n.last_status_ms # 0
  /\ now_ms # UINT64_MAX
  /\ (now_ms - n.last_status_ms) % (UINT64_MAX + 1) < DEDUP_WINDOW_MS

\* A status equal to the last one delivered, within the window after it.
Duplicate(n, status, now_ms) ==
  /\ n.last_status = status
  /\ n.last_status_ms # 0
  /\ now_ms # UINT64_MAX
  /\ (now_ms - n.last_status_ms) % (UINT64_MAX + 1) < DEDUP_WINDOW_MS

\* notify_status: what the call returns, whether it sends a datagram that
\* systemd receives, and the notifier after it.  sends says whether the socket
\* takes a datagram now.
notify_status(n, status, now_ms, sends) ==
  IF ~n.opened THEN [ok |-> FALSE, delivered |-> FALSE, notify |-> n]
  ELSE IF Duplicate(n, status, now_ms)
  THEN [ok |-> TRUE, delivered |-> FALSE, notify |-> n]
  ELSE IF ~sends THEN [ok |-> FALSE, delivered |-> FALSE, notify |-> n]
  ELSE [ok |-> TRUE, delivered |-> TRUE,
        notify |-> [n EXCEPT !.last_status = status, !.last_status_ms =
                               IF now_ms = UINT64_MAX THEN 0 ELSE now_ms]]

\* Mutant: the period of the heartbeat is rounded down to nothing.
ls_notify_watchdog_interval_zero(n) ==
  IF ~n.opened \/ n.watchdog_usec = 0 THEN 0
  ELSE n.watchdog_usec \div (USEC_PER_MS * 2)

ls_notify_watchdog_interval_ms(n) ==
  IF ~n.opened \/ n.watchdog_usec = 0 THEN 0
  ELSE LET half == n.watchdog_usec \div (USEC_PER_MS * 2)
       IN  IF half = 0 THEN 1 ELSE half
=============================================================================
