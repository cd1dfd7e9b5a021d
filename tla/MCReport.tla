------------------------------ MODULE MCReport -----------------------------
(***************************************************************************)
(* Instance of Report: an environment of each kind that ls_notify_init     *)
(* tells apart, with watchdog periods around the roundings.                *)
(***************************************************************************)
EXTENDS Report

Unset == [form |-> "unset", n |-> 0]
Malformed == [form |-> "malformed", n |-> 0]
Spelled(k) == [form |-> "number", n |-> k]

Systemd(socket, usec, pid) ==
  [socket |-> socket, watchdog_usec |-> usec, watchdog_pid |-> pid, pid |-> 2]

Environments ==
  {Systemd(s, Spelled(4), Unset) : s \in {"unset", "invalid", "refused"}} \cup
  {Systemd("connects", Spelled(k), Unset) :
     k \in {0, 1, 3, 4, UINT64_MAX + 1}} \cup
  {Systemd("connects", Spelled(7), pid) :
     pid \in {Malformed, Spelled(1), Spelled(2 + PID_SPACE),
              Spelled(2 + UINT64_MAX)}} \cup
  {Systemd("connects", usec, Spelled(2)) :
     usec \in {Unset, Malformed, Spelled(UINT64_MAX)}}
=============================================================================
