----------------------------- MODULE MCMonitor -----------------------------
(***************************************************************************)
(* Monitor on small instances: the packets that are not replies to a probe *)
(* of ours, and where the process is held up.                              *)
(***************************************************************************)
EXTENDS MonitorInvariant

Pkt(from, type, id, seq) ==
  [from |-> from, type |-> type, id |-> id, seq |-> seq, probe |-> 0]

\* A reply to another process pinging the target, a reply from another host,
\* our own request looped back by a local target, and a reply with sequence 0
\* to a process that shares our identifier.
AllUnrelated == {Pkt("target", "echo_reply", "other", 1),
                 Pkt("other", "echo_reply", "self", 1),
                 Pkt("target", "other", "self", 1),
                 Pkt("target", "echo_reply", "self", 0)}

OneUnrelated == {Pkt("target", "echo_reply", "self", 0)}

\* Held up anywhere; held up anywhere but between reading the clock and
\* running the timers.
Anywhere == PCs
OutsideTimers == PCs \ Timers
=============================================================================
