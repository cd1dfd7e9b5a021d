------------------------------- MODULE Icmp -------------------------------
(***************************************************************************)
(* The echo probe of icmp.c as app.c sees it: the sequence number of the   *)
(* next request, and which received packet is the reply to a request.  A   *)
(* packet keeps the fields that the matching reads; probe is not a field   *)
(* of the packet but the number of the probe it answers (0 for none), and  *)
(* only the properties look at it.                                         *)
(***************************************************************************)
EXTENDS Base

CONSTANT UINT16_MAX   \* largest sequence number

ASSUME Uint16Assumption == UINT16_MAX \in Nat \ {0}

Uint16 == 0 .. UINT16_MAX

Packet == [from : {"target", "other"}, type : {"echo_reply", "other"},
           id : {"self", "other"}, seq : Uint16, probe : Nat]

\* Mutant: the sequence does not wrap.
next_sequence_no_wrap(s) == s + 1

\* Sequence numbers run from 1 to UINT16_MAX and start over at 1.
next_sequence(s) == IF s = UINT16_MAX THEN 1 ELSE s + 1

source_matches(p) == p.from = "target"

\* Mutant: the sequence number is not compared.
reply_matches_any_seq(p, expected_sequence) ==
  p.type = "echo_reply" /\ p.id = "self"

reply_matches(p, expected_sequence) ==
  /\ p.type = "echo_reply"
  /\ p.id = "self"
  /\ p.seq = expected_sequence

\* What ls_icmp_recv reports for the packet at the head of the socket buffer.
ls_icmp_recv(p, expected_sequence) ==
  IF source_matches(p) /\ reply_matches(p, expected_sequence)
  THEN "MATCHED" ELSE "IGNORED"

\* The echo reply of the target to the request of a probe.
Reply(request) == [from |-> "target", type |-> "echo_reply", id |-> "self",
                   seq |-> request.seq, probe |-> request.probe]
=============================================================================
