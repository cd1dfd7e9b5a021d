------------------------------- MODULE MCWire ------------------------------
(***************************************************************************)
(* Instance of Wire: bytes of 16 values, an IPv4 header of two units, and  *)
(* a process identifier whose low bits are 0.                              *)
(***************************************************************************)
EXTENDS Wire

EchoType == [v4 |-> 8, v6 |-> 14]
EchoReplyType == [v4 |-> 0, v6 |-> 15]
=============================================================================
