-------------------------------- MODULE Wire -------------------------------
(***************************************************************************)
(* The bytes of icmp.c: how an echo request is built in the reused send    *)
(* buffer, and how a packet is recognised in the reused receive buffer,    *)
(* behind the kernel's BPF filter.  The abstract view that module Monitor  *)
(* uses is module Icmp; here every field is at its place in a buffer.      *)
(*                                                                         *)
(* The size of a byte is a parameter (a byte holds two nibbles, a 16-bit   *)
(* word two bytes), and so is the length of the IPv4 header.  The layout   *)
(* of the ICMP header is the real one: type 0, code 1, checksum 2-3,       *)
(* identifier 4-5, sequence 6-7.  For IPv4 the socket delivers the IP      *)
(* header first, for IPv6 it does not.                                     *)
(***************************************************************************)
EXTENDS Icmp, FiniteSetsExt

CONSTANTS
  NIBBLE,                      \* values of a nibble, 16
  IP_WORD, IP_HDR,             \* bytes of a unit of ip_hl and of struct ip
  PACKET_SIZE,                 \* LS_PACKET_SIZE, even
  RECV_BUF,                    \* LS_ICMP_RECV_BUFFER_SIZE
  ECHO, ECHO_REPLY,            \* types of the two families' echo messages
  Pids, Starts,                \* process identifiers, first sequence numbers
  Types, Ids, Seqs, Lens,      \* fields and lengths of arriving messages
  MaxSends, MaxReceived        \* bounds

BYTE == NIBBLE * NIBBLE
WORD16 == UINT16_MAX + 1
ICMP_HDR == 8
IP_P == 1            \* offset of the protocol in the IPv4 header
IPPROTO_ICMP == 1
MaxOptions == (NIBBLE - 1) - IP_HDR \div IP_WORD   \* units of IPv4 options

ASSUME WireAssumption ==
  /\ {NIBBLE, IP_WORD, IP_HDR, PACKET_SIZE, RECV_BUF, MaxSends, MaxReceived}
       \subseteq Nat \ {0}
  /\ WORD16 = BYTE * BYTE
  /\ IP_HDR > IP_P /\ IP_HDR % IP_WORD = 0 /\ IP_HDR \div IP_WORD < NIBBLE
  /\ PACKET_SIZE >= ICMP_HDR /\ PACKET_SIZE % 2 = 0
  /\ PACKET_SIZE \div 2 <= WORD16   \* the sum of the words fits in 32 bits
  /\ RECV_BUF >= (NIBBLE - 1) * IP_WORD + ICMP_HDR
  /\ ECHO \in [{"v4", "v6"} -> 0 .. BYTE - 1]
  /\ ECHO_REPLY \in [{"v4", "v6"} -> 0 .. BYTE - 1]
  /\ Pids \subseteq Nat \ {0} /\ Starts \subseteq Uint16
  /\ Types \subseteq 0 .. BYTE - 1 /\ Ids \cup Seqs \subseteq Uint16 /\ Lens \subseteq Nat

VARIABLES
  family,      \* of the target and the socket
  little,      \* the host is little-endian
  bpf,         \* the filter is attached
  identifier,  \* of app_t
  sequence, send_buf, recv_buf,   \* fields of ls_icmp_t
  sends, received,                \* requests built, packets delivered
  last         \* the packet delivered last and what became of it

vars == <<family, little, bpf, identifier, sequence, send_buf, recv_buf,
          sends, received, last>>

Buffer(n) == [0 .. n - 1 -> 0 .. BYTE - 1]

Hi(w) == w \div BYTE
Lo(w) == w % BYTE

\* The low bits of the process identifier, never 0.
IdentifierOf(pid) == IF pid % WORD16 = 0 THEN 1 ELSE pid % WORD16

\* ntohs of the field at offset k.
ntohs(buf, k) == buf[k] * BYTE + buf[k + 1]

\* while (sum >> 16) sum = (sum & 0xFFFF) + (sum >> 16)
Carry[sum \in Nat] ==
  IF sum < WORD16 THEN sum ELSE Carry[(sum % WORD16) + (sum \div WORD16)]

\* The 16-bit word at offset k as the host reads it.
Native(buf, k) ==
  IF little THEN buf[k] + BYTE * buf[k + 1] ELSE ntohs(buf, k)

\* The sum after k rounds of a loop over n words.
Sums(word, n) ==
  LET sum[k \in 0 .. n] == IF k = 0 THEN 0 ELSE sum[k - 1] + word[k - 1]
  IN  sum

icmp_checksum(buf, len) ==
  LET n == len \div 2
      words == Sums([i \in 0 .. n - 1 |-> Native(buf, 2 * i)], n)[n]
      odd == IF len % 2 = 1 THEN buf[len - 1] ELSE 0
  IN  UINT16_MAX - Carry[words + odd]

\* The byte at offset k of the payload.
fill_payload(k) == (k - ICMP_HDR) % BYTE

\* The request before its checksum.
RequestByte(k, seq) ==
  CASE k = 0 -> ECHO[family]
    [] k = 4 -> Hi(identifier) [] k = 5 -> Lo(identifier)
    [] k = 6 -> Hi(seq)        [] k = 7 -> Lo(seq)
    [] k \in 1 .. 3 -> 0
    [] OTHER -> fill_payload(k)

\* Mutant: the header is not cleared first.
BuildRequest_stale(seq) ==
  LET buf == [k \in DOMAIN send_buf |->
                IF k \in 2 .. 3 THEN send_buf[k] ELSE RequestByte(k, seq)]
      sum == icmp_checksum(buf, PACKET_SIZE)
  IN  IF family = "v6" THEN buf
      ELSE [buf EXCEPT ![2] = IF little THEN Lo(sum) ELSE Hi(sum),
                       ![3] = IF little THEN Hi(sum) ELSE Lo(sum)]

\* The request in the send buffer.  The checksum is stored as the host reads
\* words; for IPv6 the kernel computes it.
BuildRequest(seq) ==
  LET buf == [k \in DOMAIN send_buf |-> RequestByte(k, seq)]
      sum == icmp_checksum(buf, PACKET_SIZE)
  IN  IF family = "v6" THEN buf
      ELSE [buf EXCEPT ![2] = IF little THEN Lo(sum) ELSE Hi(sum),
                       ![3] = IF little THEN Hi(sum) ELSE Lo(sum)]

\* A packet on its way to the socket: options is the length of the options in
\* the IPv4 header, len that of the ICMP part.
WirePacket == [from : {"target", "other"}, options : 0 .. MaxOptions,
               type : 0 .. BYTE - 1, id : Uint16, seq : Uint16, len : Nat]

HeaderLen(p) == IF family = "v6" THEN 0 ELSE IP_HDR + p.options * IP_WORD

\* The bytes of the packet as the kernel hands them to the socket.
Delivered(p) ==
  [k \in 0 .. HeaderLen(p) + p.len - 1 |->
     LET j == k - HeaderLen(p) IN
     CASE j < 0 /\ k = 0 -> NIBBLE + (HeaderLen(p) \div IP_WORD)
       [] j < 0 /\ k = IP_P -> IPPROTO_ICMP
       [] j < 0 /\ k >= IP_HDR -> 1   \* IPOPT_NOP
       [] j = 0 -> p.type
       [] j = 4 -> Hi(p.id)  [] j = 5 -> Lo(p.id)
       [] j = 6 -> Hi(p.seq) [] j = 7 -> Lo(p.seq)
       [] OTHER -> 0]

\* Mutant: the IPv4 filter ignores the options.
attach_family_filter_fixed(packet) ==
  LET x == IF family = "v4" THEN IP_HDR ELSE 0
  IN  x \in DOMAIN packet /\ packet[x] = ECHO_REPLY[family]

\* The filter program: it keeps the packets whose type is an echo reply, and
\* drops those too short to tell.
attach_family_filter(packet) ==
  LET x == IF family = "v4" THEN (packet[0] % NIBBLE) * IP_WORD ELSE 0
  IN  x \in DOMAIN packet /\ packet[x] = ECHO_REPLY[family]

\* Mutant: the length of the packet is not compared with the headers.
buffer_matches_stale(buf, n, expected_sequence) ==
  LET hdr == IF family = "v4" THEN (buf[0] % NIBBLE) * IP_WORD ELSE 0
  IN  /\ buf[hdr] = ECHO_REPLY[family]
      /\ ntohs(buf, hdr + 4) = identifier
      /\ ntohs(buf, hdr + 6) = expected_sequence

\* reply_matches, on the first n bytes of the buffer.
buffer_matches(buf, n, expected_sequence) ==
  LET hdr == IF family = "v4" THEN (buf[0] % NIBBLE) * IP_WORD ELSE 0
  IN  /\ family = "v4" => n >= IP_HDR /\ buf[IP_P] = IPPROTO_ICMP /\ hdr >= IP_HDR
      /\ hdr + ICMP_HDR <= n
      /\ buf[hdr] = ECHO_REPLY[family]
      /\ ntohs(buf, hdr + 4) = identifier
      /\ ntohs(buf, hdr + 6) = expected_sequence
-----------------------------------------------------------------------------
NoPacket == [status |-> "none"]

Init ==
  /\ family \in {"v4", "v6"} /\ little \in BOOLEAN /\ bpf \in BOOLEAN
  /\ \E pid \in Pids : identifier = IdentifierOf(pid)
  /\ sequence \in Starts
  /\ send_buf = [k \in 0 .. PACKET_SIZE - 1 |-> 0]
  /\ recv_buf = [k \in 0 .. RECV_BUF - 1 |-> 0]
  /\ sends = 0 /\ received = 0
  /\ last = NoPacket

\* Whether or not the kernel takes the request, its number is used.
ls_icmp_send_echo ==
  /\ sends < MaxSends
  /\ sends' = sends + 1
  /\ sequence' = next_sequence(sequence)
  /\ send_buf' = BuildRequest(sequence')
  /\ last' = NoPacket
  /\ UNCHANGED <<family, little, bpf, identifier, recv_buf, received>>

\* recvfrom, for a packet that passes the filter: it overwrites the front of
\* the buffer, whatever its source.
recv_packet(p) ==
  LET bytes == Delivered(p)
      n == Min({HeaderLen(p) + p.len, RECV_BUF})
  IN  /\ sends > 0
      /\ received < MaxReceived
      /\ received' = received + 1
      /\ IF bpf /\ ~attach_family_filter(bytes)
         THEN /\ last' = [status |-> "filtered", packet |-> p]
              /\ UNCHANGED recv_buf
         ELSE /\ recv_buf' = [k \in DOMAIN recv_buf |->
                                IF k < n THEN bytes[k] ELSE recv_buf[k]]
              /\ last' = [packet |-> p, status |->
                            IF /\ n > 0 /\ source_matches(p)
                               /\ buffer_matches(recv_buf', n, sequence)
                            THEN "MATCHED" ELSE "IGNORED"]
      /\ UNCHANGED <<family, little, bpf, identifier, sequence, send_buf, sends>>

\* The packets that reach the socket: messages of either type or another one,
\* for this process or another, for the last request or another one, whole or
\* short.
Arriving ==
  [from : {"target", "other"}, options : IF family = "v4" THEN 0 .. MaxOptions ELSE {0},
   type : {ECHO[family], ECHO_REPLY[family]} \cup Types,
   id : {identifier} \cup Ids, seq : {sequence} \cup Seqs, len : Lens]

Next == ls_icmp_send_echo \/ \E p \in Arriving : recv_packet(p)

Spec == Init /\ [][Next]_vars
-----------------------------------------------------------------------------
\* Every variable has its type; no offset leaves a buffer.
TypeOK ==
  /\ family \in {"v4", "v6"} /\ little \in BOOLEAN /\ bpf \in BOOLEAN
  /\ identifier \in Uint16 \ {0}
  /\ sequence \in Uint16
  /\ send_buf \in Buffer(PACKET_SIZE) /\ recv_buf \in Buffer(RECV_BUF)
  /\ sends \in 0 .. MaxSends /\ received \in 0 .. MaxReceived
  /\ last = NoPacket \/ last \in [status : {"filtered", "MATCHED", "IGNORED"},
                                  packet : WirePacket]

\* The abstract packet of module Icmp that a packet on the wire stands for.
Abstract(p) ==
  [from |-> p.from, seq |-> p.seq, probe |-> 0,
   type |-> IF p.type = ECHO_REPLY[family] THEN "echo_reply" ELSE "other",
   id |-> IF p.id = identifier THEN "self" ELSE "other"]

IsReply(p) == p.len >= ICMP_HDR /\ ls_icmp_recv(Abstract(p), sequence) = "MATCHED"

\* Only a whole echo reply to the last request is matched: bytes that an earlier
\* packet left in the receive buffer never complete a short one (reply_matches),
\* and both families read the fields where they are.
OnlyRepliesMatch == last.status = "MATCHED" => IsReply(last.packet)

\* Every whole echo reply to the last request is matched: neither the filter nor
\* the header-length arithmetic loses one, with or without IPv4 options.
EveryReplyMatches ==
  last.status \in {"filtered", "IGNORED"} => ~IsReply(last.packet)

\* The IPv4 request in the send buffer carries a checksum that is right in
\* network byte order, on hosts of either byte order and however often the
\* buffer has been used (icmp_checksum, ls_icmp_send_echo).
ChecksumVerifies ==
  LET n == PACKET_SIZE \div 2
      words == [i \in 0 .. n - 1 |-> ntohs(send_buf, 2 * i)]
  IN  family = "v4" /\ sends > 0 => Carry[Sums(words, n)[n]] = UINT16_MAX
=============================================================================
