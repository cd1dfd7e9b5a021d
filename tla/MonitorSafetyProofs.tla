------------------------ MODULE MonitorSafetyProofs ------------------------
(***************************************************************************)
(* The replies of Monitor: how old a packet can be, that a streak of       *)
(* failures is real, and that no reply is overlooked.                      *)
(***************************************************************************)
EXTENDS MonitorProofs, Link

(* Sequence numbers and the age of packets.                                *)

\* The numbers that the ages of packets are computed from.
LEMMA AgeTypes ==
  ASSUME TypeOK
  PROVE  /\ probes \in Nat /\ sequence \in Nat /\ sequence <= UINT16_MAX
         /\ Len(sockbuf) \in Nat
         /\ \A i \in 1 .. Len(sockbuf) :
              /\ sockbuf[i] \in Packet
              /\ sockbuf[i].probe \in Nat
              /\ sockbuf[i].seq \in Nat /\ sockbuf[i].seq <= UINT16_MAX
         /\ \A r \in net : r.probe \in Nat /\ r.seq \in Nat /\ r.seq <= UINT16_MAX
<1>1. probes \in Nat /\ sequence \in Nat /\ sequence <= UINT16_MAX
  BY Constants DEF TypeOK, Uint16
<1>2. sockbuf \in Seq(Packet) /\ Len(sockbuf) \in Nat
  BY DEF TypeOK
<1>3. \A i \in 1 .. Len(sockbuf) : sockbuf[i] \in Packet
  BY <1>2
<1>4. \A p \in Packet : p.probe \in Nat /\ p.seq \in Nat /\ p.seq <= UINT16_MAX
  BY Constants DEF Packet, Uint16
<1>5. \A r \in net : r.probe \in Nat /\ r.seq \in Nat /\ r.seq <= UINT16_MAX
  BY Constants DEF TypeOK, Uint16
<1> QED BY <1>1, <1>2, <1>3, <1>4, <1>5

\* The next probe leaves the number of a recent one recognisable.
LEMMA NumberedNext ==
  ASSUME TypeOK, NEW seq \in Nat, seq <= UINT16_MAX, NEW n \in Nat,
         Numbered(seq, n), probes + 1 - n < UINT16_MAX,
         sequence' = next_sequence(sequence), probes' = probes + 1
  PROVE  Numbered(seq, n)'
<1>1. /\ probes \in Nat /\ sequence \in Nat /\ sequence <= UINT16_MAX
      /\ UINT16_MAX \in Nat /\ UINT16_MAX > 0
  BY AgeTypes, Constants
<1>2. n \in 1 .. probes'
  BY <1>1 DEF Numbered
<1>3. CASE sequence = UINT16_MAX
  <2>1. sequence' = 1
    BY <1>3 DEF next_sequence
  <2> QED BY <1>1, <1>2, <1>3, <2>1 DEF Numbered
<1>4. CASE sequence # UINT16_MAX
  <2>1. sequence' = sequence + 1
    BY <1>4 DEF next_sequence
  <2> QED BY <1>1, <1>2, <1>4, <2>1 DEF Numbered
<1> QED BY <1>3, <1>4

\* The number of the last request belongs to the last probe only.
LEMMA NumberedUnique ==
  ASSUME TypeOK, NEW n \in Nat, Numbered(sequence, n), probes - n < UINT16_MAX
  PROVE  n = probes
BY AgeTypes, Constants DEF Numbered

\* Two bounds that drop by the same amount keep their order.
LEMMA DropBoth ==
  \A a, b, j \in Int : a <= b => a - j \in Int /\ b - j \in Int /\ a - j <= b - j
OBVIOUS

\* A place in a buffer from which n packets were read was a place before.
LEMMA PlaceBefore ==
  \A l, n, i \in Nat : 1 <= i /\ i <= l - n => n + i \in 1 .. l
OBVIOUS

\* A packet that is within one bound is within a larger one.
LEMMA WithinMore ==
  \A k, n, a, b \in Int : k - n <= a /\ a <= b => k - n <= b
OBVIOUS

\* A packet that gets one older stays within a bound that grows by one.
LEMMA OneOlder ==
  \A k, n, i, l, m, u \in Int :
    1 <= i /\ l + m <= u /\ k - n <= (l + m - 1) - i =>
      k + 1 - n < u /\ (k + 1) - n <= (l + m) - i
OBVIOUS

\* A packet that arrives in a buffer with room for it is within the bound of its place.
LEMMA ArrivesWithin ==
  \A k, n, l, m, z, b \in Int :
    k - n < l /\ z < m /\ l + m - 1 <= b => k - n <= b - (z + 1)
OBVIOUS

\* The places of a buffer are natural numbers.
LEMMA Places ==
  \A l \in Nat : \A i \in 1 .. l : i \in Nat /\ i \in Int /\ 1 <= i /\ i <= l
OBVIOUS

\* The two values of the bound.
LEMMA BoundValues ==
  /\ AgeBound \in Int /\ AgeBound <= Lifetime + MaxQueue /\ Lifetime + MaxQueue - 1 <= AgeBound
  /\ ToBeRead => AgeBound = Lifetime + MaxQueue
  /\ ~ToBeRead => AgeBound = Lifetime + MaxQueue - 1
BY Constants DEF AgeBound

\* Between two states the bound drops by one at most, and only when a packet
\* that was to be read is no longer.
LEMMA BoundDrops ==
  /\ AgeBound \in Int /\ AgeBound' \in Int
  /\ AgeBound - 1 <= AgeBound'
  /\ (ToBeRead => ToBeRead') => AgeBound <= AgeBound'
<1>1. CASE ToBeRead
  BY <1>1, Constants DEF AgeBound
<1>2. CASE ~ToBeRead
  BY <1>2, Constants DEF AgeBound
<1> QED BY <1>1, <1>2

\* The bound holds for packets that stay where they are while it does not drop.
LEMMA BufferKept ==
  ASSUME TypeOK, BufferAges, UNCHANGED <<probes, sequence, sockbuf>>,
         AgeBound <= AgeBound'
  PROVE  BufferAges'
<1>1. AgeBound \in Int /\ AgeBound' \in Int
  BY BoundDrops
<1>2. ASSUME NEW i \in 1 .. Len(sockbuf)
      PROVE  Traceable(sockbuf[i], AgeBound - i)'
  <2>1. sockbuf[i].probe \in Nat /\ probes \in Nat /\ Len(sockbuf) \in Nat
    BY AgeTypes, Zenon
  <2>2. AgeBound - i \in Int /\ AgeBound' - i \in Int /\ AgeBound - i <= AgeBound' - i
    <3>1. i \in Int
      BY <2>1, Places, Zenon
    <3> QED BY <1>1, <3>1, DropBoth, Zenon
  <2>3. Traceable(sockbuf[i], AgeBound - i)
    BY DEF BufferAges
  <2> DEFINE p == sockbuf[i]
  <2>4. CASE p.probe = 0 /\ \A s \in 1 .. UINT16_MAX : ls_icmp_recv(p, s) = "IGNORED"
    BY <2>4, Zenon DEF Traceable
  <2>5. CASE Numbered(p.seq, p.probe) /\ probes - p.probe <= AgeBound - i
    <3>1. probes \in Int /\ p.probe \in Int
      BY <2>1
    <3>2. probes - p.probe <= AgeBound' - i
      BY <2>2, <2>5, <3>1, WithinMore, Zenon
    <3>3. Numbered(sockbuf[i].seq, sockbuf[i].probe)'
      BY <2>5, Zenon DEF Numbered
    <3> QED BY <3>2, <3>3, Zenon DEF Traceable
  <2> QED BY <2>3, <2>4, <2>5, Zenon DEF Traceable
<1> QED BY <1>2 DEF BufferAges

\* Reading packets brings the others forward.
LEMMA BufferConsumed ==
  ASSUME TypeOK, NEW n \in Nat, n <= Len(sockbuf), Consume(n)
  PROVE  /\ Len(sockbuf') = Len(sockbuf) - n
         /\ \A i \in 1 .. Len(sockbuf') : sockbuf'[i] = sockbuf[n + i]
<1>1. sockbuf \in Seq(Packet) /\ Len(sockbuf) \in Nat
  BY DEF TypeOK
<1>2. sockbuf' = SubSeq(sockbuf, n + 1, Len(sockbuf))
  BY DEF Consume
<1> QED BY <1>1, <1>2

\* Reading n packets moves the others n places forward, so their bound may shrink by n.
LEMMA BufferRead ==
  ASSUME TypeOK, BufferAges, NEW n \in Nat, n <= Len(sockbuf), Consume(n),
         UNCHANGED <<probes, sequence>>, AgeBound - n <= AgeBound'
  PROVE  BufferAges'
<1>1. AgeBound \in Int /\ AgeBound' \in Int
  BY BoundDrops
<1>2. ASSUME NEW i \in 1 .. Len(sockbuf')
      PROVE  Traceable(sockbuf[i], AgeBound - i)'
  <2>1. n + i \in 1 .. Len(sockbuf) /\ sockbuf'[i] = sockbuf[n + i]
    <3>1. /\ Len(sockbuf') = Len(sockbuf) - n /\ Len(sockbuf) \in Nat
          /\ \A j \in 1 .. Len(sockbuf') : sockbuf'[j] = sockbuf[n + j]
      BY BufferConsumed, AgeTypes
    <3>2. i \in Nat /\ 1 <= i /\ i <= Len(sockbuf) - n
      BY <3>1
    <3>3. n + i \in 1 .. Len(sockbuf)
      BY <3>1, <3>2, PlaceBefore, Zenon
    <3> QED BY <3>1, <3>3, Zenon
  <2>2. /\ sockbuf[n + i].probe \in Nat /\ probes \in Nat
        /\ AgeBound - (n + i) \in Int /\ AgeBound' - i \in Int
        /\ AgeBound - (n + i) <= AgeBound' - i
    <3>1. sockbuf[n + i].probe \in Nat /\ probes \in Nat
      BY <2>1, AgeTypes, Zenon
    <3>2. i \in Int
      OBVIOUS
    <3>3. \A a, b, m, j \in Int : a - m <= b =>
            a - (m + j) \in Int /\ b - j \in Int /\ a - (m + j) <= b - j
      OBVIOUS
    <3>4. n \in Int
      OBVIOUS
    <3>5. /\ AgeBound - (n + i) \in Int /\ AgeBound' - i \in Int
          /\ AgeBound - (n + i) <= AgeBound' - i
      BY <1>1, <3>2, <3>3, <3>4, Zenon
    <3> QED BY <3>1, <3>5
  <2>3. Traceable(sockbuf[n + i], AgeBound - (n + i))
    BY <2>1 DEF BufferAges
  <2> DEFINE p == sockbuf[n + i]
  <2>4. CASE p.probe = 0 /\ \A s \in 1 .. UINT16_MAX : ls_icmp_recv(p, s) = "IGNORED"
    BY <2>1, <2>4, Zenon DEF Traceable
  <2>5. CASE Numbered(p.seq, p.probe) /\ probes - p.probe <= AgeBound - (n + i)
    <3>1. probes \in Int /\ p.probe \in Int
      BY <2>2
    <3>2. probes - p.probe <= AgeBound' - i
      BY <2>2, <2>5, <3>1, WithinMore, Zenon
    <3>3. Numbered(sockbuf[i].seq, sockbuf[i].probe)'
      BY <2>1, <2>5, Zenon DEF Numbered
    <3> QED BY <2>1, <3>2, <3>3, Zenon DEF Traceable
  <2> QED BY <2>3, <2>4, <2>5, Zenon DEF Traceable
<1> QED BY <1>2 DEF BufferAges

\* A probe makes every waiting packet one older.
LEMMA BufferAfterProbe ==
  ASSUME TypeOK, BufferAges, UNCHANGED sockbuf, probes' = probes + 1,
         sequence' = next_sequence(sequence),
         AgeBound = Lifetime + MaxQueue - 1, AgeBound' = Lifetime + MaxQueue
  PROVE  BufferAges'
<1>1. ASSUME NEW i \in 1 .. Len(sockbuf)
      PROVE  Traceable(sockbuf[i], AgeBound - i)'
  <2>1. /\ sockbuf[i].probe \in Nat /\ probes \in Nat
        /\ sockbuf[i].seq \in Nat /\ sockbuf[i].seq <= UINT16_MAX
    BY AgeTypes
  <2>2. Traceable(sockbuf[i], AgeBound - i)
    BY DEF BufferAges
  <2>3. CASE /\ sockbuf[i].probe = 0
             /\ \A s \in 1 .. UINT16_MAX : ls_icmp_recv(sockbuf[i], s) = "IGNORED"
    BY <2>3 DEF Traceable
  <2>4. CASE /\ Numbered(sockbuf[i].seq, sockbuf[i].probe)
             /\ probes - sockbuf[i].probe <= AgeBound - i
    <3> DEFINE n == sockbuf[i].probe
               q == sockbuf[i].seq
    <3>1. probes + 1 - n < UINT16_MAX /\ probes' - n <= AgeBound' - i
      <4>1. /\ probes \in Int /\ n \in Int /\ Lifetime \in Int /\ MaxQueue \in Int
            /\ UINT16_MAX \in Int /\ Lifetime + MaxQueue <= UINT16_MAX
        BY <2>1, Constants
      <4>2. i \in Int /\ 1 <= i
        BY AgeTypes, Places, Zenon
      <4>3. probes - n <= (Lifetime + MaxQueue - 1) - i
        BY <2>4, Zenon
      <4> HIDE DEF n
      <4>4. /\ probes + 1 - n < UINT16_MAX
            /\ (probes + 1) - n <= (Lifetime + MaxQueue) - i
        BY <4>1, <4>2, <4>3, OneOlder, Zenon
      <4> QED BY <4>4, Zenon
    <3>2. Numbered(q, n)
      BY <2>4
    <3>3. Numbered(sockbuf[i].seq, sockbuf[i].probe)'
      BY <2>1, <3>1, <3>2, NumberedNext, Zenon DEF Numbered
    <3> QED BY <3>1, <3>3 DEF Traceable
  <2> QED BY <2>2, <2>3, <2>4 DEF Traceable
<1> QED BY <1>1 DEF BufferAges

\* A new probe ages the requests in the network; the ones that are too old leave it.
LEMMA NetAfterProbe ==
  ASSUME TypeOK, TypeOK', NetAges, NEW status, ls_icmp_send_echo(status), status # "ERROR"
  PROVE  NetAges'
<1>1. /\ probes \in Nat /\ probes' = probes + 1 /\ sequence' = next_sequence(sequence)
      /\ sequence' \in Nat
  <2>1. probes \in Nat /\ sequence' \in Uint16
    BY AgeTypes, Zenon DEF TypeOK
  <2>2. sequence' \in Nat
    BY <2>1, Constants DEF Uint16
  <2>3. probes' = probes + 1 /\ sequence' = next_sequence(sequence)
    BY Zenon DEF ls_icmp_send_echo
  <2> QED BY <2>1, <2>2, <2>3, Zenon
<1>2. ASSUME NEW r \in net' PROVE (Numbered(r.seq, r.probe))' /\ probes' - r.probe < Lifetime
  <2>1. CASE r \in net
    <3>1. ~(r.probe <= probes + 1 - Lifetime) \/ r = [probe |-> probes + 1, seq |-> sequence']
      BY <1>1, <1>2 DEF ls_icmp_send_echo
    <3>2. /\ r.probe \in Nat /\ r.seq \in Nat /\ r.seq <= UINT16_MAX
          /\ Numbered(r.seq, r.probe)
      BY <2>1, AgeTypes DEF NetAges
    <3>3. probes + 1 - r.probe < Lifetime /\ Lifetime <= UINT16_MAX
      BY <1>1, <3>1, <3>2, Constants
    <3>4. probes + 1 - r.probe < UINT16_MAX
      <4>1. \A a, b, c \in Int : a < b /\ b <= c => a < c
        OBVIOUS
      <4>2. probes + 1 - r.probe \in Int /\ Lifetime \in Int /\ UINT16_MAX \in Int
        BY <1>1, <3>2, Constants
      <4> QED BY <3>3, <4>1, <4>2, Zenon
    <3> QED BY <1>1, <3>2, <3>3, <3>4, NumberedNext
  <2>2. CASE r = [probe |-> probes + 1, seq |-> sequence']
    BY <1>1, <2>2, Constants DEF Numbered
  <2> QED BY <1>1, <2>1, <2>2 DEF ls_icmp_send_echo
<1> QED BY <1>2 DEF NetAges

\* A packet that arrives leaves the others where they are, and fits if there was room.
LEMMA AppendKeeps ==
  \A q \in Seq(Packet), p \in Packet :
    /\ \A j \in 1 .. Len(q) : Append(q, p)[j] = q[j]
    /\ \A m \in Nat : Len(q) < m => Len(Append(q, p)) <= m
<1> TAKE q \in Seq(Packet), p \in Packet
<1>1. \A j \in 1 .. Len(q) : Append(q, p)[j] = q[j]
  OBVIOUS
<1>2. Len(q) \in Nat /\ Len(Append(q, p)) = Len(q) + 1
  OBVIOUS
<1> QED BY <1>1, <1>2

\* A packet that arrives takes the last place of the socket buffer.
LEMMA BufferAppended ==
  ASSUME TypeOK, BufferAges, NEW p \in Packet, sockbuf' = Append(sockbuf, p),
         UNCHANGED <<pc, revents, probes, sequence>>,
         Traceable(p, AgeBound - (Len(sockbuf) + 1))
  PROVE  BufferAges'
<1>1. AgeBound' = AgeBound
  BY Zenon DEF AgeBound, ToBeRead
<1>2. ASSUME NEW i \in 1 .. Len(sockbuf')
      PROVE  Traceable(sockbuf[i], AgeBound - i)'
  <2>1. /\ sockbuf \in Seq(Packet) /\ Len(sockbuf) \in Nat
        /\ Len(sockbuf') = Len(sockbuf) + 1
    BY DEF TypeOK
  <2>2. CASE i \in 1 .. Len(sockbuf)
    <3>1. sockbuf'[i] = sockbuf[i]
      BY <2>1, <2>2, AppendKeeps, Zenon
    <3>2. Traceable(sockbuf[i], AgeBound - i)
      BY <2>2 DEF BufferAges
    <3> QED BY <1>1, <3>1, <3>2 DEF Traceable, Numbered
  <2>3. CASE i = Len(sockbuf) + 1
    <3>1. sockbuf'[i] = p
      BY <2>1, <2>3
    <3> QED BY <1>1, <2>3, <3>1 DEF Traceable, Numbered
  <2> QED BY <2>1, <2>2, <2>3
<1> QED BY <1>2 DEF BufferAges

\* A step that sends nothing and reads nothing.
LEMMA AgesKept ==
  ASSUME TypeOK, Ages, UNCHANGED <<net, sockbuf, probes, sequence>>,
         stopping => stopping', sock_err => sock_err' \/ stopping',
         ~stopping' /\ ~sock_err' /\ ToBeRead => ToBeRead' \/ Len(sockbuf) = 0,
         ~stopping' /\ ~sock_err' /\ pc' \in {"wakeup", "signalfd", "icmpfd"} =>
           revents'["icmpfd"] # "err"
  PROVE  Ages'
<1>1. ~stopping' => NetAges'
  BY DEF Ages, NetAges, Numbered
<1>2. ASSUME ~stopping', ~sock_err' PROVE BufferAges'
  <2>1. BufferAges
    BY <1>2 DEF Ages
  <2>2. CASE Len(sockbuf) = 0
    BY <2>2 DEF BufferAges
  <2>3. CASE ToBeRead => ToBeRead'
    BY <2>1, <2>3, BoundDrops, BufferKept, Zenon
  <2> QED BY <1>2, <2>2, <2>3
<1> QED BY <1>1, <1>2 DEF Ages

\* The steps of ls_loop_run between the callbacks preserve Ages.
LEMMA AgesLoop == TypeOK /\ Ages /\ LoopStep => Ages'
<1> SUFFICES ASSUME TypeOK, Ages, LoopStep PROVE Ages'
  OBVIOUS
<1>1. UNCHANGED <<net, sockbuf, sock_err, probes, sequence>>
  BY DEF LoopStep, appVars, sendVars, socketVars
<1>2. stopping => stopping'
  BY Zenon DEF LoopStep, refresh_now, refresh_now_fails, skip_timer, poll, poll_ready,
         poll_empty, poll_fails, skip_fd, critical_fd_fails, ls_loop_stop
<1>3. sockbuf = << >> => Len(sockbuf) = 0
  BY DEF TypeOK
<1> DEFINE Bound == ~stopping' /\ ~sock_err /\ ToBeRead => ToBeRead' \/ Len(sockbuf) = 0
           Event == ~stopping' /\ ~sock_err /\ pc' \in {"wakeup", "signalfd", "icmpfd"} =>
                      revents'["icmpfd"] # "err"
<1>4. Bound /\ Event => Ages'
  BY <1>1, <1>2, AgesKept, Zenon
<1>5. CASE refresh_now
  <2>1. Bound BY <1>5 DEF refresh_now, ToBeRead
  <2>2. Event BY <1>2, <1>5 DEF refresh_now, Ages
  <2> QED BY <1>4, <2>1, <2>2
<1>6. CASE refresh_now_fails \/ poll_fails \/ critical_fd_fails
  <2>1. stopping'
    BY <1>6 DEF refresh_now_fails, poll_fails, critical_fd_fails, ls_loop_stop
  <2> QED BY <1>4, <2>1
<1>7. CASE \E t \in Timers : skip_timer(t)
  <2>1. PICK t \in Timers : skip_timer(t)
    BY <1>7
  <2>2. pc \in Timers /\ pc' \in {"reply", "ping", "poll"}
    BY <2>1 DEF skip_timer, NextSlot, Timers
  <2>3. Bound BY <2>2 DEF ToBeRead, Timers
  <2>4. Event BY <2>2
  <2> QED BY <1>4, <2>3, <2>4
<1>8. CASE poll
  <2>1. Bound BY <1>8 DEF poll, ToBeRead
  <2>2. Event BY <1>8 DEF poll
  <2> QED BY <1>4, <2>1, <2>2
<1>9. CASE poll_ready(Ready) \/ poll_ready([Ready EXCEPT !["signalfd"] = "err"])
  <2>1. /\ pc' = "wakeup" /\ revents'["icmpfd"] = Ready["icmpfd"]
    BY <1>9, Zenon DEF poll_ready, Ready
  <2>2. /\ ~sock_err /\ sockbuf # << >> => revents'["icmpfd"] = "in"
        /\ ~sock_err => revents'["icmpfd"] # "err"
    BY <2>1 DEF Ready
  <2>3. Bound BY <1>3, <2>1, <2>2 DEF ToBeRead
  <2>4. Event BY <2>2
  <2> QED BY <1>4, <2>3, <2>4
<1>10. CASE poll_empty(Ready)
  <2>1. ~sock_err => sockbuf = << >>
    BY <1>10 DEF poll_empty, Ready, Fds
  <2>2. Bound BY <1>3, <2>1
  <2>3. Event BY <1>10 DEF poll_empty
  <2> QED BY <1>4, <2>2, <2>3
<1>11. CASE \E fd \in Fds : skip_fd(fd)
  <2>1. CASE skip_fd("signalfd")
    <3>1. pc = "signalfd" /\ pc' = "icmpfd" /\ UNCHANGED <<revents, stopping>>
      BY <2>1 DEF skip_fd, NextFd
    <3>2. Bound BY <3>1 DEF ToBeRead
    <3>3. Event BY <3>1 DEF Ages
    <3> QED BY <1>4, <3>2, <3>3
  <2>2. CASE skip_fd("icmpfd")
    <3>1. pc = "icmpfd" /\ pc' = "refresh" /\ revents["icmpfd"] # "in"
      BY <2>2 DEF skip_fd, NextFd
    <3>2. Bound BY <3>1 DEF ToBeRead
    <3>3. Event BY <3>1
    <3> QED BY <1>4, <3>2, <3>3
  <2> QED BY <1>11, <2>1, <2>2 DEF Fds
<1> QED BY <1>5, <1>6, <1>7, <1>8, <1>9, <1>10, <1>11 DEF LoopStep

\* Ages holds when app_run enters the loop: nothing has been sent.
LEMMA AgesInit == Init => Ages
<1> SUFFICES ASSUME Init PROVE Ages
  OBVIOUS
<1>1. net = {} /\ sockbuf = << >> /\ pc = "refresh"
  BY DEF Init, LoopInit
<1>2. NetAges
  BY <1>1 DEF NetAges
<1>3. Len(sockbuf) = 0
  BY <1>1
<1>4. BufferAges
  BY <1>3 DEF BufferAges
<1>5. Len(sockbuf) <= MaxQueue
  BY <1>3, Constants
<1> QED BY <1>1, <1>2, <1>4, <1>5 DEF Ages

\* A step that reads n packets.
LEMMA AgesRead ==
  ASSUME TypeOK, Ages, NEW n \in Nat, n <= Len(sockbuf), Consume(n), ~stopping, ~sock_err,
         UNCHANGED <<net, probes, sequence, sock_err>>,
         AgeBound - n <= AgeBound' \/ Len(sockbuf) = 0,
         pc' \notin {"wakeup", "signalfd", "icmpfd"}
  PROVE  Ages'
<1>1. NetAges'
  BY DEF Ages, NetAges, Numbered
<1>2. Len(sockbuf') = Len(sockbuf) - n /\ Len(sockbuf) \in Nat
  BY BufferConsumed, AgeTypes
<1>3. BufferAges'
  <2>1. CASE Len(sockbuf) = 0
    <3>1. \A i \in 1 .. Len(sockbuf') : FALSE
      BY <1>2, <2>1
    <3> QED BY <3>1 DEF BufferAges
  <2>2. CASE AgeBound - n <= AgeBound'
    BY <2>2, BufferRead DEF Ages
  <2> QED BY <2>1, <2>2
<1>4. Len(sockbuf') <= MaxQueue
  BY <1>2, Constants DEF Ages
<1> QED BY <1>1, <1>3, <1>4 DEF Ages

\* How many packets a drain reads.
LEMMA DrainReads ==
  ASSUME TypeOK, drain_matches \/ drain_exhausts
  PROVE  \E n \in Nat : /\ n <= Len(sockbuf) /\ Consume(n)
                        /\ n >= 1 \/ Len(sockbuf) = 0
<1>1. Len(sockbuf) \in Nat
  BY DEF TypeOK
<1>2. CASE drain_matches
  BY <1>1, <1>2, AcceptableFacts
<1>3. CASE drain_exhausts
  <2> DEFINE n == Min({LS_MAX_REPLY_DRAIN_PER_WAKEUP, Len(sockbuf)})
  <2>1. /\ n \in Nat /\ n <= Len(sockbuf)
        /\ n = LS_MAX_REPLY_DRAIN_PER_WAKEUP \/ n = Len(sockbuf)
    BY <1>1, Constants, MinPair
  <2>2. Consume(n)
    BY <1>3 DEF drain_exhausts
  <2> HIDE DEF n
  <2>3. n >= 1 \/ Len(sockbuf) = 0
    BY <1>1, <2>1, Constants
  <2> QED BY <2>1, <2>2, <2>3
<1> QED BY <1>2, <1>3

\* A drain reads a packet if there is one, which pays for the smaller bound after it.
LEMMA AgesDrain ==
  ASSUME TypeOK, Ages, ~stopping, drain_matches \/ drain_exhausts,
         UNCHANGED <<net, probes, sequence>>,
         pc' \notin {"wakeup", "signalfd", "icmpfd"}
  PROVE  Ages'
<1>1. ~sock_err /\ UNCHANGED sock_err
  BY DEF drain_matches, drain_exhausts
<1>2. PICK n \in Nat : n <= Len(sockbuf) /\ Consume(n) /\ (n >= 1 \/ Len(sockbuf) = 0)
  BY DrainReads
<1>3. AgeBound \in Int /\ AgeBound' \in Int /\ AgeBound - 1 <= AgeBound'
  BY BoundDrops
<1>4. AgeBound - n <= AgeBound' \/ Len(sockbuf) = 0
  BY <1>2, <1>3
<1> QED BY <1>1, <1>2, <1>4, AgesRead

\* Nothing is claimed of packets once the loop is stopped.
LEMMA AgesStopped ==
  ASSUME Ages, stopping', Len(sockbuf') <= MaxQueue
  PROVE  Ages'
BY DEF Ages

\* on_reply_timer preserves Ages.
LEMMA AgesReplyTimer == TypeOK /\ Control /\ Ages /\ on_reply_timer => Ages'
<1> SUFFICES ASSUME TypeOK, Control, Ages, on_reply_timer PROVE Ages'
  OBVIOUS
<1>1. UNCHANGED <<net, probes, sequence>> /\ ~stopping /\ pc = "reply" /\ pc' \in {"ping", "stopped"}
  BY DEF on_reply_timer, sendVars, Control, Continue, NextSlot
<1>2. CASE drain_matches \/ drain_exhausts
  BY <1>1, <1>2, AgesDrain
<1>3. CASE drain_fails
  BY <1>3, AgesStopped, DrainFailsType DEF Ages
<1> QED BY <1>2, <1>3 DEF on_reply_timer

\* on_icmp_readable preserves Ages.
LEMMA AgesIcmpReadable == TypeOK /\ Control /\ Ages /\ on_icmp_readable => Ages'
<1> SUFFICES ASSUME TypeOK, Control, Ages, on_icmp_readable PROVE Ages'
  OBVIOUS
<1>1. /\ UNCHANGED <<net, probes, sequence>> /\ ~stopping /\ pc = "icmpfd"
      /\ pc' \in {"refresh", "stopped"}
  BY DEF on_icmp_readable, sendVars, Control, Continue, NextFd
<1>2. CASE drain_matches \/ drain_exhausts
  BY <1>1, <1>2, AgesDrain
<1>3. CASE drain_fails
  BY <1>3, AgesStopped, DrainFailsType DEF Ages
<1> QED BY <1>2, <1>3 DEF on_icmp_readable

\* on_ping_timer preserves Ages: a new probe makes every packet one probe older.
LEMMA AgesPing == TypeOK /\ TypeOK' /\ Control /\ Ages /\ on_ping_timer => Ages'
<1> SUFFICES ASSUME TypeOK, TypeOK', Control, Ages, on_ping_timer PROVE Ages'
  OBVIOUS
<1>1. /\ UNCHANGED <<sockbuf, sock_err>> /\ ~stopping /\ pc = "ping"
      /\ pc' = IF stopping' THEN "stopped" ELSE "poll"
  BY DEF on_ping_timer, socketVars, Control, Continue, NextSlot
<1>2. /\ ~ToBeRead /\ AgeBound = Lifetime + MaxQueue - 1
      /\ ~stopping' => AgeBound' = Lifetime + MaxQueue
  <2>1. ~ToBeRead /\ (~stopping' => ToBeRead')
    BY <1>1 DEF ToBeRead
  <2> QED BY <2>1, Zenon DEF AgeBound
<1>3. CASE ping_skipped
  <2>1. UNCHANGED <<net, probes, sequence>>
    BY <1>3 DEF ping_skipped, sendVars
  <2> QED BY <1>1, <1>2, <2>1, AgesKept
<1>4. CASE ping_error
  BY <1>1, <1>4, AgesStopped DEF ping_error, app_fail, ls_loop_stop, Ages
<1>5. ASSUME NEW status, ls_icmp_send_echo(status), status # "ERROR" PROVE Ages'
  <2>1. probes' = probes + 1 /\ sequence' = next_sequence(sequence)
    BY <1>5 DEF ls_icmp_send_echo
  <2>2. NetAges'
    BY <1>1, <1>5, NetAfterProbe DEF Ages
  <2>3. ~stopping' /\ ~sock_err => BufferAges'
    BY <1>1, <1>2, <2>1, BufferAfterProbe DEF Ages
  <2>4. pc' \notin {"wakeup", "signalfd", "icmpfd"} /\ Len(sockbuf') <= MaxQueue
    BY <1>1 DEF Ages
  <2> QED BY <1>1, <2>2, <2>3, <2>4 DEF Ages
<1> QED BY <1>3, <1>4, <1>5 DEF on_ping_timer, ping_unreachable, ping_sent

\* The heartbeat and the signals preserve Ages.
LEMMA AgesOtherCallback ==
  TypeOK /\ Control /\ Ages /\ (on_watchdog_timer \/ dispatch_signal_fd) => Ages'
<1> SUFFICES ASSUME TypeOK, Control, Ages, on_watchdog_timer \/ dispatch_signal_fd
             PROVE  Ages'
  OBVIOUS
<1>1. UNCHANGED <<net, sockbuf, sock_err, probes, sequence, revents>> /\ ~stopping
  <2>1. CASE on_watchdog_timer
    BY <2>1 DEF on_watchdog_timer, sendVars, socketVars, Control
  <2>2. CASE dispatch_signal_fd
    BY <2>2 DEF dispatch_signal_fd, sendVars, socketVars, Control
  <2> QED BY <2>1, <2>2
<1>2. CASE on_watchdog_timer
  <2>1. pc = "watchdog" /\ pc' = "reply"
    BY <1>2 DEF on_watchdog_timer, NextSlot
  <2>2. ~ToBeRead
    BY <2>1 DEF ToBeRead
  <2> QED BY <1>1, <2>1, <2>2, AgesKept
<1>3. CASE dispatch_signal_fd
  <2>1. pc = "signalfd" /\ (~stopping' => pc' = "icmpfd")
    BY <1>3, Zenon DEF dispatch_signal_fd, NextFd, Continue
  <2>2. ~stopping' /\ ToBeRead => ToBeRead'
    BY <1>1, <2>1 DEF ToBeRead
  <2>3. ~stopping' /\ ~sock_err' => revents'["icmpfd"] # "err"
    BY <1>1, <1>3 DEF Ages, dispatch_signal_fd
  <2> QED BY <1>1, <2>2, <2>3, AgesKept
<1> QED BY <1>2, <1>3

\* Arriving packets, socket errors, signals and time preserve Ages.
LEMMA AgesEnvironment == TypeOK /\ Ages /\ (Environment \/ UNCHANGED vars) => Ages'
<1> SUFFICES ASSUME TypeOK, Ages, Environment \/ UNCHANGED vars PROVE Ages'
  OBVIOUS
<1>1. UNCHANGED <<pc, revents, stopping, probes, sequence>>
  BY DEF Environment, Tick, ReplyArrives, UnrelatedArrives, SocketFails, SignalArrives,
         loopVars, vars, appVars, sendVars
<1>2. ToBeRead' <=> ToBeRead
  BY <1>1, Zenon DEF ToBeRead
<1>3. ASSUME UNCHANGED <<net, sockbuf>>, sock_err => sock_err' PROVE Ages'
  BY <1>1, <1>2, <1>3, AgesKept DEF Ages
<1>4. CASE \E r \in net : ReplyArrives(r)
  <2>1. PICK r \in net : ReplyArrives(r)
    BY <1>4
  <2>2. /\ Len(sockbuf) < MaxQueue /\ sockbuf' = Append(sockbuf, Reply(r))
        /\ net' \subseteq net /\ UNCHANGED sock_err
    BY <2>1 DEF ReplyArrives
  <2>3. ~stopping' => NetAges'
    BY <1>1, <2>2 DEF Ages, NetAges, Numbered
  <2>4. Reply(r) \in Packet /\ Reply(r).probe = r.probe /\ Reply(r).seq = r.seq
    BY DEF Reply, Packet, TypeOK
  <2>5. ~stopping => Traceable(Reply(r), AgeBound - (Len(sockbuf) + 1))
    <3>1. ~stopping => Numbered(r.seq, r.probe) /\ probes - r.probe < Lifetime
      BY DEF Ages, NetAges
    <3>2. Lifetime + MaxQueue - 1 <= AgeBound /\ AgeBound \in Int
      BY BoundValues
    <3>3. probes \in Nat /\ r.probe \in Nat /\ Len(sockbuf) \in Nat
      BY AgeTypes, Zenon
    <3>4. /\ probes \in Int /\ r.probe \in Int /\ Len(sockbuf) \in Int
          /\ Lifetime \in Int /\ MaxQueue \in Int
      BY <3>3, Constants
    <3>5. ~stopping => probes - r.probe <= AgeBound - (Len(sockbuf) + 1)
      BY <2>2, <3>1, <3>2, <3>4, ArrivesWithin, Zenon
    <3> QED BY <2>4, <3>1, <3>5 DEF Traceable
  <2>6. ~stopping' /\ ~sock_err' => BufferAges'
    BY <1>1, <2>2, <2>4, <2>5, BufferAppended DEF Ages
  <2>7. Len(sockbuf') <= MaxQueue
    <3>1. sockbuf \in Seq(Packet) /\ MaxQueue \in Nat
      BY Constants, Zenon DEF TypeOK
    <3> QED BY <2>2, <2>4, <3>1, AppendKeeps, Zenon
  <2> QED BY <1>1, <2>2, <2>3, <2>6, <2>7 DEF Ages
<1>5. CASE \E p \in Unrelated : UnrelatedArrives(p)
  <2>1. PICK p \in Unrelated : UnrelatedArrives(p)
    BY <1>5
  <2>2. /\ Len(sockbuf) < MaxQueue /\ sockbuf' = Append(sockbuf, p)
        /\ UNCHANGED <<net, sock_err>>
    BY <2>1 DEF UnrelatedArrives, sendVars
  <2>3. ~stopping' => NetAges'
    BY <1>1, <2>2 DEF Ages, NetAges, Numbered
  <2>4. /\ p \in Packet /\ p.probe = 0
        /\ (p.from = "target" /\ p.type = "echo_reply" /\ p.id = "self") => p.seq = 0
    BY EnvironmentAssumption
  <2>5. Traceable(p, AgeBound - (Len(sockbuf) + 1))
    BY <2>4, Constants DEF Traceable, ls_icmp_recv, source_matches, reply_matches
  <2>6. ~stopping' /\ ~sock_err' => BufferAges'
    BY <1>1, <2>2, <2>4, <2>5, BufferAppended DEF Ages
  <2>7. Len(sockbuf') <= MaxQueue
    <3>1. sockbuf \in Seq(Packet) /\ MaxQueue \in Nat
      BY Constants, Zenon DEF TypeOK
    <3> QED BY <2>2, <2>4, <3>1, AppendKeeps, Zenon
  <2> QED BY <1>1, <2>2, <2>3, <2>6, <2>7 DEF Ages
<1>6. CASE Tick(Waiting) /\ UNCHANGED appVars
  BY <1>3, <1>6 DEF appVars, sendVars, socketVars
<1>7. CASE SocketFails
  BY <1>3, <1>7 DEF SocketFails, sendVars
<1>8. CASE \E s \in Signals : SignalArrives(s)
  BY <1>3, <1>8 DEF SignalArrives, sendVars, socketVars
<1>9. CASE UNCHANGED vars
  BY <1>3, <1>9 DEF vars, appVars, sendVars, socketVars
<1> QED BY <1>4, <1>5, <1>6, <1>7, <1>8, <1>9, Zenon DEF Environment

\* Every step preserves Ages.
LEMMA AgesNext == Books /\ Books' /\ Ages /\ [Next]_vars => Ages'
BY AgesLoop, AgesReplyTimer, AgesIcmpReadable, AgesPing, AgesOtherCallback, AgesEnvironment
   DEF Next, Process, Stopped, Books

-----------------------------------------------------------------------------
(* The streak.                                                             *)

\* The packet that is accepted answers the outstanding probe.
LEMMA AcceptedIsLast ==
  ASSUME Books, Ages, drain_matches, ~stopping
  PROVE  credited' = probes /\ Outstanding = 1
<1>0. PICK m \in 1 .. Len(sockbuf) : /\ sockbuf[m] \in Packet
                                     /\ ls_icmp_recv(sockbuf[m], probe_sequence) = "MATCHED"
                                     /\ probe_succeeded(sockbuf[m])
  BY AcceptableFacts, Zenon DEF Books
<1> DEFINE p == sockbuf[m]
<1>1. /\ m \in 1 .. Len(sockbuf) /\ p \in Packet
      /\ ls_icmp_recv(p, probe_sequence) = "MATCHED"
      /\ ls_timer_armed(deadline["reply"])
  BY <1>0, AcceptableFacts, Zenon DEF Books
<1>2. /\ probe_sequence = sequence /\ sequence # 0 /\ Outstanding = 1
      /\ sequence \in 1 .. UINT16_MAX
  <2>1. probe_sequence = sequence /\ sequence # 0 /\ Outstanding = 1
    BY <1>1, Zenon DEF Books, OneProbe, Outstanding
  <2>2. sequence \in Nat /\ sequence <= UINT16_MAX
    BY AgeTypes, Zenon DEF Books
  <2> HIDE DEF p
  <2> QED BY <2>1, <2>2, Constants
<1>3. Traceable(p, AgeBound - m) /\ credited' = p.probe
  <2>1. ~sock_err
    BY Zenon DEF drain_matches
  <2>2. Traceable(p, AgeBound - m)
    BY <2>1, Zenon DEF Ages, BufferAges
  <2> QED BY <1>0, <2>2, Zenon DEF probe_succeeded
<1> HIDE DEF p
<1>4. p.seq = sequence /\ ls_icmp_recv(p, sequence) # "IGNORED"
  BY <1>1, <1>2 DEF ls_icmp_recv, reply_matches
<1>5. Numbered(sequence, p.probe) /\ probes - p.probe <= AgeBound - m
  BY <1>2, <1>3, <1>4 DEF Traceable
<1>6. probes - p.probe < UINT16_MAX
  <2>1. AgeBound \in Int /\ AgeBound <= Lifetime + MaxQueue
    BY BoundValues
  <2>2. m \in Nat /\ m >= 1 /\ p.probe \in Nat /\ probes \in Nat
    <3>1. probes \in Nat /\ Len(sockbuf) \in Nat
      BY AgeTypes, Zenon DEF Books
    <3>2. p.probe \in Nat
      BY <1>1 DEF Packet
    <3> QED BY <1>1, <3>1, <3>2
  <2> QED BY <1>5, <2>1, <2>2, Constants
<1>7. p.probe = probes
  BY <1>1, <1>5, <1>6, NumberedUnique DEF Packet, Books
<1> QED BY <1>2, <1>3, <1>7

\* The outcomes of an outstanding probe preserve StreakIsReal.
LEMMA StreakDrain ==
  ASSUME Books, Books', Ages, StreakIsReal, ~stopping, UNCHANGED probes,
         \/ drain_matches
         \/ drain_fails
         \/ /\ ls_timer_armed(deadline["reply"]) /\ probe_reset /\ probe_failed
  PROVE  StreakIsReal'
<1>1. CASE drain_matches
  <2>1. credited' = probes /\ consecutive_fails' = 0 /\ probes \in Nat
    BY <1>1, AcceptedIsLast, MatchEffect, BookTypes DEF Books
  <2>2. Outstanding' = 0
    BY <1>1, MatchEffect, BookTypes, Zenon DEF Outstanding, Books,
         probe_reset, TypeOK, LoopTypeOK, Timers, ls_timer_armed, Disarmed
  <2> QED BY <2>1, <2>2 DEF StreakIsReal
<1>2. CASE drain_fails
  BY <1>2 DEF drain_fails, app_fail, ls_loop_stop, StreakIsReal, Fatal, LS_EXIT_FAILURE
<1>3. CASE ls_timer_armed(deadline["reply"]) /\ probe_reset /\ probe_failed
  <2>1. Outstanding = 1 /\ Outstanding' = 0
    BY <1>3 DEF Outstanding, probe_reset, Books, TypeOK, LoopTypeOK, Timers,
         ls_timer_armed, Disarmed
  <2>2. ~Fatal /\ consecutive_fails' = consecutive_fails + 1 /\ UNCHANGED credited
    BY <1>3 DEF Fatal, probe_failed
  <2>3. UNCHANGED probes /\ consecutive_fails \in Nat
    BY BookTypes, Zenon DEF Books
  <2>4. consecutive_fails + 1 = probes - credited
    BY <2>1, <2>2, Zenon DEF StreakIsReal
  <2>5. consecutive_fails' + 0 = probes' - credited'
    BY <2>2, <2>3, <2>4
  <2> QED BY <2>1, <2>5, Zenon DEF StreakIsReal
<1> QED BY <1>1, <1>2, <1>3

\* on_ping_timer preserves StreakIsReal.
LEMMA StreakPing ==
  ASSUME Books, Books', StreakIsReal, ~stopping, on_ping_timer
  PROVE  StreakIsReal'
<1>1. StepPing["reply"] = deadline["reply"] /\ StepPing \in [Timers -> Uint64]
  BY StepPingType DEF Books
<1>2. ~Fatal /\ probes \in Nat /\ credited \in Nat /\ consecutive_fails \in Nat
  BY DEF Fatal, Books, TypeOK
<1>3. CASE ping_skipped
  <2>1. UNCHANGED <<stopping, exit_code, consecutive_fails, probes, credited>>
    BY <1>3 DEF ping_skipped, policyVars, sendVars
  <2>2. Outstanding' = Outstanding
    BY <1>1, <1>3 DEF ping_skipped, Outstanding, ls_timer_armed, Disarmed
  <2> QED BY <2>1, <2>2 DEF StreakIsReal, Fatal
<1>4. CASE ping_error
  BY <1>4 DEF ping_error, app_fail, ls_loop_stop, StreakIsReal, Fatal, LS_EXIT_FAILURE
<1>5. CASE ping_unreachable /\ ~ls_timer_armed(deadline["reply"])
  <2>1. probes' = probes + 1 /\ consecutive_fails' = consecutive_fails + 1 /\ UNCHANGED credited
    BY <1>5 DEF ping_unreachable, probe_failed, ls_icmp_send_echo
  <2>2. Outstanding = 0 /\ Outstanding' = 0
    BY <1>1, <1>5 DEF ping_unreachable, Outstanding, ls_timer_armed, Disarmed
  <2> QED BY <1>2, <2>1, <2>2 DEF StreakIsReal
<1>6. CASE ping_sent /\ ~ls_timer_armed(deadline["reply"])
  <2>1. probes' = probes + 1 /\ UNCHANGED <<consecutive_fails, credited>>
    BY <1>6 DEF ping_sent, policyVars, ls_icmp_send_echo
  <2>2. sequence' # 0 /\ probe_sequence' = sequence'
    BY <1>6, SendType DEF ping_sent, Books
  <2>3. Outstanding = 0 /\ Outstanding' = 1
    BY <1>6, <2>2 DEF Outstanding, Books, OneProbe, ls_timer_armed, Disarmed
  <2> QED BY <1>2, <2>1, <2>3 DEF StreakIsReal
<1> QED BY <1>3, <1>4, <1>5, <1>6 DEF on_ping_timer

\* Every step preserves StreakIsReal.
LEMMA StreakNext == Books /\ Books' /\ Ages /\ StreakIsReal /\ [Next]_vars => StreakIsReal'
<1> SUFFICES ASSUME Books, Books', Ages, StreakIsReal, [Next]_vars PROVE StreakIsReal'
  OBVIOUS
<1>1. CASE on_ping_timer
  BY <1>1, StreakPing, NotFatal DEF on_ping_timer
<1>2. CASE on_reply_timer
  <2>1. ~stopping /\ UNCHANGED probes /\ ls_timer_armed(deadline["reply"])
    BY <1>2, NotFatal DEF on_reply_timer, sendVars, Elapsed
  <2> QED BY <1>2, <2>1, StreakDrain DEF on_reply_timer
<1>3. ASSUME deadline'["reply"] = deadline["reply"], Fatal => Fatal',
             UNCHANGED <<consecutive_fails, probes, credited>>
      PROVE  StreakIsReal'
  BY <1>3 DEF StreakIsReal, Outstanding, ls_timer_armed, Disarmed
<1>4. CASE on_icmp_readable
  <2>1. ~stopping /\ UNCHANGED probes
    BY <1>4, NotFatal DEF on_icmp_readable, sendVars
  <2>2. CASE drain_matches \/ drain_fails
    BY <2>1, <2>2, StreakDrain
  <2>3. CASE UNCHANGED <<clock, deadline, probeVars, policyVars>> /\ KeepRunning
    BY <1>3, <2>1, <2>3 DEF policyVars, KeepRunning, Fatal
  <2> QED BY <1>4, <2>2, <2>3 DEF on_icmp_readable
<1>5. CASE on_watchdog_timer
  <2>1. deadline'["reply"] = deadline["reply"]
    BY <1>5 DEF on_watchdog_timer, Books, TypeOK, LoopTypeOK, Timers
  <2> QED BY <1>3, <1>5, <2>1 DEF on_watchdog_timer, policyVars, sendVars, Fatal
<1>6. CASE dispatch_signal_fd
  BY <1>3, <1>6, NotFatal DEF dispatch_signal_fd, policyVars, sendVars
<1>7. CASE LoopStep
  <2>1. /\ UNCHANGED deadline /\ pc # "stopped"
    BY <1>7 DEF LoopStep, refresh_now, refresh_now_fails, skip_timer, poll, poll_ready,
         poll_empty, poll_fails, skip_fd, critical_fd_fails, Timers, Fds
  <2> QED BY <1>3, <1>7, <2>1, NotFatal DEF LoopStep, appVars, policyVars, sendVars
<1>8. CASE Environment \/ UNCHANGED vars
  <2>1. UNCHANGED <<deadline, stopping, exit_code, consecutive_fails, probes, credited>>
    BY <1>8, Zenon DEF Environment, Tick, ReplyArrives, UnrelatedArrives, SocketFails,
         SignalArrives, loopVars, vars, appVars, policyVars, sendVars
  <2> QED BY <1>3, <2>1 DEF Fatal
<1> QED BY <1>1, <1>2, <1>4, <1>5, <1>6, <1>7, <1>8 DEF Next, Process, Stopped

-----------------------------------------------------------------------------
(* The theorems.                                                           *)

\* The inductive invariant holds in every reachable state, for every configuration,
\* every drain limit and every environment that satisfies the assumptions.
THEOREM Invariance == Spec => []Inductive
<1>1. Init => Inductive
  <2>1. ASSUME Init PROVE StreakIsReal
    <3>1. deadline["reply"] = UINT64_MAX
      BY <2>1 DEF Init, LoopInit, Disarmed
    <3>2. consecutive_fails = 0 /\ probes = 0 /\ credited = 0
      BY <2>1, Zenon DEF Init
    <3>3. Outstanding = 0
      BY <3>1 DEF Outstanding, ls_timer_armed, Disarmed
    <3> QED BY <3>2, <3>3 DEF StreakIsReal
  <2> QED BY <2>1, BooksInit, AgesInit DEF Inductive
<1>2. Inductive /\ [Next]_vars => Inductive'
  BY BooksNext, AgesNext, StreakNext DEF Inductive
<1> QED BY <1>1, <1>2, PTL DEF Spec

\* The armed reply timer and the expected sequence agree in every reachable state, and
\* only the last request can be answered (on_ping_timer, probe_reset).
THEOREM OneProbeAtATime == Spec => []OneProbe
<1>1. Inductive => OneProbe
  BY DEF Inductive, Books
<1> QED BY <1>1, Invariance, PTL

\* Every probe has exactly one outcome in the statistics, or is the outstanding one.
THEOREM EveryProbeCounted == Spec => []ProbeAccounting
<1>1. Inductive => ProbeAccounting
  BY DEF Inductive, Books
<1> QED BY <1>1, Invariance, PTL

\* consecutive_fails is the number of finished probes since the last one that was
\* answered: no late, duplicated or foreign packet interrupts a streak, although sequence
\* numbers wrap around, as long as no packet outlives the reuse of its number.
THEOREM StreaksAreReal == Spec => []StreakIsReal
<1>1. Inductive => StreakIsReal
  BY DEF Inductive
<1> QED BY <1>1, Invariance, PTL

\* The threshold action never runs before fail_threshold - 1 whole periods have passed
\* since the first probe was due, however late the loop runs.
THEOREM ActionsAreNotEarly == Spec => []NoEarlyAction
<1>1. Inductive => NoEarlyAction
  <2> SUFFICES ASSUME Books, actions > 0
               PROVE  clock >= start_delay_ms + (fail_threshold - 1) * interval_ms
    BY DEF Inductive, NoEarlyAction
  <2>1. /\ fail_threshold \in Nat /\ fail_threshold >= 1 /\ probes \in Nat
        /\ fail_threshold <= probes /\ clock \in Nat
    <3>1. probes \in Nat /\ clock \in Nat /\ fail_threshold <= probes
      BY BookTypes, Zenon DEF Books, Counts
    <3>2. fail_threshold \in Nat /\ fail_threshold >= 1
      BY Constants
    <3> QED BY <3>1, <3>2, Zenon
  <2>2. clock >= start_delay_ms + (probes - 1) * interval_ms
    BY <2>1 DEF Books, Schedule
  <2>3. /\ fail_threshold - 1 \in Nat /\ probes - 1 \in Nat
        /\ fail_threshold - 1 <= probes - 1
    BY <2>1
  <2>4. /\ (fail_threshold - 1) * interval_ms <= (probes - 1) * interval_ms
        /\ (fail_threshold - 1) * interval_ms \in Nat /\ (probes - 1) * interval_ms \in Nat
    BY <2>3, Periods
  <2> QED BY <2>1, <2>2, <2>4, Constants
<1> QED BY <1>1, Invariance, PTL

\* check_threshold runs the action only after fail_threshold unanswered probes, with none
\* outstanding.
THEOREM ActionsAreJustified == Spec => ActionJustified
<1> DEFINE A == actions' # actions =>
                  /\ ~ls_timer_armed(deadline'["reply"])
                  /\ probes' - credited >= fail_threshold
<1>1. Inductive /\ Inductive' /\ [Next]_vars => A
  <2> SUFFICES ASSUME Inductive, Inductive', [Next]_vars, actions' # actions
               PROVE  /\ ~ls_timer_armed(deadline'["reply"])
                      /\ probes' - credited >= fail_threshold
    OBVIOUS
  <2>0. Books /\ Books'
    BY DEF Inductive
  <2>1. ASSUME probe_failed, ~stopping, ~ls_timer_armed(deadline'["reply"])
        PROVE  probes' - credited >= fail_threshold
    <3>1. /\ ~Fatal' /\ consecutive_fails' >= fail_threshold /\ UNCHANGED credited
      BY <2>0, <2>1, FailOutcome, Zenon
    <3>2. Outstanding' = 0
      BY <2>1 DEF Outstanding, ls_timer_armed, Disarmed
    <3>3. consecutive_fails' + 0 = probes' - credited'
      BY <3>1, <3>2 DEF Inductive, StreakIsReal
    <3>4. consecutive_fails' \in Nat
      BY <2>0 DEF Books, TypeOK
    <3> QED BY <3>1, <3>3, <3>4
  <2>2. CASE on_reply_timer
    <3>1. probe_failed /\ probe_reset /\ ~stopping
      BY <2>0, <2>2, NotFatal, MatchEffect DEF Books, on_reply_timer, drain_fails, app_fail,
           policyVars
    <3> QED BY <2>0, <2>1, <3>1, ReplyDeadline
  <2>3. CASE on_ping_timer
    <3>1. /\ ~stopping /\ ~ls_timer_armed(deadline["reply"])
          /\ probe_failed /\ deadline' = StepPing
      BY <2>0, <2>3, NotFatal DEF on_ping_timer, ping_skipped, ping_error, ping_sent,
           ping_unreachable, app_fail, policyVars
    <3> QED BY <2>0, <2>1, <3>1, ReplyDeadline DEF ls_timer_armed, Disarmed
  <2>4. ~on_icmp_readable
    BY <2>0, MatchEffect DEF Books, on_icmp_readable, drain_fails, app_fail, policyVars
  <2> QED BY <2>0, <2>2, <2>3, <2>4, IdleStep, Zenon DEF Next, Process, Stopped, policyVars
<1> QED BY <1>1, Invariance, PTL DEF Spec, ActionJustified

-----------------------------------------------------------------------------
(* Replies that are never overlooked.                                      *)

\* The packets that remain after a drain are packets that waited before it.
LEMMA ConsumedGenuine ==
  ASSUME TypeOK, Genuine, NEW n \in Nat, Consume(n)
  PROVE  Genuine'
<1>1. sockbuf \in Seq(Packet) /\ Len(sockbuf) \in Nat
  BY DEF TypeOK
<1>2. ASSUME NEW i \in 1 .. Len(sockbuf')
      PROVE  i + n \in 1 .. Len(sockbuf) /\ sockbuf'[i] = sockbuf[i + n]
  BY <1>1, <1>2, SMTT(30) DEF Consume
<1> QED BY <1>2 DEF Genuine

\* Every packet that answers a probe stays an echo reply of the target.
LEMMA GenuineStep ==
  ASSUME TypeOK, Genuine, [Next]_vars
  PROVE  Genuine'
<1>1. sockbuf \in Seq(Packet) /\ Len(sockbuf) \in Nat
  BY DEF TypeOK
<1>2. ASSUME UNCHANGED sockbuf PROVE Genuine'
  BY <1>2 DEF Genuine
<1>3. ASSUME NEW p, sockbuf' = Append(sockbuf, p),
             p.probe # 0 => p.from = "target" /\ p.type = "echo_reply" /\ p.id = "self"
      PROVE  Genuine'
  <2>1. ASSUME NEW i \in 1 .. Len(sockbuf')
        PROVE  sockbuf'[i] = p \/ (i \in 1 .. Len(sockbuf) /\ sockbuf'[i] = sockbuf[i])
    BY <1>1, <1>3, <2>1
  <2> QED BY <1>3, <2>1 DEF Genuine
<1>4. ASSUME drain_matches \/ drain_fails \/ drain_exhausts PROVE Genuine'
  <2>1. CASE drain_matches
    <3>1. PICK n \in 1 .. Len(sockbuf) : Consume(n)
      BY <2>1, AcceptableFacts
    <3>2. n \in Nat
      BY <1>1
    <3> QED BY <3>1, <3>2, ConsumedGenuine
  <2>2. CASE drain_fails
    BY <1>2, <2>2 DEF drain_fails
  <2>3. CASE drain_exhausts
    <3>1. Min({LS_MAX_REPLY_DRAIN_PER_WAKEUP, Len(sockbuf)}) \in Nat
      BY <1>1, Constants, MinPair
    <3> QED BY <2>3, <3>1, ConsumedGenuine DEF drain_exhausts
  <2> QED BY <1>4, <2>1, <2>2, <2>3
<1>5. CASE on_reply_timer \/ on_icmp_readable
  BY <1>4, <1>5 DEF on_reply_timer, on_icmp_readable
<1>6. CASE LoopStep \/ on_watchdog_timer \/ on_ping_timer \/ dispatch_signal_fd \/ UNCHANGED vars
  BY <1>2, <1>6, Zenon DEF LoopStep, on_watchdog_timer, on_ping_timer, dispatch_signal_fd, vars, appVars,
       socketVars
<1>7. CASE Environment
  <2>1. CASE \E r \in net : ReplyArrives(r)
    BY <1>3, <2>1 DEF ReplyArrives, Reply
  <2>2. CASE \E p \in Unrelated : UnrelatedArrives(p)
    BY <1>3, <2>2, EnvironmentAssumption DEF UnrelatedArrives
  <2>3. CASE UNCHANGED sockbuf
    BY <1>2, <2>3
  <2> QED BY <1>7, <2>1, <2>2, <2>3 DEF Environment, SocketFails, SignalArrives, appVars, socketVars
<1> QED BY <1>5, <1>6, <1>7 DEF Next, Process, Stopped

\* No packet waits when the loop starts.
LEMMA GenuineAlways == Spec => []Genuine
<1>1. Init => Genuine
  BY DEF Init, Genuine
<1>2. TypeOK /\ Genuine /\ [Next]_vars => Genuine'
  BY GenuineStep
<1> QED BY <1>1, <1>2, TypeCorrect, PTL DEF Spec

\* A waiting reply to the outstanding probe carries the sequence that is expected.  It is read
\* and accepted when the socket buffer holds no more packets than one wakeup reads.
LEMMA ReplyIsAcceptable ==
  ASSUME Books, Ages, Genuine, ~stopping, ~sock_err, Outstanding = 1,
         MaxQueue <= LS_MAX_REPLY_DRAIN_PER_WAKEUP,
         NEW i \in 1 .. Len(sockbuf), sockbuf[i].probe = probes
  PROVE  i \in Acceptable
<1>1. /\ TypeOK /\ Ages /\ OneProbe /\ Counts
  BY DEF Books
<1>2. /\ sockbuf \in Seq(Packet) /\ Len(sockbuf) \in Nat /\ sockbuf[i] \in Packet
      /\ probes \in Nat /\ sequence \in Nat /\ sequence <= UINT16_MAX
  BY <1>1, Constants DEF TypeOK, Uint16
<1>3. probes # 0 /\ ls_timer_armed(deadline["reply"])
  BY <1>1, <1>2, BookTypes DEF Counts, Outstanding
<1>4. probe_sequence = sequence /\ sequence # 0
  BY <1>1, <1>3 DEF OneProbe
<1>5. Numbered(sockbuf[i].seq, probes)
  BY <1>1, <1>3 DEF Ages, BufferAges, Traceable
<1>6. sockbuf[i].seq = probe_sequence
  <2>1. sockbuf[i].seq \in Nat /\ sockbuf[i].seq <= UINT16_MAX
    BY <1>2, Constants DEF Packet, Uint16
  <2>2. \/ sequence - sockbuf[i].seq = probes - probes
        \/ sequence - sockbuf[i].seq + UINT16_MAX = probes - probes
    BY <1>5 DEF Numbered
  <2>3. \A q, s, m, n \in Nat :
          /\ s # 0 /\ q <= m
          /\ s - q = n - n \/ s - q + m = n - n
          => q = s
    OBVIOUS
  <2>4. UINT16_MAX \in Nat
    BY Constants
  <2> QED BY <1>2, <1>4, <2>1, <2>2, <2>3, <2>4
<1>7. ls_icmp_recv(sockbuf[i], probe_sequence) = "MATCHED"
  BY <1>3, <1>6 DEF Genuine, ls_icmp_recv, source_matches, reply_matches
<1>8. i \in 1 .. Min({LS_MAX_REPLY_DRAIN_PER_WAKEUP, Len(sockbuf)})
  <2>1. Len(sockbuf) <= LS_MAX_REPLY_DRAIN_PER_WAKEUP
    BY <1>1, <1>2, Constants DEF Ages
  <2>2. Min({LS_MAX_REPLY_DRAIN_PER_WAKEUP, Len(sockbuf)}) = Len(sockbuf)
    BY <1>2, <2>1, MinPair, Constants
  <2> QED BY <2>2
<1> QED BY <1>3, <1>7, <1>8 DEF Acceptable

\* on_reply_timer counts no probe as failed whose reply waits in the socket buffer, provided
\* that one wakeup can read all that the buffer holds.
THEOREM RepliesAreNotOverlooked ==
  ASSUME MaxQueue <= LS_MAX_REPLY_DRAIN_PER_WAKEUP
  PROVE  Spec => NoReplyLeftBehind
<1> DEFINE A == pc = "reply" /\ stats'.failed # stats.failed =>
                  \A i \in 1 .. Len(sockbuf) : sockbuf[i].probe # probes
<1>1. Inductive /\ Genuine /\ [Next]_vars => A
  <2> SUFFICES ASSUME Inductive, Genuine, [Next]_vars, pc = "reply",
                      stats'.failed # stats.failed,
                      NEW i \in 1 .. Len(sockbuf), sockbuf[i].probe = probes
               PROVE  FALSE
    OBVIOUS
  <2>0. Books /\ Ages
    BY DEF Inductive
  <2>1. drain_exhausts /\ Elapsed("reply") /\ ~stopping
    BY <2>0, TimedOut, NotFatal DEF on_reply_timer
  <2>2. Outstanding = 1 /\ ~sock_err /\ Acceptable = {}
    BY <2>1 DEF Elapsed, Outstanding, drain_exhausts
  <2> QED BY <2>0, <2>1, <2>2, ReplyIsAcceptable
<1> QED BY <1>1, Invariance, GenuineAlways, PTL DEF Spec, NoReplyLeftBehind

-----------------------------------------------------------------------------
(* A healthy link.                                                         *)

\* Steps that read no packet and send no request lose no reply: one that leaves the network
\* is in the socket buffer.
LEMMA NoReplyLost ==
  ASSUME TypeOK, [Next]_vars, ~on_reply_timer, ~on_ping_timer, ~on_icmp_readable
  PROVE  /\ net' \subseteq net
         /\ UNCHANGED probes
         /\ InReach => InReach'
<1>1. sockbuf \in Seq(Packet) /\ Len(sockbuf) \in Nat
  BY DEF TypeOK
<1>2. ASSUME UNCHANGED <<net, sockbuf, probes>>
      PROVE  net' \subseteq net /\ UNCHANGED probes /\ (InReach => InReach')
  BY <1>2 DEF InReach
<1>3. ASSUME NEW p, sockbuf' = Append(sockbuf, p)
      PROVE  /\ \A i \in 1 .. Len(sockbuf) : i \in 1 .. Len(sockbuf') /\ sockbuf'[i] = sockbuf[i]
             /\ Len(sockbuf) + 1 \in 1 .. Len(sockbuf') /\ sockbuf'[Len(sockbuf) + 1] = p
  BY <1>1, <1>3
<1>4. CASE \E r \in net : ReplyArrives(r)
  <2>1. PICK r \in net : ReplyArrives(r)
    BY <1>4
  <2>2. sockbuf' = Append(sockbuf, Reply(r)) /\ net' \in {net, net \ {r}} /\ UNCHANGED probes
    BY <2>1 DEF ReplyArrives
  <2>3. Reply(r).probe = r.probe
    BY DEF Reply
  <2> QED BY <1>3, <2>2, <2>3, Zenon DEF InReach
<1>5. CASE \E p \in Unrelated : UnrelatedArrives(p)
  <2>1. PICK p \in Unrelated : UnrelatedArrives(p)
    BY <1>5
  <2>2. sockbuf' = Append(sockbuf, p) /\ UNCHANGED <<net, probes>>
    BY <2>1 DEF UnrelatedArrives, sendVars
  <2> QED BY <1>3, <2>2 DEF InReach
<1>6. CASE LoopStep \/ on_watchdog_timer \/ dispatch_signal_fd \/ UNCHANGED vars
  <2>1. UNCHANGED <<sendVars, socketVars>>
    <3>1. CASE LoopStep \/ UNCHANGED vars
      BY <3>1 DEF LoopStep, vars, appVars
    <3>2. CASE on_watchdog_timer
      BY <3>2 DEF on_watchdog_timer
    <3>3. CASE dispatch_signal_fd
      BY <3>3 DEF dispatch_signal_fd
    <3> QED BY <1>6, <3>1, <3>2, <3>3
  <2> QED BY <1>2, <2>1 DEF sendVars, socketVars
<1>7. CASE \/ Tick(Waiting) /\ UNCHANGED appVars
           \/ SocketFails
           \/ \E g \in Signals : SignalArrives(g)
  BY <1>2, <1>7 DEF SocketFails, SignalArrives, appVars, socketVars, sendVars
<1> QED BY <1>4, <1>5, <1>6, <1>7 DEF Next, Process, Stopped, Environment

\* A failure is a timeout or a refused request.
LEMMA FailureSource ==
  ASSUME Books, [Next]_vars, stats'.failed # stats.failed
  PROVE  \/ on_reply_timer /\ drain_exhausts
         \/ on_ping_timer /\ ls_icmp_send_echo("UNREACHABLE")
<1>1. CASE pc = "reply"
  BY <1>1, TimedOut
<1>2. CASE pc # "reply"
  <2>1. on_ping_timer \/ on_icmp_readable
    <3>1. ASSUME LoopStep \/ on_watchdog_timer \/ dispatch_signal_fd \/ Environment \/ UNCHANGED vars
          PROVE  FALSE
      <4>1. UNCHANGED policyVars
        BY <3>1, IdleStep, Zenon
      <4> QED BY <4>1 DEF policyVars
    <3> QED BY <1>2, <3>1 DEF Next, Process, Stopped, on_reply_timer
  <2>2. ~on_icmp_readable
    BY MatchEffect DEF Books, on_icmp_readable, drain_fails, app_fail, policyVars
  <2>3. ~ping_skipped /\ ~ping_error /\ ~ping_sent
    BY DEF ping_skipped, ping_error, ping_sent, app_fail, policyVars
  <2> QED BY <2>1, <2>2, <2>3 DEF on_ping_timer, ping_unreachable
<1> QED BY <1>1, <1>2

\* No probe fails in a step that leaves the link healthy.
LEMMA HealthyCount ==
  ASSUME Books, Ages, Genuine, [Next]_vars, HealthyStep, Reach,
         MaxQueue <= LS_MAX_REPLY_DRAIN_PER_WAKEUP
  PROVE  stats'.failed = stats.failed
<1> SUFFICES ASSUME stats'.failed # stats.failed PROVE FALSE
  OBVIOUS
<1>1. TypeOK /\ Books /\ clock \in Nat /\ now_ms \in Nat /\ deadline["reply"] \in Nat
  BY TimingTypes DEF Books
<1>2. CASE on_reply_timer /\ drain_exhausts
  <2>1. pc = "reply" /\ Elapsed("reply")
    BY <1>2 DEF on_reply_timer
  <2>2. ~stopping /\ ~sock_err /\ Acceptable = {} /\ Outstanding = 1
    BY <1>1, <1>2, <2>1, NotFatal DEF drain_exhausts, Elapsed, Outstanding
  <2>3. clock >= deadline["reply"]
    BY <1>1, <2>1, <2>2 DEF Reach, WholeTimeouts, Timers, Elapsed
  <2>4. \E i \in 1 .. Len(sockbuf) : sockbuf[i].probe = probes
    BY <2>2, <2>3 DEF Reach, InReach
  <2> QED BY <2>2, <2>4, ReplyIsAcceptable
<1>3. CASE on_ping_timer /\ ls_icmp_send_echo("UNREACHABLE")
  <2>1. /\ probes \in Nat /\ probes' = probes + 1 /\ net' \subseteq net
    BY <1>1, <1>3, TimingTypes, Zenon DEF ls_icmp_send_echo
  <2>2. PICK r \in net : r.probe = probes + 1
    <3>1. probes' # probes
      BY <2>1
    <3>2. \E r \in net' : r.probe = probes'
      BY <3>1, Zenon DEF HealthyStep
    <3> QED BY <2>1, <3>2, Zenon
  <2>3. ~stopping
    BY <1>1, <1>3, NotFatal DEF on_ping_timer
  <2>4. r.probe \in 1 .. probes
    BY <2>3 DEF Ages, NetAges, Numbered
  <2> QED BY <2>1, <2>2, <2>4
<1> QED BY <1>2, <1>3, FailureSource

\* The reply to the last probe stays in reach while the link is healthy.
LEMMA ReachStep ==
  ASSUME Books, Books', Ages, Genuine, [Next]_vars, HealthyStep, Reach,
         stats.failed = 0, stats'.failed = 0,
         Stalls \cap Timers = {}, MaxQueue <= LS_MAX_REPLY_DRAIN_PER_WAKEUP
  PROVE  Reach'
<1> SUFFICES ASSUME ~stopping'
             PROVE  /\ WholeTimeouts'
                    /\ Outstanding' = 1 =>
                         /\ InReach'
                         /\ clock' >= deadline'["reply"] => \A r \in net' : r.probe # probes'
  BY DEF Reach
<1>1. /\ TypeOK /\ TypeOK' /\ ~stopping /\ WholeTimeouts
      /\ Outstanding = 1 =>
           InReach /\ (clock >= deadline["reply"] => \A r \in net : r.probe # probes)
  BY StillRunning DEF Books, Reach
<1>2. clock \in Nat /\ clock' \in Nat /\ now_ms \in Nat /\ deadline["reply"] \in Nat
  <2>1. clock' \in Nat
    BY <1>1, LoopAssumption DEF TypeOK, LoopTypeOK
  <2> QED BY <1>1, <2>1, TimingTypes
<1>3. ~probe_failed
  <2>1. UINT64_MAX > 0 /\ UINT64_MAX \in Nat
    BY Constants
  <2>2. stats \in [ok : Uint64, failed : Uint64]
    BY <1>1 DEF TypeOK
  <2> QED BY <2>1, <2>2 DEF probe_failed, ls_add_sat
<1>4. pc \in Timers => clock' = clock
  <2>1. on_reply_timer => clock' = clock
    BY <1>1, <1>3, ReplyEffect
  <2>2. on_ping_timer => clock' = clock
    BY <1>1, <1>3, PingEffect
  <2>3. (on_watchdog_timer => clock' = clock) /\ (on_icmp_readable => clock' = clock)
    <3>1. ASSUME on_watchdog_timer PROVE clock' = clock
      BY <3>1 DEF on_watchdog_timer
    <3>2. ASSUME on_icmp_readable PROVE clock' = clock
      BY <1>1, <3>2, ReadableEffect
    <3> QED BY <3>1, <3>2
  <2>4. PassMoves /\ pc \in Timers => clock' = clock
    BY DEF PassMoves, Tick, Timers, Fds, poll, loopVars
  <2> QED BY <2>1, <2>2, <2>3, <2>4, PassStep
<1>5. WholeTimeouts'
  BY <1>1, <1>4, WholeTimeoutsStep
<1>6. ASSUME Outstanding' = 1
      PROVE  InReach' /\ (clock' >= deadline'["reply"] => \A r \in net' : r.probe # probes')
  <2>1. CASE on_reply_timer
    <3>1. TypeOK
      BY <1>1
    <3>2. Outstanding' = 0
      BY <2>1, <3>1, ReplyEffect, Zenon
    <3> QED BY <1>6, <3>2
  <2>2. CASE on_ping_timer
    <3>1. now_ms = clock
      BY <1>1, <2>2 DEF on_ping_timer, WholeTimeouts, Timers
    <3>2. CASE /\ Outstanding = 1 /\ deadline'["reply"] = deadline["reply"]
               /\ UNCHANGED <<clock, probes, net>>
      <4>1. UNCHANGED sockbuf
        BY <2>2 DEF on_ping_timer, socketVars
      <4> QED BY <1>1, <3>2, <4>1, Zenon DEF InReach
    <3>3. CASE /\ deadline'["reply"] = now_ms + timeout_ms /\ UNCHANGED clock
               /\ [probe |-> probes', seq |-> sequence'] \in net'
      <4>1. InReach'
        BY <3>3, Zenon DEF InReach
      <4>2. ~(clock' >= deadline'["reply"])
        BY <1>2, <3>1, <3>3, Constants
      <4> QED BY <4>1, <4>2
    <3> QED BY <1>1, <1>3, <2>2, <3>2, <3>3, PingEffect
  <2>3. CASE on_icmp_readable
    <3>1. /\ drain_exhausts /\ Outstanding = 1 /\ UNCHANGED <<clock, deadline, probes>>
      BY <1>1, <1>6, <2>3, ReadableEffect DEF Outstanding
    <3>2. UNCHANGED net
      BY <2>3 DEF on_icmp_readable, sendVars
    <3>3. ~\E i \in 1 .. Len(sockbuf) : sockbuf[i].probe = probes
      BY <1>1, <3>1, ReplyIsAcceptable, Zenon DEF drain_exhausts
    <3> QED BY <1>1, <3>1, <3>2, <3>3, Zenon DEF InReach
  <2>4. CASE ~on_reply_timer /\ ~on_ping_timer /\ ~on_icmp_readable
    <3>1. /\ UNCHANGED <<probe_sent_ns, deadline["reply"], probes>>
          /\ Outstanding = 1 /\ net' \subseteq net /\ InReach'
      <4>1. UNCHANGED <<probe_sent_ns, deadline["reply"]>>
        <5>1. CASE on_watchdog_timer
          BY <1>1, <5>1, Zenon DEF on_watchdog_timer, probeVars, TypeOK, LoopTypeOK, Timers
        <5>2. CASE ~on_watchdog_timer
          BY <2>4, <5>2, PassStep
        <5> QED BY <5>1, <5>2
      <4>2. Outstanding = 1
        BY <1>6, <4>1 DEF Outstanding
      <4> QED BY <1>1, <2>4, <4>1, <4>2, NoReplyLost
    <3>2. CASE UNCHANGED clock
      BY <1>1, <3>1, <3>2
    <3>3. CASE clock' # clock
      <4>1. deadline["reply"] = probe_sent_ns + timeout_ms
        BY <1>1, <3>1 DEF WholeTimeouts
      <4>2. clock' >= deadline["reply"] => clock' - probe_sent_ns >= timeout_ms
        <5>1. probe_sent_ns \in Nat /\ timeout_ms \in Nat
          <6>1. probe_sent_ns \in 0 .. MaxClock
            BY <1>1, Zenon DEF TypeOK
          <6> QED BY <6>1, Constants
        <5>2. \A c, q, t \in Nat : c >= q + t => c - q >= t
          OBVIOUS
        <5> QED BY <1>2, <4>1, <5>1, <5>2, Zenon
      <4> QED BY <3>1, <3>3, <4>2 DEF HealthyStep
    <3> QED BY <3>2, <3>3
  <2> QED BY <2>1, <2>2, <2>3, <2>4
<1> QED BY <1>5, <1>6

\* On a healthy link the monitor never counts a probe as failed, however late it wakes up and
\* however many unrelated packets arrive, provided that one wakeup can read all that the
\* socket buffer holds and nothing holds the process up between reading the clock and running
\* the timers.
THEOREM HealthyLinkNeverFails ==
  ASSUME Stalls \cap Timers = {}, MaxQueue <= LS_MAX_REPLY_DRAIN_PER_WAKEUP
  PROVE  LinkSpec => []HealthyLink
<1> DEFINE Inv == healthy => stats.failed = 0 /\ Reach
<1>1. LinkSpec => Spec
  <2>1. [LinkNext]_linkVars => [Next]_vars
    BY DEF LinkNext, linkVars
  <2> QED BY <2>1, PTL DEF LinkSpec, Spec
<1>2. Init => Inv
  <2> SUFFICES ASSUME Init PROVE stats.failed = 0 /\ Reach
    OBVIOUS
  <2>1. stats.failed = 0
    BY DEF Init
  <2>2. pc \notin Timers
    BY DEF Init, LoopInit, Timers
  <2>3. Outstanding # 1
    BY DEF Init, LoopInit, Outstanding, ls_timer_armed
  <2> QED BY <2>1, <2>2, <2>3, Zenon DEF Reach, WholeTimeouts
<1>3. Inductive /\ Inductive' /\ Genuine /\ Inv /\ [LinkNext]_linkVars => Inv'
  <2>1. ASSUME Inductive, Inductive', Genuine, Next, HealthyStep, stats.failed = 0, Reach
        PROVE  stats'.failed = 0 /\ Reach'
    <3>1. Books /\ Books' /\ Ages
      BY <2>1 DEF Inductive
    <3>2. stats'.failed = 0
      BY <2>1, <3>1, HealthyCount
    <3> QED BY <2>1, <3>1, <3>2, ReachStep
  <2>2. ASSUME UNCHANGED vars
        PROVE  stats' = stats /\ Reach' = Reach
    <3>1. UNCHANGED <<loopVars, probeVars, policyVars, sendVars, socketVars>>
      BY <2>2 DEF vars, appVars
    <3>2. UNCHANGED <<clock, pc, now_ms, deadline, stopping, probe_sent_ns, stats, probes, net,
                      sockbuf>>
      BY <3>1 DEF loopVars, probeVars, policyVars, sendVars, socketVars
    <3> QED BY <3>2 DEF Reach, InReach, WholeTimeouts, Outstanding
  <2>3. [LinkNext]_linkVars =>
          \/ Next /\ healthy' = (healthy /\ HealthyStep)
          \/ UNCHANGED vars /\ healthy' = healthy
    BY Zenon DEF LinkNext, linkVars
  <2> QED BY <2>1, <2>2, <2>3, Zenon
<1>4. Inv => HealthyLink
  BY DEF HealthyLink
<1> HIDE DEF Inv
<1> QED BY <1>1, <1>2, <1>3, <1>4, Invariance, GenuineAlways, PTL DEF LinkSpec

-----------------------------------------------------------------------------
(* The pace of the probes.                                                 *)

\* A probe more, n probes after the first one at time f: what its due time d and the
\* loop's time t, not before d, say of the next due time e.
LEMMA NextPeriod ==
  ASSUME NEW n \in Nat, NEW f \in Nat, NEW d \in Nat, NEW e \in Nat, NEW t \in Nat,
         n >= 1, d >= f + (n - 1) * interval_ms, e >= d + interval_ms, t >= d
  PROVE  /\ e >= f + ((n + 1) - 1) * interval_ms
         /\ t >= f + ((n + 1) - 2) * interval_ms
<1>1. n - 1 \in Nat /\ (n - 1) + 1 = n /\ (n + 1) - 1 = n /\ (n + 1) - 2 = n - 1
  OBVIOUS
<1>2. (n - 1) * interval_ms \in Nat /\ n * interval_ms = (n - 1) * interval_ms + interval_ms
  BY <1>1, Periods
<1> DEFINE a == (n - 1) * interval_ms
           b == n * interval_ms
<1>3. a \in Nat /\ b = a + interval_ms /\ d >= f + a
  BY <1>2
<1> HIDE DEF a, b
<1>4. e >= f + b /\ t >= f + a
  BY <1>3, Constants
<1> QED BY <1>1, <1>4 DEF a, b

\* on_ping_timer moves its deadline on and starts one probe at most, also when it stops.
LEMMA PingPace ==
  ASSUME Books, on_ping_timer
  PROVE  /\ deadline["ping"] \in Nat /\ deadline["ping"] <= now_ms /\ now_ms' = now_ms
         /\ deadline'["ping"] \in Nat
         /\ deadline'["ping"] >= deadline["ping"] + interval_ms /\ deadline'["ping"] >= now_ms
         /\ probes' \in {probes, probes + 1} /\ credited' = credited
<1>1. TypeOK /\ Elapsed("ping") /\ now_ms' = now_ms
  BY DEF Books, on_ping_timer
<1>2. deadline'["ping"] = StepPing["ping"]
  BY <1>1, StepPingType DEF on_ping_timer, ping_skipped, ping_error, ping_unreachable, ping_sent,
       Timers
<1>3. probes' \in {probes, probes + 1} /\ credited' = credited
  BY DEF on_ping_timer, ping_skipped, ping_error, ping_unreachable, ping_sent, sendVars,
       policyVars, app_fail, probe_failed, ls_icmp_send_echo
<1>4. /\ deadline["ping"] \in Nat /\ now_ms \in Nat /\ deadline["ping"] <= now_ms
      /\ StepPing["ping"] \in Nat /\ StepPing["ping"] >= deadline["ping"] + interval_ms
  BY <1>1, BookTypes, StepPingValue, PingMoves
<1>5. StepPing["ping"] >= now_ms
  BY <1>1, <1>4, PingMoves, Constants
<1> QED BY <1>1, <1>2, <1>3, <1>4, <1>5

\* Every other step leaves the ping timer and the probes alone and ends the streak or leaves
\* it alone.
LEMMA OtherPace ==
  ASSUME Books, Ages, [Next]_vars, ~on_ping_timer
  PROVE  /\ probes' = probes /\ deadline'["ping"] = deadline["ping"]
         /\ now_ms' \in {now_ms, clock}
         /\ credited' \in {credited, probes}
<1>1. CASE LoopStep \/ on_watchdog_timer \/ dispatch_signal_fd \/ Environment \/ UNCHANGED vars
  <2>1. UNCHANGED <<credited, probes>> /\ deadline'["ping"] = deadline["ping"]
    BY <1>1, IdleStep, Zenon DEF policyVars
  <2>2. now_ms' \in {now_ms, clock}
    <3>1. CASE LoopStep
      BY <3>1 DEF LoopStep, refresh_now, refresh_now_fails, skip_timer, poll, poll_ready,
           poll_empty, poll_fails, skip_fd, critical_fd_fails
    <3>2. CASE on_watchdog_timer \/ dispatch_signal_fd
      BY <3>2, Zenon DEF on_watchdog_timer, dispatch_signal_fd
    <3>3. CASE Environment \/ UNCHANGED vars
      BY <3>3, Zenon DEF Environment, Tick, ReplyArrives, UnrelatedArrives, SocketFails,
           SignalArrives, loopVars, vars
    <3> QED BY <1>1, <3>1, <3>2, <3>3
  <2> QED BY <2>1, <2>2
<1>2. CASE on_reply_timer \/ on_icmp_readable
  <2>1. UNCHANGED <<now_ms, probes>> /\ pc # "stopped"
    BY <1>2 DEF on_reply_timer, on_icmp_readable, sendVars
  <2>2. /\ probe_reset \/ UNCHANGED deadline
        /\ drain_matches \/ UNCHANGED credited
    BY <1>2, Zenon DEF on_reply_timer, on_icmp_readable, drain_matches, drain_fails, app_fail,
         probe_failed, policyVars
  <2>3. deadline'["ping"] = deadline["ping"]
    BY <2>2 DEF probe_reset, Books, TypeOK, LoopTypeOK, Timers
  <2>4. credited' \in {credited, probes}
    BY <2>1, <2>2, NotFatal, AcceptedIsLast
  <2> QED BY <2>1, <2>3, <2>4
<1> QED BY <1>1, <1>2, Zenon DEF Next, Process, Stopped

\* The probes of a streak keep their pace: n probes take n - 2 whole periods or more, for every
\* configuration and wherever and for however long the process is held up (ls_timer_step).
THEOREM ProbesKeepPace == LinkSpec => []NoBurst
<1> DEFINE Inv == first \in Nat /\ Pace /\ NoBurst
<1>1. LinkSpec => Spec
  <2>1. [LinkNext]_linkVars => [Next]_vars
    BY DEF LinkNext, linkVars
  <2> QED BY <2>1, PTL DEF LinkSpec, Spec
<1>2. Init /\ first = 0 => Inv
  <2>1. Init => probes = 0 /\ credited = 0
    BY Zenon DEF Init
  <2> QED BY <2>1 DEF Pace, NoBurst, Unanswered
<1>3. Inductive /\ Inv /\ [LinkNext]_linkVars => Inv'
  <2> SUFFICES ASSUME Inductive, first \in Nat, Pace, NoBurst, [LinkNext]_linkVars
               PROVE  Inv'
    OBVIOUS
  <2>1. Books /\ Ages /\ [Next]_vars
    BY DEF Inductive, LinkNext, linkVars
  <2>2. /\ probes \in Nat /\ credited \in Nat /\ now_ms \in Nat /\ clock \in Nat
        /\ deadline["ping"] \in Nat /\ now_ms <= clock /\ interval_ms \in Nat
    <3>1. TypeOK /\ now_ms <= clock
      BY <2>1, Zenon DEF Books, Control
    <3>2. credited \in Nat
      BY <3>1, Zenon DEF TypeOK
    <3> QED BY <3>1, <3>2, TimingTypes, TimingConstants
  <2>3. first' = IF probes' # probes /\ probes = credited THEN now_ms ELSE first
    BY <2>2 DEF LinkNext, linkVars, vars, appVars, sendVars
  <2>4. CASE on_ping_timer
    <3>1. /\ deadline["ping"] <= now_ms /\ now_ms' = now_ms /\ deadline'["ping"] \in Nat
          /\ deadline'["ping"] >= deadline["ping"] + interval_ms /\ deadline'["ping"] >= now_ms
          /\ probes' \in {probes, probes + 1} /\ credited' = credited
      BY <2>1, <2>4, PingPace
    <3>2. CASE probes' = probes
      <4>1. first' = first /\ Unanswered' = Unanswered /\ Unanswered \in Int
        BY <2>2, <2>3, <3>1, <3>2 DEF Unanswered
      <4>2. Unanswered >= 1 => (Unanswered - 1) * interval_ms \in Nat
        BY <2>2, <4>1, Periods
      <4> QED BY <2>2, <3>1, <4>1, <4>2 DEF Pace, NoBurst
    <3>3. CASE probes' = probes + 1 /\ probes = credited
      <4>1. first' = now_ms /\ Unanswered' = 1
        BY <2>2, <2>3, <3>1, <3>3 DEF Unanswered
      <4> QED BY <2>2, <3>1, <4>1 DEF Pace, NoBurst
    <3>4. CASE probes' = probes + 1 /\ probes # credited
      <4>1. /\ first' = first /\ Unanswered' = Unanswered + 1 /\ Unanswered \in Int
            /\ Unanswered # 0
        BY <2>2, <2>3, <3>1, <3>4 DEF Unanswered
      <4>2. CASE Unanswered >= 1
        <5>1. Unanswered \in Nat /\ deadline["ping"] >= first + (Unanswered - 1) * interval_ms
          BY <4>1, <4>2 DEF Pace
        <5>2. /\ deadline'["ping"] >= first + ((Unanswered + 1) - 1) * interval_ms
              /\ now_ms >= first + ((Unanswered + 1) - 2) * interval_ms
          BY <2>2, <3>1, <4>2, <5>1, NextPeriod
        <5> QED BY <2>2, <3>1, <4>1, <5>2 DEF Pace, NoBurst
      <4>3. CASE Unanswered < 0
        BY <4>1, <4>3 DEF Pace, NoBurst
      <4> QED BY <4>1, <4>2, <4>3
    <3> QED BY <3>1, <3>2, <3>3, <3>4
  <2>5. CASE ~on_ping_timer
    <3>1. /\ probes' = probes /\ deadline'["ping"] = deadline["ping"]
          /\ now_ms' \in {now_ms, clock} /\ credited' \in {credited, probes}
      BY <2>1, <2>5, OtherPace
    <3>2. first' = first
      BY <2>3, <3>1
    <3>3. CASE credited' = credited
      <4>1. Unanswered' = Unanswered /\ Unanswered \in Int
        BY <2>2, <3>1, <3>3 DEF Unanswered
      <4>2. Unanswered >= 2 => (Unanswered - 2) * interval_ms \in Nat
        BY <2>2, <4>1, Periods
      <4> QED BY <2>2, <3>1, <3>2, <4>1, <4>2 DEF Pace, NoBurst
    <3>4. CASE credited' = probes
      <4>1. Unanswered' = 0
        BY <2>2, <3>1, <3>4 DEF Unanswered
      <4> QED BY <3>2, <4>1 DEF Pace, NoBurst
    <3> QED BY <3>1, <3>3, <3>4
  <2> QED BY <2>4, <2>5
<1>4. Inv => NoBurst
  OBVIOUS
<1> HIDE DEF Inv
<1> QED BY <1>1, <1>2, <1>3, <1>4, Invariance, PTL DEF LinkSpec
=============================================================================
