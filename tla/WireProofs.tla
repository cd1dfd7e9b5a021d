----------------------------- MODULE WireProofs -----------------------------
(***************************************************************************)
(* Proofs about Wire: the checksum arithmetic of icmp_checksum, and that a *)
(* packet is matched if and only if it is the echo reply to the last       *)
(* request, for bytes and buffers of every size.                           *)
(***************************************************************************)
EXTENDS Wire, WellFoundedInduction, NaturalsInduction, TLAPS

\* A non-empty set of naturals has a least element.
LEMMA LeastNatural ==
  ASSUME NEW S, S \subseteq Nat, S # {}
  PROVE  \E m \in S : \A x \in S : m <= x
<1>1. PICK m \in S : \A y \in S : ~(<<y, m>> \in OpToRel(<, Nat))
  BY NatLessThanWellFounded, WFMin
<1>2. \A y \in S : ~(y < m)
  BY <1>1 DEF OpToRel
<1>3. \A y \in S : m <= y
  BY <1>2
<1> QED BY <1>3

-----------------------------------------------------------------------------
(* The recursive functions of the model are what their equations say.      *)

\* Sums exists: it can be computed round by round.
LEMMA SumsExist ==
  ASSUME NEW n \in Nat, NEW word \in [0 .. n - 1 -> Nat]
  PROVE  \E s \in [0 .. n -> Nat] :
           s[0] = 0 /\ \A k \in 1 .. n : s[k] = s[k - 1] + word[k - 1]
<1> DEFINE P(m) == \E s \in [0 .. m -> Nat] :
                     s[0] = 0 /\ \A k \in 1 .. m : s[k] = s[k - 1] + word[k - 1]
           Bad == {m \in 0 .. n : ~P(m)}
<1>1. P(0)
  <2> DEFINE t == [k \in 0 .. 0 |-> 0]
  <2>1. t \in [0 .. 0 -> Nat] /\ t[0] = 0 /\ 1 .. 0 = {}
    OBVIOUS
  <2> HIDE DEF t
  <2> QED BY <2>1
<1>2. ASSUME NEW m \in 0 .. n - 1, P(m) PROVE P(m + 1)
  <2>1. PICK s \in [0 .. m -> Nat] :
               s[0] = 0 /\ \A k \in 1 .. m : s[k] = s[k - 1] + word[k - 1]
    BY <1>2
  <2> DEFINE t == [k \in 0 .. m + 1 |-> IF k <= m THEN s[k] ELSE s[m] + word[m]]
  <2>2. word[m] \in Nat /\ s[m] \in Nat
    BY <1>2, <2>1
  <2>3. t \in [0 .. m + 1 -> Nat]
    BY <2>1, <2>2
  <2>4. t[0] = 0
    BY <1>2, <2>1
  <2>5. \A k \in 1 .. m + 1 : t[k] = t[k - 1] + word[k - 1]
    <3> TAKE k \in 1 .. m + 1
    <3>1. CASE k <= m
      <4>1. k \in 1 .. m /\ k - 1 \in 0 .. m /\ k - 1 <= m
        BY <1>2, <3>1
      <4> QED BY <2>1, <4>1
    <3>2. CASE ~(k <= m)
      <4>1. k = m + 1 /\ k - 1 = m
        BY <1>2, <3>2
      <4> QED BY <1>2, <4>1
    <3> QED BY <3>1, <3>2
  <2> HIDE DEF t
  <2> QED BY <2>3, <2>4, <2>5
<1> HIDE DEF P
<1>3. Bad = {}
  <2> SUFFICES ASSUME Bad # {} PROVE FALSE
    OBVIOUS
  <2>1. PICK m \in Bad : \A x \in Bad : m <= x
    <3>1. Bad \subseteq Nat
      OBVIOUS
    <3> HIDE DEF Bad
    <3> QED BY <3>1, LeastNatural
  <2>2. m # 0 /\ m \in 0 .. n /\ ~P(m)
    BY <1>1
  <2>3. m - 1 \in 0 .. n - 1 /\ m - 1 \notin Bad /\ m - 1 + 1 = m
    BY <2>1, <2>2
  <2>4. P(m - 1)
    BY <2>3
  <2> QED BY <1>2, <2>2, <2>3, <2>4
<1>4. n \in 0 .. n
  OBVIOUS
<1>5. P(n)
  BY <1>3, <1>4
<1> QED BY <1>5 DEF P

\* Sums adds the words one after the other.
LEMMA SumsDef ==
  ASSUME NEW n \in Nat, NEW word \in [0 .. n - 1 -> Nat]
  PROVE  /\ Sums(word, n) \in [0 .. n -> Nat]
         /\ Sums(word, n)[0] = 0
         /\ \A k \in 1 .. n : Sums(word, n)[k] = Sums(word, n)[k - 1] + word[k - 1]
<1> DEFINE F(s) == [k \in 0 .. n |-> IF k = 0 THEN 0 ELSE s[k - 1] + word[k - 1]]
<1>1. PICK s \in [0 .. n -> Nat] : s[0] = 0 /\ \A k \in 1 .. n : s[k] = s[k - 1] + word[k - 1]
  BY SumsExist
<1>2. s = F(s)
  BY <1>1
<1>3. Sums(word, n) = F(Sums(word, n))
  BY <1>2 DEF Sums
<1> DEFINE f == Sums(word, n)
           Bad == {k \in 0 .. n : f[k] \notin Nat}
<1> HIDE DEF f
<1>4. f = [k \in 0 .. n |-> IF k = 0 THEN 0 ELSE f[k - 1] + word[k - 1]]
  BY <1>3 DEF f
<1>5. f[0] = 0 /\ \A k \in 1 .. n : f[k] = f[k - 1] + word[k - 1]
  BY <1>4
<1>6. Bad = {}
  <2> SUFFICES ASSUME Bad # {} PROVE FALSE
    OBVIOUS
  <2>1. PICK m \in Bad : \A x \in Bad : m <= x
    <3>1. Bad \subseteq Nat
      OBVIOUS
    <3> HIDE DEF Bad
    <3> QED BY <3>1, LeastNatural
  <2>2. m \in 1 .. n
    BY <1>5
  <2>3. m - 1 \in 0 .. n - 1 /\ m - 1 \in 0 .. n /\ ~(m <= m - 1)
    BY <2>2
  <2>4. f[m - 1] \in Nat
    BY <2>1, <2>3
  <2>5. f[m] \in Nat
    BY <1>5, <2>2, <2>3, <2>4
  <2> QED BY <2>5
<1> QED BY <1>4, <1>5, <1>6 DEF f

\* Division, for divisors that are not numerals.
LEMMA Euclid ==
  \A x, w \in Nat : w > 0 =>
    /\ x \div w \in Nat /\ x % w \in 0 .. w - 1
    /\ x = (x \div w) * w + (x % w)
OBVIOUS

\* Quotient and remainder are the only numbers that satisfy that equation.
LEMMA EuclidUnique ==
  \A x, q, w, r \in Nat : x = q * w + r /\ r < w => x % w = r /\ x \div w = q
OBVIOUS

\* The constants of the byte level, and how a word is made of bytes.
LEMMA WireConstants ==
  /\ UINT16_MAX \in Nat /\ UINT16_MAX > 0
  /\ WORD16 = UINT16_MAX + 1 /\ WORD16 \in Nat /\ WORD16 >= 2
  /\ NIBBLE \in Nat /\ NIBBLE > 0
  /\ BYTE \in Nat /\ BYTE > 0 /\ BYTE * BYTE = WORD16
  /\ IP_WORD \in Nat /\ IP_WORD > 0 /\ IP_HDR \in Nat
  /\ PACKET_SIZE \in Nat /\ RECV_BUF \in Nat
BY Uint16Assumption, WireAssumption DEF WORD16, BYTE

\* Folding the carry into the low word makes the sum smaller by a multiple of UINT16_MAX, and
\* not 0.
LEMMA FoldOnce ==
  ASSUME NEW sum \in Nat, ~(sum < WORD16)
  PROVE  LET folded == (sum % WORD16) + (sum \div WORD16)
         IN  /\ folded \in Nat /\ 0 < folded /\ folded < sum
             /\ sum \div WORD16 \in Nat
             /\ sum = folded + (sum \div WORD16) * UINT16_MAX
<1> DEFINE q == sum \div WORD16
           r == sum % WORD16
<1>1. q \in Nat /\ r \in Nat /\ sum = q * WORD16 + r /\ r < WORD16
  <2>1. WORD16 \in Nat /\ WORD16 > 0
    BY WireConstants
  <2>2. q \in Nat /\ r \in 0 .. WORD16 - 1 /\ sum = q * WORD16 + r
    BY <2>1, Euclid
  <2> HIDE DEF q, r
  <2> QED BY <2>1, <2>2
<1> HIDE DEF q, r
<1>2. \A a, b, m \in Nat : m > 0 /\ ~(a * (m + 1) + b < m + 1) /\ b < m + 1 =>
        /\ a >= 1
        /\ a * (m + 1) + b = (b + a) + a * m
        /\ a <= a * m
  <2> TAKE a, b, m \in Nat
  <2> HAVE m > 0 /\ ~(a * (m + 1) + b < m + 1) /\ b < m + 1
  <2>1. a >= 1
    <3>1. CASE a = 0
      BY <3>1
    <3> QED BY <3>1
  <2>2. a * (m + 1) + b = (b + a) + a * m
    OBVIOUS
  <2>3. a <= a * m
    OBVIOUS
  <2> QED BY <2>1, <2>2, <2>3
<1>3. q >= 1 /\ sum = (r + q) + q * UINT16_MAX /\ q <= q * UINT16_MAX /\ q * UINT16_MAX \in Nat
  BY <1>1, <1>2, WireConstants
<1>4. \A x, y, z, t \in Nat : y >= 1 /\ y <= z /\ t = (x + y) + z => x + y \in Nat /\ 0 < x + y /\ x + y < t
  OBVIOUS
<1>5. r + q \in Nat /\ 0 < r + q /\ r + q < sum
  BY <1>1, <1>3, <1>4
<1> QED BY <1>1, <1>3, <1>5 DEF q, r

\* What folding the carries to the end computes: the remainder by UINT16_MAX, taken from
\* 1 .. UINT16_MAX.
LEMMA CarryExists ==
  \E f : f = [sum \in Nat |-> IF sum < WORD16 THEN sum
                              ELSE f[(sum % WORD16) + (sum \div WORD16)]]
<1> DEFINE M == UINT16_MAX
           f == [sum \in Nat |-> IF sum = 0 THEN 0 ELSE ((sum - 1) % M) + 1]
<1>1. ASSUME NEW sum \in Nat, sum < WORD16
      PROVE  f[sum] = sum
  <2>1. CASE sum = 0
    BY <2>1
  <2>2. CASE sum # 0
    <3>1. sum - 1 \in Nat /\ sum - 1 = 0 * M + (sum - 1) /\ sum - 1 < M
      BY <1>1, <2>2, WireConstants
    <3>2. (sum - 1) % M = sum - 1
      BY <3>1, EuclidUnique, WireConstants
    <3> QED BY <2>2, <3>1, <3>2
  <2> QED BY <2>1, <2>2
<1>2. ASSUME NEW sum \in Nat, ~(sum < WORD16)
      PROVE  f[sum] = f[(sum % WORD16) + (sum \div WORD16)]
  <2> DEFINE folded == (sum % WORD16) + (sum \div WORD16)
             q == sum \div WORD16
  <2>1. /\ folded \in Nat /\ 0 < folded /\ folded < sum /\ q \in Nat
        /\ sum = folded + q * M
    BY <1>2, FoldOnce
  <2> HIDE DEF folded, q
  <2>2. folded - 1 \in Nat /\ sum - 1 \in Nat /\ M \in Nat /\ M > 0
    BY <2>1, WireConstants
  <2>3. PICK p \in Nat, r \in 0 .. M - 1 : folded - 1 = p * M + r /\ (folded - 1) % M = r
    BY <2>2, Euclid
  <2>4. sum - 1 = (p + q) * M + r
    <3>1. \A a, b, c, d, m \in Nat : c - 1 = a * m + d => (c + b * m) - 1 = (a + b) * m + d
      OBVIOUS
    <3> QED BY <2>1, <2>2, <2>3, <3>1
  <2>5. (sum - 1) % M = r
    BY <2>2, <2>3, <2>4, <2>1, EuclidUnique
  <2>6. sum # 0 /\ folded # 0
    BY <2>1
  <2> QED BY <2>1, <2>3, <2>5, <2>6 DEF folded
<1> QED
  <2>1. f = [sum \in Nat |-> IF sum < WORD16 THEN sum
                             ELSE f[(sum % WORD16) + (sum \div WORD16)]]
    <3>1. f = [sum \in Nat |-> f[sum]]
      OBVIOUS
    <3> HIDE DEF f
    <3> QED BY <1>1, <1>2, <3>1
  <2> QED BY <2>1

\* What one turn of the loop that folds the carries does.
LEMMA CarryStep ==
  \A sum \in Nat :
    Carry[sum] = IF sum < WORD16 THEN sum ELSE Carry[(sum % WORD16) + (sum \div WORD16)]
BY CarryExists DEF Carry

\* The folded sum fits a word, is congruent to the sum modulo UINT16_MAX, and is
\* zero only when the sum is.
LEMMA CarryValue ==
  ASSUME NEW sum \in Nat
  PROVE  /\ Carry[sum] \in 0 .. UINT16_MAX
         /\ sum > 0 => Carry[sum] > 0
         /\ \E q \in Nat : sum = Carry[sum] + q * UINT16_MAX
<1> DEFINE P(n) == /\ Carry[n] \in 0 .. UINT16_MAX
                   /\ n > 0 => Carry[n] > 0
                   /\ \E q \in Nat : n = Carry[n] + q * UINT16_MAX
           Bad == {n \in Nat : ~P(n)}
<1>1. ASSUME NEW n \in Nat, n < WORD16 PROVE P(n)
  <2>1. Carry[n] = n
    BY <1>1, CarryStep
  <2>2. n \in 0 .. UINT16_MAX /\ n = n + 0 * UINT16_MAX
    BY <1>1, WireConstants
  <2> QED BY <2>1, <2>2
<1>2. ASSUME NEW n \in Nat, ~(n < WORD16), \A m \in Nat : m < n => P(m)
      PROVE  P(n)
  <2> DEFINE folded == (n % WORD16) + (n \div WORD16)
             q == n \div WORD16
  <2>1. Carry[n] = Carry[folded]
    BY <1>2, CarryStep
  <2>2. folded \in Nat /\ 0 < folded /\ folded < n /\ q \in Nat /\ n = folded + q * UINT16_MAX
    BY <1>2, FoldOnce
  <2> HIDE DEF folded, q
  <2>3. P(folded)
    BY <1>2, <2>2
  <2>4. PICK p \in Nat : folded = Carry[folded] + p * UINT16_MAX
    BY <2>3
  <2>5. p + q \in Nat /\ n = Carry[n] + (p + q) * UINT16_MAX
    <3>1. \A a, b, c, m \in Nat : (c + a * m) + b * m = c + (a + b) * m
      OBVIOUS
    <3>2. Carry[folded] \in Nat /\ UINT16_MAX \in Nat
      BY <2>3, WireConstants
    <3> QED BY <2>1, <2>2, <2>4, <3>1, <3>2
  <2> QED BY <2>1, <2>2, <2>3, <2>5
<1> HIDE DEF P
<1>3. Bad = {}
  <2> SUFFICES ASSUME Bad # {} PROVE FALSE
    OBVIOUS
  <2>1. PICK n \in Bad : \A x \in Bad : n <= x
    <3>1. Bad \subseteq Nat
      OBVIOUS
    <3> HIDE DEF Bad
    <3> QED BY <3>1, LeastNatural
  <2>2. \A m \in Nat : m < n => P(m)
    <3> TAKE m \in Nat
    <3> HAVE m < n
    <3>1. n \in Nat /\ ~(n <= m)
      OBVIOUS
    <3> QED BY <2>1, <3>1
  <2> QED BY <1>1, <1>2, <2>2
<1>4. P(sum)
  BY <1>3
<1> QED BY <1>4 DEF P

-----------------------------------------------------------------------------
(* Bytes and words.                                                        *)

\* A word is made of the two bytes that htons separates.
LEMMA WordBytes ==
  ASSUME NEW w \in Uint16
  PROVE  /\ Hi(w) \in 0 .. BYTE - 1 /\ Lo(w) \in 0 .. BYTE - 1
         /\ Hi(w) * BYTE + Lo(w) = w
<1> DEFINE q == w \div BYTE
           r == w % BYTE
<1>1. w \in Nat /\ w < BYTE * BYTE /\ BYTE \in Nat /\ BYTE > 0
  BY WireConstants DEF Uint16
<1>2. q \in Nat /\ r \in 0 .. BYTE - 1 /\ w = q * BYTE + r
  BY <1>1, Euclid
<1> HIDE DEF q, r
<1>3. \A a, b, c \in Nat : a * c + b < c * c => a < c
  <2> TAKE a, b, c \in Nat
  <2> HAVE a * c + b < c * c
  <2>1. c <= a => c * c <= a * c
    OBVIOUS
  <2> QED BY <2>1
<1>4. q < BYTE
  BY <1>1, <1>2, <1>3
<1> QED BY <1>1, <1>2, <1>4 DEF q, r, Hi, Lo

\* The two orders in which a word can be read.
LEMMA WordTypes ==
  ASSUME NEW n \in Nat, NEW buf \in Buffer(n), NEW k \in Nat, k + 1 < n
  PROVE  /\ buf[k] \in Nat /\ buf[k] < BYTE /\ buf[k + 1] \in Nat /\ buf[k + 1] < BYTE
         /\ Native(buf, k) \in Nat /\ ntohs(buf, k) \in Nat
<1>1. k \in 0 .. n - 1 /\ k + 1 \in 0 .. n - 1
  OBVIOUS
<1>2. buf[k] \in 0 .. BYTE - 1 /\ buf[k + 1] \in 0 .. BYTE - 1
  BY <1>1 DEF Buffer
<1>3. buf[k] \in Nat /\ buf[k] < BYTE /\ buf[k + 1] \in Nat /\ buf[k + 1] < BYTE
  BY <1>2, WireConstants
<1>4. ntohs(buf, k) \in Nat /\ buf[k] + BYTE * buf[k + 1] \in Nat
  BY <1>3, WireConstants DEF ntohs
<1> QED BY <1>3, <1>4 DEF Native

\* The words of a buffer of even length.
Words == PACKET_SIZE \div 2

\* A request is a whole number of words.
LEMMA WordCount ==
  /\ Words \in Nat /\ Words >= 4 /\ PACKET_SIZE = 2 * Words /\ PACKET_SIZE % 2 = 0
  /\ \A i \in 0 .. Words - 1 : 2 * i \in Nat /\ 2 * i + 1 < PACKET_SIZE
BY WireAssumption DEF Words, ICMP_HDR

\* The words of a buffer are numbers, read in either byte order.
LEMMA WordFunctions ==
  ASSUME NEW buf \in Buffer(PACKET_SIZE)
  PROVE  /\ [i \in 0 .. Words - 1 |-> Native(buf, 2 * i)] \in [0 .. Words - 1 -> Nat]
         /\ [i \in 0 .. Words - 1 |-> ntohs(buf, 2 * i)] \in [0 .. Words - 1 -> Nat]
<1>1. PACKET_SIZE \in Nat
  BY WireConstants
<1>2. ASSUME NEW i \in 0 .. Words - 1
      PROVE  Native(buf, 2 * i) \in Nat /\ ntohs(buf, 2 * i) \in Nat
  BY <1>1, WordCount, WordTypes
<1> QED BY <1>2

\* The checksum of a packet of even length is the complement of the folded sum of its words.
LEMMA ChecksumOf ==
  ASSUME NEW buf \in Buffer(PACKET_SIZE)
  PROVE  LET sum == Sums([i \in 0 .. Words - 1 |-> Native(buf, 2 * i)], Words)[Words]
         IN  /\ sum \in Nat
             /\ icmp_checksum(buf, PACKET_SIZE) = UINT16_MAX - Carry[sum]
             /\ icmp_checksum(buf, PACKET_SIZE) \in Uint16
<1> DEFINE word == [i \in 0 .. Words - 1 |-> Native(buf, 2 * i)]
           sum == Sums(word, Words)[Words]
<1>1. word \in [0 .. Words - 1 -> Nat]
  BY WordFunctions
<1> HIDE DEF word
<1>2. Sums(word, Words) \in [0 .. Words -> Nat]
  BY <1>1, WordCount, SumsDef
<1>3. sum \in Nat
  <2>1. Words \in 0 .. Words
    BY WordCount
  <2> QED BY <1>2, <2>1
<1> HIDE DEF sum
<1>4. sum + 0 = sum /\ ~(PACKET_SIZE % 2 = 1)
  BY <1>3, WordCount
<1>5. icmp_checksum(buf, PACKET_SIZE) = UINT16_MAX - Carry[sum]
  BY <1>4, Zenon DEF icmp_checksum, Words, word, sum
<1>6. UINT16_MAX - Carry[sum] \in Uint16
  BY <1>3, CarryValue, WireConstants DEF Uint16
<1> QED BY <1>3, <1>5, <1>6 DEF word, sum

-----------------------------------------------------------------------------
(* The layout of requests and replies.                                     *)

\* The request before its checksum, and what the checksum adds to it.
Blank(seq) == [k \in DOMAIN send_buf |-> RequestByte(k, seq)]

\* The request without its checksum is a buffer of bytes, with zeroes in the two of
\* the checksum.
LEMMA BlankType ==
  ASSUME TypeOK, NEW seq \in Uint16
  PROVE  Blank(seq) \in Buffer(PACKET_SIZE) /\ Blank(seq)[2] = 0 /\ Blank(seq)[3] = 0
<1>1. DOMAIN send_buf = 0 .. PACKET_SIZE - 1
  BY DEF TypeOK, Buffer
<1>2. ASSUME NEW k \in 0 .. PACKET_SIZE - 1
      PROVE  RequestByte(k, seq) \in 0 .. BYTE - 1
  <2>1. /\ Hi(identifier) \in 0 .. BYTE - 1 /\ Lo(identifier) \in 0 .. BYTE - 1
        /\ Hi(seq) \in 0 .. BYTE - 1 /\ Lo(seq) \in 0 .. BYTE - 1
    BY WordBytes DEF TypeOK
  <2>2. ECHO[family] \in 0 .. BYTE - 1 /\ 0 \in 0 .. BYTE - 1
    BY WireAssumption, WireConstants DEF TypeOK
  <2>3. CASE k \in 0 .. 7
    <3>1. k \in {0, 1, 2, 3, 4, 5, 6, 7}
      BY <2>3
    <3>2. /\ 1 \in 1 .. 3 /\ 2 \in 1 .. 3 /\ 3 \in 1 .. 3
      OBVIOUS
    <3> QED BY <2>1, <2>2, <3>1, <3>2 DEF RequestByte
  <2>4. CASE k \notin 0 .. 7
    <3>1. k - ICMP_HDR \in Nat
      BY <2>4, WireConstants DEF ICMP_HDR
    <3>2. fill_payload(k) \in 0 .. BYTE - 1
      BY <3>1, Euclid, WireConstants DEF fill_payload
    <3>3. k \notin {0, 4, 5, 6, 7} /\ k \notin 1 .. 3
      BY <2>4
    <3> QED BY <3>2, <3>3 DEF RequestByte
  <2> QED BY <2>3, <2>4
<1>3. 2 \in 0 .. PACKET_SIZE - 1 /\ 3 \in 0 .. PACKET_SIZE - 1
  BY WireAssumption DEF ICMP_HDR
<1>4. RequestByte(2, seq) = 0 /\ RequestByte(3, seq) = 0
  BY DEF RequestByte
<1> QED BY <1>1, <1>2, <1>3, <1>4 DEF Blank, Buffer

\* The checksum goes where the two zero bytes were.
LEMMA RequestBytes ==
  ASSUME TypeOK, NEW seq \in Uint16, family = "v4"
  PROVE  LET sum == icmp_checksum(Blank(seq), PACKET_SIZE)
         IN  /\ BuildRequest(seq) \in Buffer(PACKET_SIZE)
             /\ \A k \in 0 .. PACKET_SIZE - 1 :
                  k \notin {2, 3} => BuildRequest(seq)[k] = Blank(seq)[k]
             /\ BuildRequest(seq)[2] = (IF little THEN Lo(sum) ELSE Hi(sum))
             /\ BuildRequest(seq)[3] = (IF little THEN Hi(sum) ELSE Lo(sum))
<1> DEFINE sum == icmp_checksum(Blank(seq), PACKET_SIZE)
           a == IF little THEN Lo(sum) ELSE Hi(sum)
           b == IF little THEN Hi(sum) ELSE Lo(sum)
<1>1. Blank(seq) \in Buffer(PACKET_SIZE) /\ sum \in Uint16
  <2>1. Blank(seq) \in Buffer(PACKET_SIZE)
    BY BlankType, Zenon
  <2>2. sum \in Uint16
    BY <2>1, ChecksumOf, Zenon
  <2> QED BY <2>1, <2>2, Zenon
<1>2. a \in 0 .. BYTE - 1 /\ b \in 0 .. BYTE - 1
  <2>1. Lo(sum) \in 0 .. BYTE - 1 /\ Hi(sum) \in 0 .. BYTE - 1
    BY <1>1, WordBytes
  <2> QED BY <2>1, Zenon
<1>3. BuildRequest(seq) = [Blank(seq) EXCEPT ![2] = a, ![3] = b]
  BY Zenon DEF BuildRequest, Blank
<1>4. 2 \in 0 .. PACKET_SIZE - 1 /\ 3 \in 0 .. PACKET_SIZE - 1
  BY WireAssumption DEF ICMP_HDR
<1> HIDE DEF a, b, sum
<1>5. /\ BuildRequest(seq) \in Buffer(PACKET_SIZE)
      /\ \A k \in 0 .. PACKET_SIZE - 1 :
           k \notin {2, 3} => BuildRequest(seq)[k] = Blank(seq)[k]
      /\ BuildRequest(seq)[2] = a /\ BuildRequest(seq)[3] = b
  BY <1>1, <1>2, <1>3, <1>4 DEF Buffer
<1> QED BY <1>5 DEF a, b, sum

\* So is the finished request, in either family.
LEMMA RequestType ==
  ASSUME TypeOK, NEW seq \in Uint16
  PROVE  BuildRequest(seq) \in Buffer(PACKET_SIZE)
<1>1. CASE family = "v4"
  BY <1>1, RequestBytes
<1>2. CASE family = "v6"
  BY <1>2, BlankType DEF BuildRequest, Blank
<1> QED BY <1>1, <1>2 DEF TypeOK

\* The IPv4 header and its length field, with options or without.
LEMMA HeaderFacts ==
  ASSUME NEW p \in WirePacket, family \in {"v4", "v6"}
  PROVE  /\ HeaderLen(p) \in Nat /\ HeaderLen(p) + ICMP_HDR <= RECV_BUF
         /\ family = "v6" => HeaderLen(p) = 0
         /\ family = "v4" =>
              /\ HeaderLen(p) >= IP_HDR /\ HeaderLen(p) > IP_P
              /\ NIBBLE + (HeaderLen(p) \div IP_WORD) \in 0 .. BYTE - 1
              /\ ((NIBBLE + (HeaderLen(p) \div IP_WORD)) % NIBBLE) * IP_WORD = HeaderLen(p)
<1>1. CASE family = "v6"
  BY <1>1, WireAssumption, WireConstants DEF HeaderLen, ICMP_HDR
<1>2. CASE family = "v4"
  <2> DEFINE u == IP_HDR \div IP_WORD
             o == p.options
             l == u + o
  <2>1. u \in Nat /\ IP_HDR = u * IP_WORD /\ u < NIBBLE
    <3>1. IP_HDR = u * IP_WORD + (IP_HDR % IP_WORD) /\ u \in Nat
      BY Euclid, WireConstants
    <3>2. IP_HDR % IP_WORD = 0 /\ u < NIBBLE
      BY WireAssumption
    <3> HIDE DEF u
    <3> QED BY <3>1, <3>2, WireConstants
  <2>2. o \in Nat /\ o <= (NIBBLE - 1) - u
    BY <2>1, WireConstants DEF WirePacket, MaxOptions
  <2>3. HeaderLen(p) = IP_HDR + o * IP_WORD
    BY <1>2 DEF HeaderLen
  <2> HIDE DEF u, o
  <2>4. l \in Nat /\ l < NIBBLE /\ HeaderLen(p) = l * IP_WORD /\ HeaderLen(p) \in Nat
    BY <2>1, <2>2, <2>3, WireConstants
  <2>5. HeaderLen(p) >= IP_HDR
    BY <2>1, <2>2, <2>3, WireConstants
  <2>6. IP_HDR > IP_P /\ IP_P = 1
    BY WireAssumption DEF IP_P
  <2>7. HeaderLen(p) > IP_P
    BY <2>4, <2>5, <2>6, WireConstants
  <2> HIDE DEF l
  <2>8. l >= 1
    <3>1. l = 0 => HeaderLen(p) = 0
      BY <2>4, WireConstants
    <3> QED BY <2>4, <2>6, <2>7, <3>1
  <2>9. HeaderLen(p) \div IP_WORD = l
    <3>1. HeaderLen(p) = l * IP_WORD + 0 /\ 0 < IP_WORD
      BY <2>4, WireConstants
    <3> QED BY <2>4, <3>1, EuclidUnique, WireConstants
  <2>10. (NIBBLE + l) % NIBBLE = l
    <3>1. NIBBLE + l = 1 * NIBBLE + l /\ NIBBLE + l \in Nat
      BY <2>4, WireConstants
    <3> QED BY <2>4, <3>1, EuclidUnique, WireConstants
  <2>11. NIBBLE + l \in 0 .. BYTE - 1
    <3>1. \A n, m \in Nat : 1 <= m /\ m < n => n + m < n * n
      <4> TAKE n, m \in Nat
      <4> HAVE 1 <= m /\ m < n
      <4>1. 2 * n <= n * n
        OBVIOUS
      <4> QED BY <4>1
    <3> QED BY <2>4, <2>8, <3>1, WireConstants DEF BYTE
  <2>12. HeaderLen(p) + ICMP_HDR <= RECV_BUF
    <3>1. \A n, m, w \in Nat : m <= n => m * w <= n * w
      OBVIOUS
    <3>2. NIBBLE - 1 \in Nat /\ l <= NIBBLE - 1
      BY <2>4, WireConstants
    <3>3. l * IP_WORD <= (NIBBLE - 1) * IP_WORD
      BY <2>4, <3>1, <3>2, WireConstants
    <3>4. (NIBBLE - 1) * IP_WORD \in Nat /\ RECV_BUF >= (NIBBLE - 1) * IP_WORD + ICMP_HDR
      BY <3>2, WireAssumption, WireConstants
    <3> QED BY <2>4, <3>3, <3>4, WireConstants DEF ICMP_HDR
  <2> QED BY <1>2, <2>4, <2>5, <2>7, <2>9, <2>10, <2>11, <2>12
<1> QED BY <1>1, <1>2

\* The fields of a packet are at their places in the bytes that the socket delivers.
LEMMA DeliveredFields ==
  ASSUME NEW p \in WirePacket, family \in {"v4", "v6"}
  PROVE  LET D == Delivered(p)
             h == HeaderLen(p)
         IN  /\ D \in [0 .. h + p.len - 1 -> 0 .. BYTE - 1]
             /\ family = "v4" => D[0] = NIBBLE + (h \div IP_WORD) /\ D[IP_P] = IPPROTO_ICMP
             /\ p.len > 0 => D[h] = p.type
             /\ p.len >= ICMP_HDR =>
                  /\ D[h + 4] = Hi(p.id)  /\ D[h + 5] = Lo(p.id)
                  /\ D[h + 6] = Hi(p.seq) /\ D[h + 7] = Lo(p.seq)
<1> DEFINE D == Delivered(p)
           h == HeaderLen(p)
           v == NIBBLE + (h \div IP_WORD)
           byte(k) == LET j == k - h IN
                      CASE j < 0 /\ k = 0 -> v
                        [] j < 0 /\ k = IP_P -> IPPROTO_ICMP
                        [] j < 0 /\ k >= IP_HDR -> 1
                        [] j = 0 -> p.type
                        [] j = 4 -> Hi(p.id)  [] j = 5 -> Lo(p.id)
                        [] j = 6 -> Hi(p.seq) [] j = 7 -> Lo(p.seq)
                        [] OTHER -> 0
<1>1. D = [k \in 0 .. h + p.len - 1 |-> byte(k)]
  BY Zenon DEF Delivered
<1>2. p.len \in Nat /\ p.type \in 0 .. BYTE - 1 /\ p.id \in Uint16 /\ p.seq \in Uint16
  BY DEF WirePacket
<1>3. /\ Hi(p.id) \in 0 .. BYTE - 1 /\ Lo(p.id) \in 0 .. BYTE - 1
      /\ Hi(p.seq) \in 0 .. BYTE - 1 /\ Lo(p.seq) \in 0 .. BYTE - 1
  BY <1>2, WordBytes
<1>4. h \in Nat /\ (family = "v4" => h > 1 /\ v \in 0 .. BYTE - 1) /\ (family = "v6" => h = 0)
  BY HeaderFacts DEF IP_P
<1>5. IP_P = 1 /\ IPPROTO_ICMP = 1 /\ ICMP_HDR = 8 /\ IP_HDR \in Nat /\ IP_HDR > 1
  BY WireAssumption, WireConstants DEF IP_P, IPPROTO_ICMP, ICMP_HDR
<1>6. 1 \in 0 .. BYTE - 1 /\ 0 \in 0 .. BYTE - 1
  <2>1. \A b \in Nat : b * b >= 2 => b >= 2
    OBVIOUS
  <2> QED BY <2>1, WireConstants
<1> HIDE DEF D, h, v
<1>7. h = 0 \/ (h > 1 /\ v \in 0 .. BYTE - 1)
  BY <1>4
<1>8. \A k \in 0 .. h + p.len - 1 : D[k] = byte(k)
  BY <1>1
<1>9. \A k \in 0 .. h + p.len - 1 : D[k] \in 0 .. BYTE - 1
  <2> TAKE k \in 0 .. h + p.len - 1
  <2>1. D[k] = byte(k)
    BY <1>8
  <2>2. k \in Nat /\ k - h \in Int /\ (k - h < 0 => h > 1)
    BY <1>2, <1>4, <1>7
  <2>3. byte(k) \in 0 .. BYTE - 1
    BY <1>2, <1>3, <1>5, <1>6, <1>7, <2>2
  <2> QED BY <2>1, <2>3
<1>10. family = "v4" => D[0] = v /\ D[IP_P] = IPPROTO_ICMP
  <2> HAVE family = "v4"
  <2>1. 0 \in 0 .. h + p.len - 1 /\ 1 \in 0 .. h + p.len - 1 /\ 0 - h < 0 /\ 1 - h < 0
    BY <1>2, <1>4
  <2>2. byte(0) = v
    BY <2>1, <1>5
  <2>3. byte(1) = IPPROTO_ICMP
    BY <2>1, <1>5
  <2> QED BY <1>5, <1>8, <2>1, <2>2, <2>3
<1>11. p.len > 0 => D[h] = p.type
  <2> HAVE p.len > 0
  <2>1. h \in 0 .. h + p.len - 1 /\ h - h = 0
    BY <1>2, <1>4
  <2>2. byte(h) = p.type
    BY <2>1
  <2> QED BY <1>8, <2>1, <2>2
<1>12. p.len >= ICMP_HDR =>
         /\ D[h + 4] = Hi(p.id)  /\ D[h + 5] = Lo(p.id)
         /\ D[h + 6] = Hi(p.seq) /\ D[h + 7] = Lo(p.seq)
  <2> HAVE p.len >= ICMP_HDR
  <2>1. \A i \in 4 .. 7 : h + i \in 0 .. h + p.len - 1 /\ (h + i) - h = i
    BY <1>2, <1>4, <1>5
  <2>2. byte(h + 4) = Hi(p.id) /\ byte(h + 5) = Lo(p.id)
    BY <2>1
  <2>3. byte(h + 6) = Hi(p.seq) /\ byte(h + 7) = Lo(p.seq)
    BY <2>1
  <2> QED BY <1>8, <2>1, <2>2, <2>3
<1>13. D \in [0 .. h + p.len - 1 -> 0 .. BYTE - 1]
  BY <1>1, <1>8, <1>9
<1> QED BY <1>10, <1>11, <1>12, <1>13 DEF D, h, v

\* The filter keeps a packet if and only if it has a type, the one of an echo reply.
LEMMA FilterKeeps ==
  ASSUME NEW p \in WirePacket, family \in {"v4", "v6"}
  PROVE  attach_family_filter(Delivered(p)) <=> p.len > 0 /\ p.type = ECHO_REPLY[family]
<1> DEFINE D == Delivered(p)
           h == HeaderLen(p)
           x == IF family = "v4" THEN (D[0] % NIBBLE) * IP_WORD ELSE 0
<1>1. x = h
  <2>1. CASE family = "v4"
    BY <2>1, HeaderFacts, DeliveredFields
  <2>2. CASE family = "v6"
    BY <2>2, HeaderFacts
  <2> QED BY <2>1, <2>2
<1>2. h \in Nat /\ p.len \in Nat
  BY HeaderFacts DEF WirePacket
<1>3. D \in [0 .. h + p.len - 1 -> 0 .. BYTE - 1] /\ (p.len > 0 => D[h] = p.type)
  BY DeliveredFields, Zenon
<1>4. attach_family_filter(D) <=> x \in DOMAIN D /\ D[x] = ECHO_REPLY[family]
  BY Zenon DEF attach_family_filter
<1> HIDE DEF D, h, x
<1>5. h \in 0 .. h + p.len - 1 <=> p.len > 0
  BY <1>2
<1>6. attach_family_filter(D) <=> p.len > 0 /\ p.type = ECHO_REPLY[family]
  BY <1>1, <1>3, <1>4, <1>5
<1> QED BY <1>6 DEF D

\* The number of bytes that are read of a packet p, and the receive buffer with them.
BytesRead(p) == Min({HeaderLen(p) + p.len, RECV_BUF})

BufferWith(p) ==
  [k \in DOMAIN recv_buf |-> IF k < BytesRead(p) THEN Delivered(p)[k] ELSE recv_buf[k]]

\* As much of a packet is read as there is, and as the buffer holds.
LEMMA ReadLength ==
  ASSUME NEW p \in WirePacket, family \in {"v4", "v6"}
  PROVE  /\ BytesRead(p) \in Nat
         /\ BytesRead(p) <= HeaderLen(p) + p.len /\ BytesRead(p) <= RECV_BUF
         /\ BytesRead(p) >= HeaderLen(p)
         /\ HeaderLen(p) + ICMP_HDR <= BytesRead(p) <=> p.len >= ICMP_HDR
<1> DEFINE a == HeaderLen(p) + p.len
<1>1. \A x, y \in Nat : Min({x, y}) = IF x <= y THEN x ELSE y
  <2> TAKE x, y \in Nat
  <2> DEFINE m == IF x <= y THEN x ELSE y
  <2>1. m \in {x, y} /\ \A z \in {x, y} : m <= z
    OBVIOUS
  <2>2. \A z \in {x, y} : (\A w \in {x, y} : z <= w) => z = m
    OBVIOUS
  <2> HIDE DEF m
  <2>3. Min({x, y}) = m
    BY <2>1, <2>2 DEF Min
  <2> QED BY <2>3 DEF m
<1>2. HeaderLen(p) \in Nat /\ HeaderLen(p) + ICMP_HDR <= RECV_BUF
  BY HeaderFacts
<1>3. p.len \in Nat /\ RECV_BUF \in Nat /\ ICMP_HDR = 8
  BY WireConstants DEF WirePacket, ICMP_HDR
<1>4. a \in Nat
  BY <1>2, <1>3
<1>5. BytesRead(p) = IF a <= RECV_BUF THEN a ELSE RECV_BUF
  BY <1>1, <1>3, <1>4 DEF BytesRead
<1> QED BY <1>2, <1>3, <1>5

\* What a packet leaves in the receive buffer are bytes, its own ones in front.
LEMMA BufferBytes ==
  ASSUME NEW p \in WirePacket, family \in {"v4", "v6"}, recv_buf \in Buffer(RECV_BUF)
  PROVE  /\ BufferWith(p) \in Buffer(RECV_BUF)
         /\ \A k \in Nat : k < BytesRead(p) => BufferWith(p)[k] = Delivered(p)[k]
<1> DEFINE n == BytesRead(p)
           D == Delivered(p)
           top == HeaderLen(p) + p.len
<1>1. DOMAIN recv_buf = 0 .. RECV_BUF - 1
  BY DEF Buffer
<1>2. BufferWith(p) = [k \in 0 .. RECV_BUF - 1 |-> IF k < n THEN D[k] ELSE recv_buf[k]]
  BY <1>1, Zenon DEF BufferWith
<1>3. n \in Nat /\ n <= top /\ n <= RECV_BUF
  BY ReadLength
<1>4. HeaderLen(p) \in Nat /\ p.len \in Nat /\ RECV_BUF \in Nat
  <2>1. HeaderLen(p) \in Nat
    BY HeaderFacts
  <2>2. p.len \in Nat
    BY DEF WirePacket
  <2> QED BY <2>1, <2>2, WireConstants
<1>5. D \in [0 .. top - 1 -> 0 .. BYTE - 1] /\ top \in Nat
  <2>1. D \in [0 .. HeaderLen(p) + p.len - 1 -> 0 .. BYTE - 1]
    BY DeliveredFields, Zenon
  <2>2. HeaderLen(p) + p.len - 1 = top - 1 /\ top \in Nat
    BY <1>4
  <2> QED BY <2>1, <2>2
<1> HIDE DEF n, D, top
<1>6. ASSUME NEW k \in 0 .. RECV_BUF - 1
      PROVE  (IF k < n THEN D[k] ELSE recv_buf[k]) \in 0 .. BYTE - 1
  <2>1. CASE k < n
    <3>1. k \in 0 .. top - 1
      BY <1>3, <1>4, <1>5, <2>1
    <3> QED BY <1>5, <2>1, <3>1
  <2>2. CASE ~(k < n)
    BY <2>2 DEF Buffer
  <2> QED BY <2>1, <2>2
<1>7. BufferWith(p) \in Buffer(RECV_BUF)
  BY <1>2, <1>6 DEF Buffer
<1>8. ASSUME NEW k \in Nat, k < n PROVE BufferWith(p)[k] = D[k]
  <2>1. k \in 0 .. RECV_BUF - 1
    BY <1>3, <1>4, <1>8
  <2> QED BY <1>2, <1>8, <2>1
<1> QED BY <1>7, <1>8 DEF n, D

\* A packet is matched by its bytes if and only if it is a whole echo reply for the process and
\* the expected sequence number.
LEMMA MatchExact ==
  ASSUME NEW p \in WirePacket, family \in {"v4", "v6"}, recv_buf \in Buffer(RECV_BUF),
         NEW seq
  PROVE  buffer_matches(BufferWith(p), BytesRead(p), seq)
           <=> /\ p.len >= ICMP_HDR /\ p.type = ECHO_REPLY[family]
               /\ p.id = identifier /\ p.seq = seq
<1> DEFINE buf == BufferWith(p)
           n == BytesRead(p)
           D == Delivered(p)
           h == HeaderLen(p)
           hdr == IF family = "v4" THEN (buf[0] % NIBBLE) * IP_WORD ELSE 0
<1>1. h \in Nat /\ n \in Nat /\ n >= h /\ (h + ICMP_HDR <= n <=> p.len >= ICMP_HDR)
  BY HeaderFacts, ReadLength
<1>2. \A k \in Nat : k < n => buf[k] = D[k]
  BY BufferBytes
<1>3. family = "v4" =>
        /\ h >= IP_HDR /\ h > IP_P
        /\ D[0] = NIBBLE + (h \div IP_WORD) /\ D[IP_P] = IPPROTO_ICMP
        /\ ((NIBBLE + (h \div IP_WORD)) % NIBBLE) * IP_WORD = h
  BY HeaderFacts, DeliveredFields
<1>4. family = "v6" => h = 0
  BY HeaderFacts
<1>5. IP_P = 1 /\ IP_HDR \in Nat /\ ICMP_HDR = 8
  BY WireConstants DEF IP_P, ICMP_HDR
<1>6. p.len \in Nat /\ p.id \in Uint16 /\ p.seq \in Uint16
  BY DEF WirePacket
<1>7. p.len >= ICMP_HDR =>
        /\ D[h] = p.type
        /\ D[h + 4] = Hi(p.id)  /\ D[h + 5] = Lo(p.id)
        /\ D[h + 6] = Hi(p.seq) /\ D[h + 7] = Lo(p.seq)
  <2>1. p.len >= ICMP_HDR => p.len > 0
    BY <1>5, <1>6
  <2> QED BY <2>1, DeliveredFields
<1>8. Hi(p.id) * BYTE + Lo(p.id) = p.id /\ Hi(p.seq) * BYTE + Lo(p.seq) = p.seq
  BY <1>6, WordBytes
<1>9. buffer_matches(buf, n, seq) <=>
        /\ family = "v4" => n >= IP_HDR /\ buf[IP_P] = IPPROTO_ICMP /\ hdr >= IP_HDR
        /\ hdr + ICMP_HDR <= n
        /\ buf[hdr] = ECHO_REPLY[family]
        /\ buf[hdr + 4] * BYTE + buf[(hdr + 4) + 1] = identifier
        /\ buf[hdr + 6] * BYTE + buf[(hdr + 6) + 1] = seq
  BY Zenon DEF buffer_matches, ntohs
<1> HIDE DEF buf, n, D, h
<1>10. family = "v4" => n >= IP_HDR /\ buf[IP_P] = IPPROTO_ICMP /\ h >= IP_HDR /\ buf[0] = D[0]
  <2> HAVE family = "v4"
  <2>1. 0 \in Nat /\ 1 \in Nat /\ 0 < n /\ 1 < n /\ n >= IP_HDR
    BY <1>1, <1>3, <1>5
  <2>2. buf[0] = D[0] /\ buf[1] = D[1]
    BY <1>2, <2>1
  <2> QED BY <1>3, <1>5, <2>1, <2>2
<1>11. hdr = h
  <2>1. CASE family = "v4"
    BY <1>3, <1>10, <2>1
  <2>2. CASE family = "v6"
    BY <1>4, <2>2
  <2> QED BY <2>1, <2>2
<1> HIDE DEF hdr
<1>12. CASE p.len >= ICMP_HDR
  <2>1. h + ICMP_HDR <= n
    BY <1>1, <1>12
  <2>2. \A i \in 0 .. 7 : h + i \in Nat /\ h + i < n
    BY <1>1, <1>5, <2>1
  <2>3. (h + 4) + 1 = h + 5 /\ (h + 6) + 1 = h + 7 /\ h + 0 = h
    BY <1>1
  <2>4. /\ buf[h] = p.type
        /\ buf[h + 4] = Hi(p.id)  /\ buf[(h + 4) + 1] = Lo(p.id)
        /\ buf[h + 6] = Hi(p.seq) /\ buf[(h + 6) + 1] = Lo(p.seq)
    BY <1>2, <1>7, <1>12, <2>2, <2>3
  <2> QED BY <1>8, <1>9, <1>10, <1>11, <1>12, <2>1, <2>4, Zenon DEF buf, n
<1>13. CASE ~(p.len >= ICMP_HDR)
  <2>1. ~(hdr + ICMP_HDR <= n)
    BY <1>1, <1>11, <1>13
  <2> QED BY <1>9, <1>13, <2>1, Zenon DEF buf, n
<1> QED BY <1>12, <1>13

-----------------------------------------------------------------------------
(* Types.                                                                  *)

\* The packets that reach the socket are packets.
LEMMA ArrivingType ==
  ASSUME TypeOK PROVE Arriving \subseteq WirePacket
<1>1. MaxOptions \in Nat
  <2>1. IP_HDR \div IP_WORD \in Nat
    BY WireConstants, Euclid
  <2>2. IP_HDR \div IP_WORD < NIBBLE
    BY WireAssumption
  <2> QED BY <2>1, <2>2, WireConstants DEF MaxOptions
<1>2. (IF family = "v4" THEN 0 .. MaxOptions ELSE {0}) \subseteq 0 .. MaxOptions
  BY <1>1
<1>3. {ECHO[family], ECHO_REPLY[family]} \cup Types \subseteq 0 .. BYTE - 1
  <2>1. ECHO[family] \in 0 .. BYTE - 1 /\ ECHO_REPLY[family] \in 0 .. BYTE - 1
    BY WireAssumption DEF TypeOK
  <2>2. Types \subseteq 0 .. BYTE - 1
    BY WireAssumption
  <2> QED BY <2>1, <2>2, Zenon
<1>4. {identifier} \cup Ids \subseteq Uint16 /\ {sequence} \cup Seqs \subseteq Uint16
  BY WireAssumption DEF TypeOK
<1>5. Lens \subseteq Nat
  BY WireAssumption
<1>6. ASSUME NEW p \in Arriving PROVE p \in WirePacket
  <2> DEFINE O == IF family = "v4" THEN 0 .. MaxOptions ELSE {0}
             T == {ECHO[family], ECHO_REPLY[family]} \cup Types
             I == {identifier} \cup Ids
             Q == {sequence} \cup Seqs
  <2>1. p \in [from : {"target", "other"}, options : O, type : T, id : I, seq : Q, len : Lens]
    BY Zenon DEF Arriving
  <2>2. O \subseteq 0 .. MaxOptions /\ T \subseteq 0 .. BYTE - 1 /\ I \subseteq Uint16 /\ Q \subseteq Uint16
    BY <1>2, <1>3, <1>4, Zenon
  <2> HIDE DEF O, T, I, Q
  <2>3. /\ p = [from |-> p.from, options |-> p.options, type |-> p.type,
                id |-> p.id, seq |-> p.seq, len |-> p.len]
        /\ p.from \in {"target", "other"} /\ p.options \in O /\ p.type \in T
        /\ p.id \in I /\ p.seq \in Q /\ p.len \in Lens
    BY <2>1
  <2>4. /\ p.options \in 0 .. MaxOptions /\ p.type \in 0 .. BYTE - 1
        /\ p.id \in Uint16 /\ p.seq \in Uint16 /\ p.len \in Nat
    BY <1>5, <2>2, <2>3, Zenon
  <2> QED BY <2>3, <2>4 DEF WirePacket
<1> QED BY <1>6, Zenon

\* The identifier of every process and the successor of every number fit their fields.
LEMMA FieldTypes ==
  /\ \A pid \in Pids : IdentifierOf(pid) \in Uint16 \ {0}
  /\ \A s \in Uint16 : next_sequence(s) \in Uint16
<1>1. ASSUME NEW pid \in Pids PROVE IdentifierOf(pid) \in Uint16 \ {0}
  <2>1. pid \in Nat
    BY WireAssumption
  <2>2. pid % WORD16 \in 0 .. WORD16 - 1
    BY <2>1, WireConstants, Euclid
  <2> QED BY <2>2, WireConstants DEF IdentifierOf, Uint16
<1>2. \A s \in Uint16 : next_sequence(s) \in Uint16
  BY WireConstants DEF next_sequence, Uint16
<1> QED BY <1>1, <1>2

\* What the socket delivers to the process, in terms of the packet.
LEMMA Received ==
  ASSUME TypeOK, NEW p \in WirePacket, recv_packet(p)
  PROVE  \/ /\ last' = [status |-> "filtered", packet |-> p]
            /\ recv_buf' = recv_buf
            /\ ~(p.len > 0 /\ p.type = ECHO_REPLY[family])
         \/ /\ recv_buf' = BufferWith(p)
            /\ last' = [packet |-> p, status |->
                          IF /\ BytesRead(p) > 0 /\ source_matches(p)
                             /\ buffer_matches(BufferWith(p), BytesRead(p), sequence)
                          THEN "MATCHED" ELSE "IGNORED"]
<1>1. family \in {"v4", "v6"}
  BY DEF TypeOK
<1>2. CASE bpf /\ ~attach_family_filter(Delivered(p))
  <2>1. last' = [status |-> "filtered", packet |-> p] /\ recv_buf' = recv_buf
    BY <1>2, Zenon DEF recv_packet
  <2>2. ~(p.len > 0 /\ p.type = ECHO_REPLY[family])
    BY <1>1, <1>2, FilterKeeps, Zenon
  <2> QED BY <2>1, <2>2, Zenon
<1>3. CASE ~(bpf /\ ~attach_family_filter(Delivered(p)))
  <2>1. /\ recv_buf' = BufferWith(p)
        /\ last' = [packet |-> p, status |->
                      IF /\ BytesRead(p) > 0 /\ source_matches(p)
                         /\ buffer_matches(recv_buf', BytesRead(p), sequence)
                      THEN "MATCHED" ELSE "IGNORED"]
    BY <1>3, Zenon DEF recv_packet, BytesRead, BufferWith
  <2> QED BY <2>1, Zenon
<1> QED BY <1>2, <1>3, Zenon

\* The type invariant is inductive: a request and whatever arrives leave bytes in the buffers.
LEMMA WireTypeStep ==
  ASSUME TypeOK, Next PROVE TypeOK'
<1>1. CASE ls_icmp_send_echo
  <2>1. /\ sends < MaxSends /\ sends' = sends + 1
        /\ sequence' = next_sequence(sequence) /\ send_buf' = BuildRequest(sequence')
        /\ last' = NoPacket
        /\ UNCHANGED <<family, little, bpf, identifier, recv_buf, received>>
    BY <1>1 DEF ls_icmp_send_echo
  <2>2. sequence' \in Uint16
    BY <2>1, FieldTypes DEF TypeOK
  <2>3. send_buf' \in Buffer(PACKET_SIZE)
    BY <2>1, <2>2, RequestType
  <2>4. sends' \in 0 .. MaxSends
    BY <2>1, WireAssumption DEF TypeOK
  <2>5. TypeOK
    OBVIOUS
  <2> QED BY <2>1, <2>2, <2>3, <2>4, <2>5, Zenon DEF TypeOK
<1>2. ASSUME NEW p \in Arriving, recv_packet(p) PROVE TypeOK'
  <2>1. p \in WirePacket
    BY ArrivingType
  <2>2. /\ received < MaxReceived /\ received' = received + 1
        /\ UNCHANGED <<family, little, bpf, identifier, sequence, send_buf, sends>>
    BY <1>2, Zenon DEF recv_packet
  <2>3. received' \in 0 .. MaxReceived
    BY <2>2, WireAssumption DEF TypeOK
  <2>4. family \in {"v4", "v6"} /\ recv_buf \in Buffer(RECV_BUF)
    BY DEF TypeOK
  <2>5. BufferWith(p) \in Buffer(RECV_BUF)
    BY <2>1, <2>4, BufferBytes
  <2>6. recv_buf' \in Buffer(RECV_BUF)
    BY <1>2, <2>1, <2>4, <2>5, Received, Zenon
  <2>7. last' \in [status : {"filtered", "MATCHED", "IGNORED"}, packet : WirePacket]
    <3>1. \E st \in {"filtered", "MATCHED", "IGNORED"} :
            last' = [status |-> st, packet |-> p]
      BY <1>2, <2>1, Received, Zenon
    <3> QED BY <2>1, <3>1
  <2>8. TypeOK
    OBVIOUS
  <2> QED BY <2>2, <2>3, <2>6, <2>7, <2>8, Zenon DEF TypeOK
<1> QED BY <1>1, <1>2 DEF Next

\* The initial buffers hold bytes.
LEMMA WireTypeInit ==
  ASSUME Init PROVE TypeOK
<1>1. identifier \in Uint16 \ {0}
  BY FieldTypes DEF Init
<1>2. 0 \in 0 .. BYTE - 1
  BY WireConstants
<1>3. send_buf \in Buffer(PACKET_SIZE) /\ recv_buf \in Buffer(RECV_BUF)
  BY <1>2 DEF Init, Buffer
<1>4. sequence \in Uint16 /\ sends \in 0 .. MaxSends /\ received \in 0 .. MaxReceived
  BY WireAssumption DEF Init
<1> QED BY <1>1, <1>3, <1>4, Zenon DEF Init, TypeOK

\* Wire!TypeOK for every size of a byte, of the headers and of the buffers: in particular what is
\* written into the two buffers of ls_icmp_t are bytes, at offsets inside of them.
THEOREM WireTypes == Spec => []TypeOK
<1>1. TypeOK /\ [Next]_vars => TypeOK'
  <2>1. TypeOK /\ Next => TypeOK'
    BY WireTypeStep
  <2>2. TypeOK /\ UNCHANGED vars => TypeOK'
    BY Zenon DEF TypeOK, vars
  <2> QED BY <2>1, <2>2
<1> QED BY <1>1, WireTypeInit, PTL DEF Spec

-----------------------------------------------------------------------------
(* A packet is matched if and only if it is the reply.                     *)

\* The verdict on the last packet is the one that its fields call for.
Exact ==
  \/ last = NoPacket
  \/ /\ last.status \in {"filtered", "MATCHED", "IGNORED"}
     /\ last.status = "MATCHED" <=> IsReply(last.packet)

\* What the abstract ls_icmp_recv requires of a packet, in terms of its fields.
LEMMA ReplyFields ==
  ASSUME NEW p
  PROVE  IsReply(p) <=> /\ p.from = "target" /\ p.len >= ICMP_HDR
                        /\ p.type = ECHO_REPLY[family] /\ p.id = identifier
                        /\ p.seq = sequence
<1>1. /\ Abstract(p).from = p.from /\ Abstract(p).seq = p.seq
      /\ Abstract(p).type = "echo_reply" <=> p.type = ECHO_REPLY[family]
      /\ Abstract(p).id = "self" <=> p.id = identifier
  BY DEF Abstract
<1>2. ls_icmp_recv(Abstract(p), sequence) = "MATCHED" <=>
        /\ Abstract(p).from = "target" /\ Abstract(p).type = "echo_reply"
        /\ Abstract(p).id = "self" /\ Abstract(p).seq = sequence
  BY DEF ls_icmp_recv, source_matches, reply_matches
<1> QED BY <1>1, <1>2, Zenon DEF IsReply

\* The step of a packet: filter, header arithmetic and comparison together decide as the abstract
\* ls_icmp_recv does.
LEMMA VerdictStep ==
  ASSUME TypeOK, NEW p \in WirePacket, recv_packet(p) PROVE Exact'
<1>1. family \in {"v4", "v6"} /\ recv_buf \in Buffer(RECV_BUF)
  BY DEF TypeOK
<1> DEFINE Whole == /\ p.len >= ICMP_HDR /\ p.type = ECHO_REPLY[family]
                    /\ p.id = identifier /\ p.seq = sequence
<1>2. buffer_matches(BufferWith(p), BytesRead(p), sequence) <=> Whole
  BY <1>1, MatchExact, Zenon
<1>3. p.len \in Nat /\ ICMP_HDR = 8
  BY DEF WirePacket, ICMP_HDR
<1>4. Whole => p.len > 0 /\ p.type = ECHO_REPLY[family] /\ BytesRead(p) > 0
  <2>1. BytesRead(p) \in Nat /\ HeaderLen(p) \in Nat
        /\ (HeaderLen(p) + ICMP_HDR <= BytesRead(p) <=> p.len >= ICMP_HDR)
    BY <1>1, ReadLength, HeaderFacts
  <2> QED BY <1>3, <2>1
<1>5. UNCHANGED <<family, identifier, sequence>>
  BY Zenon DEF recv_packet
<1>6. IsReply(p) <=> p.from = "target" /\ Whole
  BY ReplyFields, Zenon
<1>7. IsReply(p)' <=> IsReply(p)
  BY <1>5, Zenon DEF IsReply, Abstract
<1> HIDE DEF Whole
<1>8. CASE last' = [status |-> "filtered", packet |-> p]
           /\ ~(p.len > 0 /\ p.type = ECHO_REPLY[family])
  <2>1. last'.status = "filtered" /\ last'.packet = p
    BY <1>8
  <2>2. ~IsReply(p)
    BY <1>4, <1>6, <1>8, Zenon
  <2> QED BY <1>7, <2>1, <2>2 DEF Exact
<1>9. CASE last' = [packet |-> p, status |->
                      IF /\ BytesRead(p) > 0 /\ source_matches(p)
                         /\ buffer_matches(BufferWith(p), BytesRead(p), sequence)
                      THEN "MATCHED" ELSE "IGNORED"]
  <2>1. (BytesRead(p) > 0 /\ source_matches(p)
           /\ buffer_matches(BufferWith(p), BytesRead(p), sequence)) <=> IsReply(p)
    BY <1>2, <1>4, <1>6, Zenon DEF source_matches
  <2>2. last'.packet = p /\ last'.status = IF IsReply(p) THEN "MATCHED" ELSE "IGNORED"
    BY <1>9, <2>1, Zenon
  <2> QED BY <1>7, <2>2, Zenon DEF Exact
<1> QED BY <1>8, <1>9, Received, Zenon

\* Exact is inductive, given the types.
THEOREM VerdictsAreExact == Spec => []Exact
<1>1. Init => Exact
  BY DEF Init, Exact
<1>2. TypeOK /\ Exact /\ [Next]_vars => Exact'
  <2> SUFFICES ASSUME TypeOK, Exact, [Next]_vars PROVE Exact'
    OBVIOUS
  <2>1. CASE ls_icmp_send_echo
    BY <2>1, Zenon DEF ls_icmp_send_echo, Exact, NoPacket
  <2>2. ASSUME NEW p \in Arriving, recv_packet(p) PROVE Exact'
    BY <2>2, ArrivingType, VerdictStep
  <2>3. CASE UNCHANGED vars
    BY <2>3, Zenon DEF vars, Exact, NoPacket, IsReply, Abstract
  <2> QED BY <2>1, <2>2, <2>3 DEF Next
<1> QED BY <1>1, <1>2, WireTypes, PTL DEF Spec

\* Wire!OnlyRepliesMatch: no packet but the echo reply to the last request is ever matched, whatever
\* an earlier packet left in the buffer.
THEOREM NoFalseMatch == Spec => []OnlyRepliesMatch
<1>1. Exact => OnlyRepliesMatch
  BY DEF Exact, OnlyRepliesMatch, NoPacket
<1> QED BY <1>1, VerdictsAreExact, PTL

\* Wire!EveryReplyMatches: neither the filter nor the header arithmetic loses a reply, whatever the
\* length of the IPv4 options.
THEOREM NoReplyMissed == Spec => []EveryReplyMatches
<1>1. Exact => EveryReplyMatches
  BY DEF Exact, EveryReplyMatches, NoPacket
<1> QED BY <1>1, VerdictsAreExact, PTL

-----------------------------------------------------------------------------
(* The checksum.                                                           *)

\* What holds before a loop of n rounds and is kept by every round holds after each of them.
LEMMA Rounds ==
  ASSUME NEW n \in Nat, NEW S, 0 \in S, \A k \in 1 .. n : k - 1 \in S => k \in S
  PROVE  \A k \in 0 .. n : k \in S
<1> DEFINE Bad == {k \in 0 .. n : k \notin S}
<1>1. SUFFICES Bad = {}
  BY <1>1
<1>2. SUFFICES ASSUME Bad # {} PROVE FALSE
  BY <1>2
<1>3. PICK m \in Bad : \A x \in Bad : m <= x
  <2>1. Bad \subseteq Nat
    OBVIOUS
  <2> HIDE DEF Bad
  <2> QED BY <1>2, <2>1, LeastNatural, Zenon
<1>4. m \in 1 .. n /\ m - 1 \in 0 .. n /\ ~(m <= m - 1)
  BY <1>3
<1>5. m - 1 \in S
  BY <1>3, <1>4
<1> QED BY <1>3, <1>4, <1>5

\* Two sequences of n words agree but for the i-th, which is larger by c in the second.
Larger(v, w, n, i, c) ==
  \A j \in 0 .. n - 1 : w[j] = IF j = i THEN v[j] + c ELSE v[j]

\* The words of the first sequence, multiplied by b, are those of the second modulo m.
Congruent(v, w, n, b, m) ==
  \A j \in 0 .. n - 1 : \E q \in Nat : b * v[j] = w[j] + q * m

\* A word that is larger by c makes the sum larger by c.
LEMMA SumsAdd ==
  ASSUME NEW n \in Nat, NEW v \in [0 .. n - 1 -> Nat], NEW w \in [0 .. n - 1 -> Nat],
         NEW i \in 0 .. n - 1, NEW c \in Nat
  PROVE  Larger(v, w, n, i, c) => Sums(w, n)[n] = Sums(v, n)[n] + c
<1>a. SUFFICES ASSUME Larger(v, w, n, i, c) PROVE Sums(w, n)[n] = Sums(v, n)[n] + c
  BY <1>a, Zenon
<1> DEFINE sv == Sums(v, n)
           sw == Sums(w, n)
           more(k) == IF k > i THEN c ELSE 0
           S == {k \in 0 .. n : sw[k] = sv[k] + more(k)}
<1>1. /\ sv \in [0 .. n -> Nat] /\ sv[0] = 0
      /\ \A k \in 1 .. n : sv[k] = sv[k - 1] + v[k - 1]
  BY SumsDef, Zenon
<1>2. /\ sw \in [0 .. n -> Nat] /\ sw[0] = 0
      /\ \A k \in 1 .. n : sw[k] = sw[k - 1] + w[k - 1]
  BY SumsDef, Zenon
<1> HIDE DEF sv, sw
<1>3. 0 \in S
  BY <1>1, <1>2
<1>4. ASSUME NEW k \in 1 .. n, k - 1 \in S PROVE k \in S
  <2>1. k - 1 \in 0 .. n - 1 /\ k \in 0 .. n /\ k - 1 \in 0 .. n
    OBVIOUS
  <2>2. sv[k - 1] \in Nat /\ v[k - 1] \in Nat /\ w[k - 1] \in Nat
    BY <1>1, <2>1
  <2>3. sw[k - 1] = sv[k - 1] + more(k - 1)
    BY <1>4
  <2>4. sw[k] = sw[k - 1] + w[k - 1] /\ sv[k] = sv[k - 1] + v[k - 1]
    BY <1>1, <1>2
  <2>5. w[k - 1] = IF k - 1 = i THEN v[k - 1] + c ELSE v[k - 1]
    BY <1>a, <2>1 DEF Larger
  <2>6. more(k - 1) + w[k - 1] = more(k) + v[k - 1]
    BY <2>1, <2>2, <2>5
  <2>7. more(k) \in Nat /\ more(k - 1) \in Nat
    OBVIOUS
  <2> HIDE DEF more
  <2>8. \A x, y, z, d, e \in Nat : e + z = d + y => (x + e) + z = (x + y) + d
    OBVIOUS
  <2>9. (sv[k - 1] + more(k - 1)) + w[k - 1] = (sv[k - 1] + v[k - 1]) + more(k)
    <3> DEFINE x == sv[k - 1]  y == v[k - 1]  z == w[k - 1]
               d == more(k)    e == more(k - 1)
    <3>1. x \in Nat /\ y \in Nat /\ z \in Nat /\ d \in Nat /\ e \in Nat
      BY <2>2, <2>7, Zenon
    <3>2. e + z = d + y
      BY <2>6, Zenon
    <3> HIDE DEF x, y, z, d, e
    <3>3. (x + e) + z = (x + y) + d
      BY <2>8, <3>1, <3>2
    <3> QED BY <3>3, Zenon DEF x, y, z, d, e
  <2>10. sw[k] = sv[k] + more(k)
    BY <2>3, <2>4, <2>9, Zenon
  <2> QED BY <2>1, <2>10, Zenon
<1>5. n \in S
  <2>1. n \in 0 .. n
    OBVIOUS
  <2> HIDE DEF S
  <2> QED BY <1>3, <1>4, <2>1, Rounds, Zenon
<1>6. sw[n] = sv[n] + c
  BY <1>5
<1> QED BY <1>6 DEF sv, sw

\* Words that agree modulo m after a multiplication by b have sums that do.
LEMMA SumsScale ==
  ASSUME NEW n \in Nat, NEW v \in [0 .. n - 1 -> Nat], NEW w \in [0 .. n - 1 -> Nat],
         NEW b \in Nat, NEW m \in Nat
  PROVE  Congruent(v, w, n, b, m) =>
           \E q \in Nat : b * Sums(v, n)[n] = Sums(w, n)[n] + q * m
<1>a. SUFFICES ASSUME Congruent(v, w, n, b, m)
               PROVE  \E q \in Nat : b * Sums(v, n)[n] = Sums(w, n)[n] + q * m
  BY <1>a, Zenon
<1> DEFINE sv == Sums(v, n)
           sw == Sums(w, n)
           S == {k \in 0 .. n : \E q \in Nat : b * sv[k] = sw[k] + q * m}
<1>1. /\ sv \in [0 .. n -> Nat] /\ sv[0] = 0
      /\ \A k \in 1 .. n : sv[k] = sv[k - 1] + v[k - 1]
  BY SumsDef, Zenon
<1>2. /\ sw \in [0 .. n -> Nat] /\ sw[0] = 0
      /\ \A k \in 1 .. n : sw[k] = sw[k - 1] + w[k - 1]
  BY SumsDef, Zenon
<1> HIDE DEF sv, sw
<1>3. 0 \in S
  <2>1. b * sv[0] = sw[0] + 0 * m
    BY <1>1, <1>2
  <2> QED BY <2>1
<1>4. ASSUME NEW k \in 1 .. n, k - 1 \in S PROVE k \in S
  <2>1. k - 1 \in 0 .. n - 1 /\ k \in 0 .. n /\ k - 1 \in 0 .. n
    OBVIOUS
  <2>2. sv[k - 1] \in Nat /\ sw[k - 1] \in Nat /\ v[k - 1] \in Nat /\ w[k - 1] \in Nat
    BY <1>1, <1>2, <2>1
  <2>3. PICK q \in Nat : b * sv[k - 1] = sw[k - 1] + q * m
    BY <1>4
  <2>4. PICK r \in Nat : b * v[k - 1] = w[k - 1] + r * m
    BY <1>a, <2>1, Zenon DEF Congruent
  <2>5. sw[k] = sw[k - 1] + w[k - 1] /\ sv[k] = sv[k - 1] + v[k - 1]
    BY <1>1, <1>2
  <2>6. \A s, t, x, y, qq, rr \in Nat :
          b * s = t + qq * m /\ b * x = y + rr * m => b * (s + x) = (t + y) + (qq + rr) * m
    OBVIOUS
  <2>7. b * sv[k] = sw[k] + (q + r) * m
    <3> DEFINE s == sv[k - 1]  t == sw[k - 1]  x == v[k - 1]  y == w[k - 1]
    <3>1. s \in Nat /\ t \in Nat /\ x \in Nat /\ y \in Nat
      BY <2>2, Zenon
    <3>2. b * s = t + q * m /\ b * x = y + r * m
      BY <2>3, <2>4, Zenon
    <3>3. sw[k] = t + y /\ sv[k] = s + x
      BY <2>5, Zenon
    <3> HIDE DEF s, t, x, y
    <3>4. b * (s + x) = (t + y) + (q + r) * m
      BY <2>6, <3>1, <3>2
    <3> QED BY <3>3, <3>4, Zenon
  <2>8. q + r \in Nat
    OBVIOUS
  <2> QED BY <2>1, <2>7, <2>8, Zenon
<1>5. n \in S
  <2>1. n \in 0 .. n
    OBVIOUS
  <2> HIDE DEF S
  <2> QED BY <1>3, <1>4, <2>1, Rounds, Zenon
<1> QED BY <1>5 DEF sv, sw

\* A positive multiple of UINT16_MAX folds to UINT16_MAX.
LEMMA MultipleFolds ==
  ASSUME NEW sum \in Nat, sum > 0, NEW j \in Int, sum = j * UINT16_MAX
  PROVE  Carry[sum] = UINT16_MAX
<1> DEFINE C == Carry[sum]
           M == UINT16_MAX
<1>1. C \in 0 .. M /\ C > 0
  BY CarryValue
<1>2. PICK q \in Nat : sum = C + q * M
  BY CarryValue
<1>3. M \in Nat /\ M > 0
  BY WireConstants
<1> HIDE DEF C, M
<1>4. C = (j - q) * M
  BY <1>1, <1>2, <1>3 DEF M
<1>5. \A d \in Int : \A m, c \in Nat : m > 0 /\ c > 0 /\ c <= m /\ c = d * m => c = m
  <2> TAKE d \in Int
  <2> TAKE m, c \in Nat
  <2> HAVE m > 0 /\ c > 0 /\ c <= m /\ c = d * m
  <2>1. d <= 0 => d * m <= 0
    OBVIOUS
  <2>2. d >= 2 => d * m >= 2 * m
    OBVIOUS
  <2> QED BY <2>1, <2>2
<1>6. j - q \in Int /\ C \in Nat /\ C <= M
  BY <1>1, <1>3
<1>7. C = M
  BY <1>1, <1>3, <1>4, <1>5, <1>6, Zenon
<1> QED BY <1>7 DEF C, M

\* Swapping the bytes of a word multiplies it by BYTE, modulo UINT16_MAX.
LEMMA SwapWord ==
  \A x, y \in Nat :
    /\ BYTE * (x + BYTE * y) = (x * BYTE + y) + y * UINT16_MAX
    /\ BYTE * (x * BYTE + y) = (x + BYTE * y) + x * UINT16_MAX
<1>1. \A b, m, x, y \in Nat : b * b = m + 1 =>
        /\ b * (x + b * y) = (x * b + y) + y * m
        /\ b * (x * b + y) = (x + b * y) + x * m
  <2> TAKE b, m, x, y \in Nat
  <2> HAVE b * b = m + 1
  <2>1. b * (b * y) = (m + 1) * y /\ b * (x * b) = (m + 1) * x
    OBVIOUS
  <2> QED BY <2>1
<1> QED BY <1>1, WireConstants

\* The words of a buffer as the host reads them, and in network byte order.
HostWords(buf) == [i \in 0 .. Words - 1 |-> Native(buf, 2 * i)]
NetWords(buf) == [i \in 0 .. Words - 1 |-> ntohs(buf, 2 * i)]

\* On a little-endian host the two differ by a factor of BYTE, in either direction.
LEMMA SwapWords ==
  ASSUME NEW buf \in Buffer(PACKET_SIZE)
  PROVE  little => /\ Congruent(HostWords(buf), NetWords(buf), Words, BYTE, UINT16_MAX)
                   /\ Congruent(NetWords(buf), HostWords(buf), Words, BYTE, UINT16_MAX)
<1>a. SUFFICES ASSUME little
               PROVE  /\ Congruent(HostWords(buf), NetWords(buf), Words, BYTE, UINT16_MAX)
                      /\ Congruent(NetWords(buf), HostWords(buf), Words, BYTE, UINT16_MAX)
  BY <1>a, Zenon
<1>1. ASSUME NEW i \in 0 .. Words - 1
      PROVE  /\ \E q \in Nat : BYTE * HostWords(buf)[i] = NetWords(buf)[i] + q * UINT16_MAX
             /\ \E q \in Nat : BYTE * NetWords(buf)[i] = HostWords(buf)[i] + q * UINT16_MAX
  <2> DEFINE x == buf[2 * i]
             y == buf[2 * i + 1]
  <2>1. x \in Nat /\ y \in Nat
    <3>1. 2 * i \in Nat /\ 2 * i + 1 < PACKET_SIZE
      BY WordCount
    <3> QED BY <3>1, WordTypes, WireConstants
  <2>2. HostWords(buf)[i] = x + BYTE * y
    BY <1>a, Zenon DEF HostWords, Native
  <2>3. NetWords(buf)[i] = x * BYTE + y
    BY Zenon DEF NetWords, ntohs
  <2> HIDE DEF x, y
  <2>4. BYTE * HostWords(buf)[i] = NetWords(buf)[i] + y * UINT16_MAX
    BY <2>1, <2>2, <2>3, SwapWord, Zenon
  <2>5. BYTE * NetWords(buf)[i] = HostWords(buf)[i] + x * UINT16_MAX
    BY <2>1, <2>2, <2>3, SwapWord, Zenon
  <2> QED BY <2>1, <2>4, <2>5, Zenon
<1> QED BY <1>1, Zenon DEF Congruent

\* The request differs from the one without a checksum in that word alone, as the host reads it.
LEMMA RequestWords ==
  ASSUME TypeOK, NEW seq \in Uint16, family = "v4"
  PROVE  Larger(HostWords(Blank(seq)), HostWords(BuildRequest(seq)), Words, 1,
                icmp_checksum(Blank(seq), PACKET_SIZE))
<1> DEFINE B == Blank(seq)
           R == BuildRequest(seq)
           c == icmp_checksum(B, PACKET_SIZE)
<1>1. B \in Buffer(PACKET_SIZE) /\ B[2] = 0 /\ B[3] = 0
  BY BlankType, Zenon
<1>2. c \in Uint16
  BY <1>1, ChecksumOf, Zenon
<1>3. /\ \A k \in 0 .. PACKET_SIZE - 1 : k \notin {2, 3} => R[k] = B[k]
      /\ R[2] = (IF little THEN Lo(c) ELSE Hi(c))
      /\ R[3] = (IF little THEN Hi(c) ELSE Lo(c))
  BY RequestBytes, Zenon
<1>4. Hi(c) \in Nat /\ Lo(c) \in Nat /\ Hi(c) * BYTE + Lo(c) = c /\ c \in Nat
  BY <1>2, WordBytes, WireConstants DEF Uint16
<1> HIDE DEF B, R, c
<1>5. Native(B, 2) = 0 /\ Native(R, 2) = c
  <2>1. B[2] + BYTE * B[2 + 1] = 0 /\ B[2] * BYTE + B[2 + 1] = 0
    BY <1>1, WireConstants
  <2>2. Native(B, 2) = 0
    BY <2>1, Zenon DEF Native, ntohs
  <2>3. Lo(c) + BYTE * Hi(c) = c
    BY <1>4, WireConstants
  <2>4. R[2 + 1] = R[3]
    OBVIOUS
  <2>5. Native(R, 2) = c
    <3>1. CASE little
      <4>1. Native(R, 2) = R[2] + BYTE * R[3] /\ R[2] = Lo(c) /\ R[3] = Hi(c)
        BY <1>3, <2>4, <3>1, Zenon DEF Native
      <4> QED BY <2>3, <4>1, Zenon
    <3>2. CASE ~little
      <4>1. Native(R, 2) = R[2] * BYTE + R[3] /\ R[2] = Hi(c) /\ R[3] = Lo(c)
        BY <1>3, <2>4, <3>2, Zenon DEF Native, ntohs
      <4> QED BY <1>4, <4>1, Zenon
    <3> QED BY <3>1, <3>2, Zenon
  <2> QED BY <2>2, <2>5, Zenon
<1>6. ASSUME NEW i \in 0 .. Words - 1
      PROVE  HostWords(R)[i] = IF i = 1 THEN HostWords(B)[i] + c ELSE HostWords(B)[i]
  <2>1. HostWords(R)[i] = Native(R, 2 * i) /\ HostWords(B)[i] = Native(B, 2 * i)
    BY Zenon DEF HostWords
  <2>2. CASE i = 1
    <3>1. 2 * i = 2 /\ 0 + c = c
      BY <1>4, <2>2
    <3> QED BY <1>5, <2>1, <2>2, <3>1, Zenon
  <2>3. CASE i # 1
    <3>1. /\ 2 * i \in 0 .. PACKET_SIZE - 1 /\ 2 * i + 1 \in 0 .. PACKET_SIZE - 1
          /\ 2 * i \notin {2, 3} /\ 2 * i + 1 \notin {2, 3}
      BY <2>3, WordCount, WireConstants
    <3>2. R[2 * i] = B[2 * i] /\ R[2 * i + 1] = B[2 * i + 1]
      BY <1>3, <3>1, Zenon
    <3> QED BY <2>1, <2>3, <3>2, Zenon DEF Native, ntohs
  <2> QED BY <2>2, <2>3, Zenon
<1> QED BY <1>6, Zenon DEF Larger, B, R, c

\* As the host reads them, the words of a request add up to a positive multiple of UINT16_MAX: the
\* checksum is what the others lack.
LEMMA HostSum ==
  ASSUME TypeOK, NEW seq \in Uint16, family = "v4"
  PROVE  \E q \in Nat : q > 0 /\ Sums(HostWords(BuildRequest(seq)), Words)[Words] = q * UINT16_MAX
<1> DEFINE B == Blank(seq)
           R == BuildRequest(seq)
           c == icmp_checksum(B, PACKET_SIZE)
           sB == Sums(HostWords(B), Words)[Words]
           sR == Sums(HostWords(R), Words)[Words]
           M == UINT16_MAX
<1>1. B \in Buffer(PACKET_SIZE) /\ R \in Buffer(PACKET_SIZE)
  BY BlankType, RequestType, Zenon
<1>2. /\ HostWords(B) \in [0 .. Words - 1 -> Nat] /\ HostWords(R) \in [0 .. Words - 1 -> Nat]
  BY <1>1, WordFunctions, Zenon DEF HostWords
<1>3. sB \in Nat /\ c = M - Carry[sB] /\ c \in Uint16
  BY <1>1, ChecksumOf, Zenon DEF HostWords
<1>4. c \in Nat /\ M \in Nat /\ M > 0
  BY <1>3, WireConstants DEF Uint16
<1>5. Words \in Nat /\ 1 \in 0 .. Words - 1
  BY WordCount
<1>6. sR = sB + c
  BY <1>2, <1>4, <1>5, RequestWords, SumsAdd, Zenon
<1>7. PICK q \in Nat : sB = Carry[sB] + q * M
  BY <1>3, CarryValue, Zenon
<1>8. Carry[sB] \in 0 .. M
  BY <1>3, CarryValue, Zenon
<1> HIDE DEF B, R, c, sB, sR, M
<1>9. sR = (q + 1) * M /\ q + 1 \in Nat /\ q + 1 > 0
  <2>1. \A x, y, m \in Nat : x <= m => (x + y * m) + (m - x) = (y + 1) * m
    OBVIOUS
  <2>2. Carry[sB] \in Nat /\ Carry[sB] <= M
    BY <1>4, <1>8
  <2>3. sR = (Carry[sB] + q * M) + (M - Carry[sB])
    BY <1>3, <1>6, <1>7, Zenon
  <2>4. sR = (q + 1) * M
    BY <1>4, <2>1, <2>2, <2>3, Zenon
  <2> QED BY <2>4
<1> QED BY <1>9, Zenon DEF R, sR, M

\* Read in network byte order, the words of a request fold to UINT16_MAX.
LEMMA NetSum ==
  ASSUME TypeOK, NEW seq \in Uint16, family = "v4"
  PROVE  Carry[Sums(NetWords(BuildRequest(seq)), Words)[Words]] = UINT16_MAX
<1> DEFINE R == BuildRequest(seq)
           host == Sums(HostWords(R), Words)[Words]
           net == Sums(NetWords(R), Words)[Words]
           M == UINT16_MAX
<1>1. PICK q \in Nat : q > 0 /\ host = q * M
  BY HostSum, Zenon
<1>2. R \in Buffer(PACKET_SIZE)
  BY RequestType, Zenon
<1>3. HostWords(R) \in [0 .. Words - 1 -> Nat] /\ NetWords(R) \in [0 .. Words - 1 -> Nat]
  BY <1>2, WordFunctions, Zenon DEF HostWords, NetWords
<1>4. Words \in Nat /\ Words \in 0 .. Words /\ M \in Nat /\ M > 0 /\ BYTE \in Nat /\ BYTE > 0
  BY WordCount, WireConstants
<1>5. net \in Nat
  <2>1. Sums(NetWords(R), Words) \in [0 .. Words -> Nat]
    BY <1>3, <1>4, SumsDef, Zenon
  <2> QED BY <1>4, <2>1, Zenon
<1>6. q * M \in Nat /\ q * M > 0 /\ q \in Int
  <2> HIDE DEF M
  <2>1. \A x, y \in Nat : x > 0 /\ y > 0 => x * y \in Nat /\ x * y > 0
    OBVIOUS
  <2> QED BY <1>1, <1>4, <2>1
<1>7. \E j \in Int : net > 0 /\ net = j * M
  <2>1. CASE ~little
    <3>1. HostWords(R) = NetWords(R)
      BY <2>1, Zenon DEF HostWords, NetWords, Native
    <3>2. net = q * M
      BY <1>1, <3>1, Zenon
    <3> QED BY <1>6, <3>2, Zenon
  <2>2. CASE little
    <3>a. Congruent(HostWords(R), NetWords(R), Words, BYTE, M)
      BY <1>2, <2>2, SwapWords, Zenon
    <3>b. Congruent(NetWords(R), HostWords(R), Words, BYTE, M)
      BY <1>2, <2>2, SwapWords, Zenon
    <3>c. \A v, w \in [0 .. Words - 1 -> Nat] : Congruent(v, w, Words, BYTE, M) =>
            \E x \in Nat : BYTE * Sums(v, Words)[Words] = Sums(w, Words)[Words] + x * M
      BY <1>4, SumsScale, ZenonT(40)
    <3>1. PICK r \in Nat : BYTE * host = net + r * M
      BY <1>3, <3>a, <3>c, Zenon
    <3>2. PICK t \in Nat : BYTE * net = host + t * M
      BY <1>3, <3>b, <3>c, Zenon
    <3> HIDE DEF net, host, M
    <3>3. \A b, n, m, x, y \in Nat : b * (x * m) = n + y * m => n = (b * x - y) * m
      OBVIOUS
    <3>4. \A b, h, n, m, tt \in Nat : h > 0 /\ b * n = h + tt * m => n > 0
      OBVIOUS
    <3>5. host \in Nat /\ host > 0
      BY <1>1, <1>6, Zenon
    <3>6. net > 0
      BY <1>4, <1>5, <3>2, <3>4, <3>5, Zenon
    <3>7. net = (BYTE * q - r) * M
      <4>1. BYTE * (q * M) = net + r * M
        BY <1>1, <3>1, Zenon
      <4> QED BY <1>4, <1>5, <3>3, <4>1
    <3>8. BYTE * q - r \in Int
      BY <1>4
    <3> QED BY <3>6, <3>7, <3>8, Zenon
  <2> QED BY <2>1, <2>2, Zenon
<1> QED BY <1>5, <1>7, MultipleFolds, Zenon

\* Wire!ChecksumVerifies: whoever adds up the words of a request in network byte order finds the sum
\* that a correct checksum gives, on hosts of both byte orders, for every size of a packet and every
\* identifier and sequence number.
THEOREM ChecksumsVerify == Spec => []ChecksumVerifies
<1> DEFINE Verified == family = "v4" /\ sends > 0 =>
                         Carry[Sums(NetWords(send_buf), Words)[Words]] = UINT16_MAX
<1>1. ChecksumVerifies <=> Verified
  BY Zenon DEF ChecksumVerifies, NetWords, Words
<1>2. Init => Verified
  BY DEF Init
<1>3. TypeOK /\ Verified /\ [Next]_vars => Verified'
  <2> SUFFICES ASSUME TypeOK, Verified, [Next]_vars PROVE Verified'
    OBVIOUS
  <2>1. CASE ls_icmp_send_echo
    <3>1. sequence' \in Uint16
      BY <2>1, FieldTypes DEF ls_icmp_send_echo, TypeOK
    <3>2. send_buf' = BuildRequest(sequence') /\ family' = family
      BY <2>1, Zenon DEF ls_icmp_send_echo
    <3>3. family = "v4" =>
            Carry[Sums(NetWords(BuildRequest(sequence')), Words)[Words]] = UINT16_MAX
      BY <3>1, NetSum, Zenon
    <3>4. NetWords(send_buf)' = NetWords(BuildRequest(sequence'))
      BY <3>2, Zenon DEF NetWords, ntohs
    <3> QED BY <3>2, <3>3, <3>4, Zenon
  <2>2. ASSUME NEW p \in Arriving, recv_packet(p) PROVE Verified'
    BY <2>2, Zenon DEF recv_packet, NetWords, ntohs
  <2>3. CASE UNCHANGED vars
    BY <2>3, Zenon DEF vars, NetWords, ntohs
  <2> QED BY <2>1, <2>2, <2>3 DEF Next
<1> HIDE DEF Verified
<1>4. Verified => ChecksumVerifies
  BY <1>1, Zenon
<1> QED BY <1>2, <1>3, <1>4, WireTypes, PTL DEF Spec
=============================================================================
