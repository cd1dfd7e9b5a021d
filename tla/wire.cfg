SPECIFICATION Spec
CONSTANTS
  UINT64_MAX = 1000
  UINT16_MAX = 255
  NIBBLE = 4
  IP_WORD = 2
  IP_HDR = 4
  PACKET_SIZE = 12
  RECV_BUF = 16
  ECHO <- EchoType
  ECHO_REPLY <- EchoReplyType
  Pids = {39, 512}
  Starts = {0, 14, 30, 200, 254}
  Types = {}
  Ids = {1, 39}
  Seqs = {15}
  Lens = {0, 7, 8, 12}
  MaxSends = 3
  MaxReceived = 2
INVARIANTS
  TypeOK
  OnlyRepliesMatch
  EveryReplyMatches
  ChecksumVerifies
CHECK_DEADLOCK FALSE
