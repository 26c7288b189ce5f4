SPECIFICATION Spec
CONSTANTS
  Msgs = {m1, m2}
  Bufs = {"hdr", "body"}
  BufSize <- MCBufSize
  MaxFrags <- MCMaxFrags
INVARIANT
  JoinEmptiesSecond
CHECK_DEADLOCK FALSE
