SPECIFICATION Spec
CONSTANTS
  Msgs = {m1, m2}
  Bufs = {"hdr", "body"}
  BufSize <- MCBufSize
  MaxFrags <- MCMaxFrags
PROPERTY
  StripIsDefined
CHECK_DEADLOCK FALSE
