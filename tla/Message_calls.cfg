SPECIFICATION Spec
CONSTANTS
  Msgs = {m1, m2}
  Bufs = {"body"}
  BufSize <- MCBodySize
  MaxFrags <- MCMaxFrags
INVARIANTS
  LenIsContent
  FragmentsInBounds
PROPERTIES
  UndefinedOnlyIfEmptied
  ImplementsMessageSeq
CHECK_DEADLOCK FALSE
