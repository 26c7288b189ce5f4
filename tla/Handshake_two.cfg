SPECIFICATION FairSpec
CONSTANT
  Data = 3
INVARIANTS
  TypeOK
  InOrderUp
  NoMixup
  OnlyHelloTooEarly
PROPERTIES
  BothThrough
  AllReceived
CHECK_DEADLOCK FALSE
