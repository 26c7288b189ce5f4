SPECIFICATION FairSpec
CONSTANTS
  Apps = {"TELNET", "DNS"}
  TotSend <- MCTotSend
  PipeCap = 3
  SockCap = 1
INVARIANTS
  TypeOK
  SelectStaysTrue
  InOrder
  EachMessageOnce
  NobodyStuck
  OwnMail
  SameWire
PROPERTY
  AllDelivered
