SPECIFICATION FairSpec
CONSTANTS
  Apps = {"FTP", "DNS"}
  Messages <- MCMessages
  App <- MCApp
  Threads = {"f1", "f2", "f3", "dns"}
  By <- MCBy
  TotSend = 3
  Second = 3
  Start = 1
  Late = 5
INVARIANTS
  TypeOK
  NeverEarly
  ExactIfAlone
PROPERTIES
  FullIsFinal
  PrintedUnlessLost
