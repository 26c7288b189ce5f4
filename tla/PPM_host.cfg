SPECIFICATION FairSpec
CONSTANTS
  Apps = {"FTP"}
  PeerApps = {"FTP", "DNS"}
  TotSend = 1
  ThreadCount = 3
  NoThreadFor = {"DNS"}
INVARIANTS
  EthKeepsSlot
  BusySlotIsOwned
  LossNeedsLoad
  OwnMail
PROPERTY
  PoolEmpties
