SPECIFICATION Spec
CONSTANTS
  Apps = {"FTP"}
  TotSend <- MCTotSend
  PipeCap = 2
  SockCap = 2
INVARIANT
  PayloadIntact
