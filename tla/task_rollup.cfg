SPECIFICATION FairSpec
CONSTANTS
  j1 = j1  j2 = j2  j3 = j3  j4 = j4  j5 = j5
  Jobs = {j1, j2, j3, j4, j5}
  Initial <- Expanded
  Edges <- Fan
  FanOut <- FanRows
  Cancellable = {j5}
  MaxFaults = 1
INVARIANTS ClosedIsOver FanOutOnce
PROPERTIES SealedStaysSealed FlowGate DoneIsEarned TaskCloses
