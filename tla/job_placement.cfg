SPECIFICATION Spec
CONSTANTS
  j1 = j1  j2 = j2  j3 = j3  j4 = j4  h1 = h1  h2 = h2  r1 = r1  r2 = r2  r3 = r3
  NoJob = NoJob  NoHost = NoHost
  Jobs = {j1, j2, j3}
  Hosts = {h1, h2}
  Runners = {r1, r2, r3}
  Edges <- NoEdges
  CreatedAt <- SameTime
  Need <- PairNeed
  Capacity <- EqualHosts
  GpuCount <- EqualGpu
  HostRuntime <- PairRuntime
  HostOf <- Threads
  OfflineAfter = 0
  LostAfter = 1
  MaxAge = 1
  MaxFaults = 1
  Cancellable = {j1}
  Pausable = {}
  Administered = {h1}
INVARIANTS GpuExclusive CapacityRespected SingleExecutor
PROPERTIES SpreadsOverIdleHosts
