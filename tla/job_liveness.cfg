SPECIFICATION FairSpec
CONSTANTS
  j1 = j1  j2 = j2  j3 = j3  j4 = j4  h1 = h1  h2 = h2  r1 = r1  r2 = r2  r3 = r3
  NoJob = NoJob  NoHost = NoHost
  Jobs = {j1, j2, j3}
  Hosts = {h1}
  Runners = {r1}
  Edges <- Chain
  CreatedAt <- SameTime
  Need <- UnitNeed
  Capacity <- OneHost
  GpuCount <- NoGpu
  HostRuntime <- OneDocker
  HostOf <- OneRunner
  OfflineAfter = 0
  LostAfter = 1
  MaxAge = 2
  MaxFaults = 1
  Cancellable = {j1}
  Pausable = {j3}
  Administered = {}
PROPERTIES RunEnds LostRunEnds ChildDecided PlacedStarts
