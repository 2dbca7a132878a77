SPECIFICATION Spec
CONSTANTS
  j1 = j1  j2 = j2  j3 = j3  j4 = j4  h1 = h1  h2 = h2  r1 = r1  r2 = r2  r3 = r3
  NoJob = NoJob  NoHost = NoHost
  Jobs = {j1, j2, j3, j4}
  Hosts = {h1}
  Runners = {r1}
  Edges <- Branches
  CreatedAt <- SameTime
  Need <- UnitNeed
  Capacity <- OneHost
  GpuCount <- NoGpu
  HostRuntime <- OneDocker
  HostOf <- OneRunner
  OfflineAfter = 0
  LostAfter = 1
  MaxAge = 3
  MaxFaults = 1
  Cancellable = {j1, j2}
  Pausable = {}
  Administered = {}
INVARIANTS RunningHoldsReservation LeakOnlyByCancel
PROPERTIES DependencyGate EndedStaysEnded FlowOfJobs
