SPECIFICATION FairSpec
CONSTANTS
  v1 = v1  v2 = v2  s1 = s1  s2 = s2  get = get  watch = watch
  Requests = {s1}
  Methods = {get, watch}
  StreamMethods = {watch}
  MethodOf <- Kinds
  Capacity = 1
  MaxItems = 1
  MultiThreaded = TRUE
  HasTimeout = TRUE
  Faulty = TRUE
  ReceiveStrategies = {"Ignore", "Shutdown"}
  ShutdownCauses = {}
  PeerStops = {}
  Disconnects = FALSE
INVARIANT PendingCoversOwed
PROPERTY EveryRequestResolves
PROPERTY DropEndsTask
CHECK_DEADLOCK FALSE
