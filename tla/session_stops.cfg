SPECIFICATION FairSpec
CONSTANTS
  v1 = v1  v2 = v2  s1 = s1  s2 = s2  get = get  watch = watch
  Requests = {s1}
  Methods = {get, watch}
  StreamMethods = {watch}
  MethodOf <- Kinds
  Capacity = 4
  MaxItems = 2
  MultiThreaded = FALSE
  HasTimeout = FALSE
  Faulty = FALSE
  ReceiveStrategies <- DefaultReceiveStrategies
  ShutdownCauses = {"Shutdown"}
  PeerStops = {"Shutdown", "Closed"}
  Disconnects = TRUE
INVARIANT PendingIsExact
INVARIANT ItemsInOrder
INVARIANT StreamsEndComplete
INVARIANT AbandonedWorkIsAborted
PROPERTY ValuesBeforeAbortReturned
PROPERTY KeepsCallersContract
PROPERTY EveryRequestResolves
CHECK_DEADLOCK FALSE
