SPECIFICATION Spec
CONSTANTS
  v1 = v1  v2 = v2  s1 = s1  s2 = s2  get = get  watch = watch
  Requests = {s1}
  Methods = {get, watch}
  StreamMethods = {watch}
  MethodOf <- Kinds
  Capacity = 1
  MaxItems = 1
  MultiThreaded = TRUE
  HasTimeout = FALSE
  Faulty = FALSE
  ReceiveStrategies <- DefaultReceiveStrategies
  ShutdownCauses = {}
  PeerStops = {}
  Disconnects = TRUE
INVARIANT StreamErrorReported
CHECK_DEADLOCK FALSE
