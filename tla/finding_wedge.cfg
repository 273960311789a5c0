SPECIFICATION Spec
CONSTANTS
  v1 = v1  v2 = v2  s1 = s1  get = get  watch = watch
  Requests = {v1, v2}
  Methods = {get, watch}
  StreamMethods = {watch}
  MethodOf <- Kinds
  Capacity = 1
  MaxItems = 1
  MultiThreaded = FALSE
  HasTimeout = TRUE
  Faulty = FALSE
  ReceiveStrategies <- DefaultReceiveStrategies
  ShutdownCauses = {}
  ProducerHasTimeout = FALSE
  ProducerFaulty = FALSE
  ProducerReceiveStrategies <- DefaultReceiveStrategies
  SendStrategies <- DefaultSendStrategies
  ProducerShutdownCauses = {"Shutdown"}
  MethodsMayPanic = FALSE
  Hanging = {}
INVARIANT AwaitedNotWedged
CHECK_DEADLOCK FALSE
