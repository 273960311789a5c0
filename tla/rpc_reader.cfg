SPECIFICATION ReaderSpec
CONSTANTS
  v1 = v1  v2 = v2  s1 = s1  get = get  watch = watch
  Requests = {v1, s1}
  Methods = {get, watch}
  StreamMethods = {watch}
  MethodOf <- Kinds
  Capacity = 1
  MaxItems = 2
  MultiThreaded = FALSE
  HasTimeout = FALSE
  Faulty = FALSE
  ReceiveStrategies <- DefaultReceiveStrategies
  ShutdownCauses = {}
  ProducerHasTimeout = FALSE
  ProducerFaulty = FALSE
  ProducerReceiveStrategies <- DefaultReceiveStrategies
  SendStrategies <- DefaultSendStrategies
  ProducerShutdownCauses = {"Shutdown"}
  MethodsMayPanic = TRUE
  Hanging = {}
INVARIANT StreamsEndToEnd
PROPERTY ItemsArrive
CHECK_DEADLOCK FALSE
