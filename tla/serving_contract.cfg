SPECIFICATION Spec
CONSTANTS
  v1 = v1  s1 = s1  get = get  watch = watch
  Requests = {v1, s1}
  Methods = {get, watch}
  StreamMethods = {watch}
  MethodOf <- Kinds
  Capacity = 1
  MaxItems = 1
  MaxAborts = 1
  ProducerHasTimeout = FALSE
  ProducerFaulty = FALSE
  ProducerReceiveStrategies <- DefaultReceiveStrategies
  SendStrategies <- DefaultSendStrategies
  ProducerShutdownCauses = {"Shutdown"}
  MethodsMayPanic = FALSE
INVARIANT NoAborterLeak
PROPERTY KeepsContract ActsAsPeer
CHECK_DEADLOCK FALSE
