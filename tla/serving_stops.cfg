SPECIFICATION FairSpec
CONSTANTS
  v1 = v1  s1 = s1  get = get  watch = watch
  Requests = {s1}
  Methods = {get, watch}
  StreamMethods = {watch}
  MethodOf <- Kinds
  Capacity = 2
  MaxItems = 1
  MaxAborts = 2
  ProducerHasTimeout = TRUE
  ProducerFaulty = TRUE
  ProducerReceiveStrategies = {"Ignore", "Aborted"}
  SendStrategies <- AnySendStrategies
  ProducerShutdownCauses = {"Shutdown"}
  MethodsMayPanic = FALSE
INVARIANT ServingTypeOK
INVARIANT TimedOutIdle
INVARIANT ClosedMeansClosed
PROPERTY StopHangsUp
PROPERTY IdleStops
CHECK_DEADLOCK FALSE
