SPECIFICATION FairSpec
CONSTANTS
  v1 = v1  v2 = v2  s1 = s1  get = get  watch = watch
  Requests = {s1}
  Methods = {get, watch}
  StreamMethods = {watch}
  MethodOf <- Kinds
  Capacity = 1
  MaxItems = 1
  MultiThreaded = FALSE
  HasTimeout = FALSE
  Faulty = FALSE
  ReceiveStrategies <- DefaultReceiveStrategies
  ShutdownCauses = {}
  ProducerHasTimeout = FALSE
  ProducerFaulty = FALSE
  ProducerReceiveStrategies <- DefaultReceiveStrategies
  SendStrategies <- DefaultSendStrategies
  ProducerShutdownCauses = {"Shutdown"}
  MethodsMayPanic = TRUE
  Hanging = {s1}
INVARIANT RpcTypeOK
INVARIANT EntriesAccounted
PROPERTY StuckStaysStuck
PROPERTY AbandonedWorkEnds
PROPERTY StopHangsUpUnlessStuck
PROPERTY DropHangsUpUnlessStranded
PROPERTY BothSidesEnd
CHECK_DEADLOCK FALSE
