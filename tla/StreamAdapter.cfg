CONSTANTS
  MaxMsgs = 4
  Kinds = {"drain", "close", "stop"}
  Cuts = {"acquiring", "between", "pulling", "prefetching"}
SPECIFICATION FairSpec
INVARIANTS TypeOK HandedInOrder EndIsComplete NothingLeftOpen
PROPERTIES ReleaseCompletes NoLostWakeup
CHECK_DEADLOCK FALSE
