CONSTANTS
  MaxMsgs = 2
  Kinds = {"close"}
  Cuts = {"acquiring", "pulling"}
SPECIFICATION FairSpec
PROPERTIES CloseResolves
CHECK_DEADLOCK FALSE
