\* Every way a handler and a service may end.
SPECIFICATION FairSpec
CONSTANTS
  MaxMsgs = 3
  NumEndpoints = 2
  Concurrency <- MCConcurrency
  Requests <- MCRequests
  Outcomes <- MCOutcomes
  Ends = {"scope", "caller", "connection", "subscription"}
INVARIANTS ServiceTypeOK FailuresContained ErrorsCounted NothingLeftRunning
PROPERTIES EveryRequestSettled NoHalfService ScopeCloses
CHECK_DEADLOCK FALSE
