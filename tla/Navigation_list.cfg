CONSTANTS
  Capacity = 2
  MaxRequests = 2
  MaxActs = 1
  MaxRestored = 2
SPECIFICATION Spec
CHECK_DEADLOCK FALSE
INVARIANTS  IDsAreFresh CanGoIsCurrent LoadEventsInOrder LoadingIsReal UnresponsiveIsReal 
 
