CONSTANTS
  Coroutines = {c1, c2}
  Delay = 1
  MaxTime = 5
  MaxRequests = 3
SPECIFICATION Spec
CHECK_DEADLOCK FALSE
PROPERTIES NeverEarly DueWaitsEnd
