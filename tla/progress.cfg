CONSTANTS
  o1 = o1
  o2 = o2
  v1 = v1
  c1 = c1
  c2 = c2
  p1 = p1
  w1 = w1
  w2 = w2
SPECIFICATION ProgressSpec
PROPERTIES
  EveryRequestEnds
  CaptureConfirmsOrder
CHECK_DEADLOCK FALSE
