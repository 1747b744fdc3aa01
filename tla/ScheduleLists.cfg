CONSTANTS
  TicksPerSecond = 2
  MaxTime = 5
  GraceTime = 1
SPECIFICATION Spec
INVARIANTS
  AvailabilityIsExact
  MethodsAgree
  ListInOrder
