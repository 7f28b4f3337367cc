SPECIFICATION MCSpec
CONSTANTS
  Ops = {o1, o2}
  OK = OK
  Device = Device
INVARIANT
  DerivedAsDocumented
