SPECIFICATION MCSpec
CONSTANTS
  Ops = {o1, o2, o3}
  OK = OK
  Device = Device
INVARIANTS
  TypeOK
  OutstandingExact
  NoUseAfterDelete
  FinishOnce
  FirstErrorReported
PROPERTY
  StepCompletes
