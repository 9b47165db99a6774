CONSTANTS
  NCpu = 2
  Task <- Tasks2
  None = "none"
  Free = 99
  User = {"a"}
  InitTask = "a"
  Finalizer = "fin"
  idle <- Idle2
  boot <- Boot2
  MaxAge = 1
  MaxTimeout = 0
SPECIFICATION BootedSpec
INVARIANTS NextDistinct
