CONSTANTS
  NCpu = 1
  Task <- Tasks1
  None = "none"
  Free = 99
  User = {"a", "b"}
  InitTask = "a"
  Finalizer = "fin"
  idle <- Idle1
  boot <- Boot1
  MaxAge = 2
  MaxTimeout = 0
SPECIFICATION Spec
INVARIANT NeverPanics
