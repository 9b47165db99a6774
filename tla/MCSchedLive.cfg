CONSTANTS
  NCpu = 1
  Task <- Tasks1a
  None = "none"
  Free = 99
  User = {"a"}
  InitTask = "a"
  Finalizer = "fin"
  idle <- Idle1
  boot <- Boot1
  MaxAge = 1
  MaxTimeout = 0
SPECIFICATION LiveSpec

PROPERTIES BlockedIsReleased IdleGivesWay StoppedIsTakenOff
