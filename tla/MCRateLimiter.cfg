SPECIFICATION Spec
CONSTANTS
  None = None
  Clients = {c1, c2}
  Tasks = {t1, t2}
  MaxQps = 2
  Window = 2
  CleanupInterval = 1
  MaxTime = 3
INVARIANTS TypeOK WindowBound PerClientBound
PROPERTIES ImplementsWindow MutexReleased
