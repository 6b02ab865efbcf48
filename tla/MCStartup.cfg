SPECIFICATION Spec
CONSTANTS
  z1 = z1
  z2 = z2
  Texts <- McTexts
  Names = {z1, z2}
  Unnamed = Unnamed
  Ports = {"udp", "tcp", "api"}
  MaxChanges = 1
  MaxTasks = 1
CHECK_DEADLOCK FALSE
INVARIANTS ServesWhole HalfServerEnds
PROPERTIES WindowCloses TermEnds
