SPECIFICATION Spec
CONSTANTS
  z1 = z1
  z2 = z2
  t1 = t1
  t2 = t2
  ConfigZones <- TwoZones
  Unknown = Unknown
  Tasks = {t1, t2}
  Sig = Sig
  None = None
  Refused = Refused
  XferLen = 2
  MaxEdits = 2
INVARIANTS TypeOK StoreSound TransferCurrent
PROPERTIES NoRollback ImplementsAtomic
