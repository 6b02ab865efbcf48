SPECIFICATION Spec
CONSTANTS
  z1 = z1
  z2 = z2
  t1 = t1
  t2 = t2
  ConfigZones <- OneZone
  Unknown = Unknown
  Tasks = {t1, t2}
  Sig = Sig
  None = None
  Refused = Refused
  XferLen = 2
  MaxEdits = 1
PROPERTIES ReloadTakesEffect ShutdownHappens QueryAnswered
