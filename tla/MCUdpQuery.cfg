SPECIFICATION Spec
CONSTANTS
  Tasks = {t1, t2}
  Stores <- TwoStores
  Asked <- UdpAsked
  QuestionSize = 20
  SectionSize <- Bytes
  None = None
INVARIANTS TypeOK FitsAdvertised TruncationHonest CountedOnce
