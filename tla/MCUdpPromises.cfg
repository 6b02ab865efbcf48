SPECIFICATION Spec
CONSTANTS
  Tasks = {t1, t2}
  Stores <- ChainStore
  Asked <- ChainAsked
  QuestionSize = 259
  SectionSize <- LongNames
  None = None
INVARIANTS SomePromiseKept
