SPECIFICATION Spec
CONSTANTS
  ConfigZones <- TwoZones
  Lines <- TwoLines
  MaxLines <- TwoBounds
  Asked <- TwoAsked
  None = None
CHECK_DEADLOCK FALSE
INVARIANTS AnswersComplete DenialsSound TransferFaithful
