SPECIFICATION CallSpec
CONSTANTS
  DsCalls <- McDsCalls
  TimeCalls <- McTimeCalls
  DenialCalls <- McDenialCalls
  RelatedCalls <- McRelatedCalls
  TimeSpan = 8
CHECK_DEADLOCK FALSE
INVARIANTS DsBinds SignatureTimely DenialSound DenialComplete
