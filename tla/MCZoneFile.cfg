SPECIFICATION Spec
CONSTANTS
  Files <- AllFiles
  Origin <- ZoneLabels
  Bits <- McBits
  Value <- McValue
  Labels <- McLabels
  Absolute = {"sub.example.", "mail.other."}
  Ipv4 = {"192.0.2.1"}
  Ipv6 = {"2001:db8::1"}
  Base64 = {"QUJD"}
  Hex = {"ABCD"}
  KnownTypes = {"A", "RRSIG", "NS", "SOA"}
  KnownDigests = {"1", "2"}
  HalfQuoted <- McHalfQuoted
  Unquoted <- McUnquoted
  Dollar <- McDollar
  OriginLike = {"$ORIGIN", "$ORIGINAL"}
  TtlLike = {"$TTL"}
  Blank <- Tab
CHECK_DEADLOCK FALSE
INVARIANTS NoPanic  MalformedRefused
