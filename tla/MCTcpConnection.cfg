SPECIFICATION Spec
CONSTANTS
  Conns = {c1, c2}
  MaxQueries = 2
  IdleTimeout = 2
INVARIANTS TypeOK ReplyBound NoOvercount RepliesAccounted
PROPERTIES HeldByClientsOnly
