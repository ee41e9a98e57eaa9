CONSTANTS
  Rows <- MCRows
  Certs <- MCCerts
  Terms <- MCTerms
  Prose <- MCProse
  Unresolved = "unresolved"
  Retries = 1
  Null = Null
SPECIFICATION ExplainSpec
INVARIANTS
  ReplyIsHonest
CHECK_DEADLOCK FALSE
