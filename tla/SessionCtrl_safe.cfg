SPECIFICATION FairSpec
CONSTANTS
  Addresses = 2
  Answers = {"ok", "bad_nonce", "version", "unknown_version", "bare_version", "in_use", "crash", "other"}
  Messages = {"session_id", "pin_req", "login_ok", "login_bad", "other", "overflow"}
  Batch = 1
  PinEntered = TRUE
  Callers = {u1}
  MaxQueue = 2
INVARIANTS
  ReasonIsRight
  NoThreadAfterQuit
  TokensAreKept
PROPERTIES
  SessionEnds
CHECK_DEADLOCK FALSE
