\* Two browsers, two names, two passwords and one visitor from before accounts;
\* one hashing slot with one place to wait, one reset.
SPECIFICATION Spec
CONSTANTS
  Clients = {c1, c2}
  Names = {n1, n2}
  Passwords = {w1, w2}
  Legacy = {old}
  NoOne = NoOne
  Slots = 1
  QueueLimit = 1
  Limit <- Limits
  MaxSessions = 2
  MaxResets = 1
SYMMETRY Symmetry
INVARIANTS
  UsableSessionFitsPassword
  ClaimedVisitorStays
  PoolMatchesHashing
CHECK_DEADLOCK FALSE
