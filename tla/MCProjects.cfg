\* Two visitors behind one address, two projects, two requests at a time, first
\* generations or regenerations, with two attempts of a transaction; one generation
\* a day and two days, one restart.
SPECIFICATION Spec
CONSTANTS
  Visitors = {v1, v2}
  Projects = {p1, p2}
  Challenges = {c1, c2}
  Requests = {r1, r2}
  RealGeneration = TRUE
  ProjectLimit = 1
  IpProjectLimit = 1
  VisitorLimit = 1
  IpLimit = 2
  DayLimit = 1
  MonthLimit = 2
  RateLimit = 1
  ChallengeLife = 1
  UsedLife = 2
  TicketLife = 1
  WindowLife = 0
  UsedCap = 1
  TicketCap = 1
  MaxTickets = 2
  MaxClock = 2
  DayLength = 2
  MaxAttempts = 2
  MaxRestarts = 1
SYMMETRY Symmetry
INVARIANTS
  QuotasCountGrants
  TicketGrantsOnce
  HonouredIsRemembered
PROPERTIES
  ActiveJobKeepsProject
CHECK_DEADLOCK FALSE
