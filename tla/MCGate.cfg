\* Three requests of two slots and two places in the queue, two attempts each; two of
\* them are regenerations, which queue again while they hold a slot.
SPECIFICATION FairSpec
CONSTANTS
  Requests = {p1, p2, p3}
  Regenerations = {p1, p2}
  Slots = 2
  QueueLimit = 2
  MaxAttempts = 2
INVARIANTS
  SlotsMatchHolders
  NobodyWaitsForFreeSlot
PROPERTIES
  NoOvertaking
  RequestEnds
