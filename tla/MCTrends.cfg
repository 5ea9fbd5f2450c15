\* Two sources, one of them with two parts, a reader beside the refresh, and time
\* for a snapshot to expire and for a source to be asked again after two failures.
SPECIFICATION Spec
CONSTANTS
  x = x
  weibo = weibo
  us = us
  gb = gb
  w = w
  Order <- BothSources
  Parts = {w, us, gb}
  PartsOf <- BothPartsOf
  Ttl <- BothTtl
  Base = 1
  MaxDelay = 2
  Retention = 2
  Readers = {r1}
  Self = Self
  MaxTime = 4
SYMMETRY Symmetry
PROPERTIES
  StoredSnapshotObeysTtl
  FailedSourceBacksOff
CHECK_DEADLOCK FALSE
