\* Two pull requests, of up to two files each and three in all, one of which
\* is merged before the other.
CONSTANTS
  PullRequests = {p1, p2}
  FirstMain <- MCFirstMain
  Edits <- MCEdits
  MaxFiles = 2
  MaxOpen = 3
  MaxMerges = 1
SPECIFICATION Spec
CONSTRAINT Bounded
SYMMETRY Symmetric
CHECK_DEADLOCK FALSE
INVARIANT MainPasses
