\* One run of each role over a transport that hands messages over as sent.
CONSTANTS
  Initiators = {i1}
  Responders = {r1}
  StartInputs <- OnePeerStartInputs
  RespondInputs <- OnePeerRespondInputs
  Scalars = {1, 2, 3, 4}
SPECIFICATION FaithfulSpec
CHECK_DEADLOCK FALSE
PROPERTY MatchingRunsComplete
