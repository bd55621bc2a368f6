\* Every edit of one node of the release workflow, every two edits of a short
\* one, and every two edits of the SAST job and of the scan tasks followed by a
\* run of a lane.  Edits are bounded and runs end.
CONSTANTS
  Instances <- MCInstances
  MaxDepth = 7
  Word <- Words
  MaxLaneEdits = 2
SPECIFICATION MCSpec
CHECK_DEADLOCK FALSE
INVARIANTS AcceptedMeansSame SameIsAccepted GreenMeansClean
