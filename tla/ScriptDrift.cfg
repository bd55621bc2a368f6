\* The publishing command may be cut by a comment or a blank line.
CONSTANTS
  Instances <- CutInstances
  MaxDepth = 7
  Word <- Words
  MaxLaneEdits = 0
SPECIFICATION MCSpec
CHECK_DEADLOCK FALSE
INVARIANT AcceptedRunsTheSame
