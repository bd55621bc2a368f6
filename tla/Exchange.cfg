\* Three runs: two initiators with passwords that match or do not and a
\* responder, or two responders in sessions that differ and an initiator.
\* Runs end, so the system stops.
CONSTANTS
  Initiators = {i1, i2}
  Responders = {r1, r2}
  StartInputs <- MCStartInputs
  RespondInputs <- MCRespondInputs
  Scalars = {1, 2}
SPECIFICATION Spec
CONSTRAINT ThreeRuns
CHECK_DEADLOCK FALSE
SYMMETRY RunSymmetry
INVARIANTS InitiatorConfirmed ResponderConfirmed TagsNameTheirRole
PROPERTY ImplementsKeyConfirmation
