SPECIFICATION Spec
CONSTANT NoBuffer = NoBuffer
INVARIANTS NothingLeft OutputsIntact InputUntouched
\* A state ends in done, or in returned with an error.
CHECK_DEADLOCK FALSE
