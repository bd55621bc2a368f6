\* A state with two secret fields shared by three goroutines, whose core call
\* may fail in every way that a core call of either role does.  The Go
\* scheduler and sync.Mutex are fair.
CONSTANTS
  Threads = {t1, t2, t3}
  Nobody = Nobody
  NFields = 2
  CoreErrors = {"ErrAbort", "ErrConfirmationFailed"}
SPECIFICATION FairSpec
INVARIANTS CoreExclusive CoreMatchesClaim SessionKeyIntact
PROPERTIES ImplementsTerminalClaim EveryCallReturns ClaimLeadsToWipe
