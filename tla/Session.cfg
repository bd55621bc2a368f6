\* A Session shared by three goroutines, with the fairness of the Go scheduler
\* and of sync.Mutex.
CONSTANTS
  Threads = {t1, t2, t3}
  Nobody = Nobody
SPECIFICATION FairSpec
INVARIANT NoTornExport
PROPERTIES ImplementsConfirmedSession EveryCallReturns
