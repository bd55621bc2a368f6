---------------------------- MODULE SessionState ----------------------------
(***************************************************************************)
(* A confirmed Session and the state its copies share (session.go): Export *)
(* and Close at the granularity of the mutex.  Unlike the terminal state   *)
(* of an Initiator or Responder, the key is read and wiped while the mutex *)
(* is held; the model keeps the lock, each access to closed and isk and    *)
(* the unlock apart.  hkdf.Key cannot fail once the length is in range, so *)
(* its error branch is left out; so are the accessors of the metadata,     *)
(* which is never written after newSession.                                *)
(***************************************************************************)
CONSTANTS
  Threads,   \* goroutines that hold a copy of the Session
  Nobody     \* the owner of a free mutex

ASSUME NobodyIsNoThread == Nobody \notin Threads

VARIABLES
  mu,       \* the thread that holds the mutex, or Nobody
  closed,   \* the closed flag
  isk,      \* the bytes of isk: "live", "zeroed" or "nil"
  pc,       \* pc[t]: where t is inside its call, "idle" outside one
  op,       \* op[t]: the operation of t's current or last call
  answer    \* answer[t]: what t's call returns

vars == <<mu, closed, isk, pc, op, answer>>

\* An Export asks for a length in [0, maxHKDFOutput] or for one outside it.
Operations == {"export", "exportBadLength", "close"}

LockedPoints == {"check", "length", "derive", "zero", "drop", "mark", "unlock"}
Points == {"idle", "lock"} \cup LockedPoints

Answers == {"none", "pending", "nil", "key", "torn", "ErrInvalidInput", "ErrSessionClosed"}

Goto(t, from, to) == pc[t] = from /\ pc' = [pc EXCEPT ![t] = to]

-----------------------------------------------------------------------------
\* newSession, on the key of a confirmed exchange.
Init ==
  /\ mu = Nobody
  /\ closed = FALSE
  /\ isk = "live"
  /\ pc = [t \in Threads |-> "idle"]
  /\ op = [t \in Threads |-> "close"]
  /\ answer = [t \in Threads |-> "none"]

\* A goroutine calls Export or Close on the Session or a copy of it.
Call(t, o) ==
  /\ Goto(t, "idle", "lock")
  /\ op' = [op EXCEPT ![t] = o]
  /\ answer' = [answer EXCEPT ![t] = "pending"]
  /\ UNCHANGED <<mu, closed, isk>>

\* A nil receiver: Close is nil-safe, Export reports ErrInvalidInput.
CallOnNil(t, o) ==
  /\ pc[t] = "idle"
  /\ answer' = [answer EXCEPT ![t] = IF o = "close" THEN "nil" ELSE "ErrInvalidInput"]
  /\ UNCHANGED <<mu, closed, isk, pc, op>>

\* A zero-value Session has a nil state pointer.
CallOnZeroValue(t) ==
  /\ pc[t] = "idle"
  /\ answer' = [answer EXCEPT ![t] = "ErrInvalidInput"]
  /\ UNCHANGED <<mu, closed, isk, pc, op>>

-----------------------------------------------------------------------------
\* Slip: Export reads the key without the mutex.
LockByCloseOnly(t) ==
  /\ Goto(t, "lock", "check")
  /\ op[t] = "close" => mu = Nobody
  /\ mu' = IF op[t] = "close" THEN t ELSE mu
  /\ UNCHANGED <<closed, isk, op, answer>>

Lock(t) ==
  /\ Goto(t, "lock", "check")
  /\ mu = Nobody
  /\ mu' = t
  /\ UNCHANGED <<closed, isk, op, answer>>

\* Slip: Export looks at the length before it looks at closed.
CheckClosedAfterLength(t) ==
  /\ \/ /\ closed
        /\ op[t] # "exportBadLength"
        /\ Goto(t, "check", "unlock")
        /\ answer' = [answer EXCEPT ![t] = IF op[t] = "close" THEN "nil" ELSE "ErrSessionClosed"]
     \/ /\ ~closed \/ op[t] = "exportBadLength"
        /\ Goto(t, "check", IF op[t] = "close" THEN "zero" ELSE "length")
        /\ UNCHANGED answer
  /\ UNCHANGED <<mu, closed, isk, op>>

\* Both operations look at closed first, Export even before the length.
CheckClosed(t) ==
  /\ \/ /\ closed
        /\ Goto(t, "check", "unlock")
        /\ answer' = [answer EXCEPT ![t] = IF op[t] = "close" THEN "nil" ELSE "ErrSessionClosed"]
     \/ /\ ~closed
        /\ Goto(t, "check", IF op[t] = "close" THEN "zero" ELSE "length")
        /\ UNCHANGED answer
  /\ UNCHANGED <<mu, closed, isk, op>>

CheckLength(t) ==
  /\ \/ op[t] = "export" /\ Goto(t, "length", "derive") /\ UNCHANGED answer
     \/ /\ op[t] = "exportBadLength"
        /\ Goto(t, "length", "unlock")
        /\ answer' = [answer EXCEPT ![t] = "ErrInvalidInput"]
  /\ UNCHANGED <<mu, closed, isk, op>>

\* hkdf.Key reads st.isk: any bytes but the live ones derive a wrong key.
Derive(t) ==
  /\ Goto(t, "derive", "unlock")
  /\ answer' = [answer EXCEPT ![t] = IF isk = "live" THEN "key" ELSE "torn"]
  /\ UNCHANGED <<mu, closed, isk, op>>

\* Close: clearBytes(st.isk); st.isk = nil; st.closed = true; return nil.
ZeroKey(t) ==
  /\ Goto(t, "zero", "drop")
  /\ isk' = "zeroed"
  /\ UNCHANGED <<mu, closed, op, answer>>

DropKey(t) ==
  /\ Goto(t, "drop", "mark")
  /\ isk' = "nil"
  /\ UNCHANGED <<mu, closed, op, answer>>

MarkClosed(t) ==
  /\ Goto(t, "mark", "unlock")
  /\ closed' = TRUE
  /\ answer' = [answer EXCEPT ![t] = "nil"]
  /\ UNCHANGED <<mu, isk, op>>

\* Slip: a return that leaves the mutex locked.
UnlockForgotten(t) ==
  /\ Goto(t, "unlock", "idle")
  /\ UNCHANGED <<mu, closed, isk, op, answer>>

\* The deferred Unlock, and the return.
Unlock(t) ==
  /\ Goto(t, "unlock", "idle")
  /\ mu' = Nobody
  /\ UNCHANGED <<closed, isk, op, answer>>

-----------------------------------------------------------------------------
\* The steps of a call that holds the mutex.
Step(t) ==
  \/ CheckClosed(t)
  \/ CheckLength(t)
  \/ Derive(t)
  \/ ZeroKey(t)
  \/ DropKey(t)
  \/ MarkClosed(t)
  \/ Unlock(t)

Next ==
  \E t \in Threads :
    \/ \E o \in Operations : Call(t, o) \/ CallOnNil(t, o)
    \/ CallOnZeroValue(t)
    \/ Lock(t)
    \/ Step(t)

Spec == Init /\ [][Next]_vars

\* A running goroutine is scheduled, and sync.Mutex does not starve a waiter.
Fairness == \A t \in Threads : WF_vars(Step(t)) /\ SF_vars(Lock(t))

FairSpec == Spec /\ Fairness

-----------------------------------------------------------------------------
\* Every variable holds a value of its kind.
TypeOK ==
  /\ mu \in Threads \cup {Nobody}
  /\ closed \in BOOLEAN
  /\ isk \in {"live", "zeroed", "nil"}
  /\ pc \in [Threads -> Points]
  /\ op \in [Threads -> Operations]
  /\ answer \in [Threads -> Answers]

\* Whenever the mutex is free, the flag and the key agree: an open Session has
\* its key, a closed one has had it zeroed and dropped.
FlagMatchesKey == mu = Nobody => isk = IF closed THEN "nil" ELSE "live"

\* No Export hands out key material derived from a key that a concurrent Close
\* has begun to wipe.
NoTornExport == \A t \in Threads : answer[t] # "torn"

\* Every Export or Close on a constructed Session returns.
EveryCallReturns == \A t \in Threads : pc[t] # "idle" ~> pc[t] = "idle"

\* The Session as its callers see it.
Confirmed == INSTANCE ConfirmedSession WITH
  open    <- ~closed,
  request <- [t \in Threads |-> IF pc[t] = "idle" THEN "none" ELSE op[t]],
  reply   <- answer

\* Concurrent Exports and Closes are linearizable: the mutex-level Session
\* implements ConfirmedSession.
ImplementsConfirmedSession == Confirmed!Spec
=============================================================================
