--------------------------- MODULE SingleUseState ---------------------------
(***************************************************************************)
(* The terminal state behind every Initiator and Responder                 *)
(* (terminal_state.go) together with the Finish and Close shells of        *)
(* api.go and the clear methods of core.go, at the granularity of the      *)
(* mutex: the lock, the read of used, the write of used and the unlock are *)
(* steps of their own, and the core is used and wiped outside the lock.    *)
(*                                                                         *)
(* One constructed state is shared by all threads: copies of an Initiator  *)
(* or Responder copy the pointer to it. The core has NFields secret        *)
(* fields: one in an initiatorCore (scalar), two in a responderCore (isk,  *)
(* then the transcript). The initiator's finish also checks a share, which *)
(* adds ErrAbort to its errors. The branch on a nil core is left out: the  *)
(* constructors always store a core and nothing ever replaces it.          *)
(***************************************************************************)
EXTENDS Naturals

CONSTANTS
  Threads,   \* goroutines that hold a copy of the state
  Nobody,    \* the owner of a free mutex
  NFields,   \* secret fields of the core, wiped in the order 1..NFields
  CoreErrors \* what the finish method of the core may return

ASSUME NobodyIsNoThread == Nobody \notin Threads
ASSUME NFieldsPositive == NFields \in Nat \ {0}
ASSUME CoreErrorsKnown == CoreErrors \subseteq {"ErrAbort", "ErrConfirmationFailed"}

VARIABLES
  mu,       \* the thread that holds the mutex, or Nobody
  used,     \* the terminal flag
  core,     \* core[f]: "live", "zeroed" or "nil"
  pc,       \* pc[t]: where t is inside its call, "idle" outside one
  op,       \* op[t]: the operation of t's current or last call
  wipe,     \* wipe[t]: the field t is clearing
  key,      \* key[t]: the bytes the Session built by t's call has cloned
  answer    \* answer[t]: what t's call returns

vars == <<mu, used, core, pc, op, wipe, key, answer>>

Fields == 1 .. NFields
Operations == {"finish", "close"}

\* Program points from the win to the return: the thread owns the core.
CorePoints == {"won", "decode", "verify", "build", "zero", "drop"}
Points == {"idle", "lock", "check", "set", "lost"} \cup CorePoints

Answers == {"none", "pending", "nil", "session", "ErrInvalidInput", "ErrStateUsed",
            "ErrMessage", "ErrAbort", "ErrConfirmationFailed"}

Goto(t, from, to) == pc[t] = from /\ pc' = [pc EXCEPT ![t] = to]

\* The core as newInitiatorCore or newResponderCore has just built it.
CoreIsLive == \A f \in Fields : core[f] = "live"
CoreIsWiped == \A f \in Fields : core[f] = "nil"

Holders == {t \in Threads : pc[t] \in CorePoints}

-----------------------------------------------------------------------------
\* newSingleUseState, called with the core that Start or Respond has built.
Init ==
  /\ mu = Nobody
  /\ used = FALSE
  /\ core = [f \in Fields |-> "live"]
  /\ pc = [t \in Threads |-> "idle"]
  /\ op = [t \in Threads |-> "close"]
  /\ wipe = [t \in Threads |-> 1]
  /\ key = [t \in Threads |-> "none"]
  /\ answer = [t \in Threads |-> "none"]

\* A goroutine calls Finish or Close on a constructed value or a copy of it.
Call(t, o) ==
  /\ Goto(t, "idle", "lock")
  /\ op' = [op EXCEPT ![t] = o]
  /\ key' = [key EXCEPT ![t] = "none"]
  /\ answer' = [answer EXCEPT ![t] = "pending"]
  /\ UNCHANGED <<mu, used, core, wipe>>

\* A nil receiver: Close is nil-safe, Finish reports ErrInvalidInput.
CallOnNil(t, o) ==
  /\ pc[t] = "idle"
  /\ answer' = [answer EXCEPT ![t] = IF o = "close" THEN "nil" ELSE "ErrInvalidInput"]
  /\ UNCHANGED <<mu, used, core, pc, op, wipe, key>>

\* A zero value has a nil state pointer: both calls report ErrInvalidInput.
CallOnZeroValue(t) ==
  /\ pc[t] = "idle"
  /\ answer' = [answer EXCEPT ![t] = "ErrInvalidInput"]
  /\ UNCHANGED <<mu, used, core, pc, op, wipe, key>>

-----------------------------------------------------------------------------
\* Slip: the claim does not take the mutex.
LockSkipped(t) ==
  /\ Goto(t, "lock", "check")
  /\ mu' = t
  /\ UNCHANGED <<used, core, op, wipe, key, answer>>

\* claimFinish and claimClose: s.mu.Lock(), if s.used, s.used = true, Unlock().
Lock(t) ==
  /\ Goto(t, "lock", "check")
  /\ mu = Nobody
  /\ mu' = t
  /\ UNCHANGED <<used, core, op, wipe, key, answer>>

CheckUsed(t) ==
  /\ \/ used  /\ Goto(t, "check", "lost")
     \/ ~used /\ Goto(t, "check", "set")
  /\ UNCHANGED <<mu, used, core, op, wipe, key, answer>>

\* Slip: only claimFinish sets the flag.
SetUsedByFinishOnly(t) ==
  /\ Goto(t, "set", "won")
  /\ used' = (used \/ op[t] = "finish")
  /\ UNCHANGED <<mu, core, op, wipe, key, answer>>

SetUsed(t) ==
  /\ Goto(t, "set", "won")
  /\ used' = TRUE
  /\ UNCHANGED <<mu, core, op, wipe, key, answer>>

\* Slip: the early return of a lost claim skips the Unlock.
UnlockLostSkipped(t) ==
  /\ Goto(t, "lost", "idle")
  /\ answer' = [answer EXCEPT ![t] = IF op[t] = "close" THEN "nil" ELSE "ErrStateUsed"]
  /\ UNCHANGED <<mu, used, core, op, wipe, key>>

\* Slip: a Close after another terminal call is an error too.
UnlockLostNotIdempotent(t) ==
  /\ Goto(t, "lost", "idle")
  /\ mu' = Nobody
  /\ answer' = [answer EXCEPT ![t] = "ErrStateUsed"]
  /\ UNCHANGED <<used, core, op, wipe, key>>

\* The deferred Unlock of a claim that lost; the call returns at once.
UnlockLost(t) ==
  /\ Goto(t, "lost", "idle")
  /\ mu' = Nobody
  /\ answer' = [answer EXCEPT ![t] = IF op[t] = "close" THEN "nil" ELSE "ErrStateUsed"]
  /\ UNCHANGED <<used, core, op, wipe, key>>

\* Slip: closeCore claims the state and does not clear the core.
UnlockWonWithoutClear(t) ==
  /\ \/ op[t] = "finish" /\ Goto(t, "won", "decode") /\ UNCHANGED answer
     \/ /\ op[t] = "close" /\ Goto(t, "won", "idle")
        /\ answer' = [answer EXCEPT ![t] = "nil"]
  /\ mu' = Nobody
  /\ wipe' = [wipe EXCEPT ![t] = 1]
  /\ UNCHANGED <<used, core, op, key>>

\* The deferred Unlock of a claim that won: Finish goes on to decode its
\* message, Close goes straight to core.clear().
UnlockWon(t) ==
  /\ \/ op[t] = "finish" /\ Goto(t, "won", "decode")
     \/ op[t] = "close"  /\ Goto(t, "won", "zero")
  /\ mu' = Nobody
  /\ wipe' = [wipe EXCEPT ![t] = 1]
  /\ UNCHANGED <<used, core, op, key, answer>>

-----------------------------------------------------------------------------
\* Slip: the clear is deferred only after the message has been decoded.
DecodeBeforeDefer(t) ==
  /\ \/ Goto(t, "decode", "verify") /\ UNCHANGED answer
     \/ Goto(t, "decode", "idle") /\ answer' = [answer EXCEPT ![t] = "ErrMessage"]
  /\ UNCHANGED <<mu, used, core, op, wipe, key>>

\* decodeMessageB or decodeMessageC; an error leads to the deferred clear.
Decode(t) ==
  /\ \/ Goto(t, "decode", "verify") /\ UNCHANGED answer
     \/ Goto(t, "decode", "zero") /\ answer' = [answer EXCEPT ![t] = "ErrMessage"]
  /\ UNCHANGED <<mu, used, core, op, wipe, key>>

\* The shares and tags of core.finish.  Only live secrets derive the tag the
\* peer sent: a wiped core can fail here, never succeed.
Verify(t) ==
  /\ \/ CoreIsLive /\ Goto(t, "verify", "build") /\ UNCHANGED answer
     \/ /\ Goto(t, "verify", "zero")
        /\ \E e \in CoreErrors : answer' = [answer EXCEPT ![t] = e]
  /\ UNCHANGED <<mu, used, core, op, wipe, key>>

\* newSession clones the key that core.finish derived from, or read in, the core.
Build(t) ==
  /\ Goto(t, "build", "zero")
  /\ key' = [key EXCEPT ![t] = IF CoreIsLive THEN "live" ELSE "wiped"]
  /\ answer' = [answer EXCEPT ![t] = "session"]
  /\ UNCHANGED <<mu, used, core, op, wipe>>

\* core.clear(), field by field: zero the bytes, then drop the reference.
ZeroField(t) ==
  /\ Goto(t, "zero", "drop")
  /\ core' = [core EXCEPT ![wipe[t]] = "zeroed"]
  /\ UNCHANGED <<mu, used, op, wipe, key, answer>>

\* After the last field the call returns; Close answers nil.
DropField(t) ==
  /\ core' = [core EXCEPT ![wipe[t]] = "nil"]
  /\ \/ /\ wipe[t] < NFields
        /\ Goto(t, "drop", "zero")
        /\ wipe' = [wipe EXCEPT ![t] = @ + 1]
        /\ UNCHANGED answer
     \/ /\ wipe[t] = NFields
        /\ Goto(t, "drop", "idle")
        /\ answer' = [answer EXCEPT ![t] = IF op[t] = "close" THEN "nil" ELSE @]
        /\ UNCHANGED wipe
  /\ UNCHANGED <<mu, used, op, key>>

-----------------------------------------------------------------------------
\* The steps of a call once it has begun, apart from the wait for the mutex.
Step(t) ==
  \/ CheckUsed(t)
  \/ SetUsed(t)
  \/ UnlockLost(t)
  \/ UnlockWon(t)
  \/ Decode(t)
  \/ Verify(t)
  \/ Build(t)
  \/ ZeroField(t)
  \/ DropField(t)

Next ==
  \E t \in Threads :
    \/ \E o \in Operations : Call(t, o) \/ CallOnNil(t, o)
    \/ CallOnZeroValue(t)
    \/ Lock(t)
    \/ Step(t)

Spec == Init /\ [][Next]_vars

\* A running goroutine is scheduled, and sync.Mutex does not starve a waiter
\* (its starvation mode hands the lock over in order): strong fairness on Lock.
\* Nothing obliges a caller to call.
Fairness == \A t \in Threads : WF_vars(Step(t)) /\ SF_vars(Lock(t))

FairSpec == Spec /\ Fairness

-----------------------------------------------------------------------------
\* Every variable holds a value of its kind.
TypeOK ==
  /\ mu \in Threads \cup {Nobody}
  /\ used \in BOOLEAN
  /\ core \in [Fields -> {"live", "zeroed", "nil"}]
  /\ pc \in [Threads -> Points]
  /\ op \in [Threads -> Operations]
  /\ wipe \in [Threads -> Fields]
  /\ key \in [Threads -> {"none", "live", "wiped"}]
  /\ answer \in [Threads -> Answers]

\* No two calls are ever inside the core together, so the unlocked use of its
\* secrets in finish and the wipe in clear are free of data races: the
\* ADR-0008 rule that only the winning terminal operation may use or clear
\* the core.
CoreExclusive == \A t, u \in Holders : t = u

\* The secrets stay intact until a call wins, and when the winning call has
\* returned, by whatever path, every secret field has been zeroed and dropped.
CoreMatchesClaim ==
  /\ ~used => CoreIsLive
  /\ used /\ Holders = {} => CoreIsWiped

\* A Session is never built from a key that another call has already wiped.
SessionKeyIntact == \A t \in Threads : key[t] # "wiped"

\* Every Finish or Close on a constructed state returns.
EveryCallReturns == \A t \in Threads : pc[t] # "idle" ~> pc[t] = "idle"

\* Once a terminal call has won the state, the secrets are eventually wiped,
\* and stay wiped.
ClaimLeadsToWipe == used ~> []CoreIsWiped

\* The state as its callers see it.
Claim == INSTANCE TerminalClaim WITH
  taken   <- used,
  holder  <- Holders,
  secret  <- IF CoreIsWiped THEN "released" ELSE "held",
  request <- [t \in Threads |-> IF pc[t] = "idle" THEN "none" ELSE op[t]],
  reply   <- answer

\* The mutex-level state implements the promise of TerminalClaim: calls by any
\* number of goroutines look as if one of them won atomically.
ImplementsTerminalClaim == Claim!Spec
=============================================================================
