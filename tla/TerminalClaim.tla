--------------------------- MODULE TerminalClaim ---------------------------
(***************************************************************************)
(* What a single-use Initiator or Responder promises its callers, whatever *)
(* the number of goroutines that hold a copy of it: Finish and Close are   *)
(* terminal operations, exactly one call wins the state, only the winner   *)
(* works with the secrets, and the secrets are gone when the winner's call *)
(* has returned.  Every losing Finish is told ErrStateUsed, every losing   *)
(* Close is told nil.                                                      *)
(*                                                                         *)
(* SingleUseState, the mutex-level model of the code, implements this.     *)
(***************************************************************************)
CONSTANT Threads        \* goroutines holding a copy of the state

VARIABLES
  taken,     \* some call has won the state
  holder,    \* the winning caller while its call runs: {} or {t}
  secret,    \* "held" by the state or "released"
  request,   \* request[t]: the operation t is inside of, or "none"
  reply      \* reply[t]: what t's last call has been told so far

vars == <<taken, holder, secret, request, reply>>

Operations == {"finish", "close"}

\* What a Finish that won the state may conclude.
FinishOutcomes == {"session", "ErrMessage", "ErrAbort", "ErrConfirmationFailed"}

Init ==
  /\ taken = FALSE
  /\ holder = {}
  /\ secret = "held"
  /\ request = [t \in Threads |-> "none"]
  /\ reply = [t \in Threads |-> "none"]

\* A call on the constructed state begins.
Request(t, o) ==
  /\ request[t] = "none"
  /\ request' = [request EXCEPT ![t] = o]
  /\ reply' = [reply EXCEPT ![t] = "pending"]
  /\ UNCHANGED <<taken, holder, secret>>

\* A call on a nil or zero-value receiver touches no state.
Misuse(t) ==
  /\ request[t] = "none"
  /\ \E r \in {"nil", "ErrInvalidInput"} : reply' = [reply EXCEPT ![t] = r]
  /\ UNCHANGED <<taken, holder, secret, request>>

Win(t) ==
  /\ request[t] \in Operations
  /\ ~taken
  /\ taken' = TRUE
  /\ holder' = {t}
  /\ UNCHANGED <<secret, request, reply>>

Lose(t) ==
  /\ taken
  /\ t \notin holder
  /\ \/ request[t] = "finish" /\ reply' = [reply EXCEPT ![t] = "ErrStateUsed"]
     \/ request[t] = "close"  /\ reply' = [reply EXCEPT ![t] = "nil"]
  /\ request' = [request EXCEPT ![t] = "none"]
  /\ UNCHANGED <<taken, holder, secret>>

\* The winning Finish reaches its verdict while the secrets are still held.
Decide(t) ==
  /\ holder = {t}
  /\ request[t] = "finish"
  /\ reply[t] = "pending"
  /\ secret = "held"
  /\ \E r \in FinishOutcomes : reply' = [reply EXCEPT ![t] = r]
  /\ UNCHANGED <<taken, holder, secret, request>>

\* The winning call returns, and the secrets are gone.
Return(t) ==
  /\ holder = {t}
  /\ \/ request[t] = "finish" /\ reply[t] \in FinishOutcomes /\ UNCHANGED reply
     \/ request[t] = "close"  /\ reply' = [reply EXCEPT ![t] = "nil"]
  /\ holder' = {}
  /\ secret' = "released"
  /\ request' = [request EXCEPT ![t] = "none"]
  /\ UNCHANGED taken

Next ==
  \E t \in Threads :
    \/ \E o \in Operations : Request(t, o)
    \/ Misuse(t)
    \/ Win(t)
    \/ Lose(t)
    \/ Decide(t)
    \/ Return(t)

Spec == Init /\ [][Next]_vars
=============================================================================
