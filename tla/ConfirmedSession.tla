-------------------------- MODULE ConfirmedSession --------------------------
(***************************************************************************)
(* What a Session promises the goroutines that share it: every Export and  *)
(* every Close takes effect at one instant between its call and its        *)
(* return.  An Export that takes effect before the first Close gives key   *)
(* material, any later one reports ErrSessionClosed, and Close is          *)
(* idempotent.                                                             *)
(*                                                                         *)
(* SessionState, the mutex-level model of the code, implements this.       *)
(***************************************************************************)
CONSTANT Threads        \* goroutines holding a copy of the Session

VARIABLES
  open,      \* no Close has taken effect
  request,   \* request[t]: the operation t is inside of, or "none"
  reply      \* reply[t]: what t's last call is or will be told

vars == <<open, request, reply>>

\* An Export asks for a length that HKDF can or cannot give.
Operations == {"export", "exportBadLength", "close"}

Init ==
  /\ open = TRUE
  /\ request = [t \in Threads |-> "none"]
  /\ reply = [t \in Threads |-> "none"]

Request(t, o) ==
  /\ request[t] = "none"
  /\ request' = [request EXCEPT ![t] = o]
  /\ reply' = [reply EXCEPT ![t] = "pending"]
  /\ UNCHANGED open

\* A call on a nil or zero-value Session touches no state.
Misuse(t) ==
  /\ request[t] = "none"
  /\ \E r \in {"nil", "ErrInvalidInput"} : reply' = [reply EXCEPT ![t] = r]
  /\ UNCHANGED <<open, request>>

\* The instant at which t's call takes effect.
Effect(t) ==
  /\ reply[t] = "pending"
  /\ \E r \in {"key", "nil", "ErrInvalidInput", "ErrSessionClosed"} :
       /\ reply' = [reply EXCEPT ![t] = r]
       /\ \/ request[t] = "export" /\ r = IF open THEN "key" ELSE "ErrSessionClosed"
          \/ /\ request[t] = "exportBadLength"
             /\ r = IF open THEN "ErrInvalidInput" ELSE "ErrSessionClosed"
          \/ request[t] = "close" /\ r = "nil"
  /\ open' = (open /\ request[t] # "close")
  /\ UNCHANGED request

Return(t) ==
  /\ request[t] # "none"
  /\ reply[t] # "pending"
  /\ request' = [request EXCEPT ![t] = "none"]
  /\ UNCHANGED <<open, reply>>

Next ==
  \E t \in Threads :
    \/ \E o \in Operations : Request(t, o)
    \/ Misuse(t)
    \/ Effect(t)
    \/ Return(t)

Spec == Init /\ [][Next]_vars
=============================================================================
