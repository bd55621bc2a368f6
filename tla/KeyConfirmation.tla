-------------------------- MODULE KeyConfirmation --------------------------
(***************************************************************************)
(* What a confirmed key means, whatever the network does.  A responder run *)
(* offers one key when it answers; an initiator run may accept only a key  *)
(* that some responder offered; a responder run may confirm only the key   *)
(* it offered itself, and only after an initiator accepted it.  A run      *)
(* decides once.                                                           *)
(*                                                                         *)
(* Exchange, the message-level model of the code, implements this.         *)
(***************************************************************************)
CONSTANTS Initiators, Responders    \* the runs of each role

\* The key of a run, as a set of at most one element.
VARIABLES
  offer,       \* offer[r]: the key responder run r has derived
  accepted,    \* accepted[i]: the key of the Session of initiator run i
  confirmed    \* confirmed[r]: the key of the Session of responder run r

vars == <<offer, accepted, confirmed>>

Init ==
  /\ offer = [r \in Responders |-> {}]
  /\ accepted = [i \in Initiators |-> {}]
  /\ confirmed = [r \in Responders |-> {}]

Offer(r) ==
  /\ offer[r] = {}
  /\ \E k \in offer'[r] : offer' = [offer EXCEPT ![r] = {k}]
  /\ UNCHANGED <<accepted, confirmed>>

Accept(i, r) ==
  /\ accepted[i] = {}
  /\ offer[r] # {}
  /\ accepted' = [accepted EXCEPT ![i] = offer[r]]
  /\ UNCHANGED <<offer, confirmed>>

Confirm(r, i) ==
  /\ confirmed[r] = {}
  /\ offer[r] # {}
  /\ accepted[i] = offer[r]
  /\ confirmed' = [confirmed EXCEPT ![r] = offer[r]]
  /\ UNCHANGED <<offer, accepted>>

Next ==
  \/ \E r \in Responders : Offer(r)
  \/ \E i \in Initiators, r \in Responders : Accept(i, r) \/ Confirm(r, i)

Spec == Init /\ [][Next]_vars
=============================================================================
