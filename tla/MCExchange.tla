----------------------------- MODULE MCExchange -----------------------------
(***************************************************************************)
(* Exchange on small instances.                                            *)
(***************************************************************************)
EXTENDS Exchange, FiniteSets, TLC

RunSymmetry == Permutations(Initiators) \cup Permutations(Responders)

input(password, selfID, peerID, sid, ad) ==
  [password |-> password, selfID |-> selfID, peerID |-> peerID,
   context |-> "app", sid |-> sid, ad |-> ad]

\* Two passwords, and a responder that may expect another peer.
OnePeerStartInputs ==
  {input("p", "alice", "bob", "s1", "x"), input("q", "alice", "bob", "s1", "x")}
OnePeerRespondInputs ==
  {input("p", "bob", "alice", "s1", "x"), input("p", "bob", "carol", "s1", "x")}

\* Two sessions of the same peers under one password, with the same or with
\* different associated data.
TwoSessionStartInputs ==
  {input("p", "alice", "bob", s, "x") : s \in {"s1", "s2"}}
TwoSessionRespondInputs ==
  {input("p", "bob", "alice", "s1", "x"), input("p", "bob", "alice", "s2", "y")}

MCStartInputs == OnePeerStartInputs \cup TwoSessionStartInputs
MCRespondInputs == OnePeerRespondInputs \cup TwoSessionRespondInputs

\* Of either role one run begins and of the other up to two: two initiators
\* with inputs of the first kind, or two responders with inputs of the second.
OneOf(state, in) ==
  Cardinality({run \in DOMAIN state : state[run] # "new"}) <= 1 /\ Cardinality({in[run] : run \in DOMAIN in}) = 1
ThreeRuns ==
  \/ /\ OneOf(rState, rInput)
     /\ iInput \in [Initiators -> OnePeerStartInputs]
     /\ rInput \in [Responders -> OnePeerRespondInputs]
  \/ /\ OneOf(iState, iInput)
     /\ iInput \in [Initiators -> TwoSessionStartInputs]
     /\ rInput \in [Responders -> TwoSessionRespondInputs]
=============================================================================
