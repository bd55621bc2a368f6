------------------------------ MODULE Exchange ------------------------------
(***************************************************************************)
(* Runs of the CPace exchange (api.go, core.go) over a network that loses, *)
(* repeats, reorders, misdelivers and garbles messages and mixes up their  *)
(* fields.  A run is one call to Start or Respond and what follows it.     *)
(*                                                                         *)
(* Runs share nothing but the network, so a call is one step; calls on one *)
(* run are serialized by its terminal state (SingleUseState).  Randomness  *)
(* may fail, and it may repeat: two runs may sample the same scalar.       *)
(***************************************************************************)
EXTENDS CPaceCore, Naturals

CONSTANTS
  Initiators, Responders,       \* the runs of each role
  StartInputs, RespondInputs,   \* the Inputs that each role may be given
  Scalars                       \* what sampleScalar can return

VARIABLES
  net,         \* every message sent so far; from is the envelope, never read
  iInput,      \* iInput[i]: the Input of initiator run i
  rInput,      \* rInput[r]: the Input of responder run r
  iState,      \* iState[i]: "new", "waiting", or how the run ended
  rState,
  iCore,       \* iCore[i]: the initiatorCore, Cleared when there is none
  rCore,
  iSession,    \* iSession[i]: the Session Finish returned, NoSession before
  rSession

inputs == <<iInput, rInput>>
iVars == <<iState, iCore, iSession>>
rVars == <<rState, rCore, rSession>>
vars == <<net, inputs, iVars, rVars>>

Cleared == [cleared |-> TRUE]
NoSession == [session |-> FALSE]

Endings == {"session", "closed", "ErrMessage", "ErrAbort", "ErrRandomness",
            "ErrConfirmationFailed"}

-----------------------------------------------------------------------------
\* Messages.  A delivered message is put together from fields that were sent
\* and garbled ones; Malformed is anything the decoder of the role refuses.
Malformed == [kind |-> "malformed"]

Sent(kind) == {m \in net : m.kind = kind}

SomeSids == {m.sid : m \in Sent("A")} \cup {"garbled"}
SomeShares == {m.y : m \in Sent("A") \cup Sent("B")} \cup GarbledShares
SomeADs == {m.ad : m \in Sent("A") \cup Sent("B")} \cup {"garbled"}
SomeTags == {m.tag : m \in Sent("B") \cup Sent("C")} \cup {GarbledTag}

DeliveredA == [kind : {"A"}, sid : SomeSids, y : SomeShares, ad : SomeADs] \cup {Malformed}
DeliveredB == [kind : {"B"}, y : SomeShares, ad : SomeADs, tag : SomeTags] \cup {Malformed}
DeliveredC == [kind : {"C"}, tag : SomeTags] \cup {Malformed}

encodeMessageA(i, c) ==
  [kind |-> "A", from |-> i, sid |-> c.sid, y |-> c.ya, ad |-> c.ada]
encodeMessageB(r, c) ==
  [kind |-> "B", from |-> r, y |-> c.transcript.yb, ad |-> c.transcript.adb,
   tag |-> responderConfirmationTag(c.transcript, c.isk, c.sid)]
encodeMessageC(i, tag) == [kind |-> "C", from |-> i, tag |-> tag]

-----------------------------------------------------------------------------
\* The applications have chosen their Inputs; no run has begun.
Init ==
  /\ net = {}
  /\ iInput \in [Initiators -> StartInputs]
  /\ rInput \in [Responders -> RespondInputs]
  /\ iState = [i \in Initiators |-> "new"]
  /\ rState = [r \in Responders |-> "new"]
  /\ iCore = [i \in Initiators |-> Cleared]
  /\ rCore = [r \in Responders |-> Cleared]
  /\ iSession = [i \in Initiators |-> NoSession]
  /\ rSession = [r \in Responders |-> NoSession]

Start(i) ==
  /\ iState[i] = "new"
  /\ \/ \E y \in Scalars :
          /\ iState' = [iState EXCEPT ![i] = "waiting"]
          /\ iCore' = [iCore EXCEPT ![i] = newInitiatorCore(iInput[i], y)]
          /\ net' = net \cup {encodeMessageA(i, newInitiatorCore(iInput[i], y))}
     \/ /\ iState' = [iState EXCEPT ![i] = "ErrRandomness"]
        /\ UNCHANGED <<iCore, net>>
  /\ UNCHANGED <<inputs, iSession, rVars>>

\* What is wrong with message A: the first of the checks that fails.
RespondError(r, m) ==
  IF m = Malformed \/ m.sid # rInput[r].sid THEN {"ErrMessage"}
  ELSE IF ~ValidShare(m.y) THEN {"ErrAbort"}
  ELSE {}

Respond(r, m) ==
  /\ rState[r] = "new"
  /\ \/ /\ RespondError(r, m) = {}
        /\ \E y \in Scalars :
             /\ rState' = [rState EXCEPT ![r] = "waiting"]
             /\ rCore' = [rCore EXCEPT ![r] = newResponderCore(rInput[r], m.y, m.ad, y)]
             /\ net' = net \cup {encodeMessageB(r, newResponderCore(rInput[r], m.y, m.ad, y))}
     \/ /\ RespondError(r, m) = {}
        /\ rState' = [rState EXCEPT ![r] = "ErrRandomness"]
        /\ UNCHANGED <<rCore, net>>
     \/ /\ \E e \in RespondError(r, m) : rState' = [rState EXCEPT ![r] = e]
        /\ UNCHANGED <<rCore, net>>
  /\ UNCHANGED <<inputs, rSession, iVars>>

-----------------------------------------------------------------------------
\* What is wrong with message B.
InitiatorFinishError(i, m) ==
  IF m = Malformed THEN {"ErrMessage"}
  ELSE IF ~ValidShare(m.y) THEN {"ErrAbort"}
  ELSE IF ~InitiatorAccepts(iCore[i], m) THEN {"ErrConfirmationFailed"}
  ELSE {}

\* Initiator.Finish: the core is cleared on every path.
InitiatorFinish(i, m) ==
  /\ iState[i] = "waiting"
  /\ iCore' = [iCore EXCEPT ![i] = Cleared]
  /\ \/ /\ InitiatorFinishError(i, m) = {}
        /\ iState' = [iState EXCEPT ![i] = "session"]
        /\ iSession' = [iSession EXCEPT ![i] = InitiatorSession(iCore[i], m)]
        /\ net' = net \cup {encodeMessageC(i, InitiatorTagA(iCore[i], m))}
     \/ /\ \E e \in InitiatorFinishError(i, m) : iState' = [iState EXCEPT ![i] = e]
        /\ UNCHANGED <<iSession, net>>
  /\ UNCHANGED <<inputs, rVars>>

\* What is wrong with message C.
ResponderFinishError(r, m) ==
  IF m = Malformed THEN {"ErrMessage"}
  ELSE IF ~ResponderAccepts(rCore[r], m) THEN {"ErrConfirmationFailed"}
  ELSE {}

\* Responder.Finish.
ResponderFinish(r, m) ==
  /\ rState[r] = "waiting"
  /\ rCore' = [rCore EXCEPT ![r] = Cleared]
  /\ \/ /\ ResponderFinishError(r, m) = {}
        /\ rState' = [rState EXCEPT ![r] = "session"]
        /\ rSession' = [rSession EXCEPT ![r] = ResponderSession(rCore[r])]
     \/ /\ \E e \in ResponderFinishError(r, m) : rState' = [rState EXCEPT ![r] = e]
        /\ UNCHANGED rSession
  /\ UNCHANGED <<net, inputs, iVars>>

\* Close, of a run abandoned before Finish.
InitiatorClose(i) ==
  /\ iState[i] = "waiting"
  /\ iState' = [iState EXCEPT ![i] = "closed"]
  /\ iCore' = [iCore EXCEPT ![i] = Cleared]
  /\ UNCHANGED <<net, inputs, iSession, rVars>>

ResponderClose(r) ==
  /\ rState[r] = "waiting"
  /\ rState' = [rState EXCEPT ![r] = "closed"]
  /\ rCore' = [rCore EXCEPT ![r] = Cleared]
  /\ UNCHANGED <<net, inputs, rSession, iVars>>

-----------------------------------------------------------------------------
Next ==
  \/ \E i \in Initiators :
       \/ Start(i)
       \/ \E m \in DeliveredB : InitiatorFinish(i, m)
       \/ InitiatorClose(i)
  \/ \E r \in Responders :
       \/ \E m \in DeliveredA : Respond(r, m)
       \/ \E m \in DeliveredC : ResponderFinish(r, m)
       \/ ResponderClose(r)

Spec == Init /\ [][Next]_vars

\* The same calls when nobody gives up and the transport hands over each
\* message as it was sent.
FaithfulStep ==
  \/ \E i \in Initiators : Start(i) \/ \E m \in Sent("B") : InitiatorFinish(i, m)
  \/ \E r \in Responders :
       \/ \E m \in Sent("A") : Respond(r, m)
       \/ \E m \in Sent("C") : ResponderFinish(r, m)

\* Both applications carry the exchange on as far as they can.
FaithfulSpec == Init /\ [][FaithfulStep]_vars /\ WF_vars(FaithfulStep)

-----------------------------------------------------------------------------
\* Every variable holds a value of its kind, and a message of each kind comes
\* from a run of the role that sends it.
TypeOK ==
  /\ iState \in [Initiators -> Endings \cup {"new", "waiting"}]
  /\ rState \in [Responders -> Endings \cup {"new", "waiting"}]
  /\ iInput \in [Initiators -> StartInputs]
  /\ rInput \in [Responders -> RespondInputs]
  /\ DOMAIN iCore = Initiators /\ DOMAIN iSession = Initiators
  /\ DOMAIN rCore = Responders /\ DOMAIN rSession = Responders
  /\ \A m \in net :
       \/ m.kind = "A" /\ m.from \in Initiators
       \/ m.kind = "B" /\ m.from \in Responders
       \/ m.kind = "C" /\ m.from \in Initiators

\* The two Inputs describe one session, with the identities crossed.
Matching(in, rin) ==
  /\ in.password = rin.password
  /\ in.selfID = rin.peerID
  /\ in.peerID = rin.selfID
  /\ in.context = rin.context
  /\ in.sid = rin.sid

\* The keys that responder run r has sent a confirmation tag for.
Offer(r) == {m.tag.isk : m \in {n \in Sent("B") : n.from = r}}

\* A Session names its peer truthfully: the PeerID is the identity that peer
\* goes by, the associated data is what that peer's Input holds.
Names(session, in, peer) ==
  /\ session.peerID = in.peerID
  /\ session.peerID = peer.selfID
  /\ session.peerAD = peer.ad

\* An initiator's Session is confirmed: some responder run, with a matching
\* Input, derived this very key and is the peer the Session names.
InitiatorConfirmed ==
  \A i \in Initiators : iState[i] = "session" =>
    \E r \in Responders :
      /\ iSession[i].isk \in Offer(r)
      /\ Matching(iInput[i], rInput[r])
      /\ Names(iSession[i], iInput[i], rInput[r])

\* A responder's Session is confirmed: some initiator run, with a matching
\* Input, has already a Session with this very key and transcript, and the
\* two Sessions name each other.  A Session never rests on the responder's
\* own tag alone (docs/key-confirmation-reflection.md).
ResponderConfirmed ==
  \A r \in Responders : rState[r] = "session" =>
    \E i \in Initiators :
      /\ iState[i] = "session"
      /\ iSession[i].isk = rSession[r].isk
      /\ iSession[i].transcriptID = rSession[r].transcriptID
      /\ Matching(iInput[i], rInput[r])
      /\ Names(rSession[r], rInput[r], iInput[i])
      /\ Names(iSession[i], iInput[i], rInput[r])

\* No confirmation tag ever serves both roles: whatever tag an initiator has
\* released, no responder has sent.
TagsNameTheirRole ==
  \A b \in Sent("B"), c \in Sent("C") : b.tag # c.tag

\* The promise of KeyConfirmation is kept over this network.
Confirmation == INSTANCE KeyConfirmation WITH
  offer     <- [r \in Responders |-> Offer(r)],
  accepted  <- [i \in Initiators |->
                  IF iState[i] = "session" THEN {iSession[i].isk} ELSE {}],
  confirmed <- [r \in Responders |->
                  IF rState[r] = "session" THEN {rSession[r].isk} ELSE {}]

ImplementsKeyConfirmation == Confirmation!Spec

\* What may keep two matching runs from confirming each other: failing
\* randomness, or a share and associated data that are the same on both sides,
\* which both roles refuse.
Excused(i, r) ==
  \/ iState[i] = "ErrRandomness"
  \/ rState[r] = "ErrRandomness"
  \/ /\ iInput[i].ad = rInput[r].ad
     /\ \E a \in Sent("A"), b \in Sent("B") : a.y = b.y

\* Over a faithful network, runs with matching Inputs both get a Session and
\* the Sessions hold one key.
MatchingRunsComplete ==
  \A i \in Initiators, r \in Responders :
    Matching(iInput[i], rInput[r]) ~>
      \/ Excused(i, r)
      \/ /\ iState[i] = "session"
         /\ rState[r] = "session"
         /\ iSession[i].isk = rSession[r].isk
=============================================================================
