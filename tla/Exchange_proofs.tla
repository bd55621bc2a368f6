--------------------------- MODULE Exchange_proofs ---------------------------
(***************************************************************************)
(* Proofs about Exchange, for any sets of runs, Inputs and scalars and any *)
(* number of messages lost, repeated, misdelivered or garbled.             *)
(*                                                                         *)
(* The argument follows the key inside a tag.  A responder's tag holds a   *)
(* key derived from the responder's generator (OfferedBy), an initiator    *)
(* accepts a key derived from its own (AcceptedBy), and one key of both    *)
(* sorts comes from matching Inputs.  The two roles' tags for one key      *)
(* differ because the initiator compares them before it releases its own.  *)
(***************************************************************************)
EXTENDS Exchange, TLAPS

\* What the key of a responder with Input rin is derived from.
OfferedBy(isk, rin) ==
  /\ isk.k.base = isk.transcript.ya.base
  /\ isk.transcript.yb.base = ResponderGenerator(rin)
  /\ isk.transcript.adb = rin.ad

\* What the key of an initiator with Input in is derived from.
AcceptedBy(isk, in) ==
  /\ isk.k.base = isk.transcript.yb.base
  /\ isk.transcript.ya.base = InitiatorGenerator(in)
  /\ isk.transcript.ada = in.ad

TagA(isk, sid) == initiatorConfirmationTag(isk.transcript, isk, sid)
TagB(isk, sid) == responderConfirmationTag(isk.transcript, isk, sid)

-----------------------------------------------------------------------------
\* One key on both sides comes from one password, one session id, one context
\* and identities that are crossed.
LEMMA OneKeyMatches ==
  ASSUME NEW isk, NEW in, NEW rin, AcceptedBy(isk, in), OfferedBy(isk, rin)
  PROVE  Matching(in, rin)
<1>1. InitiatorGenerator(in) = ResponderGenerator(rin)
  BY DEF AcceptedBy, OfferedBy
<1>2. /\ in.password = rin.password
      /\ in.sid = rin.sid
      /\ buildCI(in.selfID, in.peerID, in.context) = buildCI(rin.peerID, rin.selfID, rin.context)
  BY <1>1 DEF InitiatorGenerator, ResponderGenerator, calculateGenerator
<1>3. in.selfID = rin.peerID /\ in.peerID = rin.selfID /\ in.context = rin.context
  BY <1>2 DEF buildCI
<1> QED BY <1>2, <1>3 DEF Matching

\* A tag determines the key and the session id it was computed from.
LEMMA TagsBindKeys ==
  ASSUME NEW a, NEW b, NEW s, NEW t,
         \/ TagA(a, s) = TagA(b, t)
         \/ TagA(a, s) = TagB(b, t)
         \/ TagB(a, s) = TagB(b, t)
  PROVE  a = b /\ s = t
BY DEF TagA, TagB, initiatorConfirmationTag, responderConfirmationTag, confirmationTag

LEMMA TagsAreNotGarbled ==
  ASSUME NEW a, NEW s
  PROVE  TagA(a, s) # GarbledTag /\ TagB(a, s) # GarbledTag
BY DEF TagA, TagB, initiatorConfirmationTag, responderConfirmationTag, confirmationTag, GarbledTag

\* What newResponderCore and message B are made of.
LEMMA ResponderMakes ==
  ASSUME NEW rin, NEW ya, NEW ada, NEW y, NEW r
  PROVE  LET c == newResponderCore(rin, ya, ada, y)
             m == encodeMessageB(r, c)
         IN  /\ OfferedBy(c.isk, rin)
             /\ c.transcript = c.isk.transcript
             /\ c.sid = rin.sid
             /\ c.peerID = rin.peerID
             /\ m.kind = "B" /\ m.from = r
             /\ m.tag = TagB(c.isk, rin.sid) /\ m.tag.isk = c.isk
BY DEF newResponderCore, encodeMessageB, OfferedBy, deriveISK, sharedSecret, newIRTranscript,
       scalarMult, TagB, responderConfirmationTag, confirmationTag

\* What newInitiatorCore is made of.
InitiatorCoreOf(c, in) ==
  /\ c.ya.base = InitiatorGenerator(in)
  /\ c.ada = in.ad
  /\ c.sid = in.sid
  /\ c.peerID = in.peerID

LEMMA InitiatorMakes ==
  ASSUME NEW in, NEW y
  PROVE  InitiatorCoreOf(newInitiatorCore(in, y), in)
BY DEF InitiatorCoreOf, newInitiatorCore, scalarMult

\* What initiatorCore.finish computes.
LEMMA InitiatorDerives ==
  ASSUME NEW c, NEW b, NEW in, NEW i, InitiatorCoreOf(c, in),
         NEW isk, isk = InitiatorISK(c, b),
         NEW s, s = InitiatorSession(c, b),
         NEW m, m = encodeMessageC(i, InitiatorTagA(c, b))
  PROVE  /\ AcceptedBy(isk, in)
         /\ InitiatorExpectsB(c, b) = TagB(isk, in.sid)
         /\ InitiatorTagA(c, b) = TagA(isk, in.sid)
         /\ m.kind = "C" /\ m.from = i
         /\ m.tag = TagA(isk, in.sid) /\ m.tag.isk = isk
         /\ s.isk = isk
         /\ s.transcriptID = transcriptID(isk.transcript)
         /\ s.peerAD = isk.transcript.adb
         /\ s.peerID = in.peerID
<1>1. isk.transcript = InitiatorTranscript(c, b) /\ isk.k = sharedSecret(c.scalar, b.y)
  BY DEF InitiatorISK, deriveISK
<1>2. AcceptedBy(isk, in)
  BY <1>1 DEF AcceptedBy, InitiatorCoreOf, InitiatorTranscript, newIRTranscript, sharedSecret
<1>3. /\ InitiatorTagA(c, b) = TagA(isk, in.sid)
      /\ InitiatorExpectsB(c, b) = TagB(isk, in.sid)
  BY <1>1 DEF InitiatorTagA, InitiatorExpectsB, TagA, TagB, InitiatorCoreOf
<1>4. /\ s.isk = isk
      /\ s.transcriptID = transcriptID(isk.transcript)
      /\ s.peerID = in.peerID
      /\ s.peerAD = isk.transcript.adb
  BY <1>1 DEF InitiatorSession, newSession, InitiatorCoreOf, InitiatorTranscript, newIRTranscript
<1>5. TagA(isk, in.sid).isk = isk
  BY DEF TagA, initiatorConfirmationTag, confirmationTag
<1> QED BY <1>2, <1>3, <1>4, <1>5 DEF encodeMessageC

-----------------------------------------------------------------------------
(***************************************************************************)
(* The inductive invariant.                                                *)
(***************************************************************************)

\* A message B is its sender's offer.
FromResponder(m) ==
  /\ m.from \in Responders
  /\ rState[m.from] # "new"
  /\ OfferedBy(m.tag.isk, rInput[m.from])
  /\ m.tag = TagB(m.tag.isk, rInput[m.from].sid)

\* A message C confirms its sender's Session, by a tag that is no responder's.
FromInitiator(m) ==
  /\ m.from \in Initiators
  /\ iState[m.from] = "session"
  /\ iSession[m.from].isk = m.tag.isk
  /\ m.tag = TagA(m.tag.isk, iInput[m.from].sid)
  /\ m.tag # TagB(m.tag.isk, iInput[m.from].sid)

NetInv ==
  \A m \in net :
    /\ m.kind \in {"A", "B", "C"}
    /\ m.kind = "A" => m.from \in Initiators
    /\ m.kind = "B" => FromResponder(m)
    /\ m.kind = "C" => FromInitiator(m)

\* A responder offers one key.
OfferInv ==
  \A m, n \in net : m.kind = "B" /\ n.kind = "B" /\ m.from = n.from => m.tag.isk = n.tag.isk

\* A run that waits has the core that its Input made.
CoreInv ==
  /\ \A i \in Initiators : iState[i] = "waiting" => InitiatorCoreOf(iCore[i], iInput[i])
  /\ \A r \in Responders : rState[r] = "waiting" =>
       /\ OfferedBy(rCore[r].isk, rInput[r])
       /\ rCore[r].isk \in Offer(r)
       /\ rCore[r].transcript = rCore[r].isk.transcript
       /\ rCore[r].sid = rInput[r].sid
       /\ rCore[r].peerID = rInput[r].peerID

\* A Session has a key that its role derives and that its peer has confirmed.
SessionInv ==
  /\ \A i \in Initiators : iState[i] = "session" =>
       /\ AcceptedBy(iSession[i].isk, iInput[i])
       /\ iSession[i].transcriptID = transcriptID(iSession[i].isk.transcript)
       /\ iSession[i].peerAD = iSession[i].isk.transcript.adb
       /\ iSession[i].peerID = iInput[i].peerID
       /\ \E r \in Responders : iSession[i].isk \in Offer(r)
  /\ \A r \in Responders : rState[r] = "session" =>
       /\ rSession[r].isk \in Offer(r)
       /\ rSession[r].transcriptID = transcriptID(rSession[r].isk.transcript)
       /\ rSession[r].peerAD = rSession[r].isk.transcript.ada
       /\ rSession[r].peerID = rInput[r].peerID
       /\ \E i \in Initiators : iState[i] = "session" /\ iSession[i].isk = rSession[r].isk

IInv == NetInv /\ OfferInv /\ CoreInv /\ SessionInv

-----------------------------------------------------------------------------
LEMMA TypeInit == Init => TypeOK
BY DEF Init, TypeOK, Endings

LEMMA TypeNext == TypeOK /\ [Next]_vars => TypeOK'
<1> SUFFICES ASSUME TypeOK, [Next]_vars PROVE TypeOK'
  OBVIOUS
<1> USE DEF TypeOK, Endings
<1>1. CASE UNCHANGED vars
  BY <1>1 DEF vars, inputs, iVars, rVars
<1>2. ASSUME NEW i \in Initiators, Start(i) PROVE TypeOK'
  BY <1>2 DEF Start, encodeMessageA, inputs, rVars
<1>3. ASSUME NEW i \in Initiators, NEW m \in DeliveredB, InitiatorFinish(i, m) PROVE TypeOK'
  BY <1>3 DEF InitiatorFinish, InitiatorFinishError, encodeMessageC, inputs, rVars
<1>4. ASSUME NEW i \in Initiators, InitiatorClose(i) PROVE TypeOK'
  BY <1>4 DEF InitiatorClose, inputs, rVars
<1>5. ASSUME NEW r \in Responders, NEW m \in DeliveredA, Respond(r, m) PROVE TypeOK'
  BY <1>5 DEF Respond, RespondError, encodeMessageB, inputs, iVars
<1>6. ASSUME NEW r \in Responders, NEW m \in DeliveredC, ResponderFinish(r, m) PROVE TypeOK'
  BY <1>6 DEF ResponderFinish, ResponderFinishError, inputs, iVars
<1>7. ASSUME NEW r \in Responders, ResponderClose(r) PROVE TypeOK'
  BY <1>7 DEF ResponderClose, inputs, iVars
<1> QED BY <1>1, <1>2, <1>3, <1>4, <1>5, <1>6, <1>7 DEF Next

\* For any sets of runs and Inputs, the variables hold values of their kinds.
THEOREM TypeCorrect == Spec => []TypeOK
BY TypeInit, TypeNext, PTL DEF Spec

-----------------------------------------------------------------------------
LEMMA InvInit == Init => IInv
BY DEF Init, IInv, NetInv, OfferInv, CoreInv, SessionInv

\* What is on offer stays on offer.
LEMMA OfferGrows ==
  ASSUME net \subseteq net', NEW r
  PROVE  Offer(r) \subseteq Offer(r)'
BY DEF Offer, Sent

\* Steps that send nothing and touch at most one run's state and core.
LEMMA StartNext ==
  ASSUME TypeOK, IInv, NEW i \in Initiators, Start(i) PROVE IInv'
<1> USE DEF TypeOK
<1>1. /\ UNCHANGED <<iInput, rInput, iSession, rState, rCore, rSession>>
      /\ iState[i] = "new"
      /\ \A j \in Initiators : j # i => iState'[j] = iState[j] /\ iCore'[j] = iCore[j]
  BY DEF Start, inputs, rVars
<1>2. \/ iState'[i] = "waiting" /\ InitiatorCoreOf(iCore'[i], iInput[i])
      \/ iState'[i] = "ErrRandomness"
  BY InitiatorMakes DEF Start
<1>3. net \subseteq net' /\ \A m \in net' : m \in net \/ (m.kind = "A" /\ m.from = i)
  BY DEF Start, encodeMessageA
<1>4. \A r \in Responders : Offer(r) \subseteq Offer(r)'
  BY <1>3, OfferGrows
<1>5. NetInv'
  BY <1>1, <1>3 DEF IInv, NetInv, FromResponder, FromInitiator
<1>6. OfferInv'
  BY <1>3 DEF IInv, OfferInv
<1>7. CoreInv'
  BY <1>1, <1>2, <1>4 DEF IInv, CoreInv
<1>8. SessionInv'
  BY <1>1, <1>2, <1>4 DEF IInv, SessionInv
<1> QED BY <1>5, <1>6, <1>7, <1>8 DEF IInv

LEMMA InitiatorCloseNext ==
  ASSUME TypeOK, IInv, NEW i \in Initiators, InitiatorClose(i) PROVE IInv'
<1> USE DEF TypeOK
<1>1. /\ UNCHANGED <<net, iInput, rInput, iSession, rState, rCore, rSession>>
      /\ iState[i] = "waiting" /\ iState'[i] = "closed"
      /\ \A j \in Initiators : j # i => iState'[j] = iState[j] /\ iCore'[j] = iCore[j]
  BY DEF InitiatorClose, inputs, rVars
<1>2. \A r \in Responders : Offer(r)' = Offer(r)
  BY <1>1 DEF Offer, Sent
<1>3. NetInv' /\ OfferInv'
  BY <1>1 DEF IInv, NetInv, FromResponder, FromInitiator, OfferInv
<1>4. CoreInv' /\ SessionInv'
  BY <1>1, <1>2 DEF IInv, CoreInv, SessionInv
<1> QED BY <1>3, <1>4 DEF IInv

LEMMA ResponderCloseNext ==
  ASSUME TypeOK, IInv, NEW r \in Responders, ResponderClose(r) PROVE IInv'
<1> USE DEF TypeOK
<1>1. /\ UNCHANGED <<net, iInput, rInput, iState, iCore, iSession, rSession>>
      /\ rState[r] = "waiting" /\ rState'[r] = "closed"
      /\ \A q \in Responders : q # r => rState'[q] = rState[q] /\ rCore'[q] = rCore[q]
  BY DEF ResponderClose, inputs, iVars
<1>2. \A q \in Responders : Offer(q)' = Offer(q)
  BY <1>1 DEF Offer, Sent
<1>3. NetInv' /\ OfferInv'
  BY <1>1 DEF IInv, NetInv, FromResponder, FromInitiator, OfferInv
<1>4. CoreInv' /\ SessionInv'
  BY <1>1, <1>2 DEF IInv, CoreInv, SessionInv
<1> QED BY <1>3, <1>4 DEF IInv

\* Respond sends the one message B of its run.
LEMMA RespondNext ==
  ASSUME TypeOK, IInv, NEW r \in Responders, NEW m, Respond(r, m) PROVE IInv'
<1> USE DEF TypeOK
<1>1. /\ UNCHANGED <<iInput, rInput, iState, iCore, iSession, rSession>>
      /\ rState[r] = "new" /\ rState'[r] \notin {"new", "session"}
      /\ \A q \in Responders : q # r => rState'[q] = rState[q] /\ rCore'[q] = rCore[q]
  BY DEF Respond, RespondError, inputs, iVars
<1>2. CASE net' = net /\ rState'[r] # "waiting"
  <2>1. \A q \in Responders : Offer(q)' = Offer(q)
    BY <1>2 DEF Offer, Sent
  <2>2. NetInv' /\ OfferInv'
    BY <1>1, <1>2 DEF IInv, NetInv, FromResponder, FromInitiator, OfferInv
  <2>3. CoreInv' /\ SessionInv'
    BY <1>1, <1>2, <2>1 DEF IInv, CoreInv, SessionInv
  <2> QED BY <2>2, <2>3 DEF IInv
<1>3. ASSUME NEW y \in Scalars,
             rCore'[r] = newResponderCore(rInput[r], m.y, m.ad, y),
             net' = net \cup {encodeMessageB(r, newResponderCore(rInput[r], m.y, m.ad, y))}
      PROVE  IInv'
  <2> DEFINE c == newResponderCore(rInput[r], m.y, m.ad, y)
             b == encodeMessageB(r, c)
  <2>1. /\ OfferedBy(c.isk, rInput[r])
        /\ c.transcript = c.isk.transcript
        /\ c.sid = rInput[r].sid
        /\ c.peerID = rInput[r].peerID
        /\ b.kind = "B" /\ b.from = r
        /\ b.tag = TagB(c.isk, rInput[r].sid) /\ b.tag.isk = c.isk
    BY ResponderMakes
  <2> HIDE DEF c, b
  <2>2. net' = net \cup {b} /\ rCore'[r] = c
    BY <1>3 DEF b, c
  <2>3. \A n \in net : ~(n.kind = "B" /\ n.from = r)
    BY <1>1 DEF IInv, NetInv, FromResponder
  <2>4. /\ b.from \in Responders /\ rState'[b.from] # "new"
        /\ OfferedBy(b.tag.isk, rInput'[b.from])
        /\ b.tag = TagB(b.tag.isk, rInput'[b.from].sid)
    BY <1>1, <2>1
  <2>5. NetInv'
    BY <1>1, <2>1, <2>2, <2>4 DEF IInv, NetInv, FromResponder, FromInitiator
  <2>6. OfferInv'
    BY <2>1, <2>2, <2>3 DEF IInv, OfferInv
  <2>7. \A q \in Responders : Offer(q) \subseteq Offer(q)'
    BY <2>2, OfferGrows
  <2>8. c.isk \in Offer(r)'
    BY <2>1, <2>2 DEF Offer, Sent
  <2>9. CoreInv'
    BY <1>1, <2>1, <2>2, <2>7, <2>8 DEF IInv, CoreInv
  <2>10. SessionInv'
    BY <1>1, <2>7 DEF IInv, SessionInv
  <2> QED BY <2>5, <2>6, <2>9, <2>10 DEF IInv
<1> QED BY <1>2, <1>3 DEF Respond, RespondError

\* Whoever has sent the tag that completes a Finish, it was not the same role.
LEMMA TagsComeFrom ==
  ASSUME NetInv, NEW tag \in SomeTags, NEW isk, NEW sid
  PROVE  /\ tag = TagB(isk, sid) /\ tag # TagA(isk, sid) =>
              \E r \in Responders : isk \in Offer(r)
         /\ tag = TagA(isk, sid) /\ tag # TagB(isk, sid) =>
              \E i \in Initiators : iState[i] = "session" /\ iSession[i].isk = isk
<1>1. CASE tag = GarbledTag
  BY <1>1, TagsAreNotGarbled
<1>2. CASE \E m \in Sent("B") : tag = m.tag
  <2>1. PICK m \in net : m.kind = "B" /\ tag = m.tag
    BY <1>2 DEF Sent
  <2>2. FromResponder(m)
    BY <2>1 DEF NetInv
  <2>3. m.tag.isk \in Offer(m.from)
    BY <2>1 DEF Offer, Sent
  <2>4. tag = TagB(m.tag.isk, rInput[m.from].sid)
    BY <2>1, <2>2 DEF FromResponder
  <2>5. tag = TagA(isk, sid) \/ tag = TagB(isk, sid) => m.tag.isk = isk /\ rInput[m.from].sid = sid
    BY <2>4, TagsBindKeys
  <2> QED BY <2>2, <2>3, <2>4, <2>5 DEF FromResponder
<1>3. CASE \E m \in Sent("C") : tag = m.tag
  <2>1. PICK m \in net : m.kind = "C" /\ tag = m.tag
    BY <1>3 DEF Sent
  <2>2. FromInitiator(m)
    BY <2>1 DEF NetInv
  <2>3. tag = TagA(m.tag.isk, iInput[m.from].sid)
    BY <2>1, <2>2 DEF FromInitiator
  <2>4. tag = TagA(isk, sid) \/ tag = TagB(isk, sid) => m.tag.isk = isk /\ iInput[m.from].sid = sid
    BY <2>3, TagsBindKeys
  <2> QED BY <2>2, <2>3, <2>4 DEF FromInitiator
<1> QED BY <1>1, <1>2, <1>3 DEF SomeTags, Sent

\* The initiator's verdict: a responder has offered the key, and the initiator's
\* own tag is another one.
LEMMA InitiatorFinishNext ==
  ASSUME TypeOK, IInv, NEW i \in Initiators, NEW m \in DeliveredB, InitiatorFinish(i, m)
  PROVE  IInv'
<1> USE DEF TypeOK
<1>1. /\ UNCHANGED <<iInput, rInput, rState, rCore, rSession>>
      /\ iState[i] = "waiting" /\ iState'[i] # "waiting"
      /\ \A j \in Initiators : j # i => iState'[j] = iState[j] /\ iCore'[j] = iCore[j]
                                      /\ iSession'[j] = iSession[j]
  BY DEF InitiatorFinish, InitiatorFinishError, inputs, rVars
<1>2. CASE net' = net /\ iState'[i] # "session"
  <2>1. \A q \in Responders : Offer(q)' = Offer(q)
    BY <1>2 DEF Offer, Sent
  <2>2. NetInv' /\ OfferInv'
    BY <1>1, <1>2 DEF IInv, NetInv, FromResponder, FromInitiator, OfferInv
  <2>3. CoreInv' /\ SessionInv'
    BY <1>1, <1>2, <2>1 DEF IInv, CoreInv, SessionInv
  <2> QED BY <2>2, <2>3 DEF IInv
<1>3. ASSUME InitiatorFinishError(i, m) = {},
             iState'[i] = "session",
             iSession'[i] = InitiatorSession(iCore[i], m),
             net' = net \cup {encodeMessageC(i, InitiatorTagA(iCore[i], m))}
      PROVE  IInv'
  <2>1. m.tag \in SomeTags /\ InitiatorAccepts(iCore[i], m)
    BY <1>3 DEF InitiatorFinishError, DeliveredB
  <2>2. InitiatorCoreOf(iCore[i], iInput[i])
    BY <1>1 DEF IInv, CoreInv
  <2>3. PICK isk, s, c :
          /\ isk = InitiatorISK(iCore[i], m)
          /\ s = InitiatorSession(iCore[i], m)
          /\ c = encodeMessageC(i, InitiatorTagA(iCore[i], m))
    OBVIOUS
  <2>4. /\ AcceptedBy(isk, iInput[i])
        /\ InitiatorTagA(iCore[i], m) = TagA(isk, iInput[i].sid)
        /\ InitiatorExpectsB(iCore[i], m) = TagB(isk, iInput[i].sid)
        /\ s.isk = isk
        /\ s.transcriptID = transcriptID(isk.transcript)
        /\ s.peerAD = isk.transcript.adb
        /\ s.peerID = iInput[i].peerID
        /\ c.kind = "C" /\ c.from = i
        /\ c.tag = TagA(isk, iInput[i].sid) /\ c.tag.isk = isk
    BY <2>2, <2>3, InitiatorDerives
  <2>5. m.tag = TagB(isk, iInput[i].sid) /\ m.tag # TagA(isk, iInput[i].sid)
    BY <2>1, <2>4 DEF InitiatorAccepts
  <2>6. PICK r \in Responders : isk \in Offer(r)
    BY <2>1, <2>5, TagsComeFrom DEF IInv
  <2>7. net' = net \cup {c} /\ iSession'[i] = s
    BY <1>3, <2>3
  <2>8. \A q \in Responders : Offer(q) \subseteq Offer(q)'
    BY <2>7, OfferGrows
  <2>9. NetInv'
    <3>1. ASSUME NEW n \in net PROVE n.kind = "C" => n.from # i
      BY <1>1 DEF IInv, NetInv, FromInitiator
    <3>2. /\ c.from \in Initiators /\ iState'[c.from] = "session"
          /\ iSession'[c.from].isk = c.tag.isk
          /\ c.tag = TagA(c.tag.isk, iInput'[c.from].sid)
          /\ c.tag # TagB(c.tag.isk, iInput'[c.from].sid)
      BY <1>1, <1>3, <2>4, <2>5, <2>7
    <3> QED BY <1>1, <2>4, <2>7, <3>1, <3>2 DEF IInv, NetInv, FromResponder, FromInitiator
  <2>10. OfferInv'
    BY <2>4, <2>7 DEF IInv, OfferInv
  <2>11. CoreInv'
    BY <1>1, <2>8 DEF IInv, CoreInv
  <2>12. SessionInv'
    <3>1. \A q \in Responders : rState'[q] = rState[q] /\ rSession'[q] = rSession[q]
      BY <1>1
    <3>2. \A j \in Initiators : iState[j] = "session" =>
            iState'[j] = "session" /\ iSession'[j] = iSession[j]
      BY <1>1
    <3>3. isk \in Offer(r)'
      BY <2>6, <2>8
    <3> QED BY <1>1, <1>3, <2>4, <2>7, <2>8, <3>1, <3>2, <3>3 DEF IInv, SessionInv
  <2> QED BY <2>9, <2>10, <2>11, <2>12 DEF IInv
<1> QED
  <2>1. CASE InitiatorFinishError(i, m) = {} /\ iState' = [iState EXCEPT ![i] = "session"]
             /\ iSession' = [iSession EXCEPT ![i] = InitiatorSession(iCore[i], m)]
             /\ net' = net \cup {encodeMessageC(i, InitiatorTagA(iCore[i], m))}
    BY <1>3, <2>1
  <2>2. CASE net' = net /\ \E e \in InitiatorFinishError(i, m) : iState' = [iState EXCEPT ![i] = e]
    BY <1>2, <2>2 DEF InitiatorFinishError
  <2> QED BY <2>1, <2>2 DEF InitiatorFinish

\* The responder's verdict: an initiator has a Session with the key.
LEMMA ResponderFinishNext ==
  ASSUME TypeOK, IInv, NEW r \in Responders, NEW m \in DeliveredC, ResponderFinish(r, m)
  PROVE  IInv'
<1> USE DEF TypeOK
<1>1. /\ UNCHANGED <<net, iInput, rInput, iState, iCore, iSession>>
      /\ rState[r] = "waiting" /\ rState'[r] \notin {"new", "waiting"}
      /\ \A q \in Responders : q # r => rState'[q] = rState[q] /\ rCore'[q] = rCore[q]
                                      /\ rSession'[q] = rSession[q]
  BY DEF ResponderFinish, ResponderFinishError, inputs, iVars
<1>2. \A q \in Responders : Offer(q)' = Offer(q)
  BY <1>1 DEF Offer, Sent
<1>3. NetInv' /\ OfferInv'
  BY <1>1 DEF IInv, NetInv, FromResponder, FromInitiator, OfferInv
<1>4. CoreInv'
  BY <1>1, <1>2 DEF IInv, CoreInv
<1>5. SessionInv'
  <2>1. CASE rState'[r] # "session"
    BY <1>1, <1>2, <2>1 DEF IInv, SessionInv
  <2>2. CASE rState'[r] = "session"
    <3>1. /\ ResponderFinishError(r, m) = {}
          /\ rSession'[r] = ResponderSession(rCore[r])
      BY <2>2 DEF ResponderFinish, ResponderFinishError
    <3>2. m.tag \in SomeTags /\ ResponderAccepts(rCore[r], m)
      BY <3>1 DEF ResponderFinishError, DeliveredC
    <3>3. PICK c : c = rCore[r]
      OBVIOUS
    <3>4. /\ c.isk \in Offer(r) /\ c.transcript = c.isk.transcript
          /\ c.sid = rInput[r].sid /\ c.peerID = rInput[r].peerID
      BY <1>1, <3>3 DEF IInv, CoreInv
    <3>5. m.tag = TagA(c.isk, c.sid) /\ m.tag # TagB(c.isk, c.sid)
      BY <3>2, <3>3, <3>4 DEF ResponderAccepts, TagA, TagB
    <3>6. \E i \in Initiators : iState[i] = "session" /\ iSession[i].isk = c.isk
      BY <3>2, <3>5, TagsComeFrom DEF IInv
    <3>7. /\ rSession'[r].isk = c.isk
          /\ rSession'[r].transcriptID = transcriptID(c.isk.transcript)
          /\ rSession'[r].peerAD = c.isk.transcript.ada
          /\ rSession'[r].peerID = rInput[r].peerID
      BY <3>1, <3>3, <3>4 DEF ResponderSession, newSession
    <3> QED BY <1>1, <1>2, <3>4, <3>6, <3>7 DEF IInv, SessionInv
  <2> QED BY <2>1, <2>2
<1> QED BY <1>3, <1>4, <1>5 DEF IInv

LEMMA InvNext == TypeOK /\ IInv /\ [Next]_vars => IInv'
<1> SUFFICES ASSUME TypeOK, IInv, [Next]_vars PROVE IInv'
  OBVIOUS
<1>1. CASE UNCHANGED vars
  BY <1>1 DEF vars, inputs, iVars, rVars, IInv, NetInv, OfferInv, CoreInv, SessionInv,
              FromResponder, FromInitiator, Offer, Sent
<1>2. CASE Next
  BY <1>2, StartNext, InitiatorFinishNext, InitiatorCloseNext, RespondNext,
     ResponderFinishNext, ResponderCloseNext DEF Next
<1> QED BY <1>1, <1>2

\* Messages, cores and Sessions hold only keys that their senders derived.
THEOREM Invariance == Spec => [](TypeOK /\ IInv)
BY TypeInit, TypeNext, InvInit, InvNext, PTL DEF Spec

-----------------------------------------------------------------------------
\* What is on offer was derived from its responder's Input.
LEMMA OffersAreOwn ==
  ASSUME NetInv, NEW r \in Responders, NEW isk \in Offer(r)
  PROVE  OfferedBy(isk, rInput[r])
BY DEF NetInv, FromResponder, Offer, Sent

\* For any sets of runs and Inputs and whatever the network does, an
\* initiator's Session has the key of a responder run with a matching Input,
\* and names that run's identity and associated data.
THEOREM InitiatorIsConfirmed == Spec => []InitiatorConfirmed
<1>1. IInv => InitiatorConfirmed
  <2> SUFFICES ASSUME IInv, NEW i \in Initiators, iState[i] = "session"
               PROVE  \E r \in Responders :
                        /\ iSession[i].isk \in Offer(r)
                        /\ Matching(iInput[i], rInput[r])
                        /\ Names(iSession[i], iInput[i], rInput[r])
    BY DEF InitiatorConfirmed
  <2>1. PICK r \in Responders : iSession[i].isk \in Offer(r)
    BY DEF IInv, SessionInv
  <2>2. OfferedBy(iSession[i].isk, rInput[r])
    BY <2>1, OffersAreOwn DEF IInv
  <2>3. /\ AcceptedBy(iSession[i].isk, iInput[i])
        /\ iSession[i].peerAD = iSession[i].isk.transcript.adb
        /\ iSession[i].peerID = iInput[i].peerID
    BY DEF IInv, SessionInv
  <2>4. Matching(iInput[i], rInput[r])
    BY <2>2, <2>3, OneKeyMatches
  <2> QED BY <2>1, <2>2, <2>3, <2>4 DEF OfferedBy, Matching, Names
<1> QED BY <1>1, Invariance, PTL

\* For any sets of runs and Inputs and whatever the network does, a responder's
\* Session shares its key and transcript with the Session of an initiator run
\* with a matching Input, and the two name each other.
THEOREM ResponderIsConfirmed == Spec => []ResponderConfirmed
<1>1. IInv => ResponderConfirmed
  <2> SUFFICES ASSUME IInv, NEW r \in Responders, rState[r] = "session"
               PROVE  \E i \in Initiators :
                        /\ iState[i] = "session"
                        /\ iSession[i].isk = rSession[r].isk
                        /\ iSession[i].transcriptID = rSession[r].transcriptID
                        /\ Matching(iInput[i], rInput[r])
                        /\ Names(rSession[r], rInput[r], iInput[i])
                        /\ Names(iSession[i], iInput[i], rInput[r])
    BY DEF ResponderConfirmed
  <2>1. PICK i \in Initiators : iState[i] = "session" /\ iSession[i].isk = rSession[r].isk
    BY DEF IInv, SessionInv
  <2>2. /\ OfferedBy(rSession[r].isk, rInput[r])
        /\ rSession[r].transcriptID = transcriptID(rSession[r].isk.transcript)
        /\ rSession[r].peerAD = rSession[r].isk.transcript.ada
        /\ rSession[r].peerID = rInput[r].peerID
    BY OffersAreOwn DEF IInv, SessionInv
  <2>3. /\ AcceptedBy(iSession[i].isk, iInput[i])
        /\ iSession[i].transcriptID = transcriptID(iSession[i].isk.transcript)
        /\ iSession[i].peerAD = iSession[i].isk.transcript.adb
        /\ iSession[i].peerID = iInput[i].peerID
    BY <2>1 DEF IInv, SessionInv
  <2>4. Matching(iInput[i], rInput[r])
    BY <2>1, <2>2, <2>3, OneKeyMatches
  <2>5. Names(rSession[r], rInput[r], iInput[i]) /\ Names(iSession[i], iInput[i], rInput[r])
    BY <2>1, <2>2, <2>3, <2>4 DEF OfferedBy, AcceptedBy, Matching, Names
  <2> QED BY <2>1, <2>2, <2>3, <2>4, <2>5
<1> QED BY <1>1, Invariance, PTL

\* For any sets of runs and Inputs and whatever the network does, no released
\* tag confirms a key for both roles: one tag, reflected, convinces nobody.
THEOREM TagsAreOfOneRole == Spec => []TagsNameTheirRole
<1>1. IInv => TagsNameTheirRole
  <2> SUFFICES ASSUME IInv, NEW b \in Sent("B"), NEW c \in Sent("C"), b.tag = c.tag
               PROVE  FALSE
    BY DEF TagsNameTheirRole
  <2>1. FromResponder(b) /\ FromInitiator(c)
    BY DEF IInv, NetInv, Sent
  <2>2. b.tag = TagB(b.tag.isk, rInput[b.from].sid) /\ c.tag = TagA(c.tag.isk, iInput[c.from].sid)
    BY <2>1 DEF FromResponder, FromInitiator
  <2>3. rInput[b.from].sid = iInput[c.from].sid
    BY <2>2, TagsBindKeys
  <2> QED BY <2>1, <2>2, <2>3 DEF FromInitiator
<1> QED BY <1>1, Invariance, PTL

-----------------------------------------------------------------------------
\* The keys of KeyConfirmation, as functions of this state.
Offers == [r \in Responders |-> Offer(r)]
Accepted == [i \in Initiators |-> IF iState[i] = "session" THEN {iSession[i].isk} ELSE {}]
Confirmed == [r \in Responders |-> IF rState[r] = "session" THEN {rSession[r].isk} ELSE {}]

LEMMA RefinesInit == Init => Confirmation!Init
<1> SUFFICES ASSUME Init PROVE Confirmation!Init
  OBVIOUS
<1>1. \A r \in Responders : Offer(r) = {}
  BY DEF Init, Offer, Sent
<1> QED BY <1>1 DEF Init, Confirmation!Init

\* A responder that has answered offers its core's key and no other.
LEMMA OneOffer ==
  ASSUME NetInv, OfferInv, NEW r \in Responders, NEW isk \in Offer(r)
  PROVE  Offer(r) = {isk}
BY DEF NetInv, OfferInv, Offer, Sent

\* A call on one run is a step of that run in KeyConfirmation, or none.
LEMMA RefinesNext ==
  TypeOK /\ IInv /\ IInv' /\ [Next]_vars => [Confirmation!Next]_(Confirmation!vars)
<1> SUFFICES ASSUME TypeOK, IInv, IInv', [Next]_vars
             PROVE  Confirmation!Next \/ UNCHANGED Confirmation!vars
  OBVIOUS
<1> USE DEF TypeOK
<1>0. ASSUME UNCHANGED <<iSession, rSession>>,
             \A r \in Responders : Offer(r)' = Offer(r),
             \A i \in Initiators : (iState'[i] = "session") = (iState[i] = "session"),
             \A r \in Responders : (rState'[r] = "session") = (rState[r] = "session")
      PROVE  UNCHANGED Confirmation!vars
  <2>1. Offers' = Offers /\ Accepted' = Accepted /\ Confirmed' = Confirmed
    BY <1>0 DEF Offers, Accepted, Confirmed
  <2> QED BY <2>1 DEF Confirmation!vars, Offers, Accepted, Confirmed
<1>1. CASE UNCHANGED vars
  BY <1>0, <1>1 DEF vars, iVars, rVars, Offer, Sent
<1>2. ASSUME NEW i \in Initiators, Start(i) \/ InitiatorClose(i) PROVE UNCHANGED Confirmation!vars
  <2>1. \A r \in Responders : Offer(r)' = Offer(r)
    BY <1>2 DEF Start, InitiatorClose, encodeMessageA, Offer, Sent
  <2>2. /\ UNCHANGED <<iSession, rSession, rState>>
        /\ \A j \in Initiators : (iState'[j] = "session") = (iState[j] = "session")
    BY <1>2 DEF Start, InitiatorClose, rVars
  <2> QED BY <1>0, <2>1, <2>2
<1>3. ASSUME NEW r \in Responders, ResponderClose(r) PROVE UNCHANGED Confirmation!vars
  <2>1. \A q \in Responders : Offer(q)' = Offer(q)
    BY <1>3 DEF ResponderClose, Offer, Sent
  <2>2. /\ UNCHANGED <<iSession, rSession, iState>>
        /\ \A q \in Responders : (rState'[q] = "session") = (rState[q] = "session")
    BY <1>3 DEF ResponderClose, iVars
  <2> QED BY <1>0, <2>1, <2>2
<1>4. ASSUME NEW r \in Responders, NEW m, Respond(r, m)
      PROVE  Confirmation!Next \/ UNCHANGED Confirmation!vars
  <2>1. /\ UNCHANGED <<iState, iSession, rSession>>
        /\ rState[r] = "new"
        /\ \A q \in Responders : (rState'[q] = "session") = (rState[q] = "session")
    BY <1>4 DEF Respond, RespondError, iVars
  <2>2. CASE net' = net
    <3>1. \A q \in Responders : Offer(q)' = Offer(q)
      BY <2>2 DEF Offer, Sent
    <3> QED BY <1>0, <2>1, <3>1
  <2>3. ASSUME NEW y \in Scalars,
               net' = net \cup {encodeMessageB(r, newResponderCore(rInput[r], m.y, m.ad, y))}
        PROVE  Confirmation!Offer(r)
    <3>1. PICK c, b :
            /\ c = newResponderCore(rInput[r], m.y, m.ad, y)
            /\ b = encodeMessageB(r, c)
      OBVIOUS
    <3>2. b.kind = "B" /\ b.from = r /\ b.tag.isk = c.isk
      BY <3>1, ResponderMakes
    <3>3. net' = net \cup {b}
      BY <2>3, <3>1
    <3>4. Offer(r) = {}
      BY <2>1 DEF IInv, NetInv, FromResponder, Offer, Sent
    <3>5. \A n \in net : ~(n.kind = "B" /\ n.from = r)
      BY <2>1 DEF IInv, NetInv, FromResponder
    <3>6. Offer(r)' = {c.isk}
      BY <3>2, <3>3, <3>5 DEF Offer, Sent
    <3>7. \A q \in Responders : q # r => Offer(q)' = Offer(q)
      BY <3>2, <3>3 DEF Offer, Sent
    <3>8. Offers' = [Offers EXCEPT ![r] = {c.isk}] /\ c.isk \in Offers'[r] /\ Offers[r] = {}
      BY <3>4, <3>6, <3>7 DEF Offers
    <3>9. Accepted' = Accepted /\ Confirmed' = Confirmed
      BY <2>1 DEF Accepted, Confirmed
    <3> QED BY <3>8, <3>9 DEF Confirmation!Offer, Offers, Accepted, Confirmed
  <2> QED BY <1>4, <2>2, <2>3 DEF Respond, Confirmation!Next
<1>5. ASSUME NEW i \in Initiators, NEW m \in DeliveredB, InitiatorFinish(i, m)
      PROVE  Confirmation!Next \/ UNCHANGED Confirmation!vars
  <2>1. /\ UNCHANGED <<rState, rSession>>
        /\ iState[i] = "waiting"
        /\ \A j \in Initiators : j # i => iState'[j] = iState[j] /\ iSession'[j] = iSession[j]
        /\ \A n \in net' : n \in net \/ n.kind = "C"
        /\ net \subseteq net'
    BY <1>5 DEF InitiatorFinish, rVars, encodeMessageC
  <2>2. \A q \in Responders : Offer(q)' = Offer(q)
    BY <2>1 DEF Offer, Sent
  <2>3. CASE iState'[i] = "session"
    <3>1. PICK r \in Responders : iSession'[i].isk \in Offer(r)'
      BY <2>3 DEF IInv, SessionInv
    <3>2. Offer(r) = {iSession'[i].isk}
      BY <2>2, <3>1, OneOffer DEF IInv
    <3>3. Accepted[i] = {} /\ Accepted' = [Accepted EXCEPT ![i] = Offers[r]] /\ Offers[r] # {}
      BY <2>1, <2>3, <3>2 DEF Accepted, Offers
    <3>4. Offers' = Offers /\ Confirmed' = Confirmed
      BY <2>1, <2>2 DEF Offers, Confirmed
    <3>5. Confirmation!Accept(i, r)
      BY <3>3, <3>4 DEF Confirmation!Accept, Offers, Accepted, Confirmed
    <3> QED BY <3>5 DEF Confirmation!Next
  <2>4. CASE iState'[i] # "session"
    <3>1. iSession' = iSession
      BY <1>5, <2>4 DEF InitiatorFinish
    <3> QED BY <1>0, <2>1, <2>2, <2>4, <3>1
  <2> QED BY <2>3, <2>4
<1>6. ASSUME NEW r \in Responders, NEW m \in DeliveredC, ResponderFinish(r, m)
      PROVE  Confirmation!Next \/ UNCHANGED Confirmation!vars
  <2>1. /\ UNCHANGED <<net, iState, iSession>>
        /\ rState[r] = "waiting"
        /\ \A q \in Responders : q # r => rState'[q] = rState[q] /\ rSession'[q] = rSession[q]
    BY <1>6 DEF ResponderFinish, iVars
  <2>2. \A q \in Responders : Offer(q)' = Offer(q)
    BY <2>1 DEF Offer, Sent
  <2>3. CASE rState'[r] = "session"
    <3>1. rSession'[r].isk \in Offer(r)'
      BY <2>3 DEF IInv, SessionInv
    <3>2. PICK i \in Initiators : iState[i] = "session" /\ iSession[i].isk = rSession'[r].isk
      BY <2>1, <2>3 DEF IInv, SessionInv
    <3>3. Offer(r) = {rSession'[r].isk}
      BY <2>2, <3>1, OneOffer DEF IInv
    <3>4. Confirmed[r] = {} /\ Confirmed' = [Confirmed EXCEPT ![r] = Offers[r]] /\ Offers[r] # {}
      BY <2>1, <2>3, <3>3 DEF Confirmed, Offers
    <3>5. Accepted[i] = Offers[r] /\ Offers' = Offers /\ Accepted' = Accepted
      BY <2>1, <2>2, <3>2, <3>3 DEF Offers, Accepted
    <3>6. Confirmation!Confirm(r, i)
      BY <3>4, <3>5 DEF Confirmation!Confirm, Offers, Accepted, Confirmed
    <3> QED BY <3>6 DEF Confirmation!Next
  <2>4. CASE rState'[r] # "session"
    <3>1. rSession' = rSession
      BY <1>6, <2>4 DEF ResponderFinish
    <3> QED BY <1>0, <2>1, <2>2, <2>4, <3>1
  <2> QED BY <2>3, <2>4
<1> QED BY <1>1, <1>2, <1>3, <1>4, <1>5, <1>6 DEF Next

\* For any sets of runs and Inputs and whatever the network does, the calls on
\* the two roles implement KeyConfirmation: an initiator takes a key that a
\* responder offered, a responder confirms its own after an initiator took it.
THEOREM Refinement == Spec => ImplementsKeyConfirmation
<1>1. Spec => [](TypeOK /\ IInv)
  BY Invariance
<1> QED BY <1>1, RefinesInit, RefinesNext, PTL
        DEF Spec, ImplementsKeyConfirmation, Confirmation!Spec
=============================================================================
