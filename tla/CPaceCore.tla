----------------------------- MODULE CPaceCore -----------------------------
(***************************************************************************)
(* The cryptographic operations behind CPace-RISTR255-SHA512 (crypto.go,   *)
(* transcript.go, peer_share.go, input.go), as symbolic terms.  A hash, a  *)
(* MAC and the map to the group are injective constructors, and the group  *)
(* has its one law: multiplying by two scalars in either order gives the   *)
(* same element.  That a hash input determines the fields it was put       *)
(* together from is a property of the length-value encoding, which has a   *)
(* model of its own.                                                       *)
(*                                                                         *)
(* Every term is a record, so that two terms of different kinds can be     *)
(* compared and differ.                                                    *)
(***************************************************************************)

-----------------------------------------------------------------------------
\* Role names are fixed strings of CI; the draft and suite names are constants.
buildCI(initiatorID, responderID, context) ==
  [initiatorID |-> initiatorID, responderID |-> responderID, context |-> context]

calculateGenerator(password, ci, sid) ==
  [password |-> password, ci |-> ci, sid |-> sid]

\* The public share y*g, in its canonical encoding.
scalarMult(y, g) == [kind |-> "element", base |-> g, exp |-> y]

\* What a share can be after it was garbled on the way, besides another
\* share: the identity, bytes that encode no element, and an element whose
\* discrete logarithm no run knows.
IdentityShare == [kind |-> "identity"]
NonCanonicalShare == [kind |-> "noncanonical"]
StrayShare == [kind |-> "element", base |-> [stray |-> TRUE], exp |-> 0]
GarbledShares == {IdentityShare, NonCanonicalShare, StrayShare}

\* decodePublicShare succeeds.
ValidShare(share) == share.kind = "element"

\* y times a decoded share: the set of exponents is the commutativity of the
\* group.  One exponent twice is {y}, which no two distinct exponents equal.
sharedSecret(y, share) == [base |-> share.base, exps |-> {y, share.exp}]

\* Slip: the responder's associated data is left out of the transcript.
newIRTranscriptWithoutADb(ya, ada, yb, adb) == [ya |-> ya, ada |-> ada, yb |-> yb, adb |-> ""]

newIRTranscript(ya, ada, yb, adb) == [ya |-> ya, ada |-> ada, yb |-> yb, adb |-> adb]

transcriptID(transcript) == [sidOutput |-> transcript]

deriveISK(sid, k, transcript) == [sid |-> sid, k |-> k, transcript |-> transcript]

confirmationTag(isk, sid, y, ad) ==
  [kind |-> "tag", isk |-> isk, sid |-> sid, y |-> y, ad |-> ad]

\* A tag altered on the way into bytes that no run computes.
GarbledTag == [kind |-> "garbled"]

initiatorConfirmationTag(t, isk, sid) == confirmationTag(isk, sid, t.ya, t.ada)
responderConfirmationTag(t, isk, sid) == confirmationTag(isk, sid, t.yb, t.adb)

newSession(isk, id, peerAD, peerID) ==
  [isk |-> isk, transcriptID |-> id, peerAD |-> peerAD, peerID |-> peerID]

-----------------------------------------------------------------------------
\* The generator each role computes from its Input: Start takes SelfID as the
\* initiator's identity, Respond takes it as the responder's.
InitiatorGenerator(in) ==
  calculateGenerator(in.password, buildCI(in.selfID, in.peerID, in.context), in.sid)

\* Slip: the responder's identities are not swapped.
ResponderGeneratorUnswapped(in) ==
  calculateGenerator(in.password, buildCI(in.selfID, in.peerID, in.context), in.sid)

ResponderGenerator(in) ==
  calculateGenerator(in.password, buildCI(in.peerID, in.selfID, in.context), in.sid)

newInitiatorCore(in, y) ==
  [scalar |-> y, sid |-> in.sid, ya |-> scalarMult(y, InitiatorGenerator(in)),
   ada |-> in.ad, peerID |-> in.peerID]

newResponderCore(in, ya, ada, y) ==
  LET yb == scalarMult(y, ResponderGenerator(in))
      tr == newIRTranscript(ya, ada, yb, in.ad)
  IN  [isk |-> deriveISK(in.sid, sharedSecret(y, ya), tr), transcript |-> tr,
       sid |-> in.sid, peerID |-> in.peerID]

\* What initiatorCore.finish computes from its core and from message B.
InitiatorTranscript(c, b) == newIRTranscript(c.ya, c.ada, b.y, b.ad)
InitiatorISK(c, b) ==
  deriveISK(c.sid, sharedSecret(c.scalar, b.y), InitiatorTranscript(c, b))
InitiatorTagA(c, b) ==
  initiatorConfirmationTag(InitiatorTranscript(c, b), InitiatorISK(c, b), c.sid)
InitiatorExpectsB(c, b) ==
  responderConfirmationTag(InitiatorTranscript(c, b), InitiatorISK(c, b), c.sid)
InitiatorSession(c, b) ==
  newSession(InitiatorISK(c, b), transcriptID(InitiatorTranscript(c, b)), b.ad, c.peerID)

\* Slip: the check against the initiator's own tag is missing.
InitiatorAcceptsOwnTag(c, b) == b.tag = InitiatorExpectsB(c, b)

\* The two checks of initiatorCore.finish: the tag is the responder's, and it
\* is not also the initiator's own.
InitiatorAccepts(c, b) ==
  /\ b.tag = InitiatorExpectsB(c, b)
  /\ b.tag # InitiatorTagA(c, b)

\* Slips: the check against the responder's own tag is missing, or it is the
\* only one.
ResponderAcceptsOwnTag(c, m) == m.tag = initiatorConfirmationTag(c.transcript, c.isk, c.sid)
ResponderAcceptsAnyTag(c, m) == m.tag # responderConfirmationTag(c.transcript, c.isk, c.sid)

\* The two checks of responderCore.finish, mirrored.
ResponderAccepts(c, m) ==
  /\ m.tag = initiatorConfirmationTag(c.transcript, c.isk, c.sid)
  /\ m.tag # responderConfirmationTag(c.transcript, c.isk, c.sid)

ResponderSession(c) ==
  newSession(c.isk, transcriptID(c.transcript), c.transcript.ada, c.peerID)
=============================================================================
