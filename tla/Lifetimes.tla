----------------------------- MODULE Lifetimes -----------------------------
(***************************************************************************)
(* Who owns which byte slice during Start or Respond and the Finish after  *)
(* it (input.go, api.go, core.go, session.go): slices are references into  *)
(* a heap of buffers, clearing a slice zeroes the buffer behind it, for    *)
(* every other slice on it too.  Deferred clears run when the function     *)
(* returns or panics.                                                      *)
(*                                                                         *)
(* The secrets are the caller input, CI, the generator, the scalar, K, the *)
(* ISK and the responder's transcript.                                     *)
(***************************************************************************)
CONSTANT NoBuffer       \* what a nil slice refers to

Fields == {"password", "selfID", "peerID", "context", "sid", "ad"}
Roles == {"initiator", "responder"}

\* A buffer is named for who allocates it and for what it holds.
Buffers ==
  ({"caller", "clone"} \X Fields) \cup
  ({"scratch"} \X {"ci", "g", "y", "k", "isk"}) \cup
  ({"core", "session"} \X {"scalar", "isk", "transcript", "ya", "ad", "sid", "peerID"})

ASSUME NilIsNoBuffer == NoBuffer \notin Buffers

VARIABLES
  role,       \* which of Start and Respond is called
  input,      \* input[f]: the caller's slice for field f
  heap,       \* heap[b]: "free", "live", "zeroed" or, by its owner, "reused"
  caller,     \* caller[f]: the slice in callerInput
  ni,         \* the slices in normalizedInput
  deferred,   \* the scratch buffers whose clear is deferred
  core,       \* the buffers that the core refers to
  session,    \* the buffers that the Session refers to
  drawn,      \* randomness has been read
  message,    \* the bytes of the message: "none", "whole" or "torn"
  outcome,    \* what the call returns: "none" while it is undecided
  pc          \* the next step

vars == <<role, input, heap, caller, ni, deferred, core, session, drawn, message,
          outcome, pc>>

refs == <<caller, ni, deferred, core, session>>

Outcomes == {"none", "ok", "ErrInvalidInput", "ErrMessage", "ErrAbort", "ErrRandomness",
             "ErrConfirmationFailed", "panic", "closed"}

\* Clearing slices, and allocating buffers: a copy is what its source is by then.
Zero(h, S) == [b \in Buffers |-> IF b \in S /\ h[b] = "live" THEN "zeroed" ELSE h[b]]
Alloc(S, copyOf) ==
  [b \in Buffers |-> IF b \notin S THEN heap[b]
                     ELSE IF copyOf[b] = NoBuffer THEN "live" ELSE heap[copyOf[b]]]
Fresh == [b \in Buffers |-> NoBuffer]

Goto(from, to) == pc = from /\ pc' = to
Return(result, at) == outcome' = result /\ pc' = at

-----------------------------------------------------------------------------
\* The caller's slices: the optional ones may be nil, and identities may share
\* an array.
Init ==
  /\ role \in Roles
  /\ input \in {in \in [Fields -> ({"caller"} \X Fields) \cup {NoBuffer}] :
                  \A f \in Fields :
                    \/ in[f] = <<"caller", f>>
                    \/ f \in {"context", "ad"} /\ in[f] = NoBuffer
                    \/ f = "peerID" /\ in[f] = <<"caller", "selfID">>}
  /\ heap = [b \in Buffers |-> IF b[1] = "caller" THEN "live" ELSE "free"]
  /\ caller = [f \in Fields |-> NoBuffer]
  /\ ni = {}
  /\ deferred = {}
  /\ core = {}
  /\ session = {}
  /\ drawn = FALSE
  /\ message = "none"
  /\ outcome = "none"
  /\ pc = "accept"

\* Slip: the slice itself in place of its copy.
cloneAliases(f) == input[f]

\* clone: nil stays nil.
clone(f) == IF input[f] = NoBuffer THEN NoBuffer ELSE <<"clone", f>>

\* acceptInput: the checks, then one clone per field.
acceptInput ==
  /\ pc = "accept"
  /\ \/ Return("ErrInvalidInput", "returned") /\ UNCHANGED <<heap, caller>>
     \/ /\ caller' = [f \in Fields |-> clone(f)]
        /\ heap' = Alloc({clone(f) : f \in Fields}, Fresh)
        /\ pc' = "handoff"
        /\ UNCHANGED outcome
  /\ UNCHANGED <<role, input, ni, deferred, core, session, drawn, message>>

\* Slip: the caller input keeps the slices it has handed on.
handoffKeepsSlices ==
  /\ Goto("handoff", "normalize")
  /\ heap' = Zero(Alloc({<<"scratch", "ci">>}, Fresh), {caller["context"]})
  /\ ni' = {<<"scratch", "ci">>} \cup {caller[f] : f \in Fields \ {"context"}}
  /\ UNCHANGED <<role, input, caller, deferred, core, session, drawn, message, outcome>>

\* handoff: CI is built and the context cleared; every other slice moves on.
\* A responder's identities are its peer's and its own, swapped.
handoff ==
  /\ Goto("handoff", "normalize")
  /\ heap' = Zero(Alloc({<<"scratch", "ci">>}, Fresh), {caller["context"]})
  /\ ni' = {<<"scratch", "ci">>} \cup {caller[f] : f \in Fields \ {"context"}}
  /\ caller' = [f \in Fields |-> NoBuffer]
  /\ UNCHANGED <<role, input, deferred, core, session, drawn, message, outcome>>

\* The deferred callerInput.wipe of normalizeInput.
wipeCaller ==
  /\ Goto("normalize", IF role = "initiator" THEN "generator" ELSE "decode")
  /\ heap' = Zero(heap, {caller[f] : f \in Fields})
  /\ UNCHANGED <<role, input, refs, drawn, message, outcome>>

-----------------------------------------------------------------------------
\* decodeMessageA, the session id and the share, before anything is derived.
decodePeer ==
  /\ pc = "decode"
  /\ \/ pc' = "generator" /\ UNCHANGED outcome
     \/ \E e \in {"ErrMessage", "ErrAbort"} : Return(e, "shell")
  /\ UNCHANGED <<role, input, heap, refs, drawn, message>>

calculateGenerator ==
  /\ Goto("generator", "clearPassword")
  /\ heap' = Alloc({<<"scratch", "g">>}, Fresh)
  /\ deferred' = {<<"scratch", "g">>}
  /\ UNCHANGED <<role, input, caller, ni, core, session, drawn, message, outcome>>

clearPassword ==
  /\ Goto("clearPassword", "sample")
  /\ heap' = Zero(heap, {<<"clone", "password">>})
  /\ UNCHANGED <<role, input, refs, drawn, message, outcome>>

\* sampleScalar: the reader may fail or panic.  The responder's scalar is
\* scratch, the initiator's becomes part of the core.
sampleScalar ==
  /\ pc = "sample"
  /\ drawn' = TRUE
  /\ \/ /\ \E e \in {"ErrRandomness", "panic"} : Return(e, "constructed")
        /\ UNCHANGED <<heap, deferred>>
     \/ /\ heap' = Alloc({IF role = "initiator" THEN <<"core", "scalar">> ELSE <<"scratch", "y">>}, Fresh)
        /\ deferred' = IF role = "initiator" THEN deferred ELSE deferred \cup {<<"scratch", "y">>}
        /\ pc' = "core"
        /\ UNCHANGED outcome
  /\ UNCHANGED <<role, input, caller, ni, core, session, message>>

\* The core keeps its own copies.  The responder computes K, the transcript and
\* the ISK, and keeps the last two.
CoreSlices ==
  {"core"} \X (IF role = "initiator" THEN {"scalar", "ya", "ad", "sid", "peerID"}
                                     ELSE {"isk", "transcript", "sid", "peerID"})

CopiedFromInput ==
  [b \in Buffers |-> IF b[1] = "core" /\ b[2] \in {"ad", "sid", "peerID"} THEN clone(b[2])
                     ELSE NoBuffer]

buildCore ==
  /\ pc = "core"
  /\ core' = CoreSlices
  /\ LET k == IF role = "initiator" THEN {} ELSE {<<"scratch", "k">>} IN
       /\ heap' = Alloc((CoreSlices \ {<<"core", "scalar">>}) \cup k, CopiedFromInput)
       /\ deferred' = deferred \cup k
  /\ Return("ok", "constructed")
  /\ UNCHANGED <<role, input, caller, ni, session, drawn, message>>

\* The deferred clears of newInitiatorCore or newResponderCore.
constructed ==
  /\ Goto("constructed", IF outcome = "ok" THEN "encode" ELSE "shell")
  /\ heap' = Zero(heap, deferred)
  /\ deferred' = {}
  /\ UNCHANGED <<role, input, caller, ni, core, session, drawn, message, outcome>>

\* encodeMessageA or encodeMessageB copies the session id, the associated data.
encode ==
  /\ Goto("encode", "shell")
  /\ message' = IF \A b \in {clone("sid"), clone("ad")} \ {NoBuffer} : heap[b] = "live"
                THEN "whole" ELSE "torn"
  /\ UNCHANGED <<role, input, heap, refs, drawn, outcome>>

\* The deferred normalizedInput.wipe of the shell, then the return.
wipeNormalized ==
  /\ Goto("shell", "returned")
  /\ heap' = Zero(heap, ni)
  /\ ni' = {}
  /\ UNCHANGED <<role, input, caller, deferred, core, session, drawn, message, outcome>>

-----------------------------------------------------------------------------
FinishSteps == {"decodeFinish", "shared", "isk", "verify", "finished", "clear", "done"}

\* Once Start or Respond has returned, its caller does with its slices what it
\* likes.
reuseInput ==
  /\ pc \in FinishSteps \cup {"returned"}
  /\ \E b \in Buffers : b[1] = "caller" /\ heap[b] = "live"
  /\ heap' = [b \in Buffers |-> IF b[1] = "caller" THEN "reused" ELSE heap[b]]
  /\ UNCHANGED <<role, input, refs, drawn, message, outcome, pc>>

\* Finish claims the core, or Close does: what follows is the deferred clear.
claimFinish ==
  /\ outcome = "ok" /\ Goto("returned", "decodeFinish")
  /\ UNCHANGED <<role, input, heap, refs, drawn, message, outcome>>

claimClose ==
  /\ outcome = "ok" /\ pc = "returned" /\ Return("closed", "clear")
  /\ UNCHANGED <<role, input, heap, refs, drawn, message>>

decodeFinish ==
  /\ pc = "decodeFinish"
  /\ \/ Return("ErrMessage", "clear")
     \/ pc' = (IF role = "initiator" THEN "shared" ELSE "verify") /\ UNCHANGED outcome
  /\ UNCHANGED <<role, input, heap, refs, drawn, message>>

\* The initiator's K and ISK are scratch; an invalid share ends the exchange.
sharedSecret ==
  /\ pc = "shared"
  /\ \/ Return("ErrAbort", "finished") /\ UNCHANGED <<heap, deferred>>
     \/ /\ heap' = Alloc({<<"scratch", "k">>}, Fresh)
        /\ deferred' = deferred \cup {<<"scratch", "k">>}
        /\ pc' = "isk"
        /\ UNCHANGED outcome
  /\ UNCHANGED <<role, input, caller, ni, core, session, drawn, message>>

\* Slip: the initiator's ISK is not cleared when Finish returns.
deriveISKNotDeferred ==
  /\ Goto("isk", "verify")
  /\ heap' = Alloc({<<"scratch", "isk">>}, Fresh)
  /\ UNCHANGED <<role, input, refs, drawn, message, outcome>>

deriveISK ==
  /\ Goto("isk", "verify")
  /\ heap' = Alloc({<<"scratch", "isk">>}, Fresh)
  /\ deferred' = deferred \cup {<<"scratch", "isk">>}
  /\ UNCHANGED <<role, input, caller, ni, core, session, drawn, message, outcome>>

\* newSession copies the ISK, the initiator's from its scratch, and the rest.
CopiedToSession ==
  [b \in Buffers |->
     IF b = <<"session", "isk">>
     THEN IF role = "initiator" THEN <<"scratch", "isk">> ELSE <<"core", "isk">>
     ELSE IF b = <<"session", "peerID">> THEN <<"core", "peerID">>
     ELSE IF b[1] = "session" /\ role = "responder" THEN <<"core", "transcript">>
     ELSE NoBuffer]

newSession ==
  /\ session' = {"session"} \X {"isk", "transcript", "ad", "peerID"}
  /\ heap' = Alloc(session', CopiedToSession)

\* The tag comparisons, then the Session.
verify ==
  /\ Goto("verify", "finished")
  /\ \/ outcome' = "ErrConfirmationFailed" /\ UNCHANGED <<heap, session>>
     \/ newSession /\ UNCHANGED outcome
  /\ UNCHANGED <<role, input, caller, ni, deferred, core, drawn, message>>

\* The deferred clears of initiatorCore.finish.
finished ==
  /\ Goto("finished", "clear")
  /\ heap' = Zero(heap, deferred)
  /\ deferred' = {}
  /\ UNCHANGED <<role, input, caller, ni, core, session, drawn, message, outcome>>

\* initiatorCore.clear and responderCore.clear.
clear ==
  /\ Goto("clear", "done")
  /\ heap' = Zero(heap, {"core"} \X {"scalar", "isk", "transcript"})
  /\ core' = core \ ({"core"} \X {"scalar", "isk", "transcript"})
  /\ UNCHANGED <<role, input, caller, ni, deferred, session, drawn, message, outcome>>

Next ==
  \/ acceptInput \/ handoff \/ wipeCaller \/ decodePeer \/ calculateGenerator
  \/ clearPassword \/ sampleScalar \/ buildCore \/ constructed \/ encode \/ wipeNormalized
  \/ reuseInput \/ claimFinish \/ claimClose \/ decodeFinish \/ sharedSecret
  \/ deriveISK \/ verify \/ finished \/ clear

Spec == Init /\ [][Next]_vars

-----------------------------------------------------------------------------
(***************************************************************************)
(* What the ownership rules promise.                                       *)
(***************************************************************************)

\* The values every variable ranges over; a core and a Session refer to buffers
\* of their own only.
TypeOK ==
  /\ role \in Roles
  /\ heap \in [Buffers -> {"free", "live", "zeroed", "reused"}]
  /\ caller \in [Fields -> Buffers \cup {NoBuffer}]
  /\ ni \subseteq Buffers \cup {NoBuffer}
  /\ deferred \subseteq Buffers
  /\ core \subseteq {b \in Buffers : b[1] = "core"}
  /\ session \subseteq {b \in Buffers : b[1] = "session"}
  /\ drawn \in BOOLEAN
  /\ message \in {"none", "whole", "torn"}
  /\ outcome \in Outcomes

\* However Start or Respond ends, by an error, a panic of the reader or success,
\* every copy of the input and every intermediate secret has been zeroed; and
\* however Finish or Close ends, so has the core's secret.  The password is gone
\* before the random source is called, which may block, fail or panic.
NothingLeft ==
  /\ pc \in {"returned", "done"} =>
       \A b \in Buffers : b[1] \in {"clone", "scratch"} => heap[b] # "live"
  /\ pc = "done" =>
       \A x \in {"scalar", "isk", "transcript"} : heap[<<"core", x>>] # "live"
  /\ drawn => heap[<<"clone", "password">>] # "live"

\* All that zeroing spares what is handed out: the message carries the inputs,
\* the core can finish, the Session has its key after the core is cleared.
OutputsIntact ==
  /\ message # "torn"
  /\ \A b \in core \cup session : heap[b] = "live"
  /\ pc = "returned" /\ outcome = "ok" => message = "whole" /\ core # {}
  /\ pc = "done" => (outcome = "ok" <=> session # {})

\* The caller's slices are never written, and nothing the package keeps depends
\* on what the caller does with them after the call.
InputUntouched ==
  \A b \in {"caller"} \X Fields :
    /\ heap[b] # "zeroed"
    /\ b \notin ni \cup core \cup session \cup {caller[f] : f \in Fields}
=============================================================================
