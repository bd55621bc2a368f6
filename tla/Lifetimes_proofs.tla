-------------------------- MODULE Lifetimes_proofs --------------------------
(***************************************************************************)
(* Proofs about Lifetimes, for any caller input.  The argument follows the *)
(* slices: at every step of the call the invariant says which buffers may  *)
(* still be live (and then who is bound to clear them: callerInput,        *)
(* normalizedInput, a deferred clear or the core), and which ones must be  *)
(* live, because something that is handed out is still to be copied from   *)
(* them.                                                                   *)
(***************************************************************************)
EXTENDS Lifetimes, TLAPS

\* The steps at which normalizedInput, and before it callerInput, holds the copies of the input.
Handed == {"normalize", "decode", "generator", "clearPassword", "sample", "core", "constructed", "encode", "shell"}
Held == {"handoff"} \cup Handed

Early == {"accept", "handoff", "normalize", "decode", "generator", "clearPassword", "sample", "core"}
Finishing == FinishSteps \ {"done"}
Concluded == {"finished", "clear", "done"}

Secrets == {"core"} \X {"scalar", "isk", "transcript"}

\* Where the call is, and what it may return by then.
OutcomeInv ==
  /\ pc \in Early \cup {"constructed", "encode", "shell", "returned"} \cup FinishSteps
  /\ pc \in Early => outcome = "none"
  /\ pc \in {"encode", "decodeFinish", "shared", "isk", "verify"} => outcome = "ok"
  /\ drawn => pc \notin {"accept", "handoff", "normalize", "decode", "generator", "clearPassword"}

\* Each slice of the input is held once: by the caller input, then by the normalized input.
HoldersInv ==
  /\ \A f \in Fields : caller[f] = IF pc = "handoff" THEN clone(f) ELSE NoBuffer
  /\ ni = IF pc \in Handed THEN {<<"scratch", "ci">>} \cup {clone(f) : f \in Fields \ {"context"}} ELSE {}

\* The copies of the input: live ones have a holder, and what the core and the message need is live.
ClonesInv ==
  /\ \A f \in Fields : heap[<<"clone", f>>] = "live" =>
       /\ clone(f) = <<"clone", f>>
       /\ pc \in IF f = "context" THEN {"handoff"} ELSE Held
  /\ pc = "sample" \/ drawn => heap[<<"clone", "password">>] # "live"
  /\ pc \in Held => \A f \in {"sid", "ad", "peerID"} : clone(f) # NoBuffer => heap[clone(f)] = "live"

\* The intermediate secrets: whatever is live is bound to be cleared.
ScratchInv ==
  /\ heap[<<"scratch", "ci">>] = "live" => pc \in Handed
  /\ \A x \in {"g", "y", "k", "isk"} : heap[<<"scratch", x>>] = "live" => <<"scratch", x>> \in deferred
  /\ deferred \subseteq {"scratch"} \X {"g", "y", "k", "isk"}
  /\ pc \notin {"clearPassword", "sample", "core", "constructed", "isk", "verify", "finished"} => deferred = {}

\* The core is whole from its construction until it is cleared.
CoreInv ==
  /\ core = IF pc \in Early \/ (pc \in {"constructed", "encode", "shell", "returned"} /\ outcome # "ok") THEN {}
            ELSE IF pc = "done" THEN CoreSlices \ Secrets ELSE CoreSlices
  /\ \A b \in core : heap[b] = "live"
  /\ pc = "core" /\ role = "initiator" => heap[<<"core", "scalar">>] = "live"
  /\ pc = "done" => \A b \in Secrets : heap[b] # "live"

\* The Session is there exactly after a success, and what it is copied from is live.
SessionInv ==
  /\ pc \notin Concluded => session = {}
  /\ pc \in Concluded => (outcome = "ok" <=> session # {})
  /\ \A b \in session : heap[b] = "live"
  /\ pc = "verify" /\ role = "initiator" => heap[<<"scratch", "isk">>] = "live"

MessageInv ==
  /\ message # "torn"
  /\ pc \in {"shell", "returned"} /\ outcome = "ok" => message = "whole"

CallerInv == \A f \in Fields : heap[<<"caller", f>>] \in {"live", "reused"}

IInv ==
  /\ TypeOK /\ OutcomeInv /\ HoldersInv /\ ClonesInv /\ ScratchInv /\ CoreInv /\ SessionInv
  /\ MessageInv /\ CallerInv

-----------------------------------------------------------------------------
(* Buffers, and what clearing and allocating does to each.                 *)

Clones == {"clone"} \X Fields
Callers == {"caller"} \X Fields
Scratch == {"scratch"} \X {"ci", "g", "y", "k", "isk"}
Parts == {"scalar", "isk", "transcript", "ya", "ad", "sid", "peerID"}
Cores == {"core"} \X Parts
Sessions == {"session"} \X Parts

States == {"free", "live", "zeroed", "reused"}

\* Whose the buffers are; a clone of a field is a buffer of its own or nil.
LEMMA Owners ==
  /\ Buffers = Callers \cup Clones \cup Scratch \cup Cores \cup Sessions
  /\ \A b \in Callers : b[1] = "caller"
  /\ \A b \in Clones : b[1] = "clone"
  /\ \A b \in Scratch : b[1] = "scratch"
  /\ \A b \in Cores : b[1] = "core"
  /\ \A b \in Sessions : b[1] = "session"
  /\ \A f \in Fields : clone(f) = NoBuffer \/ (clone(f) = <<"clone", f>> /\ clone(f) \in Clones)
  /\ NoBuffer \notin Buffers
<1>1. Buffers = Callers \cup Clones \cup Scratch \cup Cores \cup Sessions
  BY DEF Buffers, Callers, Clones, Scratch, Cores, Sessions, Parts
<1>2. /\ \A b \in Callers : b[1] = "caller"
      /\ \A b \in Clones : b[1] = "clone"
      /\ \A b \in Scratch : b[1] = "scratch"
      /\ \A b \in Cores : b[1] = "core"
      /\ \A b \in Sessions : b[1] = "session"
  BY DEF Callers, Clones, Scratch, Cores, Sessions
<1>3. \A f \in Fields : clone(f) = NoBuffer \/ (clone(f) = <<"clone", f>> /\ clone(f) \in Clones)
  BY DEF clone, Clones
<1> QED BY <1>1, <1>2, <1>3, NilIsNoBuffer

\* Clearing changes what is live in S, and nothing else.
LEMMA Zeroing ==
  ASSUME TypeOK, NEW S, heap' = Zero(heap, S)
  PROVE  /\ heap' \in [Buffers -> States]
         /\ \A b \in Buffers : heap'[b] = IF b \in S /\ heap[b] = "live" THEN "zeroed" ELSE heap[b]
BY DEF TypeOK, Zero, States

\* Allocating S: new buffers are live, copies are what their sources are.
LEMMA Allocating ==
  ASSUME TypeOK, NEW S, NEW copyOf \in [Buffers -> Buffers \cup {NoBuffer}], heap' = Alloc(S, copyOf)
  PROVE  /\ heap' \in [Buffers -> States]
         /\ \A b \in Buffers : heap'[b] = IF b \notin S THEN heap[b]
                                          ELSE IF copyOf[b] = NoBuffer THEN "live" ELSE heap[copyOf[b]]
BY DEF TypeOK, Alloc, States

\* The same for buffers that are no copies.
LEMMA AllocatingFresh ==
  ASSUME TypeOK, NEW S, heap' = Alloc(S, Fresh)
  PROVE  /\ heap' \in [Buffers -> States]
         /\ \A b \in Buffers : heap'[b] = IF b \in S THEN "live" ELSE heap[b]
BY DEF TypeOK, Alloc, Fresh, States

\* A step that leaves the copies and their holder as they are.
LEMMA ClonesKept ==
  ASSUME ClonesInv,
         \A f \in Fields : clone(f)' = clone(f) /\ heap'[<<"clone", f>>] = heap[<<"clone", f>>],
         pc' \in Held <=> pc \in Held, pc' # "handoff", pc # "handoff",
         pc' = "sample" \/ drawn' => pc = "sample" \/ drawn
  PROVE  ClonesInv'
<1>1. ASSUME NEW f \in Fields, heap'[<<"clone", f>>] = "live"
      PROVE  clone(f)' = <<"clone", f>> /\ f # "context" /\ pc' \in Held
  BY <1>1 DEF ClonesInv
<1>2. pc' = "sample" \/ drawn' => heap'[<<"clone", "password">>] # "live"
  BY DEF ClonesInv, Fields
<1>3. ASSUME pc' \in Held, NEW f \in {"sid", "ad", "peerID"}, clone(f)' # NoBuffer
      PROVE  heap'[clone(f)'] = "live"
  <2>1. f \in Fields
    BY DEF Fields
  <2>2. clone(f) # NoBuffer /\ heap[clone(f)] = "live" /\ clone(f) = <<"clone", f>>
    BY <1>3, <2>1, Owners DEF ClonesInv
  <2> QED BY <2>1, <2>2
<1> QED BY <1>1, <1>2, <1>3 DEF ClonesInv

-----------------------------------------------------------------------------
(* The steps of Start and Respond.                                         *)

\* It holds at first.
LEMMA InitInv == Init => IInv
<1> SUFFICES ASSUME Init PROVE IInv
  OBVIOUS
<1>1. /\ \A b \in Buffers : heap[b] = IF b[1] = "caller" THEN "live" ELSE "free"
      /\ heap \in [Buffers -> States]
  BY DEF Init, States
<1>2. /\ \A b \in Callers : heap[b] = "live"
      /\ \A b \in Clones \cup Scratch \cup Cores \cup Sessions : heap[b] = "free"
  BY <1>1, Owners
<1>3. TypeOK /\ OutcomeInv
  BY <1>1 DEF Init, TypeOK, OutcomeInv, Outcomes, Early, States
<1>4. HoldersInv /\ SessionInv /\ MessageInv
  BY DEF Init, HoldersInv, Handed, SessionInv, Concluded, MessageInv
<1>5. ClonesInv
  BY <1>2 DEF Init, ClonesInv, Clones, Held, Handed, Fields
<1>6. ScratchInv /\ CallerInv
  BY <1>2 DEF Init, ScratchInv, Scratch, CallerInv, Callers
<1>7. CoreInv
  BY DEF Init, CoreInv, Early
<1> QED BY <1>3, <1>4, <1>5, <1>6, <1>7 DEF IInv

\* The input is refused, or copied: the copies belong to the caller input.
LEMMA AcceptInv ==
  ASSUME IInv, acceptInput
  PROVE  IInv'
<1>1. TypeOK /\ UNCHANGED <<role, input, ni, deferred, core, session, drawn, message>> /\ pc = "accept"
  BY DEF IInv, acceptInput
<1>2. \A f \in Fields : clone(f)' = clone(f)
  BY <1>1 DEF clone
<1>3. CASE Return("ErrInvalidInput", "returned") /\ UNCHANGED <<heap, caller>>
  <2>1. outcome' = "ErrInvalidInput" /\ pc' = "returned" /\ UNCHANGED <<heap, caller>>
    BY <1>3 DEF Return
  <2>2. TypeOK' /\ OutcomeInv'
    BY <1>1, <2>1 DEF IInv, TypeOK, OutcomeInv, Outcomes, Early
  <2>3. HoldersInv' /\ ClonesInv'
    BY <1>1, <1>2, <2>1 DEF IInv, HoldersInv, ClonesInv, OutcomeInv, Held, Handed
  <2>4. ScratchInv' /\ CallerInv'
    BY <1>1, <2>1 DEF IInv, ScratchInv, CallerInv, Handed
  <2>5. CoreInv' /\ SessionInv' /\ MessageInv'
    BY <1>1, <2>1 DEF IInv, CoreInv, SessionInv, MessageInv, Early, Concluded
  <2> QED BY <2>2, <2>3, <2>4, <2>5 DEF IInv
<1>4. CASE /\ caller' = [f \in Fields |-> clone(f)]
           /\ heap' = Alloc({clone(f) : f \in Fields}, Fresh)
           /\ pc' = "handoff" /\ UNCHANGED outcome
  <2>1. /\ heap' \in [Buffers -> States]
        /\ \A b \in Buffers : heap'[b] = IF b \in {clone(f) : f \in Fields} THEN "live" ELSE heap[b]
    BY <1>1, <1>4, AllocatingFresh
  <2>2. \A b \in Callers \cup Scratch \cup Cores \cup Sessions : heap'[b] = heap[b]
    BY <2>1, Owners
  <2>3. \A f \in Fields : heap'[<<"clone", f>>] = "live" => clone(f) = <<"clone", f>>
    <3> SUFFICES ASSUME NEW f \in Fields, heap'[<<"clone", f>>] = "live" PROVE clone(f) = <<"clone", f>>
      OBVIOUS
    <3>1. heap[<<"clone", f>>] # "live"
      BY <1>1 DEF IInv, ClonesInv, Held, Handed
    <3>2. <<"clone", f>> \in Buffers
      BY Owners DEF Clones
    <3>3. PICK g \in Fields : clone(g) = <<"clone", f>>
      BY <2>1, <3>1, <3>2
    <3> QED BY <3>2, <3>3, Owners
  <2>4. \A f \in Fields : clone(f) # NoBuffer => heap'[clone(f)] = "live"
    BY <2>1, Owners
  <2>5. TypeOK' /\ OutcomeInv'
    BY <1>1, <1>4, <2>1, Owners DEF IInv, TypeOK, OutcomeInv, Outcomes, Early, States
  <2>6. HoldersInv'
    BY <1>1, <1>2, <1>4 DEF IInv, HoldersInv, Handed
  <2>7. ClonesInv'
    BY <1>1, <1>2, <1>4, <2>3, <2>4 DEF IInv, OutcomeInv, ClonesInv, Held, Handed, Fields
  <2>8. ScratchInv' /\ CallerInv'
    BY <1>1, <1>4, <2>2 DEF IInv, ScratchInv, CallerInv, Scratch, Callers, Handed
  <2>9. CoreInv' /\ SessionInv' /\ MessageInv'
    BY <1>1, <1>4 DEF IInv, CoreInv, SessionInv, MessageInv, Early, Concluded
  <2> QED BY <2>5, <2>6, <2>7, <2>8, <2>9 DEF IInv
<1> QED BY <1>3, <1>4 DEF acceptInput

\* The slices move on to the normalized input, beside CI; the context is cleared.
LEMMA HandoffInv ==
  ASSUME IInv, handoff
  PROVE  IInv'
<1>1. /\ TypeOK /\ UNCHANGED <<role, input, deferred, core, session, drawn, message, outcome>>
      /\ pc = "handoff" /\ pc' = "normalize" /\ caller' = [f \in Fields |-> NoBuffer]
  BY DEF IInv, handoff, Goto
<1>2. \A f \in Fields : clone(f)' = clone(f) /\ caller[f] = clone(f)
  BY <1>1 DEF IInv, HoldersInv, clone
<1>3. /\ heap' \in [Buffers -> States]
      /\ \A b \in Buffers :
           heap'[b] = IF b = <<"scratch", "ci">> THEN IF b = clone("context") THEN "zeroed" ELSE "live"
                      ELSE IF b = clone("context") /\ heap[b] = "live" THEN "zeroed" ELSE heap[b]
  <2> DEFINE h == Alloc({<<"scratch", "ci">>}, Fresh)
  <2>1. heap' = Zero(h, {clone("context")})
    BY <1>2 DEF handoff, Fields
  <2>2. h = [b \in Buffers |-> IF b = <<"scratch", "ci">> THEN "live" ELSE heap[b]]
    BY DEF Alloc, Fresh
  <2> HIDE DEF h
  <2> QED BY <1>1, <2>1, <2>2 DEF Zero, TypeOK, States
<1>4. \A b \in Callers \cup (Scratch \ {<<"scratch", "ci">>}) \cup Cores \cup Sessions : heap'[b] = heap[b]
  BY <1>3, Owners DEF Fields
<1>5. \A f \in Fields : heap'[<<"clone", f>>] =
        IF f = "context" /\ heap[<<"clone", f>>] = "live" THEN "zeroed" ELSE heap[<<"clone", f>>]
  <2> SUFFICES ASSUME NEW f \in Fields
               PROVE  heap'[<<"clone", f>>] =
                        IF f = "context" /\ heap[<<"clone", f>>] = "live" THEN "zeroed" ELSE heap[<<"clone", f>>]
    OBVIOUS
  <2>1. <<"clone", f>> \in Buffers /\ <<"clone", f>> # <<"scratch", "ci">>
    BY Owners DEF Clones
  <2>2. CASE f = "context"
    BY <1>1, <1>3, <2>1, <2>2 DEF IInv, ClonesInv
  <2>3. CASE f # "context"
    BY <1>3, <2>1, <2>3, Owners DEF Fields
  <2> QED BY <2>2, <2>3
<1>6. ni' = {<<"scratch", "ci">>} \cup {clone(f) : f \in Fields \ {"context"}}
  BY <1>2 DEF handoff
<1>7. TypeOK' /\ OutcomeInv'
  <2>1. ni' \subseteq Buffers \cup {NoBuffer}
    BY <1>6, Owners DEF Scratch
  <2> QED BY <1>1, <1>3, <2>1 DEF IInv, TypeOK, OutcomeInv, Early, States
<1>8. HoldersInv'
  BY <1>1, <1>2, <1>6 DEF IInv, HoldersInv, Handed
<1>9. ClonesInv'
  BY <1>1, <1>2, <1>5, Owners DEF IInv, OutcomeInv, ClonesInv, Held, Handed, Fields
<1>10. ScratchInv' /\ CallerInv'
  BY <1>1, <1>4 DEF IInv, ScratchInv, CallerInv, Scratch, Callers, Handed
<1>11. CoreInv' /\ SessionInv' /\ MessageInv'
  BY <1>1 DEF IInv, CoreInv, SessionInv, MessageInv, Early, Concluded
<1> QED BY <1>7, <1>8, <1>9, <1>10, <1>11 DEF IInv

\* Steps that only decide where the call goes on, or what it returns.
LEMMA DecisionInv ==
  ASSUME IInv, wipeCaller \/ decodePeer \/ claimFinish \/ claimClose \/ decodeFinish
  PROVE  IInv'
<1>1. UNCHANGED <<role, input, caller, ni, deferred, core, session, drawn, message>>
  BY DEF wipeCaller, decodePeer, claimFinish, claimClose, decodeFinish, refs
<1>2. TypeOK /\ \A f \in Fields : clone(f)' = clone(f)
  BY <1>1 DEF IInv, clone
<1>3. heap' = heap
  <2>1. CASE wipeCaller
    <3>1. pc = "normalize" /\ heap' = Zero(heap, {caller[f] : f \in Fields})
      BY <2>1 DEF wipeCaller, Goto
    <3>2. \A f \in Fields : caller[f] \notin Buffers
      BY <3>1, Owners DEF IInv, HoldersInv
    <3>3. heap' = [b \in Buffers |-> heap[b]]
      BY <3>1, <3>2 DEF Zero
    <3> QED BY <1>2, <3>3 DEF TypeOK
  <2> QED BY <2>1 DEF decodePeer, claimFinish, claimClose, decodeFinish
<1>4. \/ pc = "normalize" /\ pc' \in {"decode", "generator"} /\ outcome' = outcome
      \/ pc = "decode" /\ pc' = "generator" /\ outcome' = outcome
      \/ pc = "decode" /\ pc' = "shell" /\ outcome' \in {"ErrMessage", "ErrAbort"}
      \/ pc = "returned" /\ outcome = "ok" /\ pc' = "decodeFinish" /\ outcome' = outcome
      \/ pc = "returned" /\ outcome = "ok" /\ pc' = "clear" /\ outcome' = "closed"
      \/ pc = "decodeFinish" /\ pc' = "clear" /\ outcome' = "ErrMessage"
      \/ pc = "decodeFinish" /\ pc' = "shared" /\ outcome' = outcome
      \/ pc = "decodeFinish" /\ pc' = "verify" /\ role # "initiator" /\ outcome' = outcome
  BY DEF wipeCaller, decodePeer, claimFinish, claimClose, decodeFinish, Goto, Return
<1>5. TypeOK' /\ OutcomeInv'
  BY <1>1, <1>3, <1>4 DEF IInv, TypeOK, OutcomeInv, Outcomes, Early, FinishSteps
<1>6. HoldersInv'
  BY <1>1, <1>2, <1>4 DEF IInv, HoldersInv, Handed
<1>7. ClonesInv'
  <2>1. /\ pc' \in Held => pc \in Held
        /\ pc \in Held => pc' \in Held
        /\ pc # "handoff" /\ pc' \notin {"handoff", "sample"}
    BY <1>4 DEF Held, Handed
  <2> QED BY <1>1, <1>2, <1>3, <2>1, ClonesKept DEF IInv
<1>8. ScratchInv' /\ CallerInv'
  BY <1>1, <1>3, <1>4 DEF IInv, ScratchInv, CallerInv, Handed
<1>9. CoreInv'
  BY <1>1, <1>3, <1>4 DEF IInv, CoreInv, OutcomeInv, Early, CoreSlices
<1>10. SessionInv' /\ MessageInv'
  BY <1>1, <1>3, <1>4 DEF IInv, SessionInv, MessageInv, OutcomeInv, Concluded
<1> QED BY <1>5, <1>6, <1>7, <1>8, <1>9, <1>10 DEF IInv

\* The generator is a scratch buffer; the password is cleared after it; the scalar is drawn.
LEMMA SampleInv ==
  ASSUME IInv, calculateGenerator \/ clearPassword \/ sampleScalar
  PROVE  IInv'
<1>1. TypeOK /\ UNCHANGED <<role, input, caller, ni, core, session, message>>
  BY DEF IInv, calculateGenerator, clearPassword, sampleScalar, refs
<1>2. \A f \in Fields : clone(f)' = clone(f)
  BY <1>1 DEF clone
<1>3. CASE calculateGenerator
  <2>1. /\ pc = "generator" /\ pc' = "clearPassword" /\ deferred' = {<<"scratch", "g">>}
        /\ UNCHANGED <<drawn, outcome>>
    BY <1>3 DEF calculateGenerator, Goto
  <2>2. /\ heap' \in [Buffers -> States]
        /\ \A b \in Buffers : heap'[b] = IF b = <<"scratch", "g">> THEN "live" ELSE heap[b]
    BY <1>1, <1>3, AllocatingFresh DEF calculateGenerator
  <2>3. \A b \in Callers \cup Clones \cup Cores \cup Sessions : heap'[b] = heap[b]
    BY <2>2, Owners
  <2>4. TypeOK' /\ OutcomeInv'
    BY <1>1, <2>1, <2>2, Owners DEF IInv, TypeOK, OutcomeInv, Early, States, Scratch
  <2>5. HoldersInv'
    BY <1>1, <1>2, <2>1 DEF IInv, HoldersInv, Handed
  <2>6. ClonesInv'
    BY <1>1, <1>2, <2>1, <2>3, Owners DEF IInv, ClonesInv, Held, Handed, Clones, Fields
  <2>7. ScratchInv'
    BY <2>1, <2>2, Owners DEF IInv, ScratchInv, Handed, Scratch
  <2>8. CallerInv' /\ CoreInv' /\ SessionInv' /\ MessageInv'
    BY <1>1, <2>1, <2>3 DEF IInv, CallerInv, Callers, CoreInv, SessionInv, MessageInv, Early, Concluded
  <2> QED BY <2>4, <2>5, <2>6, <2>7, <2>8 DEF IInv
<1>4. CASE clearPassword
  <2>1. pc = "clearPassword" /\ pc' = "sample" /\ UNCHANGED <<deferred, drawn, outcome>>
    BY <1>4 DEF clearPassword, Goto, refs
  <2>2. /\ heap' \in [Buffers -> States]
        /\ \A b \in Buffers :
             heap'[b] = IF b = <<"clone", "password">> /\ heap[b] = "live" THEN "zeroed" ELSE heap[b]
    BY <1>1, <1>4, Zeroing DEF clearPassword
  <2>3. \A b \in Callers \cup Scratch \cup Cores \cup Sessions : heap'[b] = heap[b]
    BY <2>2, Owners
  <2>4. \A f \in Fields : <<"clone", f>> \in Buffers
    BY Owners DEF Clones
  <2>5. TypeOK' /\ OutcomeInv'
    BY <1>1, <2>1, <2>2 DEF IInv, TypeOK, OutcomeInv, Early, States
  <2>6. HoldersInv'
    BY <1>1, <1>2, <2>1 DEF IInv, HoldersInv, Handed
  <2>7. ClonesInv'
    BY <1>1, <1>2, <2>1, <2>2, <2>4, Owners DEF IInv, ClonesInv, Held, Handed, Fields
  <2>8. ScratchInv' /\ CallerInv'
    BY <1>1, <2>1, <2>3 DEF IInv, ScratchInv, CallerInv, Scratch, Callers, Handed
  <2>9. CoreInv' /\ SessionInv' /\ MessageInv'
    BY <1>1, <2>1, <2>3 DEF IInv, CoreInv, SessionInv, MessageInv, Early, Concluded
  <2> QED BY <2>5, <2>6, <2>7, <2>8, <2>9 DEF IInv
<1>5. CASE sampleScalar
  <2>1. pc = "sample" /\ drawn' = TRUE
    BY <1>5 DEF sampleScalar
  <2>2. CASE (\E e \in {"ErrRandomness", "panic"} : Return(e, "constructed")) /\ UNCHANGED <<heap, deferred>>
    <3>1. pc' = "constructed" /\ outcome' \in {"ErrRandomness", "panic"} /\ UNCHANGED <<heap, deferred>>
      BY <2>2 DEF Return
    <3>2. TypeOK' /\ OutcomeInv' /\ HoldersInv'
      BY <1>1, <1>2, <2>1, <3>1 DEF IInv, TypeOK, OutcomeInv, HoldersInv, Outcomes, Early, Handed
    <3>3. ClonesInv'
      <4>1. pc \in Held /\ pc' \in Held /\ pc # "handoff" /\ pc' # "handoff"
        BY <2>1, <3>1 DEF Held, Handed
      <4> QED BY <1>2, <2>1, <3>1, <4>1, ClonesKept DEF IInv
    <3>4. ScratchInv' /\ CallerInv'
      BY <1>1, <2>1, <3>1 DEF IInv, ScratchInv, CallerInv, Handed
    <3>5. CoreInv' /\ SessionInv' /\ MessageInv'
      BY <1>1, <2>1, <3>1 DEF IInv, CoreInv, SessionInv, MessageInv, Early, Concluded
    <3> QED BY <3>2, <3>3, <3>4, <3>5 DEF IInv
  <2>3. CASE /\ heap' = Alloc({IF role = "initiator" THEN <<"core", "scalar">> ELSE <<"scratch", "y">>}, Fresh)
             /\ deferred' = IF role = "initiator" THEN deferred ELSE deferred \cup {<<"scratch", "y">>}
             /\ pc' = "core" /\ UNCHANGED outcome
    <3> DEFINE y == IF role = "initiator" THEN <<"core", "scalar">> ELSE <<"scratch", "y">>
    <3>1. /\ heap' \in [Buffers -> States]
          /\ \A b \in Buffers : heap'[b] = IF b = y THEN "live" ELSE heap[b]
      BY <1>1, <2>3, AllocatingFresh
    <3>2. y \in Buffers /\ y[1] \in {"core", "scratch"}
      BY Owners DEF Scratch, Cores, Parts
    <3>3. \A b \in Callers \cup Clones \cup Sessions : heap'[b] = heap[b]
      <4> HIDE DEF y
      <4> QED BY <3>1, <3>2, Owners
    <3>4. TypeOK' /\ OutcomeInv'
      <4>1. deferred' \subseteq Buffers
        BY <1>1, <2>3, <3>2 DEF TypeOK
      <4> QED BY <1>1, <2>1, <2>3, <3>1, <4>1 DEF IInv, TypeOK, OutcomeInv, Early, States
    <3>5. HoldersInv'
      BY <1>1, <1>2, <2>1, <2>3 DEF IInv, HoldersInv, Handed
    <3>6. ClonesInv'
      BY <1>1, <1>2, <2>1, <2>3, <3>3, Owners DEF IInv, ClonesInv, Held, Handed, Clones, Fields
    <3>7. ScratchInv'
      <4>1. /\ heap'[<<"scratch", "ci">>] = heap[<<"scratch", "ci">>]
            /\ \A x \in {"g", "y", "k", "isk"} :
                 heap'[<<"scratch", x>>] = heap[<<"scratch", x>>] \/ <<"scratch", x>> \in deferred'
        <5>1. \A x \in {"ci", "g", "y", "k", "isk"} : <<"scratch", x>> \in Buffers /\ <<"scratch", x>> # <<"core", "scalar">>
          BY Owners DEF Scratch
        <5>2. \A x \in {"ci", "g", "k", "isk"} : <<"scratch", x>> # <<"scratch", "y">>
          OBVIOUS
        <5>3. CASE role = "initiator"
          BY <3>1, <5>1, <5>3
        <5>4. CASE role # "initiator"
          BY <2>3, <3>1, <5>1, <5>2, <5>4
        <5> QED BY <5>3, <5>4
      <4>2. deferred \subseteq deferred' /\ deferred' \subseteq deferred \cup {<<"scratch", "y">>}
        BY <2>3
      <4> QED BY <2>1, <2>3, <4>1, <4>2 DEF IInv, ScratchInv, Handed
    <3>8. CoreInv'
      BY <1>1, <2>1, <2>3, <3>1, <3>2 DEF IInv, CoreInv, Early
    <3>9. CallerInv' /\ SessionInv' /\ MessageInv'
      BY <1>1, <2>1, <2>3, <3>3 DEF IInv, CallerInv, Callers, SessionInv, MessageInv, Concluded
    <3> QED BY <3>4, <3>5, <3>6, <3>7, <3>8, <3>9 DEF IInv
  <2> QED BY <1>5, <2>2, <2>3 DEF sampleScalar
<1> QED BY <1>3, <1>4, <1>5

\* The core is built: what it copies from the input is live still.
LEMMA BuildCoreInv ==
  ASSUME IInv, buildCore
  PROVE  IInv'
<1> DEFINE k == IF role = "initiator" THEN {} ELSE {<<"scratch", "k">>}
           S == (CoreSlices \ {<<"core", "scalar">>}) \cup k
<1>1. /\ TypeOK /\ UNCHANGED <<role, input, caller, ni, session, drawn, message>>
      /\ pc = "core" /\ pc' = "constructed" /\ outcome' = "ok"
      /\ core' = CoreSlices /\ deferred' = deferred \cup k
      /\ heap' = Alloc(S, CopiedFromInput)
  BY DEF IInv, buildCore, Return
<1>2. \A f \in Fields : clone(f)' = clone(f)
  BY <1>1 DEF clone
<1>3. CoreSlices \subseteq Cores /\ CoreSlices' = CoreSlices
  BY <1>1 DEF CoreSlices, Cores, Parts
<1>4. /\ CopiedFromInput \in [Buffers -> Buffers \cup {NoBuffer}]
      /\ \A b \in Buffers : CopiedFromInput[b] # NoBuffer =>
           b[2] \in {"ad", "sid", "peerID"} /\ CopiedFromInput[b] = clone(b[2])
  <2>1. \A f \in {"ad", "sid", "peerID"} : clone(f) \in Buffers \cup {NoBuffer}
    BY Owners DEF Fields
  <2> QED BY <2>1 DEF CopiedFromInput
<1>5. /\ heap' \in [Buffers -> States]
      /\ \A b \in Buffers : heap'[b] = IF b \notin S THEN heap[b]
                                       ELSE IF CopiedFromInput[b] = NoBuffer THEN "live" ELSE heap[CopiedFromInput[b]]
  <2> HIDE DEF S
  <2> QED BY <1>1, <1>4, Allocating
<1>6. \A b \in S : heap'[b] = "live"
  <2> SUFFICES ASSUME NEW b \in S PROVE heap'[b] = "live"
    OBVIOUS
  <2>1. b \in Buffers
    BY <1>3, Owners DEF Scratch
  <2>2. CASE CopiedFromInput[b] # NoBuffer
    <3>1. \A f \in {"sid", "ad", "peerID"} : clone(f) # NoBuffer => heap[clone(f)] = "live"
      BY <1>1 DEF IInv, ClonesInv, Held, Handed
    <3> HIDE DEF S
    <3> QED BY <1>4, <1>5, <2>1, <2>2, <3>1
  <2>3. CASE CopiedFromInput[b] = NoBuffer
    <3> HIDE DEF S
    <3> QED BY <1>5, <2>1, <2>3
  <2> QED BY <2>2, <2>3
<1>7. \A b \in Buffers : b \notin S => heap'[b] = heap[b]
  BY <1>5
<1>8. \A b \in Callers \cup Clones \cup Sessions : b \in Buffers /\ b \notin S
  BY <1>3, Owners
<1>9. \A x \in {"ci", "g", "y", "k", "isk"} :
        heap'[<<"scratch", x>>] = heap[<<"scratch", x>>] \/ (x = "k" /\ <<"scratch", x>> \in k)
  <2> SUFFICES ASSUME NEW x \in {"ci", "g", "y", "k", "isk"}, <<"scratch", x>> \in S
               PROVE  x = "k" /\ <<"scratch", x>> \in k
    BY <1>7, Owners DEF Scratch
  <2>1. <<"scratch", x>> \notin CoreSlices
    BY <1>3, Owners DEF Scratch
  <2> QED BY <2>1
<1>10. TypeOK' /\ OutcomeInv'
  <2>1. deferred' \subseteq Buffers /\ core' \subseteq {b \in Buffers : b[1] = "core"}
    BY <1>1, <1>3, Owners DEF TypeOK, Scratch
  <2> HIDE DEF k, S
  <2> QED BY <1>1, <1>5, <2>1 DEF IInv, TypeOK, OutcomeInv, Outcomes, Early, States
<1>11. HoldersInv'
  BY <1>1, <1>2 DEF IInv, HoldersInv, Handed
<1>12. ClonesInv'
  <2>1. pc \in Held /\ pc' \in Held
    BY <1>1 DEF Held, Handed
  <2>2. \A f \in Fields : heap'[<<"clone", f>>] = heap[<<"clone", f>>]
    BY <1>7, <1>8 DEF Clones
  <2> QED BY <1>1, <1>2, <2>1, <2>2, ClonesKept DEF IInv
<1>13. ScratchInv'
  BY <1>1, <1>9 DEF IInv, ScratchInv, Handed
<1>14. CoreInv'
  <2>1. \A b \in CoreSlices : heap'[b] = "live"
    <3>1. <<"core", "scalar">> \in CoreSlices => role = "initiator"
      BY DEF CoreSlices
    <3>2. <<"core", "scalar">> \in CoreSlices => heap'[<<"core", "scalar">>] = "live"
      BY <1>1, <1>6, <1>7, <3>1, Owners DEF IInv, CoreInv, Cores, Parts
    <3> QED BY <1>6, <3>2
  <2> QED BY <1>1, <1>3, <2>1 DEF CoreInv, Early
<1>15. CallerInv' /\ SessionInv' /\ MessageInv'
  <2>1. session = {} /\ session' = {}
    BY <1>1 DEF IInv, SessionInv, Concluded
  <2>2. \A f \in Fields : heap'[<<"caller", f>>] = heap[<<"caller", f>>]
    BY <1>7, <1>8 DEF Callers
  <2> QED BY <1>1, <2>1, <2>2 DEF IInv, CallerInv, SessionInv, MessageInv, Concluded
<1> QED BY <1>10, <1>11, <1>12, <1>13, <1>14, <1>15 DEF IInv

\* The deferred clears, of a constructor and of Finish: they spare all that is handed out.
LEMMA DeferredInv ==
  ASSUME IInv, constructed \/ finished
  PROVE  IInv'
<1>1. /\ TypeOK /\ UNCHANGED <<role, input, caller, ni, core, session, drawn, message, outcome>>
      /\ heap' = Zero(heap, deferred) /\ deferred' = {}
  BY DEF IInv, constructed, finished
<1>2. \/ pc = "constructed" /\ outcome = "ok" /\ pc' = "encode"
      \/ pc = "constructed" /\ outcome # "ok" /\ pc' = "shell"
      \/ pc = "finished" /\ pc' = "clear"
  BY DEF constructed, finished, Goto
<1>3. \A f \in Fields : clone(f)' = clone(f)
  BY <1>1 DEF clone
<1>4. /\ heap' \in [Buffers -> States]
      /\ \A b \in Buffers : heap'[b] = IF b \in deferred /\ heap[b] = "live" THEN "zeroed" ELSE heap[b]
  BY <1>1, Zeroing
<1>5. deferred \subseteq {"scratch"} \X {"g", "y", "k", "isk"}
  BY DEF IInv, ScratchInv
<1>6. \A b \in Callers \cup Clones \cup Cores \cup Sessions : heap'[b] = heap[b]
  BY <1>4, <1>5, Owners
<1>7. heap'[<<"scratch", "ci">>] = heap[<<"scratch", "ci">>]
  BY <1>4, <1>5, Owners DEF Scratch
<1>8. \A x \in {"g", "y", "k", "isk"} : heap'[<<"scratch", x>>] # "live"
  BY <1>4, Owners DEF IInv, ScratchInv, Scratch
<1>9. core \subseteq Cores /\ session \subseteq Sessions /\ CoreSlices' = CoreSlices /\ Secrets \subseteq Cores
  <2>1. core \subseteq Cores
    BY DEF IInv, CoreInv, CoreSlices, Cores, Parts
  <2>2. session \subseteq Sessions
    BY <1>1, Owners DEF TypeOK
  <2> QED BY <1>1, <2>1, <2>2 DEF CoreSlices, Secrets, Cores, Parts
<1>10. TypeOK' /\ OutcomeInv'
  BY <1>1, <1>2, <1>4 DEF IInv, TypeOK, OutcomeInv, Early, States, FinishSteps
<1>11. HoldersInv'
  BY <1>1, <1>2, <1>3 DEF IInv, HoldersInv, Handed
<1>12. ClonesInv'
  <2>1. (pc' \in Held <=> pc \in Held) /\ pc # "handoff" /\ pc' \notin {"handoff", "sample"}
    BY <1>2 DEF Held, Handed
  <2>2. \A f \in Fields : heap'[<<"clone", f>>] = heap[<<"clone", f>>]
    BY <1>6 DEF Clones
  <2> QED BY <1>1, <1>3, <2>1, <2>2, ClonesKept DEF IInv
<1>13. ScratchInv'
  BY <1>1, <1>2, <1>7, <1>8 DEF IInv, ScratchInv, Handed
<1>14. CoreInv'
  BY <1>1, <1>2, <1>6, <1>9 DEF IInv, CoreInv, Early
<1>15. SessionInv'
  BY <1>1, <1>2, <1>6, <1>9 DEF IInv, SessionInv, Concluded
<1>16. CallerInv' /\ MessageInv'
  BY <1>1, <1>2, <1>6 DEF IInv, CallerInv, MessageInv, Callers
<1> QED BY <1>10, <1>11, <1>12, <1>13, <1>14, <1>15, <1>16 DEF IInv

\* The message is encoded from copies that are live, hence whole; the caller may then reuse its slices.
LEMMA EncodeInv ==
  ASSUME IInv, encode \/ reuseInput
  PROVE  IInv'
<1>1. TypeOK /\ UNCHANGED <<role, input, caller, ni, deferred, core, session, drawn, outcome>>
  BY DEF IInv, encode, reuseInput, refs
<1>2. \A f \in Fields : clone(f)' = clone(f)
  BY <1>1 DEF clone
<1>3. CASE encode
  <2>1. pc = "encode" /\ pc' = "shell" /\ UNCHANGED heap
    BY <1>3 DEF encode, Goto
  <2>2. message' = "whole"
    <3>1. \A f \in {"sid", "ad", "peerID"} : clone(f) # NoBuffer => heap[clone(f)] = "live"
      BY <2>1 DEF IInv, ClonesInv, Held, Handed
    <3> QED BY <1>3, <3>1 DEF encode
  <2>3. TypeOK' /\ OutcomeInv'
    BY <1>1, <2>1, <2>2 DEF IInv, TypeOK, OutcomeInv, Early
  <2>4. HoldersInv'
    BY <1>1, <1>2, <2>1 DEF IInv, HoldersInv, Handed
  <2>5. ClonesInv'
    <3>1. pc \in Held /\ pc' \in Held
      BY <2>1 DEF Held, Handed
    <3> QED BY <1>1, <1>2, <2>1, <3>1, ClonesKept DEF IInv
  <2>6. ScratchInv' /\ CallerInv' /\ MessageInv'
    BY <1>1, <2>1, <2>2 DEF IInv, ScratchInv, CallerInv, MessageInv, Handed
  <2>7. CoreInv' /\ SessionInv'
    BY <1>1, <2>1 DEF IInv, CoreInv, SessionInv, Early, Concluded, CoreSlices
  <2> QED BY <2>3, <2>4, <2>5, <2>6, <2>7 DEF IInv
<1>4. CASE reuseInput
  <2>1. /\ pc' = pc /\ message' = message /\ pc \in FinishSteps \cup {"returned"}
        /\ heap' = [b \in Buffers |-> IF b[1] = "caller" THEN "reused" ELSE heap[b]]
    BY <1>4 DEF reuseInput
  <2>2. /\ \A b \in Callers : heap'[b] = "reused"
        /\ \A b \in Clones \cup Scratch \cup Cores \cup Sessions : heap'[b] = heap[b]
    BY <2>1, Owners
  <2>3. core \subseteq Cores /\ session \subseteq Sessions /\ CoreSlices' = CoreSlices /\ Secrets \subseteq Cores
    <3>1. core \subseteq Cores
      BY DEF IInv, CoreInv, CoreSlices, Cores, Parts
    <3>2. session \subseteq Sessions
      BY <1>1, Owners DEF TypeOK
    <3> QED BY <1>1, <3>1, <3>2 DEF CoreSlices, Secrets, Cores, Parts
  <2>4. TypeOK' /\ OutcomeInv'
    BY <1>1, <2>1 DEF IInv, TypeOK, OutcomeInv
  <2>5. HoldersInv'
    BY <1>1, <1>2, <2>1 DEF IInv, HoldersInv
  <2>6. ClonesInv'
    <3>1. pc # "handoff" /\ pc # "sample"
      BY <2>1 DEF FinishSteps
    <3>2. \A f \in Fields : heap'[<<"clone", f>>] = heap[<<"clone", f>>]
      BY <2>2 DEF Clones
    <3> QED BY <1>1, <1>2, <2>1, <3>1, <3>2, ClonesKept DEF IInv
  <2>7. ScratchInv' /\ CallerInv' /\ MessageInv'
    BY <1>1, <2>1, <2>2 DEF IInv, ScratchInv, CallerInv, MessageInv, Scratch, Callers
  <2>8. CoreInv' /\ SessionInv'
    BY <1>1, <2>1, <2>2, <2>3 DEF IInv, CoreInv, SessionInv, Scratch, Cores, Parts
  <2> QED BY <2>4, <2>5, <2>6, <2>7, <2>8 DEF IInv
<1> QED BY <1>3, <1>4

\* The input's copies and CI are cleared with the normalized input: it held all that was live.
LEMMA WipeNormalizedInv ==
  ASSUME IInv, wipeNormalized
  PROVE  IInv'
<1>1. /\ TypeOK /\ UNCHANGED <<role, input, caller, deferred, core, session, drawn, message, outcome>>
      /\ pc = "shell" /\ pc' = "returned" /\ heap' = Zero(heap, ni) /\ ni' = {}
  BY DEF IInv, wipeNormalized, Goto
<1>2. \A f \in Fields : clone(f)' = clone(f)
  BY <1>1 DEF clone
<1>3. /\ heap' \in [Buffers -> States]
      /\ \A b \in Buffers : heap'[b] = IF b \in ni /\ heap[b] = "live" THEN "zeroed" ELSE heap[b]
  BY <1>1, Zeroing
<1>4. ni = {<<"scratch", "ci">>} \cup {clone(f) : f \in Fields \ {"context"}}
  BY <1>1 DEF IInv, HoldersInv, Handed
<1>5. \A b \in Callers \cup (Scratch \ {<<"scratch", "ci">>}) \cup Cores \cup Sessions : heap'[b] = heap[b]
  <2>1. \A b \in Callers \cup (Scratch \ {<<"scratch", "ci">>}) \cup Cores \cup Sessions : b \in Buffers /\ b \notin ni
    BY <1>4, Owners
  <2> QED BY <1>3, <2>1
<1>6. heap'[<<"scratch", "ci">>] # "live"
  BY <1>3, <1>4, Owners DEF Scratch
<1>7. \A f \in Fields : heap'[<<"clone", f>>] # "live"
  <2> SUFFICES ASSUME NEW f \in Fields, heap[<<"clone", f>>] = "live" PROVE <<"clone", f>> \in ni
    BY <1>3, Owners DEF Clones
  <2>1. clone(f) = <<"clone", f>> /\ f # "context"
    BY <1>1 DEF IInv, ClonesInv
  <2> QED BY <1>4, <2>1
<1>8. core \subseteq Cores /\ session \subseteq Sessions /\ CoreSlices' = CoreSlices
  <2>1. core \subseteq Cores
    BY DEF IInv, CoreInv, CoreSlices, Cores, Parts
  <2>2. session \subseteq Sessions
    BY <1>1, Owners DEF TypeOK
  <2> QED BY <1>1, <2>1, <2>2 DEF CoreSlices
<1>9. TypeOK' /\ OutcomeInv'
  BY <1>1, <1>3 DEF IInv, TypeOK, OutcomeInv, Early, States
<1>10. HoldersInv'
  BY <1>1, <1>2 DEF IInv, HoldersInv, Handed
<1>11. ClonesInv'
  BY <1>1, <1>7 DEF ClonesInv, Held, Handed, Fields
<1>12. ScratchInv' /\ CallerInv' /\ MessageInv'
  BY <1>1, <1>5, <1>6 DEF IInv, ScratchInv, CallerInv, MessageInv, Scratch, Callers
<1>13. CoreInv' /\ SessionInv'
  BY <1>1, <1>5, <1>8 DEF IInv, CoreInv, SessionInv, Early, Concluded
<1> QED BY <1>9, <1>10, <1>11, <1>12, <1>13 DEF IInv

-----------------------------------------------------------------------------
(* The steps of Finish and Close.                                          *)

\* The initiator's K and ISK are scratch buffers, cleared when Finish returns.
LEMMA SharedInv ==
  ASSUME IInv, sharedSecret \/ deriveISK
  PROVE  IInv'
<1>1. TypeOK /\ UNCHANGED <<role, input, caller, ni, core, session, drawn, message>>
  BY DEF IInv, sharedSecret, deriveISK
<1>2. \A f \in Fields : clone(f)' = clone(f)
  BY <1>1 DEF clone
<1>3. PICK x \in {"k", "isk"} :
        \/ /\ pc = "shared" /\ pc' = "finished" /\ outcome' = "ErrAbort" /\ UNCHANGED <<heap, deferred>>
        \/ /\ pc = IF x = "k" THEN "shared" ELSE "isk"
           /\ pc' = IF x = "k" THEN "isk" ELSE "verify"
           /\ heap' = Alloc({<<"scratch", x>>}, Fresh)
           /\ deferred' = deferred \cup {<<"scratch", x>>} /\ UNCHANGED outcome
  BY DEF sharedSecret, deriveISK, Goto, Return
<1>4. /\ heap' \in [Buffers -> States] /\ deferred \subseteq deferred'
      /\ deferred' \subseteq deferred \cup {<<"scratch", x>>}
      /\ \A b \in Buffers : heap'[b] = heap[b] \/ (b = <<"scratch", x>> /\ b \in deferred')
      /\ pc' = "verify" => heap'[<<"scratch", "isk">>] = "live"
  <2>1. CASE UNCHANGED <<heap, deferred>> /\ pc' = "finished"
    BY <1>1, <2>1 DEF TypeOK, States
  <2>2. CASE /\ heap' = Alloc({<<"scratch", x>>}, Fresh) /\ deferred' = deferred \cup {<<"scratch", x>>}
             /\ pc' = "verify" => x = "isk"
    <3>1. /\ heap' \in [Buffers -> States]
          /\ \A b \in Buffers : heap'[b] = IF b \in {<<"scratch", x>>} THEN "live" ELSE heap[b]
      BY <1>1, <2>2, AllocatingFresh
    <3>2. <<"scratch", x>> \in Buffers
      BY Owners DEF Scratch
    <3>3. \A b \in Buffers : heap'[b] = heap[b] \/ (b = <<"scratch", x>> /\ b \in deferred')
      BY <2>2, <3>1
    <3>4. pc' = "verify" => heap'[<<"scratch", "isk">>] = "live"
      BY <2>2, <3>1, <3>2
    <3> QED BY <2>2, <3>1, <3>3, <3>4
  <2> QED BY <1>3, <2>1, <2>2
<1>5. /\ pc \in {"shared", "isk"} /\ pc' \in {"finished", "isk", "verify"}
      /\ pc' = "finished" => outcome' = "ErrAbort"
      /\ pc' \in {"isk", "verify"} => outcome' = "ok"
      /\ outcome' \in {"ErrAbort", "ok"}
  BY <1>3 DEF IInv, OutcomeInv
<1>6. \A b \in Callers \cup Clones \cup Cores \cup Sessions : heap'[b] = heap[b]
  BY <1>4, Owners
<1>7. core \subseteq Cores /\ CoreSlices' = CoreSlices /\ session = {}
  BY <1>1, <1>5 DEF IInv, CoreInv, SessionInv, Concluded, CoreSlices, Cores, Parts
<1>8. TypeOK' /\ OutcomeInv'
  <2>1. deferred' \subseteq Buffers
    BY <1>1, <1>4, Owners DEF TypeOK, Scratch
  <2> QED BY <1>1, <1>4, <1>5, <2>1 DEF IInv, TypeOK, OutcomeInv, Outcomes, Early, States, FinishSteps
<1>9. HoldersInv'
  BY <1>1, <1>2, <1>5 DEF IInv, HoldersInv, Handed
<1>10. ClonesInv'
  <2>1. pc \notin Held /\ pc' \notin Held /\ pc # "handoff" /\ pc' \notin {"handoff", "sample"}
    BY <1>5 DEF Held, Handed
  <2>2. \A f \in Fields : heap'[<<"clone", f>>] = heap[<<"clone", f>>]
    BY <1>6 DEF Clones
  <2> QED BY <1>1, <1>2, <2>1, <2>2, ClonesKept DEF IInv
<1>11. ScratchInv'
  <2>1. \A y \in {"ci", "g", "y", "k", "isk"} :
          heap'[<<"scratch", y>>] = heap[<<"scratch", y>>] \/ (y # "ci" /\ <<"scratch", y>> \in deferred')
    BY <1>4, Owners DEF Scratch
  <2> QED BY <1>4, <1>5, <2>1 DEF IInv, ScratchInv, Handed
<1>12. CoreInv'
  BY <1>1, <1>5, <1>6, <1>7 DEF IInv, CoreInv, Early
<1>13. SessionInv' /\ CallerInv' /\ MessageInv'
  BY <1>1, <1>4, <1>5, <1>6, <1>7 DEF IInv, SessionInv, CallerInv, MessageInv, Callers, Concluded
<1> QED BY <1>8, <1>9, <1>10, <1>11, <1>12, <1>13 DEF IInv

\* The Session is copied while its sources are live.
LEMMA VerifyInv ==
  ASSUME IInv, verify
  PROVE  IInv'
<1>1. /\ TypeOK /\ UNCHANGED <<role, input, caller, ni, deferred, core, drawn, message>>
      /\ pc = "verify" /\ pc' = "finished"
  BY DEF IInv, verify, Goto
<1>2. \A f \in Fields : clone(f)' = clone(f)
  BY <1>1 DEF clone
<1>3. outcome = "ok" /\ session = {} /\ core = CoreSlices /\ CoreSlices' = CoreSlices /\ core \subseteq Cores
  BY <1>1 DEF IInv, OutcomeInv, SessionInv, Concluded, CoreInv, Early, CoreSlices, Cores, Parts
<1>4. /\ heap' \in [Buffers -> States] /\ session' \subseteq Sessions
      /\ \A b \in Callers \cup Clones \cup Scratch \cup Cores : heap'[b] = heap[b]
      /\ \A b \in session' : heap'[b] = "live"
      /\ outcome' \in {"ok", "ErrConfirmationFailed"} /\ (outcome' = "ok" <=> session' # {})
  <2>1. CASE outcome' = "ErrConfirmationFailed" /\ UNCHANGED <<heap, session>>
    BY <1>1, <1>3, <2>1 DEF TypeOK, States
  <2>2. CASE newSession /\ UNCHANGED outcome
    <3>1. /\ session' = {"session"} \X {"isk", "transcript", "ad", "peerID"}
          /\ heap' = Alloc(session', CopiedToSession)
      BY <2>2 DEF newSession
    <3>2. session' \subseteq Sessions /\ session' # {}
      <4>1. <<"session", "isk">> \in session'
        BY <3>1
      <4> QED BY <3>1, <4>1 DEF Sessions, Parts
    <3>3. /\ CopiedToSession \in [Buffers -> Buffers \cup {NoBuffer}]
          /\ \A b \in session' : CopiedToSession[b] = NoBuffer \/ heap[CopiedToSession[b]] = "live"
      <4>1. /\ <<"scratch", "isk">> \in Buffers /\ <<"core", "isk">> \in Buffers
            /\ <<"core", "peerID">> \in Buffers /\ <<"core", "transcript">> \in Buffers
        BY Owners DEF Scratch, Cores, Parts
      <4>2. /\ heap[<<"core", "peerID">>] = "live"
            /\ role = "initiator" => heap[<<"scratch", "isk">>] = "live"
            /\ role # "initiator" => heap[<<"core", "isk">>] = "live" /\ heap[<<"core", "transcript">>] = "live"
        <5>1. \A b \in CoreSlices : heap[b] = "live"
          BY <1>3 DEF IInv, CoreInv
        <5> QED BY <1>1, <5>1 DEF IInv, SessionInv, CoreSlices
      <4>3. CopiedToSession \in [Buffers -> Buffers \cup {NoBuffer}]
        BY <4>1 DEF CopiedToSession
      <4>4. ASSUME NEW b \in session' PROVE CopiedToSession[b] = NoBuffer \/ heap[CopiedToSession[b]] = "live"
        <5>1. b \in Buffers
          BY <3>2, Owners
        <5> QED BY <4>2, <5>1 DEF CopiedToSession
      <4> QED BY <4>3, <4>4
    <3>4. /\ heap' \in [Buffers -> States]
          /\ \A b \in Buffers : heap'[b] = IF b \notin session' THEN heap[b]
                                           ELSE IF CopiedToSession[b] = NoBuffer THEN "live" ELSE heap[CopiedToSession[b]]
      BY <1>1, <3>1, <3>3, Allocating
    <3>5. \A b \in Callers \cup Clones \cup Scratch \cup Cores : b \in Buffers /\ b \notin session'
      BY <3>2, Owners
    <3> QED BY <1>3, <2>2, <3>2, <3>3, <3>4, <3>5, Owners
  <2> QED BY <2>1, <2>2 DEF verify
<1>5. TypeOK' /\ OutcomeInv'
  <2>1. session' \subseteq {b \in Buffers : b[1] = "session"}
    BY <1>4, Owners
  <2> QED BY <1>1, <1>4, <2>1 DEF IInv, TypeOK, OutcomeInv, Outcomes, Early, States, FinishSteps
<1>6. HoldersInv'
  BY <1>1, <1>2 DEF IInv, HoldersInv, Handed
<1>7. ClonesInv'
  <2>1. pc \notin Held /\ pc' \notin Held
    BY <1>1 DEF Held, Handed
  <2>2. \A f \in Fields : heap'[<<"clone", f>>] = heap[<<"clone", f>>]
    BY <1>4 DEF Clones
  <2> QED BY <1>1, <1>2, <2>1, <2>2, ClonesKept DEF IInv
<1>8. ScratchInv' /\ CallerInv'
  BY <1>1, <1>4 DEF IInv, ScratchInv, CallerInv, Scratch, Callers, Handed
<1>9. CoreInv'
  BY <1>1, <1>3, <1>4 DEF IInv, CoreInv, Early
<1>10. SessionInv' /\ MessageInv'
  BY <1>1, <1>4 DEF IInv, SessionInv, MessageInv, Concluded
<1> QED BY <1>5, <1>6, <1>7, <1>8, <1>9, <1>10 DEF IInv

\* The core's secrets are cleared; the Session has copies.
LEMMA ClearInv ==
  ASSUME IInv, clear
  PROVE  IInv'
<1>1. /\ TypeOK /\ UNCHANGED <<role, input, caller, ni, deferred, session, drawn, message, outcome>>
      /\ pc = "clear" /\ pc' = "done" /\ heap' = Zero(heap, Secrets) /\ core' = core \ Secrets
  BY DEF IInv, clear, Goto, Secrets
<1>2. \A f \in Fields : clone(f)' = clone(f)
  BY <1>1 DEF clone
<1>3. /\ heap' \in [Buffers -> States]
      /\ \A b \in Buffers : heap'[b] = IF b \in Secrets /\ heap[b] = "live" THEN "zeroed" ELSE heap[b]
  BY <1>1, Zeroing
<1>4. /\ Secrets \subseteq Cores /\ CoreSlices' = CoreSlices /\ core = CoreSlices /\ core \subseteq Cores
      /\ session \subseteq Sessions
  <2>1. Secrets \subseteq Cores /\ CoreSlices \subseteq Cores /\ CoreSlices' = CoreSlices
    BY <1>1 DEF Secrets, CoreSlices, Cores, Parts
  <2>2. core = CoreSlices
    BY <1>1 DEF IInv, CoreInv, Early
  <2>3. session \subseteq Sessions
    BY <1>1, Owners DEF TypeOK
  <2> QED BY <2>1, <2>2, <2>3
<1>5. \A b \in Callers \cup Clones \cup Scratch \cup (Cores \ Secrets) \cup Sessions : heap'[b] = heap[b]
  <2>1. \A b \in Callers \cup Clones \cup Scratch \cup (Cores \ Secrets) \cup Sessions : b \in Buffers /\ b \notin Secrets
    BY <1>4, Owners
  <2> QED BY <1>3, <2>1
<1>6. \A b \in Secrets : heap'[b] # "live"
  BY <1>3, <1>4, Owners
<1>7. TypeOK' /\ OutcomeInv'
  BY <1>1, <1>3 DEF IInv, TypeOK, OutcomeInv, Early, States, FinishSteps
<1>8. HoldersInv'
  BY <1>1, <1>2 DEF IInv, HoldersInv, Handed
<1>9. ClonesInv'
  <2>1. pc \notin Held /\ pc' \notin Held
    BY <1>1 DEF Held, Handed
  <2>2. \A f \in Fields : heap'[<<"clone", f>>] = heap[<<"clone", f>>]
    BY <1>5 DEF Clones
  <2> QED BY <1>1, <1>2, <2>1, <2>2, ClonesKept DEF IInv
<1>10. ScratchInv' /\ CallerInv'
  BY <1>1, <1>5 DEF IInv, ScratchInv, CallerInv, Scratch, Callers, Handed
<1>11. CoreInv'
  BY <1>1, <1>4, <1>5, <1>6 DEF IInv, CoreInv, Early
<1>12. SessionInv' /\ MessageInv'
  BY <1>1, <1>4, <1>5 DEF IInv, SessionInv, MessageInv, Concluded
<1> QED BY <1>7, <1>8, <1>9, <1>10, <1>11, <1>12 DEF IInv

-----------------------------------------------------------------------------
(* The theorems.                                                           *)

\* IInv is inductive.
THEOREM Invariance == Spec => []IInv
<1>1. ASSUME IInv, [Next]_vars PROVE IInv'
  <2>1. CASE UNCHANGED vars
    <3>1. UNCHANGED <<role, input, heap, caller, ni, deferred, core, session, drawn, message, outcome, pc>>
      BY <2>1 DEF vars
    <3> QED BY <1>1, <3>1 DEF IInv, TypeOK, OutcomeInv, HoldersInv, ClonesInv, ScratchInv, CoreInv, SessionInv,
                              MessageInv, CallerInv, CoreSlices, clone
  <2> QED BY <1>1, <2>1, AcceptInv, HandoffInv, DecisionInv, SampleInv, BuildCoreInv, DeferredInv, EncodeInv,
             WipeNormalizedInv, SharedInv, VerifyInv, ClearInv DEF Next
<1> QED BY <1>1, InitInv, PTL DEF Spec

\* However Start, Respond, Finish or Close ends, no copy of the input, no intermediate secret and no secret of the
\* core is left in memory, and the password is gone before randomness is read (input.go, core.go).
THEOREM SecretsAreWiped == Spec => []NothingLeft
<1>1. IInv => NothingLeft
  <2> SUFFICES ASSUME IInv PROVE NothingLeft
    OBVIOUS
  <2>1. ASSUME pc \in {"returned", "done"}, NEW b \in Buffers, b[1] \in {"clone", "scratch"}
        PROVE  heap[b] # "live"
    <3>1. b \in Clones \cup Scratch
      BY <2>1, Owners
    <3>2. CASE b \in Clones
      BY <2>1, <3>2 DEF IInv, ClonesInv, Held, Handed, Clones
    <3>3. CASE b \in Scratch
      BY <2>1, <3>3 DEF IInv, ScratchInv, Handed, Scratch
    <3> QED BY <3>1, <3>2, <3>3
  <2>2. pc = "done" => \A x \in {"scalar", "isk", "transcript"} : heap[<<"core", x>>] # "live"
    BY DEF IInv, CoreInv, Secrets
  <2>3. drawn => heap[<<"clone", "password">>] # "live"
    BY DEF IInv, ClonesInv
  <2> QED BY <2>1, <2>2, <2>3 DEF NothingLeft
<1> QED BY <1>1, Invariance, PTL

\* No clear reaches what is handed out: the message is whole, the core usable, the Session's buffers are its own.
THEOREM OutputsSurvive == Spec => []OutputsIntact
<1>1. IInv => OutputsIntact
  <2> SUFFICES ASSUME IInv PROVE OutputsIntact
    OBVIOUS
  <2>1. message # "torn" /\ \A b \in core \cup session : heap[b] = "live"
    BY DEF IInv, MessageInv, CoreInv, SessionInv
  <2>2. pc = "returned" /\ outcome = "ok" => message = "whole" /\ core # {}
    <3>1. <<"core", "sid">> \in CoreSlices
      BY DEF CoreSlices
    <3> QED BY <3>1 DEF IInv, MessageInv, CoreInv, Early
  <2>3. pc = "done" => (outcome = "ok" <=> session # {})
    BY DEF IInv, SessionInv, Concluded
  <2> QED BY <2>1, <2>2, <2>3 DEF OutputsIntact
<1> QED BY <1>1, Invariance, PTL

\* The caller's slices are read and never cleared, and nothing refers to them once they are copied.
THEOREM InputIsTheCallers == Spec => []InputUntouched
<1>1. IInv => InputUntouched
  <2> SUFFICES ASSUME IInv, NEW b \in Callers
               PROVE  heap[b] # "zeroed" /\ b \notin ni \cup core \cup session \cup {caller[f] : f \in Fields}
    BY DEF InputUntouched, Callers
  <2>1. heap[b] # "zeroed"
    BY DEF IInv, CallerInv, Callers
  <2>2. b \notin ni
    BY Owners DEF IInv, HoldersInv, Scratch
  <2>3. b \notin core /\ b \notin session
    BY Owners DEF IInv, TypeOK
  <2>4. \A f \in Fields : b # caller[f]
    BY Owners DEF IInv, HoldersInv
  <2> QED BY <2>1, <2>2, <2>3, <2>4
<1> QED BY <1>1, Invariance, PTL

=============================================================================
