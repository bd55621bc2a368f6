------------------------ MODULE SingleUseState_proofs ------------------------
(***************************************************************************)
(* Proofs about SingleUseState, for any number of threads and of secret    *)
(* fields.  The order is: type correctness, the inductive invariant of the *)
(* mutex, of the claim and of the wipe, and the properties it implies.     *)
(***************************************************************************)
EXTENDS SingleUseState, TLAPS

USE DEF Fields, Operations, CorePoints, Points, Answers

LEMMA FirstField == 1 \in Fields
BY NFieldsPositive

LEMMA TypeInit == Init => TypeOK
<1> SUFFICES ASSUME Init PROVE TypeOK
  OBVIOUS
<1>1. wipe \in [Threads -> Fields]
  BY FirstField DEF Init
<1>2. core \in [Fields -> {"live", "zeroed", "nil"}]
  BY DEF Init
<1>3. pc \in [Threads -> Points] /\ op \in [Threads -> Operations]
  BY DEF Init
<1>4. /\ key \in [Threads -> {"none", "live", "wiped"}]
      /\ answer \in [Threads -> Answers]
  BY DEF Init
<1> QED BY <1>1, <1>2, <1>3, <1>4 DEF Init, TypeOK

LEMMA TypeNext == TypeOK /\ [Next]_vars => TypeOK'
<1> SUFFICES ASSUME TypeOK, [Next]_vars PROVE TypeOK'
  OBVIOUS
<1> USE DEF TypeOK
<1>1. CASE UNCHANGED vars
  BY <1>1 DEF vars
<1>2. ASSUME NEW t \in Threads, NEW o \in Operations, Call(t, o) \/ CallOnNil(t, o)
      PROVE  TypeOK'
  BY <1>2 DEF Call, CallOnNil, Goto
<1>3. ASSUME NEW t \in Threads, CallOnZeroValue(t) \/ Lock(t)
      PROVE  TypeOK'
  BY <1>3 DEF CallOnZeroValue, Lock, Goto
<1>4. ASSUME NEW t \in Threads, Step(t) PROVE TypeOK'
  <2>1. CASE CheckUsed(t)  BY <2>1 DEF CheckUsed, Goto
  <2>2. CASE SetUsed(t)    BY <2>2 DEF SetUsed, Goto
  <2>3. CASE UnlockLost(t) BY <2>3 DEF UnlockLost, Goto
  <2>4. CASE UnlockWon(t)
    <3>1. wipe' \in [Threads -> Fields]
      BY <2>4, FirstField DEF UnlockWon
    <3>2. pc' \in [Threads -> Points]
      BY <2>4 DEF UnlockWon, Goto
    <3> QED BY <2>4, <3>1, <3>2 DEF UnlockWon
  <2>5. CASE Decode(t)     BY <2>5 DEF Decode, Goto
  <2>6. CASE Verify(t)
    <3>1. answer' \in [Threads -> Answers]
      BY <2>6, CoreErrorsKnown DEF Verify
    <3>2. pc' \in [Threads -> Points]
      BY <2>6 DEF Verify, Goto
    <3> QED BY <2>6, <3>1, <3>2 DEF Verify
  <2>7. CASE Build(t)      BY <2>7 DEF Build, Goto
  <2>8. CASE ZeroField(t)  BY <2>8 DEF ZeroField, Goto
  <2>9. CASE DropField(t)
    <3>1. wipe' \in [Threads -> Fields]
      BY <2>9, NFieldsPositive DEF DropField
    <3>2. pc' \in [Threads -> Points] /\ core' \in [Fields -> {"live", "zeroed", "nil"}]
      BY <2>9 DEF DropField, Goto
    <3>3. answer' \in [Threads -> Answers]
      BY <2>9 DEF DropField
    <3> QED BY <2>9, <3>1, <3>2, <3>3 DEF DropField
  <2> QED BY <1>4, <2>1, <2>2, <2>3, <2>4, <2>5, <2>6, <2>7, <2>8, <2>9 DEF Step
<1> QED BY <1>1, <1>2, <1>3, <1>4 DEF Next

\* Every step of the code leaves each variable in its type.
THEOREM TypeCorrect == Spec => []TypeOK
BY TypeInit, TypeNext, PTL DEF Spec

-----------------------------------------------------------------------------
\* The points at which a claim holds the mutex, and the calls at them.
MutexPoints == {"check", "set", "lost", "won"}

MutexInv == \A t \in Threads : pc[t] \in MutexPoints <=> mu = t

\* A thread about to set the flag has seen it clear; one past the claim has
\* seen or left it set.
ClaimInv ==
  \A t \in Threads :
    /\ pc[t] = "set" => ~used
    /\ pc[t] \in CorePoints \cup {"lost"} => used

\* How far the wipe of the core has come.
CoreInv ==
  /\ ~used => CoreIsLive
  /\ \A t \in Threads :
       /\ pc[t] \in {"won", "decode", "verify", "build"} => CoreIsLive
       /\ pc[t] \in {"decode", "verify", "build"} => wipe[t] = 1
       /\ pc[t] \in {"zero", "drop"} =>
            \A f \in Fields : core[f] = IF f < wipe[t] THEN "nil"
                                        ELSE IF f = wipe[t] /\ pc[t] = "drop" THEN "zeroed"
                                        ELSE "live"
  /\ used /\ (\A t \in Threads : pc[t] \notin CorePoints) => CoreIsWiped

\* What a call has been told at each point.
AnswerInv ==
  \A t \in Threads :
    /\ pc[t] \notin {"idle", "zero", "drop"} => answer[t] = "pending"
    /\ pc[t] \in {"decode", "verify", "build"} => op[t] = "finish"
    /\ pc[t] \in {"zero", "drop"} =>
         answer[t] \in IF op[t] = "finish" THEN Claim!FinishOutcomes ELSE {"pending"}

IInv == MutexInv /\ ClaimInv /\ CoreExclusive /\ CoreInv /\ AnswerInv /\ SessionKeyIntact

LEMMA InitInv == Init => IInv
<1> SUFFICES ASSUME Init PROVE IInv
  OBVIOUS
<1>1. \A t \in Threads : pc[t] = "idle" /\ mu # t /\ key[t] = "none"
  BY NobodyIsNoThread DEF Init
<1>2. ~used /\ CoreIsLive
  BY DEF Init, CoreIsLive
<1> QED
  BY <1>1, <1>2 DEF IInv, MutexInv, MutexPoints, ClaimInv, CoreExclusive, Holders,
                    CoreInv, AnswerInv, SessionKeyIntact

\* Only the thread that takes or leaves the mutex changes who holds it.
LEMMA MutexNext == TypeOK /\ MutexInv /\ [Next]_vars => MutexInv'
<1> SUFFICES ASSUME TypeOK, MutexInv, [Next]_vars PROVE MutexInv'
  OBVIOUS
<1> USE NobodyIsNoThread DEF TypeOK, MutexInv, MutexPoints
<1>1. CASE UNCHANGED vars
  BY <1>1 DEF vars
<1>2. ASSUME NEW t \in Threads, NEW o \in Operations, Call(t, o) \/ CallOnNil(t, o)
      PROVE  MutexInv'
  BY <1>2 DEF Call, CallOnNil, Goto
<1>3. ASSUME NEW t \in Threads, CallOnZeroValue(t) \/ Lock(t)
      PROVE  MutexInv'
  BY <1>3 DEF CallOnZeroValue, Lock, Goto
<1>4. ASSUME NEW t \in Threads, Step(t) PROVE MutexInv'
  <2>1. CASE CheckUsed(t) \/ SetUsed(t)
    BY <2>1 DEF CheckUsed, SetUsed, Goto
  <2>2. CASE UnlockLost(t) \/ UnlockWon(t)
    BY <2>2 DEF UnlockLost, UnlockWon, Goto
  <2>3. CASE Decode(t) \/ Verify(t) \/ Build(t)
    BY <2>3 DEF Decode, Verify, Build, Goto
  <2>4. CASE ZeroField(t) \/ DropField(t)
    BY <2>4 DEF ZeroField, DropField, Goto
  <2> QED BY <1>4, <2>1, <2>2, <2>3, <2>4 DEF Step
<1> QED BY <1>1, <1>2, <1>3, <1>4 DEF Next

\* The flag is set once, by the one thread that saw it clear under the mutex.
LEMMA ClaimNext ==
  TypeOK /\ MutexInv /\ ClaimInv /\ CoreExclusive /\ [Next]_vars
    => ClaimInv' /\ CoreExclusive'
<1> SUFFICES ASSUME TypeOK, MutexInv, ClaimInv, CoreExclusive, [Next]_vars
             PROVE  ClaimInv' /\ CoreExclusive'
  OBVIOUS
<1> USE DEF TypeOK, MutexInv, MutexPoints, ClaimInv, CoreExclusive, Holders
<1>1. CASE UNCHANGED vars
  BY <1>1 DEF vars
<1>2. ASSUME NEW t \in Threads, NEW o \in Operations, Call(t, o) \/ CallOnNil(t, o)
      PROVE  ClaimInv' /\ CoreExclusive'
  BY <1>2 DEF Call, CallOnNil, Goto
<1>3. ASSUME NEW t \in Threads, CallOnZeroValue(t) \/ Lock(t)
      PROVE  ClaimInv' /\ CoreExclusive'
  BY <1>3 DEF CallOnZeroValue, Lock, Goto
<1>4. ASSUME NEW t \in Threads, Step(t) PROVE ClaimInv' /\ CoreExclusive'
  <2>1. CASE CheckUsed(t)
    BY <2>1 DEF CheckUsed, Goto
  <2>2. CASE SetUsed(t)
    <3>1. \A u \in Threads : u # t => pc[u] \notin {"set"} \cup CorePoints
      BY <2>2 DEF SetUsed, Goto
    <3>2. used' /\ \A u \in Threads : pc'[u] = IF u = t THEN "won" ELSE pc[u]
      BY <2>2 DEF SetUsed, Goto
    <3> QED BY <3>1, <3>2
  <2>3. CASE UnlockLost(t)
    BY <2>3 DEF UnlockLost, Goto
  <2>4. CASE UnlockWon(t) \/ Decode(t) \/ Verify(t) \/ Build(t)
    <3>1. pc[t] \in CorePoints /\ used' = used
      BY <2>4 DEF UnlockWon, Decode, Verify, Build, Goto
    <3>2. \E p \in CorePoints : pc' = [pc EXCEPT ![t] = p]
      BY <2>4 DEF UnlockWon, Decode, Verify, Build, Goto
    <3> QED BY <3>1, <3>2
  <2>5. CASE ZeroField(t) \/ DropField(t)
    BY <2>5 DEF ZeroField, DropField, Goto
  <2> QED BY <1>4, <2>1, <2>2, <2>3, <2>4, <2>5 DEF Step
<1> QED BY <1>1, <1>2, <1>3, <1>4 DEF Next

\* Steps outside the core leave the core and the claim on it alone.
LEMMA CoreUntouched ==
  ASSUME TypeOK, CoreInv, used' = used, core' = core, wipe' = wipe,
         \A t \in Threads : pc'[t] # pc[t] => {pc[t], pc'[t]} \cap CorePoints = {}
  PROVE  CoreInv'
BY DEF TypeOK, CoreInv, CoreIsLive, CoreIsWiped

\* The core is whole until the winner wipes it, field by field.
LEMMA CoreNext ==
  TypeOK /\ MutexInv /\ ClaimInv /\ CoreExclusive /\ CoreInv /\ [Next]_vars => CoreInv'
<1> SUFFICES ASSUME TypeOK, MutexInv, ClaimInv, CoreExclusive, CoreInv, [Next]_vars
             PROVE  CoreInv'
  OBVIOUS
<1> USE DEF TypeOK
<1>1. CASE UNCHANGED vars
  BY <1>1, CoreUntouched DEF vars
<1>2. ASSUME NEW t \in Threads, NEW o \in Operations, Call(t, o) \/ CallOnNil(t, o)
      PROVE  CoreInv'
  <2>1. \A u \in Threads : pc'[u] # pc[u] => {pc[u], pc'[u]} \cap CorePoints = {}
    BY <1>2 DEF Call, CallOnNil, Goto
  <2> QED BY <1>2, <2>1, CoreUntouched DEF Call, CallOnNil
<1>3. ASSUME NEW t \in Threads, CallOnZeroValue(t) \/ Lock(t)
      PROVE  CoreInv'
  <2>1. \A u \in Threads : pc'[u] # pc[u] => {pc[u], pc'[u]} \cap CorePoints = {}
    BY <1>3 DEF CallOnZeroValue, Lock, Goto
  <2> QED BY <1>3, <2>1, CoreUntouched DEF CallOnZeroValue, Lock
<1>4. ASSUME NEW t \in Threads, Step(t) PROVE CoreInv'
  <2>0. \A u \in Threads : u # t /\ pc[t] \in CorePoints => pc[u] \notin CorePoints
    BY DEF CoreExclusive, Holders
  <2>1. CASE CheckUsed(t) \/ UnlockLost(t)
    <3>1. \A u \in Threads : pc'[u] # pc[u] => {pc[u], pc'[u]} \cap CorePoints = {}
      BY <2>1 DEF CheckUsed, UnlockLost, Goto
    <3> QED BY <2>1, <3>1, CoreUntouched DEF CheckUsed, UnlockLost
  <2>2. CASE SetUsed(t)
    <3>1. ~used /\ CoreIsLive /\ \A u \in Threads : pc[u] \notin CorePoints
      BY <2>2 DEF SetUsed, Goto, ClaimInv, CoreInv
    <3>2. used' /\ pc'[t] = "won" /\ \A u \in Threads : u # t => pc'[u] \notin CorePoints
      BY <2>2, <3>1 DEF SetUsed, Goto
    <3>3. CoreIsLive'
      BY <2>2, <3>1 DEF SetUsed, CoreIsLive
    <3> QED BY <3>2, <3>3 DEF CoreInv
  <2>3. CASE UnlockWon(t)
    <3>1. CoreIsLive /\ used /\ pc[t] \in CorePoints
      BY <2>3 DEF UnlockWon, Goto, ClaimInv, CoreInv
    <3>2. /\ pc'[t] \in {"decode", "zero"} /\ wipe'[t] = 1 /\ core' = core /\ used'
          /\ \A u \in Threads : u # t => pc'[u] = pc[u]
      BY <2>3, <3>1 DEF UnlockWon, Goto
    <3>3. \A f \in Fields : f \in Nat /\ ~(f < 1) /\ core'[f] = "live"
      BY <3>1, <3>2, NFieldsPositive DEF CoreIsLive
    <3>4. \A u \in Threads : u # t => pc'[u] \notin CorePoints
      BY <2>0, <3>1, <3>2
    <3> QED BY <3>2, <3>3, <3>4 DEF CoreInv, CoreIsLive
  <2>4. CASE Decode(t) \/ Verify(t) \/ Build(t)
    <3>1. CoreIsLive /\ used /\ pc[t] \in CorePoints
      BY <2>4 DEF Decode, Verify, Build, Goto, ClaimInv, CoreInv
    <3>2. /\ pc'[t] \in {"verify", "build", "zero"} /\ wipe' = wipe /\ core' = core /\ used'
          /\ \A u \in Threads : u # t => pc'[u] = pc[u]
      BY <2>4, <3>1 DEF Decode, Verify, Build, Goto
    <3>3. wipe[t] = 1 /\ \A f \in Fields : f \in Nat /\ ~(f < 1)
      BY <2>4, NFieldsPositive DEF Decode, Verify, Build, Goto, CoreInv
    <3> QED BY <2>0, <3>1, <3>2, <3>3 DEF CoreInv, CoreIsLive
  <2>5. CASE ZeroField(t)
    <3>1. pc[t] = "zero" /\ pc'[t] = "drop" /\ used /\ used' /\ wipe' = wipe
      BY <2>5 DEF ZeroField, Goto, ClaimInv
    <3>2. \A u \in Threads : u # t => pc'[u] \notin CorePoints
      BY <2>0, <2>5, <3>1 DEF ZeroField, Goto
    <3>3. \A f \in Fields : core'[f] = IF f < wipe'[t] THEN "nil"
                                       ELSE IF f = wipe'[t] THEN "zeroed" ELSE "live"
      BY <2>5, <3>1, NFieldsPositive DEF ZeroField, CoreInv
    <3> QED BY <3>1, <3>2, <3>3 DEF CoreInv
  <2>6. CASE DropField(t)
    <3>1. pc[t] = "drop" /\ used /\ used' /\ \A u \in Threads : u # t => pc'[u] \notin CorePoints
      BY <2>0, <2>6 DEF DropField, Goto, ClaimInv
    <3>2. \A f \in Fields : core'[f] = IF f < wipe[t] + 1 THEN "nil" ELSE "live"
      BY <2>6, <3>1, NFieldsPositive DEF DropField, CoreInv
    <3>3. CASE wipe[t] < NFields
      <4>1. pc'[t] = "zero" /\ wipe'[t] = wipe[t] + 1
        BY <2>6, <3>3 DEF DropField, Goto
      <4> QED BY <3>1, <3>2, <4>1 DEF CoreInv
    <3>4. CASE wipe[t] = NFields
      <4>1. pc'[t] = "idle"
        BY <2>6, <3>4 DEF DropField, Goto
      <4>2. CoreIsWiped'
        BY <3>2, <3>4, NFieldsPositive DEF CoreIsWiped
      <4> QED BY <3>1, <4>1, <4>2 DEF CoreInv
    <3> QED BY <2>6, <3>3, <3>4 DEF DropField
  <2> QED BY <1>4, <2>1, <2>2, <2>3, <2>4, <2>5, <2>6 DEF Step
<1> QED BY <1>1, <1>2, <1>3, <1>4 DEF Next

\* A call is told nothing before the point that decides its answer.
LEMMA AnswerNext == TypeOK /\ AnswerInv /\ [Next]_vars => AnswerInv'
<1> SUFFICES ASSUME TypeOK, AnswerInv, [Next]_vars PROVE AnswerInv'
  OBVIOUS
<1> USE DEF TypeOK, AnswerInv, Claim!FinishOutcomes
<1>1. CASE UNCHANGED vars
  BY <1>1 DEF vars
<1>2. ASSUME NEW t \in Threads, NEW o \in Operations, Call(t, o) \/ CallOnNil(t, o)
      PROVE  AnswerInv'
  BY <1>2 DEF Call, CallOnNil, Goto
<1>3. ASSUME NEW t \in Threads, CallOnZeroValue(t) \/ Lock(t)
      PROVE  AnswerInv'
  <2>1. CASE CallOnZeroValue(t) BY <2>1 DEF CallOnZeroValue
  <2>2. CASE Lock(t) BY <2>2 DEF Lock, Goto
  <2> QED BY <1>3, <2>1, <2>2
<1>4. ASSUME NEW t \in Threads, Step(t) PROVE AnswerInv'
  <2>1. CASE CheckUsed(t)  BY <2>1 DEF CheckUsed, Goto
  <2>2. CASE SetUsed(t)    BY <2>2 DEF SetUsed, Goto
  <2>3. CASE UnlockLost(t) BY <2>3 DEF UnlockLost, Goto
  <2>4. CASE UnlockWon(t)  BY <2>4 DEF UnlockWon, Goto
  <2>5. CASE Decode(t)     BY <2>5 DEF Decode, Goto
  <2>6. CASE Verify(t)
    <3>1. CASE Goto(t, "verify", "build") /\ UNCHANGED answer
      BY <2>6, <3>1 DEF Verify, Goto
    <3>2. CASE Goto(t, "verify", "zero") /\ \E e \in CoreErrors : answer' = [answer EXCEPT ![t] = e]
      <4>1. PICK e \in CoreErrors : answer' = [answer EXCEPT ![t] = e]
        BY <3>2
      <4>2. e \in {"ErrAbort", "ErrConfirmationFailed"}
        BY <4>1, CoreErrorsKnown
      <4> QED BY <2>6, <3>2, <4>1, <4>2 DEF Verify, Goto
    <3> QED BY <2>6, <3>1, <3>2 DEF Verify
  <2>7. CASE Build(t)      BY <2>7 DEF Build, Goto
  <2>8. CASE ZeroField(t)  BY <2>8 DEF ZeroField, Goto
  <2>9. CASE DropField(t)  BY <2>9 DEF DropField, Goto
  <2> QED BY <1>4, <2>1, <2>2, <2>3, <2>4, <2>5, <2>6, <2>7, <2>8, <2>9 DEF Step
<1> QED BY <1>1, <1>2, <1>3, <1>4 DEF Next

\* newSession clones the key while the winner still has it whole.
LEMMA KeyNext ==
  TypeOK /\ CoreInv /\ SessionKeyIntact /\ [Next]_vars => SessionKeyIntact'
<1> SUFFICES ASSUME TypeOK, CoreInv, SessionKeyIntact, [Next]_vars,
                    NEW u \in Threads
             PROVE  key'[u] # "wiped"
  BY DEF SessionKeyIntact
<1> USE DEF TypeOK, SessionKeyIntact
<1>1. CASE UNCHANGED vars
  BY <1>1 DEF vars
<1>2. ASSUME NEW t \in Threads, NEW o \in Operations, Call(t, o) PROVE key'[u] # "wiped"
  BY <1>2 DEF Call
<1>3. ASSUME NEW t \in Threads, Build(t) PROVE key'[u] # "wiped"
  BY <1>3 DEF Build, Goto, CoreInv
<1>4. ASSUME UNCHANGED key PROVE key'[u] # "wiped"
  BY <1>4
<1> QED
  BY <1>1, <1>2, <1>3, <1>4 DEF Next, Step, CallOnNil, CallOnZeroValue, Lock, CheckUsed,
     SetUsed, UnlockLost, UnlockWon, Decode, Verify, ZeroField, DropField

THEOREM Invariance == Spec => [](TypeOK /\ IInv)
<1>1. Init => TypeOK /\ IInv
  BY TypeInit, InitInv
<1>2. TypeOK /\ IInv /\ [Next]_vars => TypeOK' /\ IInv'
  BY TypeNext, MutexNext, ClaimNext, CoreNext, AnswerNext, KeyNext DEF IInv
<1> QED BY <1>1, <1>2, PTL DEF Spec

\* At most one call at a time is inside the core: finish and clear never race.
THEOREM ExclusiveCore == Spec => []CoreExclusive
<1>1. IInv => CoreExclusive
  BY DEF IInv
<1> QED BY <1>1, Invariance, PTL

\* The secrets live until the claim, and are wiped when the winner returns.
THEOREM WipeMatchesClaim == Spec => []CoreMatchesClaim
<1>1. IInv => CoreMatchesClaim
  BY DEF IInv, CoreInv, CoreMatchesClaim, Holders
<1> QED BY <1>1, Invariance, PTL

\* A Session is never built from a wiped key.
THEOREM IntactSessionKey == Spec => []SessionKeyIntact
<1>1. IInv => SessionKeyIntact
  BY DEF IInv
<1> QED BY <1>1, Invariance, PTL

-----------------------------------------------------------------------------
\* The refinement.  What callers see: the operation a thread is inside of, and
\* whether the secrets are still there.
Requests == [t \in Threads |-> IF pc[t] = "idle" THEN "none" ELSE op[t]]
Secret == IF CoreIsWiped THEN "released" ELSE "held"

\* A call that begins or returns changes what one thread is inside of.
LEMMA OneRequest ==
  ASSUME NEW t \in Threads, NEW o,
         \A u \in Threads : Requests'[u] = IF u = t THEN o ELSE Requests[u]
  PROVE  Requests' = [Requests EXCEPT ![t] = o]
<1>1. Requests' = [u \in Threads |-> Requests'[u]]
  BY DEF Requests
<1>2. Requests = [u \in Threads |-> Requests[u]]
  BY DEF Requests
<1> QED BY <1>1, <1>2

\* Steps that callers do not see: the mutex, and the wipe before its last field.
LEMMA Unseen ==
  ASSUME UNCHANGED <<used, op, answer>>, Secret' = Secret,
         \A t \in Threads : (pc'[t] = "idle") = (pc[t] = "idle"),
         \A t \in Threads : (pc'[t] \in CorePoints) = (pc[t] \in CorePoints)
  PROVE  UNCHANGED Claim!vars
<1>1. Requests' = Requests
  BY DEF Requests
<1>2. Holders' = Holders
  BY DEF Holders
<1> QED BY <1>1, <1>2 DEF Claim!vars, Requests, Secret

\* An intact core, and one whose wipe is under way, has not been wiped.
LEMMA Held ==
  ASSUME TypeOK, CoreInv, NEW t \in Threads, pc[t] \in CorePoints
  PROVE  Secret = "held"
<1> SUFFICES ~CoreIsWiped
  BY DEF Secret
<1>1. CASE pc[t] \in {"zero", "drop"}
  <2>1. core[wipe[t]] # "nil" /\ wipe[t] \in Fields
    BY <1>1, NFieldsPositive DEF TypeOK, CoreInv
  <2> QED BY <2>1 DEF CoreIsWiped
<1>2. CASE pc[t] \notin {"zero", "drop"}
  BY <1>2, FirstField DEF CoreInv, CoreIsLive, CoreIsWiped
<1> QED BY <1>1, <1>2

LEMMA RefinesInit == Init => Claim!Init
<1> SUFFICES ASSUME Init PROVE Claim!Init
  OBVIOUS
<1>1. Holders = {} /\ ~CoreIsWiped
  BY FirstField DEF Init, Holders, CoreIsWiped
<1>2. Requests = [t \in Threads |-> "none"]
  BY DEF Init, Requests
<1> QED BY <1>1, <1>2 DEF Init, Claim!Init, Requests

\* Each step of the code is a step of the promise, or one callers do not see.
LEMMA RefinesNext ==
  TypeOK /\ IInv /\ TypeOK' /\ IInv' /\ [Next]_vars => [Claim!Next]_(Claim!vars)
<1> SUFFICES ASSUME TypeOK, IInv, TypeOK', IInv', [Next]_vars
             PROVE  Claim!Next \/ UNCHANGED Claim!vars
  OBVIOUS
<1> USE DEF TypeOK
<1>1. CASE UNCHANGED vars
  BY <1>1, Unseen DEF vars, Secret, CoreIsWiped
<1>2. ASSUME NEW t \in Threads, NEW o \in Operations, Call(t, o)
      PROVE  Claim!Next
  <2>1. Requests' = [Requests EXCEPT ![t] = o] /\ Requests[t] = "none"
    <3>1. \A u \in Threads : /\ pc'[u] = IF u = t THEN "lock" ELSE pc[u]
                             /\ op'[u] = IF u = t THEN o ELSE op[u]
      BY <1>2 DEF Call, Goto
    <3>2. Requests[t] = "none"
      BY <1>2 DEF Call, Goto, Requests
    <3>3. \A u \in Threads : Requests'[u] = IF u = t THEN o ELSE Requests[u]
      BY <3>1 DEF Requests
    <3> QED BY <3>2, <3>3, OneRequest
  <2>2. Holders' = Holders /\ Secret' = Secret
    BY <1>2 DEF Call, Goto, Holders, Secret, CoreIsWiped
  <2>3. Claim!Request(t, o)
    BY <1>2, <2>1, <2>2 DEF Call, Claim!Request, Requests, Secret
  <2> QED BY <2>3 DEF Claim!Next, Claim!Operations
<1>3. ASSUME NEW t \in Threads, NEW o \in Operations, CallOnNil(t, o) \/ CallOnZeroValue(t)
      PROVE  Claim!Next
  <2>1. Requests' = Requests /\ Requests[t] = "none"
    BY <1>3 DEF CallOnNil, CallOnZeroValue, Requests
  <2>2. Holders' = Holders /\ Secret' = Secret
    BY <1>3 DEF CallOnNil, CallOnZeroValue, Holders, Secret, CoreIsWiped
  <2>3. \E r \in {"nil", "ErrInvalidInput"} : answer' = [answer EXCEPT ![t] = r]
    BY <1>3 DEF CallOnNil, CallOnZeroValue
  <2>4. Claim!Misuse(t)
    BY <1>3, <2>1, <2>2, <2>3 DEF CallOnNil, CallOnZeroValue, Claim!Misuse, Requests, Secret
  <2> QED BY <2>4 DEF Claim!Next
<1>4. ASSUME NEW t \in Threads, Lock(t) \/ CheckUsed(t) \/ UnlockWon(t)
      PROVE  UNCHANGED Claim!vars
  <2>1. UNCHANGED <<used, op, answer>> /\ Secret' = Secret
    BY <1>4 DEF Lock, CheckUsed, UnlockWon, Secret, CoreIsWiped
  <2>2. \A u \in Threads : (pc'[u] = "idle") = (pc[u] = "idle")
    BY <1>4 DEF Lock, CheckUsed, UnlockWon, Goto
  <2>3. \A u \in Threads : (pc'[u] \in CorePoints) = (pc[u] \in CorePoints)
    BY <1>4 DEF Lock, CheckUsed, UnlockWon, Goto
  <2> QED BY <2>1, <2>2, <2>3, Unseen
<1>5. ASSUME NEW t \in Threads, SetUsed(t) PROVE Claim!Next
  <2>1. Requests' = Requests /\ Requests[t] \in Operations
    BY <1>5 DEF SetUsed, Goto, Requests
  <2>2. ~used /\ used' /\ Secret' = Secret
    BY <1>5 DEF SetUsed, Goto, IInv, ClaimInv, Secret, CoreIsWiped
  <2>3. Holders' = {t}
    <3>1. pc'[t] \in CorePoints
      BY <1>5 DEF SetUsed, Goto
    <3>2. t \in Holders' /\ CoreExclusive'
      BY <3>1 DEF Holders, IInv
    <3> QED BY <3>2 DEF CoreExclusive, Holders
  <2>4. Claim!Win(t)
    BY <1>5, <2>1, <2>2, <2>3 DEF SetUsed, Claim!Win, Claim!Operations, Requests, Secret
  <2> QED BY <2>4 DEF Claim!Next
<1>6. ASSUME NEW t \in Threads, UnlockLost(t) PROVE Claim!Next
  <2>1. used /\ t \notin Holders /\ Holders' = Holders /\ Secret' = Secret
    BY <1>6 DEF UnlockLost, Goto, IInv, ClaimInv, Holders, Secret, CoreIsWiped
  <2>2. Requests' = [Requests EXCEPT ![t] = "none"] /\ Requests[t] = op[t]
    <3>1. \A u \in Threads : pc'[u] = IF u = t THEN "idle" ELSE pc[u]
      BY <1>6 DEF UnlockLost, Goto
    <3>2. op' = op /\ Requests[t] = op[t]
      BY <1>6 DEF UnlockLost, Goto, Requests
    <3>3. \A u \in Threads : Requests'[u] = IF u = t THEN "none" ELSE Requests[u]
      BY <3>1, <3>2 DEF Requests
    <3> QED BY <3>2, <3>3, OneRequest
  <2>3. Claim!Lose(t)
    BY <1>6, <2>1, <2>2 DEF UnlockLost, Claim!Lose, Requests, Secret
  <2> QED BY <2>3 DEF Claim!Next
<1>7. ASSUME NEW t \in Threads, Decode(t) \/ Verify(t) \/ Build(t)
      PROVE  Claim!Next \/ UNCHANGED Claim!vars
  <2>1. /\ pc[t] \in CorePoints /\ pc'[t] \in CorePoints
        /\ \A u \in Threads : u # t => pc'[u] = pc[u]
    BY <1>7 DEF Decode, Verify, Build, Goto
  <2>2. Requests' = Requests /\ Holders' = Holders /\ Secret' = Secret
    BY <1>7, <2>1 DEF Decode, Verify, Build, Requests, Holders, Secret, CoreIsWiped
  <2>3. /\ op[t] = "finish" /\ answer[t] = "pending"
        /\ Requests[t] = "finish" /\ Secret = "held"
    BY <1>7, <2>1, Held DEF Decode, Verify, Build, Goto, IInv, AnswerInv, Requests
  <2>4. Holders = {t}
    BY <2>1 DEF IInv, CoreExclusive, Holders
  <2>5. \/ answer' = answer
        \/ \E r \in Claim!FinishOutcomes : answer' = [answer EXCEPT ![t] = r]
    BY <1>7, CoreErrorsKnown DEF Decode, Verify, Build, Claim!FinishOutcomes
  <2>6. used' = used
    BY <1>7 DEF Decode, Verify, Build
  <2>7. CASE answer' = answer
    BY <2>2, <2>6, <2>7 DEF Claim!vars, Requests, Secret
  <2>8. CASE \E r \in Claim!FinishOutcomes : answer' = [answer EXCEPT ![t] = r]
    <3>1. Claim!Decide(t)
      BY <2>2, <2>3, <2>4, <2>6, <2>8 DEF Claim!Decide, Requests, Secret
    <3> QED BY <3>1 DEF Claim!Next
  <2> QED BY <2>5, <2>7, <2>8
<1>8. ASSUME NEW t \in Threads, ZeroField(t) \/ (DropField(t) /\ wipe[t] < NFields)
      PROVE  UNCHANGED Claim!vars
  <2>1. /\ pc[t] \in CorePoints /\ pc'[t] \in {"zero", "drop"}
        /\ \A u \in Threads : u # t => pc'[u] = pc[u]
    BY <1>8, NFieldsPositive DEF ZeroField, DropField, Goto
  <2>2. Secret = "held" /\ Secret' = "held"
    <3>1. Secret = "held"
      BY <2>1, Held DEF IInv
    <3>2. core'[wipe'[t]] # "nil" /\ wipe'[t] \in Fields
      BY <2>1, NFieldsPositive DEF IInv, CoreInv
    <3> QED BY <3>1, <3>2 DEF Secret, CoreIsWiped
  <2>3. UNCHANGED <<used, op, answer>>
    BY <1>8, NFieldsPositive DEF ZeroField, DropField
  <2> QED BY <2>1, <2>2, <2>3, Unseen
<1>9. ASSUME NEW t \in Threads, DropField(t), wipe[t] = NFields PROVE Claim!Next
  <2>1. pc[t] = "drop" /\ pc'[t] = "idle" /\ \A u \in Threads : u # t => pc'[u] = pc[u]
    BY <1>9, NFieldsPositive DEF DropField, Goto
  <2>2. Holders = {t}
    BY <2>1 DEF IInv, CoreExclusive, Holders
  <2>3. Holders' = {}
    BY <2>1, <2>2 DEF Holders
  <2>4. used /\ used' = used
    BY <1>9, <2>1 DEF DropField, IInv, ClaimInv
  <2>5. Secret' = "released"
    BY <2>3, <2>4 DEF IInv, CoreInv, Holders, Secret
  <2>6. Requests' = [Requests EXCEPT ![t] = "none"] /\ Requests[t] = op[t]
    <3>1. op' = op /\ Requests[t] = op[t]
      BY <1>9, <2>1 DEF DropField, Requests
    <3>2. \A u \in Threads : Requests'[u] = IF u = t THEN "none" ELSE Requests[u]
      BY <2>1, <3>1 DEF Requests
    <3> QED BY <3>1, <3>2, OneRequest
  <2>7. answer' = [answer EXCEPT ![t] = IF op[t] = "close" THEN "nil" ELSE @]
    BY <1>9, NFieldsPositive DEF DropField
  <2>8. op[t] = "finish" => answer[t] \in Claim!FinishOutcomes /\ answer' = answer
    BY <2>1, <2>7 DEF IInv, AnswerInv
  <2>9. Claim!Return(t)
    BY <2>2, <2>3, <2>4, <2>5, <2>6, <2>7, <2>8 DEF Claim!Return, Requests, Secret
  <2> QED BY <2>9 DEF Claim!Next
<1> QED
  <2>1. ASSUME NEW t \in Threads, DropField(t)
        PROVE  wipe[t] < NFields \/ wipe[t] = NFields
    BY <2>1 DEF DropField
  <2> QED BY <1>1, <1>2, <1>3, <1>4, <1>5, <1>6, <1>7, <1>8, <1>9, <2>1 DEF Next, Step

\* For any number of threads, the mutex-level state implements the promise of
\* TerminalClaim: exactly one terminal call wins, the others are told so.
THEOREM Refinement == Spec => ImplementsTerminalClaim
<1>1. TypeOK /\ IInv /\ TypeOK' /\ IInv' /\ [Next]_vars => [Claim!Next]_(Claim!vars)
  BY RefinesNext
<1> QED BY RefinesInit, <1>1, Invariance, PTL DEF Spec, ImplementsTerminalClaim, Claim!Spec

=============================================================================
