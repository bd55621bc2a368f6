------------------------- MODULE SessionState_proofs -------------------------
(***************************************************************************)
(* Proofs about SessionState, for any number of threads.  The mutex makes  *)
(* its holder the only thread past Lock (MutexInv); where the holder is    *)
(* determines the flag and the key together (KeyInv), and which call it    *)
(* serves (CallInv).                                                       *)
(***************************************************************************)
EXTENDS SessionState, TLAPS

USE DEF Operations, LockedPoints, Points, Answers

\* Flag and key agree, as they do whenever no Close is at work.
Agree == isk = IF closed THEN "nil" ELSE "live"

MutexInv == \A t \in Threads : pc[t] \in LockedPoints <=> mu = t

KeyInv ==
  /\ mu = Nobody => Agree
  /\ \A t \in Threads :
       /\ pc[t] \in {"check", "unlock"} => Agree
       /\ pc[t] \in {"length", "derive", "zero"} => ~closed /\ isk = "live"
       /\ pc[t] = "drop" => ~closed /\ isk = "zeroed"
       /\ pc[t] = "mark" => ~closed /\ isk = "nil"

CallInv ==
  \A t \in Threads :
    /\ answer[t] # "torn"
    /\ answer[t] = "pending" <=> pc[t] \notin {"idle", "unlock"}
    /\ pc[t] = "length" => op[t] # "close"
    /\ pc[t] = "derive" => op[t] = "export"
    /\ pc[t] \in {"zero", "drop", "mark"} => op[t] = "close"

IInv == MutexInv /\ KeyInv /\ CallInv

-----------------------------------------------------------------------------
LEMMA TypeInit == Init => TypeOK
BY DEF Init, TypeOK

LEMMA TypeNext == TypeOK /\ [Next]_vars => TypeOK'
<1> SUFFICES ASSUME TypeOK, [Next]_vars PROVE TypeOK'
  OBVIOUS
<1> USE DEF TypeOK
<1>1. CASE UNCHANGED vars
  BY <1>1 DEF vars
<1>2. ASSUME NEW t \in Threads, NEW o \in Operations, Call(t, o) \/ CallOnNil(t, o)
      PROVE  TypeOK'
  BY <1>2 DEF Call, CallOnNil, Goto
<1>3. ASSUME NEW t \in Threads, CallOnZeroValue(t) \/ Lock(t)
      PROVE  TypeOK'
  BY <1>3 DEF CallOnZeroValue, Lock, Goto
<1>4. ASSUME NEW t \in Threads, Step(t) PROVE TypeOK'
  <2>1. CASE CheckClosed(t) BY <2>1 DEF CheckClosed, Goto
  <2>2. CASE CheckLength(t) BY <2>2 DEF CheckLength, Goto
  <2>3. CASE Derive(t)      BY <2>3 DEF Derive, Goto
  <2>4. CASE ZeroKey(t)     BY <2>4 DEF ZeroKey, Goto
  <2>5. CASE DropKey(t)     BY <2>5 DEF DropKey, Goto
  <2>6. CASE MarkClosed(t)  BY <2>6 DEF MarkClosed, Goto
  <2>7. CASE Unlock(t)      BY <2>7 DEF Unlock, Goto
  <2> QED BY <1>4, <2>1, <2>2, <2>3, <2>4, <2>5, <2>6, <2>7 DEF Step
<1> QED BY <1>1, <1>2, <1>3, <1>4 DEF Next

\* For any number of threads, the variables of a Session hold values of their
\* kinds; in particular no call panics on a length that HKDF cannot give.
THEOREM TypeCorrect == Spec => []TypeOK
BY TypeInit, TypeNext, PTL DEF Spec

-----------------------------------------------------------------------------
LEMMA InvInit == Init => IInv
BY NobodyIsNoThread DEF Init, IInv, MutexInv, KeyInv, CallInv, Agree

\* Locked points are entered by Lock and left by Unlock alone.
LEMMA MutexNext == TypeOK /\ MutexInv /\ [Next]_vars => MutexInv'
<1> SUFFICES ASSUME TypeOK, MutexInv, [Next]_vars PROVE MutexInv'
  OBVIOUS
<1> USE NobodyIsNoThread DEF TypeOK, MutexInv
<1>1. CASE UNCHANGED vars
  BY <1>1 DEF vars
<1>2. ASSUME NEW t \in Threads, NEW o \in Operations, Call(t, o) \/ CallOnNil(t, o)
      PROVE  MutexInv'
  BY <1>2 DEF Call, CallOnNil, Goto
<1>3. ASSUME NEW t \in Threads, CallOnZeroValue(t) \/ Lock(t)
      PROVE  MutexInv'
  BY <1>3 DEF CallOnZeroValue, Lock, Goto
<1>4. ASSUME NEW t \in Threads, Step(t) PROVE MutexInv'
  <2>1. CASE CheckClosed(t) BY <2>1 DEF CheckClosed, Goto
  <2>2. CASE CheckLength(t) BY <2>2 DEF CheckLength, Goto
  <2>3. CASE Derive(t)      BY <2>3 DEF Derive, Goto
  <2>4. CASE ZeroKey(t)     BY <2>4 DEF ZeroKey, Goto
  <2>5. CASE DropKey(t)     BY <2>5 DEF DropKey, Goto
  <2>6. CASE MarkClosed(t)  BY <2>6 DEF MarkClosed, Goto
  <2>7. CASE Unlock(t)      BY <2>7 DEF Unlock, Goto
  <2> QED BY <1>4, <2>1, <2>2, <2>3, <2>4, <2>5, <2>6, <2>7 DEF Step
<1> QED BY <1>1, <1>2, <1>3, <1>4 DEF Next

\* Each step of a call happens at the point, and serves the kind of call, that
\* it is for.
LEMMA CallNext == TypeOK /\ KeyInv /\ CallInv /\ [Next]_vars => CallInv'
<1> SUFFICES ASSUME TypeOK, KeyInv, CallInv, [Next]_vars PROVE CallInv'
  OBVIOUS
<1> USE DEF TypeOK, CallInv
<1>1. CASE UNCHANGED vars
  BY <1>1 DEF vars
<1>2. ASSUME NEW t \in Threads, NEW o \in Operations, Call(t, o) \/ CallOnNil(t, o)
      PROVE  CallInv'
  BY <1>2 DEF Call, CallOnNil, Goto
<1>3. ASSUME NEW t \in Threads, CallOnZeroValue(t) \/ Lock(t)
      PROVE  CallInv'
  BY <1>3 DEF CallOnZeroValue, Lock, Goto
<1>4. ASSUME NEW t \in Threads, Step(t) PROVE CallInv'
  <2>1. CASE CheckClosed(t) BY <2>1 DEF CheckClosed, Goto
  <2>2. CASE CheckLength(t) BY <2>2 DEF CheckLength, Goto
  <2>3. CASE Derive(t)      BY <2>3 DEF Derive, Goto, KeyInv
  <2>4. CASE ZeroKey(t)     BY <2>4 DEF ZeroKey, Goto
  <2>5. CASE DropKey(t)     BY <2>5 DEF DropKey, Goto
  <2>6. CASE MarkClosed(t)  BY <2>6 DEF MarkClosed, Goto
  <2>7. CASE Unlock(t)      BY <2>7 DEF Unlock, Goto
  <2> QED BY <1>4, <2>1, <2>2, <2>3, <2>4, <2>5, <2>6, <2>7 DEF Step
<1> QED BY <1>1, <1>2, <1>3, <1>4 DEF Next

\* The holder of the mutex works on flag and key, and no other thread is at a
\* point that depends on them.
LEMMA KeyNext == TypeOK /\ IInv /\ [Next]_vars => KeyInv'
<1> SUFFICES ASSUME TypeOK, IInv, [Next]_vars PROVE KeyInv'
  OBVIOUS
<1> USE NobodyIsNoThread DEF TypeOK, IInv, MutexInv, KeyInv, Agree
<1>1. CASE UNCHANGED vars
  BY <1>1 DEF vars
<1>2. ASSUME NEW t \in Threads, NEW o \in Operations, Call(t, o) \/ CallOnNil(t, o)
      PROVE  KeyInv'
  BY <1>2 DEF Call, CallOnNil, Goto
<1>3. ASSUME NEW t \in Threads, CallOnZeroValue(t) \/ Lock(t)
      PROVE  KeyInv'
  BY <1>3 DEF CallOnZeroValue, Lock, Goto
<1>4. ASSUME NEW t \in Threads, Step(t) PROVE KeyInv'
  <2>1. CASE CheckClosed(t) BY <2>1 DEF CheckClosed, Goto
  <2>2. CASE CheckLength(t) BY <2>2 DEF CheckLength, Goto
  <2>3. CASE Derive(t)      BY <2>3 DEF Derive, Goto
  <2>4. CASE ZeroKey(t)     BY <2>4 DEF ZeroKey, Goto
  <2>5. CASE DropKey(t)     BY <2>5 DEF DropKey, Goto
  <2>6. CASE MarkClosed(t)  BY <2>6 DEF MarkClosed, Goto
  <2>7. CASE Unlock(t)      BY <2>7 DEF Unlock, Goto
  <2> QED BY <1>4, <2>1, <2>2, <2>3, <2>4, <2>5, <2>6, <2>7 DEF Step
<1> QED BY <1>1, <1>2, <1>3, <1>4 DEF Next

\* The mutex, the key and the calls keep to their discipline in every
\* reachable state.
THEOREM Invariance == Spec => [](TypeOK /\ IInv)
<1>1. TypeOK /\ IInv /\ [Next]_vars => TypeOK' /\ IInv'
  BY TypeNext, MutexNext, KeyNext, CallNext DEF IInv
<1> QED BY TypeInit, InvInit, <1>1, PTL DEF Spec

\* For any number of threads, the flag and the key agree whenever nobody holds
\* the mutex: a closed Session has no key left, an open one has all of it.
THEOREM FlagAndKeyAgree == Spec => []FlagMatchesKey
<1>1. IInv => FlagMatchesKey
  BY DEF IInv, KeyInv, Agree, FlagMatchesKey
<1> QED BY <1>1, Invariance, PTL

\* For any number of threads, no Export reads a key that a Close is wiping.
THEOREM ExportsWholeKeys == Spec => []NoTornExport
<1>1. IInv => NoTornExport
  BY DEF IInv, CallInv, NoTornExport
<1> QED BY <1>1, Invariance, PTL

-----------------------------------------------------------------------------
\* The refinement mapping: a request is the operation of a call that is running.
Requests == [t \in Threads |-> IF pc[t] = "idle" THEN "none" ELSE op[t]]

LEMMA OneRequest ==
  ASSUME NEW f, NEW g, NEW t \in Threads, NEW v,
         f = [u \in Threads |-> f[u]], g = [u \in Threads |-> g[u]],
         \A u \in Threads : g[u] = IF u = t THEN v ELSE f[u]
  PROVE  g = [f EXCEPT ![t] = v]
OBVIOUS

\* Entering and leaving a call are what callers see of pc.
LEMMA SameRequests ==
  ASSUME op' = op, \A t \in Threads : (pc'[t] = "idle") = (pc[t] = "idle")
  PROVE  Requests' = Requests
BY DEF Requests

LEMMA RefinesInit == Init => Confirmed!Init
BY DEF Init, Confirmed!Init

\* Each step of the code is a step of the promise, or one callers do not see:
\* a call takes effect at the step that decides its answer.
LEMMA RefinesNext == TypeOK /\ IInv /\ [Next]_vars => [Confirmed!Next]_(Confirmed!vars)
<1> SUFFICES ASSUME TypeOK, IInv, [Next]_vars
             PROVE  Confirmed!Next \/ UNCHANGED Confirmed!vars
  OBVIOUS
<1> USE DEF TypeOK
<1>1. CASE UNCHANGED vars
  BY <1>1, SameRequests DEF vars, Confirmed!vars, Requests
<1>2. ASSUME NEW t \in Threads, NEW o \in Operations, Call(t, o)
      PROVE  Confirmed!Next
  <2>1. Requests[t] = "none" /\ Requests' = [Requests EXCEPT ![t] = o]
    <3>1. \A u \in Threads : /\ pc'[u] = IF u = t THEN "lock" ELSE pc[u]
                             /\ op'[u] = IF u = t THEN o ELSE op[u]
      BY <1>2 DEF Call, Goto
    <3>2. Requests[t] = "none"
      BY <1>2 DEF Call, Goto, Requests
    <3>3. \A u \in Threads : Requests'[u] = IF u = t THEN o ELSE Requests[u]
      BY <3>1 DEF Requests
    <3>4. Requests = [u \in Threads |-> Requests[u]] /\ Requests' = [u \in Threads |-> Requests'[u]]
      BY DEF Requests
    <3> QED BY <3>2, <3>3, <3>4, OneRequest
  <2>2. Confirmed!Request(t, o)
    BY <1>2, <2>1 DEF Call, Confirmed!Request, Requests
  <2> QED BY <2>2 DEF Confirmed!Next, Confirmed!Operations
<1>3. ASSUME NEW t \in Threads, NEW o \in Operations, CallOnNil(t, o) \/ CallOnZeroValue(t)
      PROVE  Confirmed!Next
  <2>1. Requests[t] = "none" /\ Requests' = Requests
    BY <1>3 DEF CallOnNil, CallOnZeroValue, Requests
  <2>2. \E r \in {"nil", "ErrInvalidInput"} : answer' = [answer EXCEPT ![t] = r]
    BY <1>3 DEF CallOnNil, CallOnZeroValue
  <2>3. Confirmed!Misuse(t)
    BY <1>3, <2>1, <2>2 DEF CallOnNil, CallOnZeroValue, Confirmed!Misuse, Requests
  <2> QED BY <2>3 DEF Confirmed!Next
<1>4. ASSUME NEW t \in Threads, Lock(t) \/ ZeroKey(t) \/ DropKey(t)
      PROVE  UNCHANGED Confirmed!vars
  <2>1. UNCHANGED <<closed, op, answer>>
    BY <1>4 DEF Lock, ZeroKey, DropKey
  <2>2. \A u \in Threads : (pc'[u] = "idle") = (pc[u] = "idle")
    BY <1>4 DEF Lock, ZeroKey, DropKey, Goto
  <2> QED BY <2>1, <2>2, SameRequests DEF Confirmed!vars, Requests
<1>5. ASSUME NEW t \in Threads, CheckClosed(t) \/ CheckLength(t) \/ Derive(t) \/ MarkClosed(t)
      PROVE  Confirmed!Next \/ UNCHANGED Confirmed!vars
  <2>1. op' = op /\ \A u \in Threads : (pc'[u] = "idle") = (pc[u] = "idle")
    BY <1>5 DEF CheckClosed, CheckLength, Derive, MarkClosed, Goto
  <2>2. Requests' = Requests
    BY <2>1, SameRequests
  <2>3. answer[t] = "pending" /\ Requests[t] = op[t]
    BY <1>5 DEF CheckClosed, CheckLength, Derive, MarkClosed, Goto, IInv, CallInv, Requests
  <2>4. CASE UNCHANGED <<closed, answer>>
    BY <2>2, <2>4 DEF Confirmed!vars, Requests
  <2>5. ASSUME NEW r \in {"key", "nil", "ErrInvalidInput", "ErrSessionClosed"},
               answer' = [answer EXCEPT ![t] = r],
               \/ op[t] = "export" /\ r = IF ~closed THEN "key" ELSE "ErrSessionClosed"
               \/ op[t] = "exportBadLength" /\ r = IF ~closed THEN "ErrInvalidInput" ELSE "ErrSessionClosed"
               \/ op[t] = "close" /\ r = "nil",
               ~closed' <=> ~closed /\ op[t] # "close"
        PROVE  Confirmed!Next
    <3>1. Confirmed!Effect(t)
      BY <2>2, <2>3, <2>5 DEF Confirmed!Effect, Requests
    <3> QED BY <3>1 DEF Confirmed!Next
  <2>6. CASE CheckClosed(t)
    <3>1. CASE closed
      <4>1. op[t] \in Operations
        OBVIOUS
      <4>2. /\ closed' = closed
            /\ answer' = [answer EXCEPT ![t] = IF op[t] = "close" THEN "nil" ELSE "ErrSessionClosed"]
        BY <2>6, <3>1 DEF CheckClosed
      <4> QED BY <2>5, <3>1, <4>1, <4>2
    <3>2. CASE ~closed
      BY <2>4, <2>6, <3>2 DEF CheckClosed
    <3> QED BY <3>1, <3>2
  <2>7. CASE CheckLength(t)
    <3>1. ~closed /\ closed' = closed
      BY <2>7 DEF CheckLength, Goto, IInv, KeyInv
    <3>2. CASE op[t] = "export"
      BY <2>4, <2>7, <3>1, <3>2 DEF CheckLength
    <3>3. CASE op[t] # "export"
      <4>1. op[t] = "exportBadLength" /\ answer' = [answer EXCEPT ![t] = "ErrInvalidInput"]
        BY <2>7, <3>3 DEF CheckLength
      <4> QED BY <2>5, <3>1, <4>1
    <3> QED BY <3>2, <3>3
  <2>8. CASE Derive(t)
    <3>1. ~closed /\ closed' = closed /\ isk = "live" /\ op[t] = "export"
      BY <2>8 DEF Derive, Goto, IInv, KeyInv, CallInv
    <3>2. answer' = [answer EXCEPT ![t] = "key"]
      BY <2>8, <3>1 DEF Derive
    <3> QED BY <2>5, <3>1, <3>2
  <2>9. CASE MarkClosed(t)
    <3>1. closed' /\ op[t] = "close" /\ answer' = [answer EXCEPT ![t] = "nil"]
      BY <2>9 DEF MarkClosed, Goto, IInv, CallInv
    <3> QED BY <2>5, <3>1
  <2> QED BY <1>5, <2>6, <2>7, <2>8, <2>9
<1>6. ASSUME NEW t \in Threads, Unlock(t) PROVE Confirmed!Next
  <2>1. \A u \in Threads : pc'[u] = IF u = t THEN "idle" ELSE pc[u]
    BY <1>6 DEF Unlock, Goto
  <2>2. Requests[t] # "none" /\ answer[t] # "pending"
    BY <1>6 DEF Unlock, Goto, Requests, IInv, CallInv
  <2>3. \A u \in Threads : Requests'[u] = IF u = t THEN "none" ELSE Requests[u]
    BY <1>6, <2>1 DEF Unlock, Requests
  <2>4. Requests = [u \in Threads |-> Requests[u]] /\ Requests' = [u \in Threads |-> Requests'[u]]
    BY DEF Requests
  <2>5. Requests' = [Requests EXCEPT ![t] = "none"]
    BY <2>3, <2>4, OneRequest
  <2>6. Confirmed!Return(t)
    BY <1>6, <2>2, <2>5 DEF Unlock, Confirmed!Return, Requests
  <2> QED BY <2>6 DEF Confirmed!Next
<1> QED BY <1>1, <1>2, <1>3, <1>4, <1>5, <1>6 DEF Next, Step

\* For any number of threads, Export and Close are linearizable: the
\* mutex-level Session implements ConfirmedSession.
THEOREM Refinement == Spec => ImplementsConfirmedSession
BY RefinesInit, RefinesNext, Invariance, PTL
   DEF Spec, ImplementsConfirmedSession, Confirmed!Spec
=============================================================================
