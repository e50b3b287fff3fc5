-------------------- MODULE TcpClientSyncAccessorProofs --------------------
(***************************************************************************)
(* Proofs about TcpClientSyncAccessor: the client is used by one caller at *)
(* a time, and its calls are atomic, for any number of callers.            *)
(***************************************************************************)
EXTENDS TcpClientSyncAccessor, TLAPS

(***************************************************************************)
(* The inductive invariant.  Exclusive alone says nothing of a handler,    *)
(* which holds the lock outside its calls too, or of the depth.            *)
(***************************************************************************)

(* A handler makes its calls while it holds the lock. *)
HandlerHolds == \A h \in Handlers : pc[h] # "idle" => lock = h

(* Another owner of the lock is in the middle of a call. *)
OwnerInside ==
  lock \notin Handlers \cup {Nobody} =>
    \E t \in Callers : lock = Agent(t) /\ pc[t] \in Inside

DepthCounts ==
  /\ lock = Nobody => depth = 0
  /\ lock # Nobody /\ (\A t \in Callers : pc[t] \notin Inside) => depth = 1
  /\ \A t \in Callers : pc[t] \in Inside => depth = IF t \in Handlers THEN 2 ELSE 1

(* Between the test of _ctx and the new context nobody else makes one. *)
StillUnused ==
  \A t \in Callers : pc[t] = "create" => conn = "none" /\ op[t] = "connect"

(* Host names are for connect(), and run_local() is not for the other core. *)
OpFits ==
  \A t \in Callers : /\ pc[t] = "resolve" => op[t] = "connect"
                     /\ op[t] = "local" => t \in Local

IInv ==
  /\ TypeOK
  /\ Exclusive
  /\ HandlerHolds
  /\ OwnerInside
  /\ DepthCounts
  /\ StillUnused
  /\ OpFits

-----------------------------------------------------------------------------

LEMMA AgentFacts ==
  ASSUME NEW t \in Callers
  PROVE  /\ Agent(t) # Nobody
         /\ \A u \in Local : Agent(t) = u => t = u
BY AgentsAssumption DEF Agent, Callers

(* Who does not take part in a call leaves the callers as they are. *)
LEMMA NobodyInside ==
  ASSUME IInv,
         \/ lock = Nobody
         \/ \E h \in Handlers : lock = h /\ pc[h] \notin Inside
  PROVE  \A t \in Callers : pc[t] \notin Inside
<1> SUFFICES ASSUME NEW t \in Callers, pc[t] \in Inside
             PROVE  FALSE
  OBVIOUS
<1>1. lock = Agent(t)
  BY DEF IInv, Exclusive
<1>2. lock # Nobody
  BY <1>1, AgentFacts
<1>3. PICK h \in Handlers : lock = h /\ pc[h] \notin Inside
  BY <1>2
<1>4. h \in Local
  BY AgentsAssumption
<1>5. t = h
  BY <1>1, <1>3, <1>4, AgentFacts
<1> QED
  BY <1>3, <1>5

LEMMA InitInv == Init => IInv
<1> SUFFICES ASSUME Init PROVE IInv
  OBVIOUS
<1>1. TypeOK
  BY DEF Init, TypeOK, Inside, Places, Results, Ops, ConnStates
<1>2. \A t \in Callers : pc[t] \notin Inside
  BY DEF Init, Inside
<1>3. Exclusive /\ StillUnused
  BY <1>2 DEF Exclusive, StillUnused, Inside
<1>6. OpFits
  BY DEF Init, OpFits
<1>4. HandlerHolds
  BY AgentsAssumption DEF Init, HandlerHolds, Callers
<1>5. OwnerInside /\ DepthCounts
  BY <1>2 DEF Init, OwnerInside, DepthCounts
<1> QED
  BY <1>1, <1>3, <1>4, <1>5, <1>6 DEF IInv

-----------------------------------------------------------------------------
(***************************************************************************)
(* One lemma per kind of step.                                             *)
(***************************************************************************)

(* The context's own steps: handlers, shutdown() and lwIP. *)
LEMMA ContextInv ==
  ASSUME IInv,
         \/ \E h \in Handlers : HandlerStart(h) \/ HandlerReturn(h) \/ Stop(h) \/ Shutdown(h)
         \/ \E s \in ConnStates : LwipEvent(s)
  PROVE  IInv'
<1>1. \A t \in Callers : pc[t] \notin Inside
  BY NobodyInside DEF Inside, HandlerStart, HandlerReturn, Stop, Shutdown, LwipEvent
<1>2. pc' = pc /\ op' = op /\ result' = result
  BY DEF HandlerStart, HandlerReturn, Stop, Shutdown, LwipEvent, callVars
<1>3. Exclusive' /\ StillUnused'
  BY <1>1, <1>2 DEF Exclusive, StillUnused, Inside
<1>9. OpFits'
  BY <1>2 DEF IInv, OpFits
<1>4. ASSUME NEW h \in Handlers, HandlerStart(h)
      PROVE  TypeOK' /\ HandlerHolds' /\ OwnerInside' /\ DepthCounts'
  <2>1. lock = Nobody /\ lock' = h /\ depth = 0 /\ depth' = 1 /\ conn' = conn /\ pc[h] = "idle"
    BY <1>4 DEF HandlerStart, Lock, IInv, DepthCounts
  <2>2. h # Nobody /\ h \in Callers
    BY AgentsAssumption DEF Callers
  <2>3. TypeOK'
    BY <1>2, <2>1, <2>2 DEF IInv, TypeOK
  <2>4. HandlerHolds'
    BY <1>2, <2>1, AgentsAssumption DEF IInv, HandlerHolds, Callers
  <2> QED
    BY <1>1, <1>2, <2>1, <2>2, <2>3, <2>4 DEF OwnerInside, DepthCounts
<1>5. ASSUME NEW h \in Handlers, HandlerReturn(h)
      PROVE  TypeOK' /\ HandlerHolds' /\ OwnerInside' /\ DepthCounts'
  <2>1. h # Nobody /\ h \in Callers
    BY AgentsAssumption DEF Callers
  <2>2. lock = h /\ pc[h] = "idle" /\ conn' = conn
    BY <1>5 DEF HandlerReturn
  <2>3. depth = 1
    BY <1>1, <2>1, <2>2 DEF IInv, DepthCounts
  <2>4. lock' = Nobody /\ depth' = 0
    BY <1>5, <2>3 DEF HandlerReturn, Unlock
  <2>5. TypeOK'
    BY <1>2, <2>2, <2>4 DEF IInv, TypeOK
  <2>6. HandlerHolds'
    BY <1>2, <2>2 DEF IInv, HandlerHolds
  <2> QED
    BY <1>1, <1>2, <2>4, <2>5, <2>6 DEF OwnerInside, DepthCounts
<1>6. ASSUME lock' = lock, depth' = depth, conn' \in ConnStates
      PROVE  TypeOK' /\ HandlerHolds' /\ OwnerInside' /\ DepthCounts'
  BY <1>2, <1>6 DEF IInv, TypeOK, HandlerHolds, OwnerInside, DepthCounts, Agent
<1>7. ASSUME NEW h \in Handlers, Stop(h) \/ Shutdown(h)
      PROVE  lock' = lock /\ depth' = depth /\ conn' \in ConnStates
  BY <1>7 DEF Stop, Shutdown, lockVars, ConnStates
<1>8. ASSUME NEW s \in ConnStates, LwipEvent(s)
      PROVE  lock' = lock /\ depth' = depth /\ conn' \in ConnStates
  BY <1>8 DEF LwipEvent, lockVars
<1> QED
  BY <1>3, <1>4, <1>5, <1>6, <1>7, <1>8, <1>9 DEF IInv

(* A call enters the client with the lock. *)
LEMMA EnterInv ==
  ASSUME IInv,
         \/ \E t \in Local : CtxLock(t)
         \/ \E t \in Remote : OnExecute(t)
  PROVE  IInv'
<1>1. PICK t \in Callers :
        /\ MayLock(Agent(t)) /\ lock' = Agent(t) /\ depth' = depth + 1
        /\ pc' = [pc EXCEPT ![t] = "run"]
        /\ op' = op /\ result' = result /\ conn' = conn
        /\ \/ t \in Local /\ pc[t] = "lock"
           \/ t \in Remote /\ t \notin Local /\ lock = Nobody
  BY AgentsAssumption DEF CtxLock, OnExecute, Lock, Goto, Agent, Callers, MayLock
<1>2. \/ lock = Nobody
      \/ t \in Local /\ lock = t /\ pc[t] = "lock"
  BY <1>1 DEF MayLock, Agent
<1>3. \A u \in Callers : pc[u] \notin Inside
  <2>1. CASE lock = Nobody
    BY <2>1, NobodyInside
  <2>2. CASE t \in Local /\ lock = t /\ pc[t] = "lock"
    <3> SUFFICES ASSUME NEW u \in Callers, pc[u] \in Inside PROVE FALSE
      OBVIOUS
    <3>1. Agent(u) = t
      BY <2>2 DEF IInv, Exclusive
    <3>2. u = t
      BY <2>2, <3>1, AgentFacts
    <3> QED
      BY <2>2, <3>2 DEF Inside
  <2> QED
    BY <1>2, <2>1, <2>2
<1>4. pc \in [Callers -> Places]
  BY DEF IInv, TypeOK
<1>5. pc'[t] = "run" /\ \A u \in Callers : u # t => pc'[u] = pc[u]
  BY <1>1, <1>4
<1>6. lock = Nobody \/ t \in Handlers
  <2> SUFFICES ASSUME lock # Nobody, t \notin Handlers PROVE FALSE
    OBVIOUS
  <2>1. lock = t
    BY <1>2
  <2>2. \E u \in Callers : pc[u] \in Inside
    BY <2>1 DEF IInv, OwnerInside
  <2> QED
    BY <1>3, <2>2
<1>7. t \in Handlers => lock = t
  <2> SUFFICES ASSUME t \in Handlers PROVE lock = t
    OBVIOUS
  <2>1. pc[t] = "lock"
    BY <1>1, AgentsAssumption
  <2> QED
    BY <2>1 DEF IInv, HandlerHolds
<1>8. depth' = IF t \in Handlers THEN 2 ELSE 1
  <2>1. CASE t \in Handlers
    <3>1. lock # Nobody
      BY <1>7, <2>1, AgentsAssumption DEF Callers
    <3>2. depth = 1
      BY <1>3, <3>1 DEF IInv, DepthCounts
    <3> QED
      BY <1>1, <2>1, <3>2
  <2>2. CASE t \notin Handlers
    BY <1>1, <1>6, <2>2 DEF IInv, DepthCounts
  <2> QED
    BY <2>1, <2>2
<1>9. TypeOK'
  <2>1. Agent(t) \in Callers \cup {Worker}
    BY DEF Agent
  <2>2. pc' \in [Callers -> Places]
    BY <1>1, <1>4 DEF Inside, Places
  <2> QED
    BY <1>1, <1>8, <2>1, <2>2 DEF IInv, TypeOK
<1>10. Exclusive'
  BY <1>1, <1>3, <1>5 DEF Exclusive, Agent
<1>11. HandlerHolds'
  <2> SUFFICES ASSUME NEW h \in Handlers, pc'[h] # "idle" PROVE lock' = h
    BY DEF HandlerHolds
  <2>1. h \in Callers /\ h \in Local
    BY AgentsAssumption DEF Callers
  <2>2. CASE h = t
    BY <1>1, <2>1, <2>2 DEF Agent
  <2>3. CASE h # t
    <3>1. lock = h
      BY <1>5, <2>1, <2>3 DEF IInv, HandlerHolds
    <3>2. h # Nobody
      BY <2>1, AgentsAssumption
    <3> QED
      BY <1>2, <2>3, <3>1, <3>2
  <2> QED
    BY <2>2, <2>3
<1>12. OwnerInside'
  BY <1>1, <1>5 DEF OwnerInside, Inside, Agent
<1>13. DepthCounts'
  <2>1. lock' # Nobody
    BY <1>1, AgentFacts
  <2>2. \A u \in Callers : pc'[u] \in Inside => u = t
    BY <1>3, <1>5
  <2>3. pc'[t] \in Inside
    BY <1>5 DEF Inside
  <2> QED
    BY <1>8, <2>1, <2>2, <2>3 DEF DepthCounts
<1>14. StillUnused'
  BY <1>1, <1>3, <1>5 DEF StillUnused, Inside
<1>15. OpFits'
  BY <1>1, <1>5 DEF IInv, OpFits
<1> QED
  BY <1>9, <1>10, <1>11, <1>12, <1>13, <1>14, <1>15 DEF IInv

(* A call goes on inside the client: only its own place, its answer and    *)
(* the client change.                                                      *)
LEMMA InsideInv ==
  ASSUME IInv, NEW t \in Callers,
         TsStatus(t) \/ TsConnectTest(t) \/ TsConnectCreate(t) \/ CallMe(t)
  PROVE  IInv'
<1>1. lock' = lock /\ depth' = depth /\ op' = op
  BY DEF TsStatus, TsConnectTest, TsConnectCreate, CallMe, Answer, lockVars
<1>2. /\ pc[t] \in {"run", "create"}
      /\ pc' = [pc EXCEPT ![t] = "create"] \/ pc' = [pc EXCEPT ![t] = "end"]
  BY DEF TsStatus, TsConnectTest, TsConnectCreate, CallMe, Answer, Goto
<1>3. pc \in [Callers -> Places]
  BY DEF IInv, TypeOK
<1>4. /\ pc[t] \in Inside /\ pc'[t] \in {"create", "end"}
      /\ \A u \in Callers : u # t => pc'[u] = pc[u]
      /\ pc' \in [Callers -> Places]
  BY <1>2, <1>3 DEF Inside, Places
<1>5. pc'[t] \in Inside
  BY <1>4 DEF Inside
<1>6. \A u \in Callers : pc'[u] \in Inside <=> pc[u] \in Inside
  BY <1>4, <1>5
<1>7. conn' \in ConnStates
  BY DEF IInv, TypeOK, TsStatus, TsConnectTest, TsConnectCreate, CallMe, ConnStates
<1>8. result' \in [Callers -> Results]
  BY DEF IInv, TypeOK, TsStatus, TsConnectTest, TsConnectCreate, CallMe, Answer,
         ConnStates, State, Statuses, Results
<1>9. TypeOK'
  BY <1>1, <1>4, <1>7, <1>8 DEF IInv, TypeOK
<1>10. Exclusive' /\ OwnerInside' /\ DepthCounts'
  BY <1>1, <1>6 DEF IInv, Exclusive, OwnerInside, DepthCounts, Agent
<1>11. HandlerHolds'
  BY <1>1, <1>2, <1>4, AgentsAssumption DEF IInv, HandlerHolds, Callers
<1>12. StillUnused'
  <2> SUFFICES ASSUME NEW u \in Callers, pc'[u] = "create"
               PROVE  conn' = "none" /\ op'[u] = "connect"
    BY DEF StillUnused
  <2>1. u = t
    BY <1>4, <1>6 DEF IInv, Exclusive, Inside
  <2>2. TsConnectTest(t) /\ ~InUse
    BY <1>3, <2>1 DEF TsStatus, TsConnectTest, TsConnectCreate, CallMe, Answer, Goto
  <2> QED
    BY <1>1, <2>1, <2>2 DEF TsConnectTest, InUse
<1>13. OpFits'
  BY <1>1, <1>4 DEF IInv, OpFits
<1> QED
  BY <1>9, <1>10, <1>11, <1>12, <1>13 DEF IInv

(* A call leaves the client and gives the lock back. *)
LEMMA LeaveInv ==
  ASSUME IInv, NEW t \in Callers, CtxUnlock(t)
  PROVE  IInv'
<1>1. pc \in [Callers -> Places]
  BY DEF IInv, TypeOK
<1>2. /\ pc[t] = "end" /\ pc' = [pc EXCEPT ![t] = "return"]
      /\ op' = op /\ result' = result /\ conn' = conn
      /\ depth' = depth - 1 /\ lock' = IF depth = 1 THEN Nobody ELSE lock
  BY DEF CtxUnlock, Goto, Unlock
<1>3. /\ pc'[t] = "return" /\ \A u \in Callers : u # t => pc'[u] = pc[u]
      /\ pc' \in [Callers -> Places]
  BY <1>1, <1>2 DEF Inside, Places
<1>4. lock = Agent(t) /\ \A u \in Callers : u # t => pc[u] \notin Inside
  BY <1>2 DEF IInv, Exclusive, Inside
<1>5. \A u \in Callers : pc'[u] \notin Inside
  BY <1>3, <1>4 DEF Inside
<1>6. \/ t \in Handlers /\ depth = 2 /\ depth' = 1 /\ lock' = t /\ lock = t
      \/ t \notin Handlers /\ depth' = 0 /\ lock' = Nobody
  <2>1. depth = IF t \in Handlers THEN 2 ELSE 1
    BY <1>2 DEF IInv, DepthCounts, Inside
  <2>2. CASE t \in Handlers
    BY <1>2, <1>4, <2>1, <2>2, AgentsAssumption DEF Agent
  <2>3. CASE t \notin Handlers
    BY <1>2, <2>1, <2>3
  <2> QED
    BY <2>2, <2>3
<1>7. TypeOK'
  BY <1>2, <1>3, <1>6 DEF IInv, TypeOK
<1>8. Exclusive' /\ StillUnused'
  BY <1>5 DEF Exclusive, StillUnused, Inside
<1>9. HandlerHolds'
  <2> SUFFICES ASSUME NEW h \in Handlers, pc'[h] # "idle" PROVE lock' = h
    BY DEF HandlerHolds
  <2>1. h \in Callers /\ h \in Local
    BY AgentsAssumption DEF Callers
  <2>2. CASE h = t
    BY <1>6, <2>2
  <2>3. CASE h # t
    <3>1. lock = h
      BY <1>3, <2>1, <2>3 DEF IInv, HandlerHolds
    <3> QED
      BY <1>4, <2>1, <2>3, <3>1, AgentFacts
  <2> QED
    BY <2>2, <2>3
<1>10. OwnerInside'
  BY <1>6 DEF OwnerInside
<1>11. DepthCounts'
  BY <1>5, <1>6, AgentsAssumption DEF DepthCounts, Callers
<1>12. OpFits'
  BY <1>2, <1>3 DEF IInv, OpFits
<1> QED
  BY <1>7, <1>8, <1>9, <1>10, <1>11, <1>12 DEF IInv

(* A call begins or returns, looks up a host name, or its payload is       *)
(* refused: outside the client nothing but the caller's own place changes. *)
LEMMA OutsideInv ==
  ASSUME IInv, NEW t \in Callers,
         \/ \E o \in Ops : Call(t, o)
         \/ ConnectHost(t)
         \/ HostByName(t)
         \/ t \in Remote /\ ExecuteFails(t)
         \/ Return(t)
  PROVE  IInv'
<1>1. pc \in [Callers -> Places]
  BY DEF IInv, TypeOK
<1>2. /\ pc[t] \in {"idle", "resolve", "wait", "return"}
      /\ lock' = lock /\ depth' = depth /\ conn' = conn
  BY DEF Call, ConnectHost, HostByName, ExecuteFails, Return, MayCall, lockVars
<1>3. PICK l \in {"idle", "resolve", "lock", "wait", "return"} : pc' = [pc EXCEPT ![t] = l]
  <2>1. Way(t) \in {"lock", "wait"}
    BY DEF Way
  <2>2. \/ Goto(t, Way(t)) \/ Goto(t, "resolve")
        \/ Goto(t, "return") \/ Goto(t, "idle")
    BY DEF Call, ConnectHost, HostByName, ExecuteFails, Return
  <2> QED
    BY <2>1, <2>2 DEF Goto
<1>4. /\ pc'[t] \notin Inside /\ pc[t] \notin Inside
      /\ \A u \in Callers : u # t => pc'[u] = pc[u]
      /\ pc' \in [Callers -> Places]
  BY <1>1, <1>2, <1>3 DEF Inside, Places
<1>5. \A u \in Callers : pc'[u] \in Inside <=> pc[u] \in Inside
  BY <1>4
<1>6. op' \in [Callers -> Ops]
  BY DEF Ops, IInv, TypeOK, Call, ConnectHost, HostByName, ExecuteFails, Return
<1>7. result' \in [Callers -> Results]
  BY DEF IInv, TypeOK, Call, ConnectHost, HostByName, ExecuteFails, Return, Statuses, Results
<1>8. TypeOK'
  BY <1>2, <1>4, <1>6, <1>7 DEF IInv, TypeOK
<1>9. Exclusive' /\ OwnerInside' /\ DepthCounts'
  BY <1>2, <1>5 DEF IInv, Exclusive, OwnerInside, DepthCounts, Agent
<1>10. StillUnused'
  <2>1. \A u \in Callers : u # t => op'[u] = op[u]
    BY DEF Call, ConnectHost, HostByName, ExecuteFails, Return, IInv, TypeOK
  <2> QED
    BY <1>2, <1>4, <2>1 DEF IInv, StillUnused, Inside
<1>11. HandlerHolds'
  <2> SUFFICES ASSUME NEW h \in Handlers, pc'[h] # "idle" PROVE lock' = h
    BY DEF HandlerHolds
  <2>1. h \in Callers
    BY AgentsAssumption DEF Callers
  <2>2. CASE h # t
    BY <1>2, <1>4, <2>1, <2>2 DEF IInv, HandlerHolds
  <2>3. CASE h = t /\ pc[h] # "idle"
    BY <1>2, <2>3 DEF IInv, HandlerHolds
  <2>4. CASE h = t /\ pc[h] = "idle"
    BY <1>2, <2>4 DEF MayCall, Call, ConnectHost, HostByName, ExecuteFails, Return
  <2> QED
    BY <2>2, <2>3, <2>4
<1>12. OpFits'
  <2>1. \A u \in Callers : u # t => op'[u] = op[u]
    BY DEF Call, ConnectHost, HostByName, ExecuteFails, Return, IInv, TypeOK
  <2>2. CASE ConnectHost(t)
    BY <1>4, <2>1, <2>2 DEF ConnectHost, IInv, OpFits, TypeOK
  <2>3. ASSUME NEW o \in Ops, Call(t, o)
        PROVE  OpFits'
    <3>1. op'[t] = o /\ (o = "local" => t \in Local) /\ pc'[t] # "resolve"
      BY <1>1, <2>3 DEF Call, Goto, Way, IInv, TypeOK
    <3> QED
      BY <1>4, <2>1, <3>1 DEF IInv, OpFits
  <2>4. CASE HostByName(t) \/ ExecuteFails(t) \/ Return(t)
    <3>1. op' = op /\ pc'[t] # "resolve"
      BY <1>1, <2>4 DEF HostByName, ExecuteFails, Return, Goto, Way
    <3> QED
      BY <1>4, <3>1 DEF IInv, OpFits
  <2> QED
    BY <2>2, <2>3, <2>4
<1> QED
  BY <1>8, <1>9, <1>10, <1>11, <1>12 DEF IInv

LEMMA NextInv == IInv /\ [Next]_vars => IInv'
<1> SUFFICES ASSUME IInv, [Next]_vars PROVE IInv'
  OBVIOUS
<1>1. CASE UNCHANGED vars
  BY <1>1 DEF vars, lockVars, callVars, IInv, TypeOK, Exclusive, HandlerHolds,
              OwnerInside, DepthCounts, StillUnused, OpFits, Agent
<1>2. ASSUME NEW t \in Callers, (\E o \in Ops : Call(t, o)) \/ ConnectHost(t) \/ Proceed(t)
      PROVE  IInv'
  BY <1>2, InsideInv, LeaveInv, OutsideInv DEF Proceed
<1>3. ASSUME NEW t \in Remote, ExecuteFails(t)
      PROVE  IInv'
  BY <1>3, OutsideInv DEF Callers
<1> QED
  BY <1>1, <1>2, <1>3, EnterInv, ContextInv DEF Next

(* The invariant holds in every reachable state. *)
THEOREM Invariance == Spec => []IInv
BY InitInv, NextInv, PTL DEF Spec

(* Every variable keeps its type; in particular the lock is held at most   *)
(* twice, by a handler that calls the accessor.                            *)
THEOREM TypeCorrect == Spec => []TypeOK
<1>1. IInv => TypeOK
  BY DEF IInv
<1> QED
  BY <1>1, Invariance, PTL

(* status() and connect() of one caller never overlap those of another     *)
(* inside the client, for any number of callers on either core.            *)
THEOREM MutualExclusion == Spec => []Exclusive
<1>1. IInv => Exclusive
  BY DEF IInv
<1> QED
  BY <1>1, Invariance, PTL

-----------------------------------------------------------------------------
(***************************************************************************)
(* Refinement.  Phase follows pc: what matters of a step is the phase of   *)
(* the place it goes to.                                                   *)
(***************************************************************************)

LEMMA PhaseStep ==
  ASSUME IInv, NEW t \in Callers, NEW l, Goto(t, l)
  PROVE  /\ Phase[t] = PhaseOf(pc[t])
         /\ Phase' = [Phase EXCEPT ![t] = PhaseOf(l)]
<1>1. pc \in [Callers -> Places]
  BY DEF IInv, TypeOK
<1>2. pc' = [pc EXCEPT ![t] = l]
  BY DEF Goto
<1>3. Phase = [u \in Callers |-> PhaseOf(pc[u])]
  BY DEF Phase
<1>4. Phase' = [u \in Callers |-> PhaseOf(pc'[u])]
  BY DEF Phase, PhaseOf
<1>5. \A u \in Callers : pc'[u] = IF u = t THEN l ELSE pc[u]
  BY <1>1, <1>2
<1>6. [Phase EXCEPT ![t] = PhaseOf(l)]
        = [u \in Callers |-> IF u = t THEN PhaseOf(l) ELSE PhaseOf(pc[u])]
  BY <1>3
<1>7. [u \in Callers |-> PhaseOf(pc'[u])]
        = [u \in Callers |-> IF u = t THEN PhaseOf(l) ELSE PhaseOf(pc[u])]
  BY <1>5
<1> QED
  BY <1>3, <1>4, <1>6, <1>7

LEMMA PhaseValues ==
  /\ PhaseOf("idle") = "idle" /\ PhaseOf("resolve") = "called"
  /\ PhaseOf("lock") = "called" /\ PhaseOf("wait") = "called"
  /\ PhaseOf("run") = "called" /\ PhaseOf("create") = "called"
  /\ PhaseOf("end") = "answered" /\ PhaseOf("return") = "answered"
BY DEF PhaseOf

(* A step between two places of the same phase is not seen. *)
LEMMA SamePhase ==
  ASSUME IInv, NEW t \in Callers, NEW l, Goto(t, l), PhaseOf(l) = PhaseOf(pc[t])
  PROVE  Phase' = Phase
<1>1. Phase[t] = PhaseOf(l) /\ Phase' = [Phase EXCEPT ![t] = PhaseOf(l)]
  BY PhaseStep
<1>2. Phase = [u \in Callers |-> PhaseOf(pc[u])]
  BY DEF Phase
<1> QED
  BY <1>1, <1>2

(* Answering is the moment at which a call takes effect. *)
LEMMA AnswerEffect ==
  ASSUME IInv, NEW t \in Callers, pc[t] \in {"run", "create"}, NEW a, Answer(t, a)
  PROVE  Atomic!Effect(t, conn', a)
<1>1. Goto(t, "end") /\ result' = [result EXCEPT ![t] = a] /\ op' = op
  BY DEF Answer
<1>2. Phase[t] = PhaseOf(pc[t]) /\ Phase' = [Phase EXCEPT ![t] = PhaseOf("end")]
  BY <1>1, PhaseStep
<1>3. Phase[t] = "called" /\ Phase' = [Phase EXCEPT ![t] = "answered"]
  BY <1>2, PhaseValues
<1> QED
  BY <1>1, <1>3 DEF Atomic!Effect

LEMMA ProceedStep ==
  ASSUME IInv, NEW t \in Callers, Proceed(t)
  PROVE  \/ Atomic!Status(t) \/ Atomic!Connect(t) \/ Atomic!RunLocal(t)
         \/ Atomic!Refuse(t) \/ Atomic!End(t)
         \/ UNCHANGED <<conn, Phase, op, result>>
<1>1. CASE TsStatus(t)
  <2>1. pc[t] = "run" /\ op[t] = "status" /\ conn' = conn
    BY <1>1 DEF TsStatus
  <2>2. PICK a \in Atomic!Shown(conn) : Answer(t, a)
    BY <1>1 DEF TsStatus, State, Statuses, Atomic!Shown, Atomic!Statuses,
                IInv, TypeOK, ConnStates
  <2>3. Atomic!Effect(t, conn', a)
    BY <2>1, <2>2, AnswerEffect
  <2> QED
    BY <2>1, <2>3 DEF Atomic!Status
<1>2. CASE TsConnectTest(t) /\ InUse
  <2>1. pc[t] = "run" /\ op[t] = "connect" /\ conn' = conn /\ conn # "none"
        /\ Answer(t, "in_use")
    BY <1>2 DEF TsConnectTest, InUse
  <2>2. Atomic!Effect(t, conn', "in_use")
    BY <2>1, AnswerEffect
  <2> QED
    BY <2>1, <2>2 DEF Atomic!Connect
<1>3. CASE TsConnectTest(t) /\ ~InUse
  <2>1. /\ pc[t] = "run" /\ Goto(t, "create")
        /\ op' = op /\ result' = result /\ conn' = conn
    BY <1>3 DEF TsConnectTest
  <2>2. Phase' = Phase
    BY <2>1, SamePhase, PhaseValues
  <2> QED
    BY <2>1, <2>2
<1>4. CASE TsConnectCreate(t)
  <2>1. pc[t] = "create" /\ conn = "none" /\ op[t] = "connect"
    BY <1>4 DEF TsConnectCreate, IInv, StillUnused
  <2>2. \/ conn' = "syn_sent" /\ Answer(t, "ok")
        \/ conn' = "none" /\ Answer(t, "failed")
    BY <1>4, <2>1 DEF TsConnectCreate
  <2>3. \/ Atomic!Effect(t, "syn_sent", "ok")
        \/ Atomic!Effect(t, "none", "failed")
    BY <2>1, <2>2, AnswerEffect
  <2> QED
    BY <2>1, <2>3 DEF Atomic!Connect
<1>5. CASE CtxUnlock(t)
  <2>1. /\ pc[t] = "end" /\ Goto(t, "return")
        /\ op' = op /\ result' = result /\ conn' = conn
    BY <1>5 DEF CtxUnlock
  <2>2. Phase' = Phase
    BY <2>1, SamePhase, PhaseValues
  <2> QED
    BY <2>1, <2>2
<1>6. CASE Return(t)
  <2>1. /\ pc[t] = "return" /\ Goto(t, "idle") /\ op' = op /\ conn' = conn
        /\ result' = [result EXCEPT ![t] = "nothing"]
    BY <1>6 DEF Return
  <2>2. Phase[t] = "answered" /\ Phase' = [Phase EXCEPT ![t] = "idle"]
    BY <2>1, PhaseStep, PhaseValues
  <2> QED
    BY <2>1, <2>2 DEF Atomic!End
<1>7. CASE CallMe(t)
  <2>1. pc[t] = "run" /\ op[t] = "local" /\ Answer(t, "done")
    BY <1>7 DEF CallMe
  <2>2. conn' \in {conn, "none", "syn_sent", "stopped"}
    BY <1>7 DEF CallMe
  <2>3. Atomic!Effect(t, conn', "done")
    BY <2>1, AnswerEffect
  <2> QED
    BY <2>1, <2>2, <2>3 DEF Atomic!RunLocal
<1>8. CASE HostByName(t) /\ Goto(t, Way(t))
  <2>1. pc[t] = "resolve" /\ op' = op /\ conn' = conn
    BY <1>8 DEF HostByName
  <2>2. Way(t) \in {"lock", "wait"}
    BY DEF Way
  <2>3. Phase' = Phase
    BY <1>8, <2>1, <2>2, SamePhase, PhaseValues
  <2>4. ~Goto(t, "return")
    BY <1>8, <2>2 DEF Goto, IInv, TypeOK
  <2>5. result' = result
    BY <1>8, <2>4 DEF HostByName
  <2> QED
    BY <2>1, <2>3, <2>5
<1>9. CASE HostByName(t) /\ ~Goto(t, Way(t))
  <2>1. /\ pc[t] = "resolve" /\ Goto(t, "return") /\ op' = op /\ conn' = conn
        /\ result' = [result EXCEPT ![t] = "timeout"]
    BY <1>9 DEF HostByName
  <2>2. Phase[t] = "called" /\ Phase' = [Phase EXCEPT ![t] = "answered"]
    BY <2>1, PhaseStep, PhaseValues
  <2>3. op[t] = "connect"
    BY <2>1 DEF IInv, OpFits
  <2> QED
    BY <2>1, <2>2, <2>3 DEF Atomic!Refuse, Atomic!Effect
<1> QED
  BY <1>1, <1>2, <1>3, <1>4, <1>5, <1>6, <1>7, <1>8, <1>9 DEF Proceed, TsConnectTest

LEMMA AtomicStep ==
  ASSUME IInv, [Next]_vars
  PROVE  [Atomic!Next]_(Atomic!vars)
<1>1. ASSUME NEW t \in Callers, NEW o \in Ops, Call(t, o)
      PROVE  Atomic!Next
  <2>1. /\ pc[t] = "idle" /\ op' = [op EXCEPT ![t] = o]
        /\ result' = result /\ conn' = conn
        /\ Goto(t, "lock") \/ Goto(t, "wait")
    BY <1>1 DEF Call, MayCall, Way
  <2>2. Phase[t] = "idle" /\ Phase' = [Phase EXCEPT ![t] = "called"]
    BY <2>1, PhaseStep, PhaseValues
  <2>3. Atomic!Begin(t, o)
    BY <2>1, <2>2 DEF Atomic!Begin
  <2> QED
    BY <2>3 DEF Atomic!Next, Atomic!Requests, Ops
<1>7. ASSUME NEW t \in Callers, ConnectHost(t)
      PROVE  Atomic!Next
  <2>1. /\ pc[t] = "idle" /\ op' = [op EXCEPT ![t] = "connect"]
        /\ result' = result /\ conn' = conn /\ Goto(t, "resolve")
    BY <1>7 DEF ConnectHost, MayCall
  <2>2. Phase[t] = "idle" /\ Phase' = [Phase EXCEPT ![t] = "called"]
    BY <2>1, PhaseStep, PhaseValues
  <2>3. Atomic!Begin(t, "connect")
    BY <2>1, <2>2 DEF Atomic!Begin
  <2> QED
    BY <2>3 DEF Atomic!Next, Atomic!Requests
<1>2. ASSUME NEW t \in Callers, Proceed(t)
      PROVE  [Atomic!Next]_(Atomic!vars)
  BY <1>2, ProceedStep DEF Atomic!Next, Atomic!vars
<1>3. CASE (\E t \in Local : CtxLock(t)) \/ (\E t \in Remote : OnExecute(t))
  <2>1. PICK t \in Callers :
          /\ pc[t] \in {"lock", "wait"} /\ Goto(t, "run")
          /\ op' = op /\ result' = result /\ conn' = conn
    BY <1>3 DEF CtxLock, OnExecute, Callers
  <2>2. Phase' = Phase
    BY <2>1, SamePhase, PhaseValues
  <2> QED
    BY <2>1, <2>2 DEF Atomic!vars
<1>4. ASSUME NEW t \in Remote, ExecuteFails(t)
      PROVE  Atomic!Next
  <2>1. /\ t \in Callers /\ pc[t] = "wait" /\ Goto(t, "return")
        /\ op' = op /\ conn' = conn
        /\ result' = [result EXCEPT ![t] =
                        IF op[t] = "status" THEN "closed" ELSE "error"]
    BY <1>4 DEF ExecuteFails, Callers
  <2>2. Phase[t] = "called" /\ Phase' = [Phase EXCEPT ![t] = "answered"]
    BY <2>1, PhaseStep, PhaseValues
  <2>3. op[t] \in {"status", "connect"}
    BY <1>4, <2>1, AgentsAssumption DEF IInv, TypeOK, Ops, OpFits
  <2>4. Atomic!Refuse(t)
    BY <2>1, <2>2, <2>3 DEF Atomic!Refuse, Atomic!Effect
  <2> QED
    BY <2>1, <2>4 DEF Atomic!Next
<1>5. CASE \/ UNCHANGED vars
           \/ \E h \in Handlers : HandlerStart(h) \/ HandlerReturn(h)
  <2>1. pc' = pc /\ op' = op /\ result' = result /\ conn' = conn
    BY <1>5 DEF vars, callVars, HandlerStart, HandlerReturn
  <2>2. Phase' = Phase
    BY <2>1 DEF Phase, PhaseOf
  <2> QED
    BY <2>1, <2>2 DEF Atomic!vars
<1>6. CASE \/ \E h \in Handlers : Stop(h) \/ Shutdown(h)
           \/ \E s \in ConnStates : LwipEvent(s)
  <2>1. /\ pc' = pc /\ op' = op /\ result' = result
        /\ conn # "none" /\ conn' \in Atomic!States
    BY <1>6 DEF callVars, Stop, Shutdown, LwipEvent, Atomic!States, ConnStates
  <2>2. Phase' = Phase
    BY <2>1 DEF Phase, PhaseOf
  <2> QED
    BY <2>1, <2>2 DEF Atomic!Next, Atomic!Change
<1> QED
  BY <1>1, <1>2, <1>3, <1>4, <1>5, <1>6, <1>7 DEF Next

(* status() and connect() are atomic for any number of callers on both     *)
(* cores: the two ways of calling the client together implement            *)
(* AtomicClient.                                                           *)
THEOREM Refinement == Spec => ImplementsAtomic
<1>1. Init => Atomic!Init
  <2> SUFFICES ASSUME Init PROVE Atomic!Init
    OBVIOUS
  <2>1. Phase = [t \in Callers |-> "idle"]
    BY PhaseValues DEF Phase, Init
  <2> QED
    BY <2>1 DEF Init, Atomic!Init
<1>2. IInv /\ [Next]_vars => [Atomic!Next]_(Atomic!vars)
  BY AtomicStep
<1> QED
  BY <1>1, <1>2, Invariance, PTL DEF Spec, ImplementsAtomic, Atomic!SafeSpec
=============================================================================
