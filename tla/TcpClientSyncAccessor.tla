----------------------- MODULE TcpClientSyncAccessor -----------------------
(***************************************************************************)
(* status(), connect() and run_local().  A caller on the networking core   *)
(* takes the async context's lock and calls the client itself; one on the  *)
(* other core hands a payload with pointers to its locals to the           *)
(* networking core, where a worker of the context calls the client, and    *)
(* waits for the answer.  The latter is not allowed for run_local().       *)
(*                                                                         *)
(* The lock is recursive: handlers run as workers of the context and hold  *)
(* it already.  _ts_connect() takes two steps, the test of _ctx and the    *)
(* rest, so that the lock matters.                                         *)
(***************************************************************************)
EXTENDS Naturals

CONSTANTS
  Local,     \* threads of control of the networking core
  Handlers,  \* those of them that are workers of the async context
  Remote,    \* threads of control of the other core
  Worker,    \* the worker that carries out payloads
  Nobody

Callers == Local \cup Remote

ASSUME AgentsAssumption ==
  /\ Handlers \subseteq Local
  /\ Local \cap Remote = {}
  /\ Worker \notin Callers
  /\ Nobody \notin Callers \cup {Worker}

VARIABLES
  lock, depth,   \* owner of the context's lock, how often it holds it
  pc,            \* where each caller is; for a remote one also the worker's
  op, result,    \* the caller's payload: operation; its local `result'
  conn           \* the client: "none" without _ctx, else its connection

lockVars == <<lock, depth>>
callVars == <<pc, op, result>>
vars == <<lockVars, callVars, conn>>

Ops == {"status", "connect", "local"}

(* "stopped": _pcb is null; "lost": lwIP has freed the PCB, _pcb remains. *)
ConnStates == {"none", "syn_sent", "established", "close_wait", "stopped", "lost"}
Statuses == {"closed", "syn_sent", "established", "other"}

Inside == {"run", "create", "end"}
Places == Inside \cup {"idle", "resolve", "lock", "wait", "return"}
Results == Statuses \cup {"nothing", "ok", "in_use", "failed", "error", "timeout", "done"}

(* Whoever carries out the call of t: t itself or the worker. *)
Agent(t) == IF t \in Local THEN t ELSE Worker

-----------------------------------------------------------------------------
(***************************************************************************)
(* The async context.                                                      *)
(***************************************************************************)

MayLock(a) == lock \in {Nobody, a}

Lock(a) ==
  /\ MayLock(a)
  /\ lock' = a
  /\ depth' = depth + 1

Unlock ==
  /\ depth' = depth - 1
  /\ lock' = IF depth = 1 THEN Nobody ELSE lock

(* A handler starts and returns. *)
HandlerStart(h) ==
  /\ lock = Nobody
  /\ pc[h] = "idle"
  /\ Lock(h)
  /\ UNCHANGED <<callVars, conn>>

HandlerReturn(h) ==
  /\ lock = h
  /\ pc[h] = "idle"
  /\ Unlock
  /\ UNCHANGED <<callVars, conn>>

(* A handler calls stop(), which closes the connection. *)
Stop(h) ==
  /\ lock = h
  /\ pc[h] = "idle"
  /\ conn \notin {"none", "stopped"}
  /\ conn' = "stopped"
  /\ UNCHANGED <<lockVars, callVars>>

(* A handler calls shutdown(), which deletes the context too. *)
Shutdown(h) ==
  /\ lock = h
  /\ pc[h] = "idle"
  /\ conn # "none"
  /\ conn' = "none"
  /\ UNCHANGED <<lockVars, callVars>>

(* lwIP, which runs in the context, connects the PCB, receives a FIN or    *)
(* frees the PCB after an error.                                           *)
LwipEvent(s) ==
  /\ lock = Nobody
  /\ \/ conn = "syn_sent" /\ s \in {"established", "lost"}
     \/ conn = "established" /\ s \in {"close_wait", "lost"}
     \/ conn = "close_wait" /\ s = "lost"
  /\ conn' = s
  /\ UNCHANGED <<lockVars, callVars>>

-----------------------------------------------------------------------------
(***************************************************************************)
(* TcpClientSyncAccessor.cpp                                               *)
(***************************************************************************)

Goto(t, l) == pc' = [pc EXCEPT ![t] = l]

MayCall(t) == pc[t] = "idle" /\ (t \in Handlers => lock = t)

(* isCrossCore() decides which way a call goes. *)
Way(t) == IF t \in Local THEN "lock" ELSE "wait"

(* status(), connect() with an address, or run_local(), which is not for   *)
(* the other core.                                                         *)
Call(t, o) ==
  /\ MayCall(t)
  /\ o = "local" => t \in Local
  /\ Goto(t, Way(t))
  /\ op' = [op EXCEPT ![t] = o]
  /\ UNCHANGED <<lockVars, result, conn>>

(* connect() with a host name looks it up first, on the caller's core and  *)
(* without ctxLock(): in the meantime the client may be connected, stopped *)
(* or deleted by others.                                                   *)
ConnectHost(t) ==
  /\ MayCall(t)
  /\ Goto(t, "resolve")
  /\ op' = [op EXCEPT ![t] = "connect"]
  /\ UNCHANGED <<lockVars, result, conn>>

(* hostByName() finds an address, or gives up after _timeout. *)
HostByName(t) ==
  /\ pc[t] = "resolve"
  /\ \/ Goto(t, Way(t)) /\ UNCHANGED result
     \/ Goto(t, "return") /\ result' = [result EXCEPT ![t] = "timeout"]
  /\ UNCHANGED <<lockVars, op, conn>>

(* Mutant: the client is called without ctxLock(). *)
CtxLock_Not(t) ==
  /\ pc[t] = "lock"
  /\ Goto(t, "run")
  /\ UNCHANGED <<lockVars, op, result, conn>>

(* ctxLock() *)
CtxLock(t) ==
  /\ pc[t] = "lock"
  /\ Lock(t)
  /\ Goto(t, "run")
  /\ UNCHANGED <<op, result, conn>>

(* onExecute(): the worker takes up the payload of t. *)
OnExecute(t) ==
  /\ pc[t] = "wait"
  /\ lock = Nobody
  /\ Lock(Worker)
  /\ Goto(t, "run")
  /\ UNCHANGED <<op, result, conn>>

(* execute() fails: status() returns its initial 0, which is CLOSED, and   *)
(* connect() the error.                                                    *)
ExecuteFails(t) ==
  /\ pc[t] = "wait"
  /\ result' = [result EXCEPT ![t] = IF op[t] = "status" THEN "closed" ELSE "error"]
  /\ Goto(t, "return")
  /\ UNCHANGED <<lockVars, op, conn>>

Answer(t, a) ==
  /\ result' = [result EXCEPT ![t] = a]
  /\ Goto(t, "end")
  /\ UNCHANGED <<lockVars, op>>

(* What state() may return: CLOSED once nothing can be written any more;   *)
(* the state of a freed PCB is whatever is in that memory by now.          *)
State(c) ==
  CASE c = "lost" -> Statuses
    [] c \in {"stopped", "close_wait"} -> {"closed"}
    [] OTHER -> {c}

(* _ts_status() *)
TsStatus(t) ==
  /\ pc[t] = "run"
  /\ op[t] = "status"
  /\ \E a \in IF conn = "none" THEN {"closed"} ELSE State(conn) : Answer(t, a)
  /\ UNCHANGED conn

(* Mutant: a context that exists already is not noticed. *)
InUse_Never == FALSE

(* if (_ctx) *)
InUse == conn # "none"

(* _ts_connect() up to tcp_new(). *)
TsConnectTest(t) ==
  /\ pc[t] = "run"
  /\ op[t] = "connect"
  /\ \/ InUse /\ Answer(t, "in_use")
     \/ ~InUse /\ Goto(t, "create") /\ UNCHANGED <<lockVars, op, result>>
  /\ UNCHANGED conn

(* The rest of _ts_connect(): a context, or an error from lwIP. *)
TsConnectCreate(t) ==
  /\ pc[t] = "create"
  /\ \/ conn' = "syn_sent" /\ Answer(t, "ok")
     \/ UNCHANGED conn /\ Answer(t, "failed")

(* callMe() of run_local(): any calls of stop(), shutdown(), status() and  *)
(* connect(), one after the other.  The calls that take the lock again do  *)
(* so at once, because their caller holds it, and nobody else can come     *)
(* between them, so that callMe() is one step.                             *)
CallMe(t) ==
  /\ pc[t] = "run"
  /\ op[t] = "local"
  /\ Answer(t, "done")
  /\ conn' \in {conn, "none", "syn_sent", "stopped"}

(* Mutant: the call returns without ctxUnlock(). *)
CtxUnlock_Not(t) ==
  /\ pc[t] = "end"
  /\ Goto(t, "return")
  /\ UNCHANGED <<lockVars, op, result, conn>>

(* ctxUnlock(), or the worker is done and execute() wakes the caller. *)
CtxUnlock(t) ==
  /\ pc[t] = "end"
  /\ Unlock
  /\ Goto(t, "return")
  /\ UNCHANGED <<op, result, conn>>

Return(t) ==
  /\ pc[t] = "return"
  /\ Goto(t, "idle")
  /\ result' = [result EXCEPT ![t] = "nothing"]
  /\ UNCHANGED <<lockVars, op, conn>>

-----------------------------------------------------------------------------

Init ==
  /\ lock = Nobody
  /\ depth = 0
  /\ pc = [t \in Callers |-> "idle"]
  /\ op = [t \in Callers |-> "status"]
  /\ result = [t \in Callers |-> "nothing"]
  /\ conn = "none"

(* What a call does by itself. *)
Proceed(t) ==
  \/ HostByName(t)
  \/ TsStatus(t)
  \/ TsConnectTest(t)
  \/ TsConnectCreate(t)
  \/ CallMe(t)
  \/ CtxUnlock(t)
  \/ Return(t)

Next ==
  \/ \E t \in Callers : (\E o \in Ops : Call(t, o)) \/ ConnectHost(t) \/ Proceed(t)
  \/ \E t \in Local : CtxLock(t)
  \/ \E t \in Remote : OnExecute(t) \/ ExecuteFails(t)
  \/ \E h \in Handlers : \/ HandlerStart(h) \/ HandlerReturn(h)
                         \/ Stop(h) \/ Shutdown(h)
  \/ \E s \in ConnStates : LwipEvent(s)

Spec == Init /\ [][Next]_vars

(* Both cores keep running; a lookup is bounded by a timeout; a handler    *)
(* makes finitely many calls and returns; the lock is not withheld for     *)
(* ever from a core that wants it, and the context goes through all its    *)
(* workers.                                                                *)
Fairness ==
  /\ \A t \in Callers : WF_vars(Proceed(t))
  /\ \A t \in Local : SF_vars(CtxLock(t))
  /\ \A t \in Remote : SF_vars(OnExecute(t))
  /\ \A h \in Handlers : SF_vars(HandlerReturn(h))

FairSpec == Spec /\ Fairness

-----------------------------------------------------------------------------
(***************************************************************************)
(* Properties                                                              *)
(***************************************************************************)

TypeOK ==
  /\ lock \in Callers \cup {Worker, Nobody}
  /\ depth \in 0..2
  /\ pc \in [Callers -> Places]
  /\ op \in [Callers -> Ops]
  /\ result \in [Callers -> Results]
  /\ conn \in ConnStates

(* The client is used by one caller at a time, by the one whose agent      *)
(* holds the lock: a payload of the other core is never carried out while  *)
(* a caller of the networking core is between ctxLock() and ctxUnlock().   *)
Exclusive ==
  \A t \in Callers : pc[t] \in Inside =>
    lock = Agent(t) /\ \A u \in Callers \ {t} : pc[u] \notin Inside

PhaseOf(l) == CASE l = "idle" -> "idle"
                [] l \in {"end", "return"} -> "answered"
                [] OTHER -> "called"

Phase == [t \in Callers |-> PhaseOf(pc[t])]

Atomic == INSTANCE AtomicClient WITH
  phase <- Phase, request <- op, answer <- result

(* The calls are atomic for callers on both cores: no connect() replaces   *)
(* a context another one has just made, no answer is older than its call,  *)
(* and what run_local() runs is not interrupted.                           *)
ImplementsAtomic == Atomic!SafeSpec

(* Every call returns: nobody waits for a lock that is not given back, and *)
(* every payload is carried out.                                           *)
CallReturns == \A t \in Callers : pc[t] # "idle" ~> pc[t] = "idle"
=============================================================================
