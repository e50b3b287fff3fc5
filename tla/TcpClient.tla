----------------------------- MODULE TcpClient -----------------------------
(***************************************************************************)
(* The life cycle of the clients of one lwIP stack: TcpClient, the context *)
(* it owns (TcpClientContext), the PCB the context points to, the lwIP     *)
(* callbacks that lead from the PCB back to the context, and the bridges   *)
(* that run the application's handlers.                                    *)
(*                                                                         *)
(* A context is named by its client and its number, <<c, g>>; _ctx is that *)
(* number, 0 the null pointer, and a context other than the client's       *)
(* current one has been deleted.  What a context received and sends is the *)
(* subject of IoRxBuffer and is left out here.                             *)
(*                                                                         *)
(* Everything runs in the networking core's async context, which no other  *)
(* work of that context interrupts: an operation is one step, and lwIP     *)
(* calls back only while no handler runs.  The behaviour ends (fault) with *)
(* the first access to an object that is deleted, freed or not the         *)
(* client's own; only close(), which changes what others see, goes on.     *)
(***************************************************************************)
EXTENDS Integers, FiniteSets

CONSTANTS
  Clients,
  Pcbs,             \* lwIP's pool of PCBs, MEMP_NUM_TCP_PCB of them
  Null,             \* nullptr
  Bridges,          \* the handlers the application registers
  MaxCtx,           \* bound: contexts one client creates
  PortMax,          \* largest port number, 2^16 - 1
  LwipPorts,        \* the ports lwIP chooses from
  PortStart         \* setLocalPortStart(), before the first connect()

Events == {"connected", "received", "fin", "error", "poll"}
RxEvents == {"received", "fin"}

ASSUME ConstantsAssumption ==
  /\ Bridges \subseteq Events
  /\ MaxCtx \in Nat
  /\ Null \notin Pcbs /\ Null \notin Clients \X (1..MaxCtx)
  /\ PortMax \in Nat
  /\ LwipPorts \subseteq 1..PortMax
  /\ PortStart \in 0..PortMax

VARIABLES
  ctx,      \* TcpClient::_ctx
  pcb,      \* TcpClientContext::_pcb of that context
  tx,       \* TcpWriter::m_pcb of that context's writer
  state,    \* lwIP: state of each PCB
  arg,      \* lwIP: the context registered with tcp_arg() and the callbacks
  bridges,  \* the client's bridges that are not null
  pending,  \* bridges whose worker has been set pending
  rx,       \* the IoRxBuffer in the workload of a bridge, by its context
  running,  \* the handler that runs, <<client, event>>, or <<>>
  localPort,\* TcpClient::_localPort, shared by the clients
  port,     \* lwIP: local_port of each PCB
  gen,      \* history: contexts created
  cut,      \* history: the PCB was taken from the context: by whom
  abandoned,\* history: clients destroyed with a connection of their own
  fault     \* history: the invalid access that ended the behaviour,
            \* <<client, kind>>, or <<>>

clientVars == <<ctx, pcb, tx, gen, localPort>>
lwipVars   == <<state, arg, port>>
bridgeVars == <<bridges, pending, rx>>
histVars   == <<cut, abandoned, fault>>
vars == <<clientVars, lwipVars, bridgeVars, running, histVars>>

Contexts == Clients \X (1..MaxCtx)

Faults == {"null_pointer", "freed_pcb", "foreign_pcb", "freed_tx", "foreign_tx",
           "freed_rx", "freed_ctx"}

Active   == {"syn_sent", "established", "close_wait"}
NoConnection == {"free", "unconnected"}
Free     == {p \in Pcbs : state[p] = "free"}

(* The PCB is registered with the context the client has now. *)
Owns(c, p) == arg[p] = <<c, ctx[c]>>

(* The context registered with the PCB has been deleted. *)
Dangling(p) == arg[p] # Null /\ ctx[arg[p][1]] # arg[p][2]

Running == fault = <<>>
LwipMayCall == Running /\ running = <<>>

-----------------------------------------------------------------------------
(***************************************************************************)
(* lwIP                                                                    *)
(***************************************************************************)

(* The PCBs tcp_new() may return: a free one or, if there is none, one it  *)
(* takes from a connection that is closing or that has low priority; the   *)
(* contexts of this library all set TCP_PRIO_MIN.  A PCB that was never    *)
(* connected is on none of the lists lwIP looks through.                   *)
TcpNew == IF Free # {} THEN Free
                       ELSE {p \in Pcbs : state[p] \in Active \cup {"closing"}}

(* What tcp_close() makes of a PCB: freed at once, or kept by lwIP until   *)
(* the peer has answered; freed too when close() has to abort it.          *)
TcpClose(s) == IF s \in {"established", "close_wait", "closing"}
                 THEN {"closing", "free"} ELSE {"free"}

-----------------------------------------------------------------------------
(***************************************************************************)
(* Callbacks of the PCB: _s_connected, lwip_receive_callback, _s_error and *)
(* _s_poll find the context in arg, and the context's callback sets the    *)
(* client's bridge pending.                                                *)
(***************************************************************************)

(* Mutant: a bridge that was not registered is run. *)
Notify_Unchecked(pend, c, e) == [pend EXCEPT ![c] = @ \cup {e}]

(* bridge->run(), if the application registered a bridge. *)
Notify(pend, c, e) ==
  IF e \in bridges[c] THEN [pend EXCEPT ![c] = @ \cup {e}] ELSE pend

(* bridge->workload(_ctx->getRxBuffer()) *)
Workload(c, e) ==
  IF e \in bridges[c] THEN [rx EXCEPT ![c][e] = ctx[c]] ELSE rx

(* Mutant: the error is not forwarded to the client. *)
OnError_Silent(c) == UNCHANGED pending

(* _onErrorCallback().  The error code it hands over is left out. *)
OnError(c) == pending' = Notify(pending, c, "error")

(* Mutant: the context does not set the error callback. *)
SError_Unset(p) == UNCHANGED pending

(* _s_error() of p, which does nothing without a context. *)
SError(p) ==
  IF arg[p] # Null THEN OnError(arg[p][1]) ELSE UNCHANGED pending

(* lwIP has freed p under its context, because of `who'. *)
CutOff(cuts, p, who) ==
  IF arg[p] # Null THEN [cuts EXCEPT ![arg[p][1]] = who] ELSE cuts

(* lwIP calls a callback of p, whose context is there. *)
Callback(p) == LwipMayCall /\ ~Dangling(p)

LwipConnected(p) ==
  /\ Callback(p)
  /\ state[p] = "syn_sent"
  /\ state' = [state EXCEPT ![p] = "established"]
  /\ pending' = Notify(pending, arg[p][1], "connected")
  /\ UNCHANGED <<clientVars, arg, port, bridges, rx, running, histVars>>

LwipReceive(p) ==
  /\ Callback(p)
  /\ state[p] = "established"
  /\ rx' = Workload(arg[p][1], "received")
  /\ pending' = Notify(pending, arg[p][1], "received")
  /\ UNCHANGED <<clientVars, lwipVars, bridges, running, histVars>>

LwipFin(p) ==
  /\ Callback(p)
  /\ state[p] = "established"
  /\ state' = [state EXCEPT ![p] = "close_wait"]
  /\ rx' = Workload(arg[p][1], "fin")
  /\ pending' = Notify(pending, arg[p][1], "fin")
  /\ UNCHANGED <<clientVars, arg, port, bridges, running, histVars>>

LwipPoll(p) ==
  /\ Callback(p)
  /\ state[p] \in Active
  /\ pending' = Notify(pending, arg[p][1], "poll")
  /\ UNCHANGED <<clientVars, lwipVars, bridges, rx, running, histVars>>

(* A reset or a timeout: lwIP frees the PCB, then reports the error.  The  *)
(* context keeps its _pcb.                                                 *)
LwipError(p) ==
  /\ Callback(p)
  /\ state[p] \in Active
  /\ state' = [state EXCEPT ![p] = "free"]
  /\ arg' = [arg EXCEPT ![p] = Null]
  /\ SError(p)
  /\ cut' = CutOff(cut, p, "error")
  /\ UNCHANGED <<clientVars, port, bridges, rx, running, abandoned, fault>>

(* Any of these callbacks, or the error callback when tcp_new() takes p    *)
(* for another client, finds a context that was deleted.                   *)
DeletedContext(p) ==
  /\ fault' = <<arg[p][1], "freed_ctx">>
  /\ UNCHANGED <<clientVars, lwipVars, bridgeVars, running, cut, abandoned>>

LwipDangling(p) ==
  /\ LwipMayCall
  /\ state[p] \in Active
  /\ Dangling(p)
  /\ DeletedContext(p)

(* The last segment of a closed connection was acknowledged or timed out. *)
LwipReap(p) ==
  /\ LwipMayCall
  /\ state[p] = "closing"
  /\ state' = [state EXCEPT ![p] = "free"]
  /\ UNCHANGED <<clientVars, arg, port, bridgeVars, running, histVars>>

-----------------------------------------------------------------------------
(***************************************************************************)
(* TcpClient.cpp                                                           *)
(***************************************************************************)

(* setOnConnectedCallback() and the like: the application registers its    *)
(* handlers before the first connect(), or none at all.                    *)
SetOnCallbacks(c) ==
  /\ Running
  /\ gen[c] = 0
  /\ bridges[c] = {}
  /\ bridges' = [bridges EXCEPT ![c] = Bridges]
  /\ UNCHANGED <<clientVars, lwipVars, pending, rx, running, histVars>>

(* connect() of a client that has a context, or with no PCB to be had. *)
ConnectRefused(c) ==
  /\ Running
  /\ ctx[c] # 0 \/ TcpNew = {}
  /\ UNCHANGED vars

(* Mutant: the counter starts over at 1. *)
NextPort_SkipsZero(n) == IF n = PortMax THEN 1 ELSE n + 1

(* _localPort++ *)
NextPort(n) == (n + 1) % (PortMax + 1)

(* The ports of p's new connection: the client's, or one lwIP chooses      *)
(* when the client sets none.                                              *)
LocalPorts(p) ==
  IF localPort > 0 THEN {localPort}
  ELSE LwipPorts \ {port[q] : q \in {r \in Pcbs \ {p} : state[r] \notin NoConnection}}

(* The constructor of the context registers it with p. *)
Register(c, p) == [arg EXCEPT ![p] = <<c, gen[c] + 1>>]

(* tcp_new() is to return p. *)
NewPcb(c, p) ==
  /\ Running
  /\ ctx[c] = 0
  /\ gen[c] < MaxCtx
  /\ p \in TcpNew

(* The connection p was taken from, if any, gets its error callback, and p *)
(* a new context.                                                          *)
NewContext(c, p) ==
  /\ NewPcb(c, p)
  /\ ~Dangling(p)
  /\ gen' = [gen EXCEPT ![c] = @ + 1]
  /\ arg' = Register(c, p)
  /\ SError(p)
  /\ localPort' = IF localPort > 0 THEN NextPort(localPort) ELSE 0
  /\ cut' = [CutOff(cut, p, "error") EXCEPT ![c] = "no"]

(* The context's connect(): tcp_connect() takes the PCB, or refuses it. *)
ContextConnect(p, ok) ==
  state' = [state EXCEPT ![p] = IF ok THEN "syn_sent" ELSE "unconnected"]

(* The writer of a new context. *)
InitTxWriter(c, p) == [tx EXCEPT ![c] = p]

Connect(c, p) ==
  /\ NewContext(c, p)
  /\ ctx' = [ctx EXCEPT ![c] = gen[c] + 1]
  /\ pcb' = [pcb EXCEPT ![c] = p]
  /\ tx' = InitTxWriter(c, p)
  /\ ContextConnect(p, TRUE)
  /\ \E n \in LocalPorts(p) : port' = [port EXCEPT ![p] = n]
  /\ UNCHANGED <<bridges, rx, running, abandoned, fault>>

(* tcp_connect() failed: the context is deleted, the PCB, which has the    *)
(* client's port already, is not closed.                                   *)
ConnectFail(c, p) ==
  /\ NewContext(c, p)
  /\ ContextConnect(p, FALSE)
  /\ port' = [port EXCEPT ![p] = localPort]
  /\ UNCHANGED <<ctx, pcb, tx, bridges, rx, running, abandoned, fault>>

ConnectDangling(c, p) ==
  /\ NewPcb(c, p)
  /\ Dangling(p)
  /\ DeletedContext(p)

(* Mutants: the callbacks stay registered; the context keeps its pointer. *)
Unregister_Nothing(p) == arg
ForgetPcb_Not(c) == pcb

(* tcp_arg(_pcb, nullptr) and the five callbacks. *)
Unregister(p) == [arg EXCEPT ![p] = Null]

(* _pcb = nullptr *)
ForgetPcb(c) == [pcb EXCEPT ![c] = Null]

(* TcpClientContext::close().  With a pointer that lwIP has freed it       *)
(* writes into the pool; with one that lwIP has since given to another     *)
(* context it closes that context's connection, and nobody is told.        *)
Close(c) ==
  IF pcb[c] = Null
    THEN UNCHANGED <<pcb, lwipVars, cut, fault>>
    ELSE LET p == pcb[c] IN
         IF state[p] = "free"
           THEN fault' = <<c, "freed_pcb">> /\ UNCHANGED <<pcb, lwipVars, cut>>
           ELSE /\ arg' = Unregister(p)
                /\ \E s \in TcpClose(state[p]) : state' = [state EXCEPT ![p] = s]
                /\ cut' = IF Owns(c, p) THEN cut ELSE CutOff(cut, p, "stolen")
                /\ pcb' = ForgetPcb(c)
                /\ UNCHANGED <<port, fault>>

Stop(c) ==
  /\ Running
  /\ ctx[c] # 0
  /\ Close(c)
  /\ UNCHANGED <<ctx, tx, gen, localPort, bridgeVars, running, abandoned>>

(* ~TcpClientContext() deletes the buffer and the writer. *)
DeleteContext(c) ==
  /\ ctx' = [ctx EXCEPT ![c] = 0]
  /\ tx' = [tx EXCEPT ![c] = Null]

(* shutdown() calls stop() before it deletes the context. *)
Shutdown(c) ==
  /\ Running
  /\ ctx[c] # 0
  /\ Close(c)
  /\ DeleteContext(c)
  /\ UNCHANGED <<gen, localPort, bridgeVars, running, abandoned>>

(* The context has a connection of its own. *)
Connected(c) ==
  ctx[c] # 0 /\ pcb[c] # Null /\ Owns(c, pcb[c]) /\ state[pcb[c]] \in Active

(* ~TcpClient() deletes the context and, with the client's members, its    *)
(* bridges, none of which may be running.  It does not close: lwIP keeps   *)
(* the connection of a client that was not stopped, and the pointers to    *)
(* its context.  The client is not used again.                             *)
Destroy(c) ==
  /\ Running
  /\ \A e \in Events : running # <<c, e>>
  /\ DeleteContext(c)
  /\ pcb' = [pcb EXCEPT ![c] = Null]
  /\ gen' = [gen EXCEPT ![c] = MaxCtx]
  /\ pending' = [pending EXCEPT ![c] = {}]
  /\ abandoned' = IF Connected(c) THEN abandoned \cup {c} ELSE abandoned
  /\ UNCHANGED <<localPort, lwipVars, bridges, rx, running, cut, fault>>

(* write() reaches lwIP through the writer's own pointer, which neither    *)
(* close() nor an error resets: the PCB may have been freed, or given to   *)
(* another context, since.                                                 *)
Write(c) ==
  /\ Running
  /\ ctx[c] # 0
  /\ fault' = IF state[tx[c]] = "free" THEN <<c, "freed_tx">>
              ELSE IF state[tx[c]] \in Active /\ ~Owns(c, tx[c]) THEN <<c, "foreign_tx">>
              ELSE fault
  /\ UNCHANGED <<clientVars, lwipVars, bridgeVars, running, cut, abandoned>>

(* What comes of a use of _pcb, which is not null: it may have been freed, *)
(* or may not be the context's any more.                                   *)
UsePcb(c) ==
  IF state[pcb[c]] = "free" THEN <<c, "freed_pcb">>
  ELSE IF ~Owns(c, pcb[c]) THEN <<c, "foreign_pcb">> ELSE fault

(* writeChunk() reaches lwIP through the context's pointer, and reports an *)
(* error, the lack of a PCB too, as lwIP's errors are reported.            *)
WriteChunk(c) ==
  /\ Running
  /\ ctx[c] # 0 /\ pcb[c] # Null
  /\ fault' = UsePcb(c)
  /\ UNCHANGED <<clientVars, lwipVars, bridgeVars, running, cut, abandoned>>

WriteChunkError(c) ==
  /\ Running
  /\ ctx[c] # 0
  /\ pcb[c] # Null => UsePcb(c) = fault
  /\ OnError(c)
  /\ UNCHANGED <<clientVars, lwipVars, bridges, rx, running, histVars>>

(* What the context's getters and setNoDelay() test before they use _pcb. *)
HasPcb(c) == pcb[c] # Null

(* Mutant: the getters use the writer's pointer, which close() leaves set. *)
ReadPcb_Writer(c) ==
  /\ Running
  /\ ctx[c] # 0
  /\ fault' = IF state[tx[c]] = "free" THEN <<c, "freed_pcb">> ELSE fault
  /\ UNCHANGED <<clientVars, lwipVars, bridgeVars, running, cut, abandoned>>

(* status(), the addresses and ports, and the Nagle flag, of a client with *)
(* a context: read from the PCB, if the context has one.                   *)
ReadPcb(c) ==
  /\ Running
  /\ ctx[c] # 0
  /\ fault' = IF HasPcb(c) THEN UsePcb(c) ELSE fault
  /\ UNCHANGED <<clientVars, lwipVars, bridgeVars, running, cut, abandoned>>

-----------------------------------------------------------------------------
(***************************************************************************)
(* The application's handlers: workers of the async context.               *)
(***************************************************************************)

HandlerStart(c, e) ==
  /\ LwipMayCall
  /\ e \in pending[c]
  /\ running' = <<c, e>>
  /\ pending' = [pending EXCEPT ![c] = @ \ {e}]
  /\ UNCHANGED <<clientVars, lwipVars, bridges, rx, histVars>>

HandlerReturn ==
  /\ Running
  /\ running # <<>>
  /\ running' = <<>>
  /\ UNCHANGED <<clientVars, lwipVars, bridgeVars, histVars>>

(* The context's part of keepAlive(): _pcb->so_options, without a test. *)
Dereference(c) == IF pcb[c] = Null THEN <<c, "null_pointer">> ELSE UsePcb(c)

(* keepAlive() and its getters, from the connected handler. *)
KeepAlive(c) ==
  /\ Running
  /\ running = <<c, "connected">>
  /\ fault' = IF ctx[c] = 0 THEN <<c, "null_pointer">> ELSE Dereference(c)
  /\ UNCHANGED <<clientVars, lwipVars, bridgeVars, running, cut, abandoned>>

(* The received or fin handler reads the buffer in its workload. *)
ReadRx(c, e) ==
  /\ Running
  /\ running = <<c, e>>
  /\ fault' = IF rx[c][e] # ctx[c] THEN <<c, "freed_rx">> ELSE fault
  /\ UNCHANGED <<clientVars, lwipVars, bridgeVars, running, cut, abandoned>>

-----------------------------------------------------------------------------

Init ==
  /\ ctx = [c \in Clients |-> 0]
  /\ pcb = [c \in Clients |-> Null]
  /\ tx = [c \in Clients |-> Null]
  /\ state = [p \in Pcbs |-> "free"]
  /\ arg = [p \in Pcbs |-> Null]
  /\ bridges = [c \in Clients |-> {}]
  /\ pending = [c \in Clients |-> {}]
  /\ rx = [c \in Clients |-> [e \in RxEvents |-> 0]]
  /\ running = <<>>
  /\ localPort = PortStart
  /\ port = [p \in Pcbs |-> 0]
  /\ gen = [c \in Clients |-> 0]
  /\ cut = [c \in Clients |-> "no"]
  /\ abandoned = {}
  /\ fault = <<>>

LwipAnswers(p) == LwipConnected(p) \/ LwipError(p)

Lwip ==
  \E p \in Pcbs : \/ LwipAnswers(p)
                  \/ LwipReceive(p)
                  \/ LwipFin(p)
                  \/ LwipPoll(p)
                  \/ LwipReap(p)
                  \/ LwipDangling(p)

Api ==
  \E c \in Clients : \/ SetOnCallbacks(c)
                     \/ ConnectRefused(c)
                     \/ \E p \in Pcbs : \/ Connect(c, p) \/ ConnectFail(c, p)
                                        \/ ConnectDangling(c, p)
                     \/ Stop(c)
                     \/ Shutdown(c)
                     \/ Destroy(c)
                     \/ Write(c)
                     \/ WriteChunk(c)
                     \/ WriteChunkError(c)
                     \/ ReadPcb(c)

Handlers ==
  \/ \E c \in Clients : \/ \E e \in Events : HandlerStart(c, e)
                        \/ KeepAlive(c)
                        \/ \E e \in RxEvents : ReadRx(c, e)
  \/ HandlerReturn

Next == Lwip \/ Api \/ Handlers

Spec == Init /\ [][Next]_vars

(* lwIP's timers bound a connection attempt, handlers return, and the      *)
(* async context goes through its list of workers, so none that stays      *)
(* pending is passed over for ever.                                        *)
Fairness ==
  /\ \A p \in Pcbs : SF_vars(state[p] = "syn_sent" /\ LwipAnswers(p))
  /\ \A c \in Clients, e \in Bridges : SF_vars(HandlerStart(c, e))
  /\ WF_vars(HandlerReturn)

FairSpec == Spec /\ Fairness

-----------------------------------------------------------------------------
(***************************************************************************)
(* Properties                                                              *)
(***************************************************************************)

TypeOK ==
  /\ ctx \in [Clients -> 0..MaxCtx]
  /\ pcb \in [Clients -> Pcbs \cup {Null}]
  /\ tx \in [Clients -> Pcbs \cup {Null}]
  /\ state \in [Pcbs -> Active \cup {"free", "closing", "unconnected"}]
  /\ arg \in [Pcbs -> Contexts \cup {Null}]
  /\ bridges \in [Clients -> SUBSET Bridges]
  /\ pending \in [Clients -> SUBSET Bridges]
  /\ \A c \in Clients : pending[c] \subseteq bridges[c]
  /\ rx \in [Clients -> [RxEvents -> 0..MaxCtx]]
  /\ running \in (Clients \X Bridges) \cup {<<>>}
  /\ localPort \in 0..PortMax
  /\ port \in [Pcbs -> 0..PortMax]
  /\ gen \in [Clients -> 0..MaxCtx]
  /\ cut \in [Clients -> {"no", "error", "stolen"}]
  /\ abandoned \subseteq Clients
  /\ fault \in (Clients \X Faults) \cup {<<>>}

(* Every connection lwIP still works on calls back into a context that     *)
(* exists and that holds the PCB, or it is closing and calls nobody: a     *)
(* callback never reaches a deleted context and each connection can be     *)
(* closed by its owner, whatever the order of connect(), stop(),           *)
(* shutdown(), errors and the reuse of PCBs by tcp_new(), unless a client  *)
(* was destroyed while it was connected.                                   *)
ActivePcbOwned ==
  \A p \in Pcbs :
    state[p] \in Active \/ (state[p] = "closing" /\ arg[p] # Null) =>
      \/ \E c \in Clients : ctx[c] # 0 /\ Owns(c, p) /\ pcb[c] = p
      \/ \E c \in abandoned, g \in 1..MaxCtx : arg[p] = <<c, g>>

(* A context's _pcb is its own PCB unless lwIP took it away, with an error *)
(* callback or for a client that held a stale pointer to it: stop(),       *)
(* shutdown() and a failed connect() leave no pointer to a PCB given back. *)
HandleValid ==
  \A c \in Clients : ctx[c] # 0 /\ pcb[c] # Null /\ cut[c] = "no" =>
    Owns(c, pcb[c]) /\ state[pcb[c]] \in Active

(* What it takes to use a PCB or a context that is not there.  A client    *)
(* works on a freed or foreign PCB through its context's _pcb only if the  *)
(* PCB was taken from that very context (by an error, by tcp_new() or by   *)
(* another client's close() of it), and through its writer's pointer only  *)
(* if that happened or its own context was closed before; lwIP calls a     *)
(* deleted context only of a client destroyed while it was connected.      *)
StaleUseExplained ==
  \A c \in Clients :
    /\ fault \in {<<c, "freed_pcb">>, <<c, "foreign_pcb">>} => cut[c] # "no"
    /\ fault \in {<<c, "freed_tx">>, <<c, "foreign_tx">>} =>
         cut[c] # "no" \/ pcb[c] = Null
    /\ fault = <<c, "freed_ctx">> => c \in abandoned

(* The client of a connection that ends ended it itself or is told, or     *)
(* another client closed it through a pointer that lwIP made stale.        *)
EndTold(d) ==
  Connected(d) /\ ~Connected(d)' =>
    \/ ctx'[d] = 0 \/ pcb'[d] = Null
    \/ "error" \in bridges[d] => "error" \in pending'[d]
    \/ \E c \in Clients \ {d} : pcb[c] = pcb[d] /\ pcb'[c] = Null /\ cut[c] # "no"

(* A connection never ends behind its client's back, for any reason but    *)
(* one: the client ends it, or the error handler is set pending, also when *)
(* tcp_new() takes the PCB for another client; the reason left is that     *)
(* another client, from which lwIP took this PCB before, closes it through *)
(* its stale pointer.                                                      *)
NoSilentEnd == [][\A d \in Clients : EndTold(d)]_vars

(* No two connections have the same local port, closing ones included,     *)
(* also after the counter has wrapped and lwIP chooses the ports.          *)
PortsDistinct ==
  \A p, q \in Pcbs :
    p # q /\ {state[p], state[q]} \cap NoConnection = {} => port[p] # port[q]

(* Every connect() that returned PICO_OK is answered: the connected or the *)
(* error handler runs, unless the client is stopped or destroyed first,    *)
(* another client closes the attempt through a stale pointer ("stolen"),   *)
(* or an invalid access ends the behaviour.                                *)
Answered ==
  \A c \in Clients :
    ({"connected", "error"} \subseteq bridges[c] /\ Connected(c) /\ state[pcb[c]] = "syn_sent")
      ~> \/ running \in {<<c, "connected">>, <<c, "error">>}
         \/ ctx[c] = 0 \/ pcb[c] = Null
         \/ cut[c] = "stolen" \/ fault # <<>>

(* A PCB that is allocated can still be closed by someone: connect() leaks *)
(* none (TcpClient.hpp, connect()).                                        *)
NoLeakedPcb ==
  \A p \in Pcbs : state[p] = "unconnected" =>
    \E c \in Clients : ctx[c] # 0 /\ pcb[c] = p

(* keepAlive(), write(), writeChunk() and the getters work on the client's *)
(* own PCB or refuse to, and close() closes no other client's connection:  *)
(* the shutdown after an error cleans up (TcpClientContext.hpp), and no    *)
(* two clients share a PCB (TcpClient.hpp).                                *)
PcbUseValid ==
  \A c \in Clients :
    /\ cut[c] # "stolen"
    /\ fault \notin {c} \X {"null_pointer", "freed_pcb", "foreign_pcb",
                            "freed_tx", "foreign_tx"}

(* shutdown() leaves no pointer to the receive buffer (TcpClient.hpp). *)
NoFreedRx == \A c \in Clients : fault # <<c, "freed_rx">>
=============================================================================
