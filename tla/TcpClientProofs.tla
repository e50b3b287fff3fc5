-------------------------- MODULE TcpClientProofs --------------------------
(***************************************************************************)
(* Proofs about TcpClient, for any number of clients, PCBs and contexts,   *)
(* any set of registered handlers and any range of ports.                  *)
(*                                                                         *)
(* The invariants of TcpClient are proved together: a callback knows its   *)
(* client because the PCB is owned.  IInv adds that the counter of local   *)
(* ports, until it wraps, is above every port in use, and that lwIP calls  *)
(* nobody back for a PCB that is free or closing: without that a PCB from  *)
(* the pool could lead tcp_new() to a context deleted long ago.            *)
(***************************************************************************)
EXTENDS TcpClient, TLAPS

(* The client's counter has not come round: the ports of the connections   *)
(* are all below it.                                                       *)
PortsBelow ==
  localPort > 0 =>
    \A p \in Pcbs : state[p] \notin NoConnection => port[p] < localPort

(* The context registered with p exists and holds p; it was left behind by *)
(* the destructor of its client.                                           *)
Owned(p) == \E c \in Clients : ctx[c] # 0 /\ Owns(c, p) /\ pcb[c] = p
LeftBehind(p) == \E c \in abandoned, g \in 1..MaxCtx : arg[p] = <<c, g>>

ActiveOwned == \A p \in Pcbs : state[p] \in Active => Owned(p) \/ LeftBehind(p)

IdleCallsNobody == \A p \in Pcbs : state[p] \in {"free", "closing"} => arg[p] = Null

(* The part of IInv about connections. *)
Connections ==
  /\ ActiveOwned
  /\ IdleCallsNobody
  /\ HandleValid
  /\ PortsDistinct
  /\ PortsBelow

IInv == TypeOK /\ Connections

States == Active \cup {"free", "closing", "unconnected"}

-----------------------------------------------------------------------------

(* No client has a context before the first connect(). *)
LEMMA InitInv == Init => IInv
<1> SUFFICES ASSUME Init PROVE IInv
  OBVIOUS
<1>1. TypeOK
  BY ConstantsAssumption DEF Init, TypeOK
<1>2. ActiveOwned /\ IdleCallsNobody /\ HandleValid
  BY DEF Init, ActiveOwned, IdleCallsNobody, HandleValid, Active
<1>3. PortsDistinct /\ PortsBelow
  BY DEF Init, PortsDistinct, PortsBelow, NoConnection
<1>4. QED
  BY <1>1, <1>2, <1>3 DEF IInv, Connections

-----------------------------------------------------------------------------
(***************************************************************************)
(* What the callbacks do with the bridges.                                 *)
(***************************************************************************)

(* bridge->run() sets only a registered bridge pending, and only that one. *)
LEMMA NotifyFacts ==
  ASSUME TypeOK, NEW c \in Clients, NEW e
  PROVE  /\ Notify(pending, c, e) \in [Clients -> SUBSET Bridges]
         /\ \A d \in Clients : Notify(pending, c, e)[d] \subseteq bridges[d]
         /\ e \in bridges[c] => e \in Notify(pending, c, e)[c]
<1>1. CASE e \in bridges[c]
  <2>1. Notify(pending, c, e) = [pending EXCEPT ![c] = pending[c] \cup {e}]
    BY <1>1 DEF Notify
  <2>2. e \in Bridges
    BY <1>1 DEF TypeOK
  <2>3. pending[c] \cup {e} \in SUBSET Bridges /\ pending[c] \cup {e} \subseteq bridges[c]
    BY <1>1, <2>2 DEF TypeOK
  <2>4. \A d \in Clients : Notify(pending, c, e)[d] =
                            IF d = c THEN pending[c] \cup {e} ELSE pending[d]
    BY <2>1 DEF TypeOK
  <2>5. Notify(pending, c, e) \in [Clients -> SUBSET Bridges]
    BY <2>1, <2>3 DEF TypeOK
  <2>6. \A d \in Clients : Notify(pending, c, e)[d] \subseteq bridges[d]
    BY <2>3, <2>4 DEF TypeOK
  <2>7. QED
    BY <2>4, <2>5, <2>6
<1>2. CASE e \notin bridges[c]
  BY <1>2 DEF Notify, TypeOK
<1>3. QED
  BY <1>1, <1>2

(* lwIP's error callback of any PCB: the client p is registered with gets  *)
(* its error handler pending.                                              *)
LEMMA SErrorFacts ==
  ASSUME TypeOK, NEW p \in Pcbs, SError(p)
  PROVE  /\ pending' \in [Clients -> SUBSET Bridges]
         /\ \A d \in Clients : pending'[d] \subseteq bridges[d]
         /\ arg[p] # Null /\ "error" \in bridges[arg[p][1]] => "error" \in pending'[arg[p][1]]
<1>1. CASE arg[p] # Null
  <2>1. arg[p][1] \in Clients
    BY <1>1 DEF TypeOK, Contexts
  <2>2. pending' = Notify(pending, arg[p][1], "error")
    BY <1>1 DEF SError, OnError
  <2>3. QED
    BY <2>1, <2>2, NotifyFacts
<1>2. CASE arg[p] = Null
  BY <1>2 DEF SError, TypeOK
<1>3. QED
  BY <1>1, <1>2

(* Who is cut off from p: only the client that p is registered with. *)
LEMMA CutOffFacts ==
  ASSUME TypeOK, NEW p \in Pcbs, NEW who \in {"error", "stolen"}
  PROVE  /\ CutOff(cut, p, who) \in [Clients -> {"no", "error", "stolen"}]
         /\ \A d \in Clients : CutOff(cut, p, who)[d] = "no" =>
              /\ cut[d] = "no"
              /\ \A g \in 1..MaxCtx : arg[p] # <<d, g>>
<1>1. CASE arg[p] # Null
  <2>1. arg[p] \in Clients \X (1..MaxCtx) /\ arg[p][1] \in Clients
    BY <1>1 DEF TypeOK, Contexts
  <2>2. CutOff(cut, p, who) = [cut EXCEPT ![arg[p][1]] = who]
    BY <1>1 DEF CutOff
  <2>3. \A d \in Clients : CutOff(cut, p, who)[d] = IF d = arg[p][1] THEN who ELSE cut[d]
    BY <2>1, <2>2 DEF TypeOK
  <2>4. QED
    BY <2>1, <2>2, <2>3 DEF TypeOK
<1>2. CASE arg[p] = Null
  <2>1. \A d \in Clients, g \in 1..MaxCtx : arg[p] # <<d, g>>
    BY <1>2, ConstantsAssumption
  <2>2. QED
    BY <1>2, <2>1 DEF CutOff, TypeOK
<1>3. QED
  BY <1>1, <1>2

-----------------------------------------------------------------------------
(***************************************************************************)
(* What the steps of lwIP and of the clients do to the connections.        *)
(***************************************************************************)

(* An active PCB is registered with a context, which has been deleted only *)
(* if its client was destroyed while it was connected.                     *)
LEMMA OwnerOfActive ==
  ASSUME TypeOK, ActiveOwned, NEW p \in Pcbs, state[p] \in Active
  PROVE  /\ arg[p] # Null /\ arg[p][1] \in Clients
         /\ Dangling(p) => arg[p][1] \in abandoned
<1>1. CASE Owned(p)
  <2>1. PICK c \in Clients : ctx[c] # 0 /\ Owns(c, p) /\ pcb[c] = p
    BY <1>1 DEF Owned
  <2>2. arg[p] = <<c, ctx[c]>> /\ ctx[c] \in 1..MaxCtx
    BY <2>1, ConstantsAssumption DEF Owns, TypeOK
  <2>3. arg[p] # Null
    BY <2>2, ConstantsAssumption
  <2>4. QED
    BY <2>2, <2>3 DEF Dangling
<1>2. CASE LeftBehind(p)
  <2>1. PICK c \in abandoned, g \in 1..MaxCtx : arg[p] = <<c, g>>
    BY <1>2 DEF LeftBehind
  <2>2. c \in Clients
    BY DEF TypeOK
  <2>3. QED
    BY <2>1, <2>2, ConstantsAssumption
<1>3. QED
  BY <1>1, <1>2 DEF ActiveOwned

(* A step that keeps the connections. *)
LEMMA ConnectionsKept ==
  ASSUME Connections, UNCHANGED <<ctx, pcb, state, arg, port, localPort, cut, abandoned>>
  PROVE  Connections'
<1>1. ActiveOwned' /\ IdleCallsNobody' /\ HandleValid'
  BY DEF Connections, ActiveOwned, IdleCallsNobody, Owned, LeftBehind, HandleValid, Owns
<1>2. PortsDistinct' /\ PortsBelow'
  BY DEF Connections, PortsDistinct, PortsBelow
<1>3. QED
  BY <1>1, <1>2 DEF Connections

(* A connection goes on: the peer answers, or closes its side. *)
LEMMA ConnectionMoves ==
  ASSUME TypeOK, Connections, NEW p \in Pcbs, state[p] \in Active, NEW s \in Active,
         state' = [state EXCEPT ![p] = s],
         UNCHANGED <<ctx, pcb, arg, port, localPort, cut, abandoned>>
  PROVE  Connections'
<1>1. /\ state'[p] = s
      /\ \A q \in Pcbs : q # p => state'[q] = state[q]
  BY DEF TypeOK
<1>2. \A q \in Pcbs : state'[q] = state[q] \/ (state'[q] \in Active /\ state[q] \in Active)
  BY <1>1
<1>3. /\ "closing" \notin Active /\ "free" \notin Active
      /\ \A t \in Active : t \notin NoConnection
  BY DEF Active, NoConnection
<1>4. ActiveOwned' /\ IdleCallsNobody'
  BY <1>2, <1>3 DEF Connections, ActiveOwned, IdleCallsNobody, Owned, LeftBehind, Owns
<1>5. HandleValid'
  BY <1>2, <1>3, ConstantsAssumption DEF Connections, HandleValid, Owns, TypeOK
<1>6. PortsDistinct'
  <2>1. ASSUME NEW q \in Pcbs, NEW r \in Pcbs, q # r,
               {state'[q], state'[r]} \cap NoConnection = {}
        PROVE  port'[q] # port'[r]
    <3>1. {state[q], state[r]} \cap NoConnection = {}
      BY <2>1, <1>2, <1>3
    <3>2. QED
      BY <2>1, <3>1 DEF Connections, PortsDistinct
  <2>2. QED
    BY <2>1 DEF PortsDistinct
<1>7. PortsBelow'
  BY <1>2, <1>3 DEF Connections, PortsBelow
<1>8. QED
  BY <1>4, <1>5, <1>6, <1>7 DEF Connections

(* A PCB leaves a connection, freed or closing with nobody registered, and *)
(* the client it is taken from is told or knows.                           *)
LEMMA ConnectionEnds ==
  ASSUME TypeOK, Connections, NEW p \in Pcbs, NEW s \in {"free", "closing"},
         state[p] = "free" => s = "free",
         state[p] = "unconnected" => s = "free",
         arg' = [arg EXCEPT ![p] = Null],
         state' = [state EXCEPT ![p] = s],
         \A d \in Clients : ctx'[d] # 0 /\ pcb'[d] # Null =>
           ctx'[d] = ctx[d] /\ pcb'[d] = pcb[d],
         \A d \in Clients : ctx[d] # 0 /\ pcb[d] \in Pcbs /\ pcb[d] # p =>
           ctx'[d] = ctx[d] /\ pcb'[d] = pcb[d],
         \A d \in Clients : ctx'[d] # 0 /\ pcb'[d] # Null /\ cut'[d] = "no" =>
           cut[d] = "no" /\ pcb'[d] # p,
         UNCHANGED <<port, localPort, abandoned>>
  PROVE  Connections'
<1>1. /\ state'[p] = s /\ arg'[p] = Null
      /\ \A q \in Pcbs : q # p => state'[q] = state[q] /\ arg'[q] = arg[q]
  BY DEF TypeOK
<1>2. ActiveOwned' /\ IdleCallsNobody'
  <2>1. ASSUME NEW q \in Pcbs, state'[q] \in Active
        PROVE  Owned(q)' \/ LeftBehind(q)'
    <3>1. q # p
      BY <2>1, <1>1 DEF Active
    <3>2. CASE Owned(q)
      <4>1. PICK c \in Clients : ctx[c] # 0 /\ Owns(c, q) /\ pcb[c] = q
        BY <3>2 DEF Owned
      <4>2. ctx'[c] = ctx[c] /\ pcb'[c] = pcb[c]
        BY <3>1, <4>1
      <4>3. QED
        BY <3>1, <4>1, <4>2, <1>1 DEF Owned, Owns
    <3>3. CASE LeftBehind(q)
      BY <3>1, <3>3, <1>1 DEF LeftBehind
    <3>4. QED
      BY <2>1, <3>1, <3>2, <3>3, <1>1 DEF Connections, ActiveOwned
  <2>2. IdleCallsNobody'
    BY <1>1 DEF Connections, IdleCallsNobody
  <2>3. QED
    BY <2>1, <2>2 DEF ActiveOwned
<1>3. HandleValid'
  <2>1. ASSUME NEW c \in Clients, ctx'[c] # 0, pcb'[c] # Null, cut'[c] = "no"
        PROVE  arg'[pcb'[c]] = <<c, ctx'[c]>> /\ state'[pcb'[c]] \in Active
    <3>1. ctx'[c] = ctx[c] /\ pcb'[c] = pcb[c] /\ cut[c] = "no" /\ pcb[c] # p
      BY <2>1
    <3>2. pcb[c] \in Pcbs
      BY <2>1, <3>1 DEF TypeOK
    <3>3. arg[pcb[c]] = <<c, ctx[c]>> /\ state[pcb[c]] \in Active
      BY <2>1, <3>1 DEF Connections, HandleValid, Owns
    <3>4. QED
      BY <3>1, <3>2, <3>3, <1>1
  <2>2. QED
    BY <2>1 DEF HandleValid, Owns
<1>4. \A q \in Pcbs : state'[q] \notin NoConnection => state[q] \notin NoConnection
  BY <1>1 DEF NoConnection
<1>5. PortsDistinct'
  <2>1. ASSUME NEW q \in Pcbs, NEW r \in Pcbs, q # r,
               {state'[q], state'[r]} \cap NoConnection = {}
        PROVE  port'[q] # port'[r]
    <3>1. {state[q], state[r]} \cap NoConnection = {}
      BY <2>1, <1>4
    <3>2. QED
      BY <2>1, <3>1 DEF Connections, PortsDistinct
  <2>2. QED
    BY <2>1 DEF PortsDistinct
<1>6. PortsBelow'
  BY <1>4 DEF Connections, PortsBelow
<1>7. QED
  BY <1>2, <1>3, <1>5, <1>6 DEF Connections

(* A context goes that has no connection, or leaves it behind. *)
LEMMA ContextGone ==
  ASSUME TypeOK, Connections, NEW c \in Clients,
         Connected(c) => c \in abandoned',
         ctx' = [ctx EXCEPT ![c] = 0],
         \A d \in Clients : d # c => pcb'[d] = pcb[d],
         abandoned \subseteq abandoned',
         UNCHANGED <<state, arg, port, localPort, cut>>
  PROVE  Connections'
<1>1. ctx'[c] = 0 /\ \A d \in Clients : d # c => ctx'[d] = ctx[d]
  BY DEF TypeOK
<1>2. ActiveOwned' /\ IdleCallsNobody'
  <2>1. ASSUME NEW q \in Pcbs, state[q] \in Active
        PROVE  Owned(q)' \/ LeftBehind(q)'
    <3>1. CASE Owned(q)
      <4>1. PICK d \in Clients : ctx[d] # 0 /\ Owns(d, q) /\ pcb[d] = q
        BY <3>1 DEF Owned
      <4>2. CASE d = c
        <5>1. c \in abandoned'
          BY <2>1, <4>1, <4>2, ConstantsAssumption DEF Connected
        <5>2. arg[q] = <<c, ctx[c]>> /\ ctx[c] \in 1..MaxCtx
          BY <4>1, <4>2, ConstantsAssumption DEF Owns, TypeOK
        <5>3. QED
          BY <5>1, <5>2 DEF LeftBehind
      <4>3. CASE d # c
        BY <4>1, <4>3, <1>1 DEF Owned, Owns
      <4>4. QED
        BY <4>2, <4>3
    <3>2. CASE LeftBehind(q)
      BY <3>2 DEF LeftBehind
    <3>3. QED
      BY <2>1, <3>1, <3>2 DEF Connections, ActiveOwned
  <2>2. QED
    BY <2>1 DEF Connections, ActiveOwned, IdleCallsNobody
<1>3. HandleValid'
  <2>1. ASSUME NEW d \in Clients, ctx'[d] # 0, pcb'[d] # Null, cut'[d] = "no"
        PROVE  arg'[pcb'[d]] = <<d, ctx'[d]>> /\ state'[pcb'[d]] \in Active
    <3>1. d # c /\ ctx'[d] = ctx[d] /\ pcb'[d] = pcb[d]
      BY <2>1, <1>1
    <3>2. QED
      BY <2>1, <3>1 DEF Connections, HandleValid, Owns
  <2>2. QED
    BY <2>1 DEF HandleValid, Owns
<1>4. PortsDistinct' /\ PortsBelow'
  BY DEF Connections, PortsDistinct, PortsBelow
<1>5. QED
  BY <1>2, <1>3, <1>4 DEF Connections

(* _localPort++ counts up to the largest port and then turns to 0. *)
LEMMA NextPortFacts ==
  ASSUME NEW n \in 0..PortMax
  PROVE  NextPort(n) = IF n = PortMax THEN 0 ELSE n + 1
<1>1. CASE n = PortMax
  BY <1>1, ConstantsAssumption DEF NextPort
<1>2. CASE n < PortMax
  BY <1>2, ConstantsAssumption DEF NextPort
<1>3. QED
  BY <1>1, <1>2, ConstantsAssumption

(* The counter after connect(): 0, or one more. *)
LEMMA LocalPortFacts ==
  ASSUME TypeOK, localPort' = IF localPort > 0 THEN NextPort(localPort) ELSE 0
  PROVE  /\ localPort' \in 0..PortMax
         /\ localPort' > 0 => localPort > 0 /\ localPort' = localPort + 1
<1>1. localPort \in 0..PortMax
  BY DEF TypeOK
<1>2. NextPort(localPort) = IF localPort = PortMax THEN 0 ELSE localPort + 1
  BY <1>1, NextPortFacts
<1>3. QED
  BY <1>1, <1>2, ConstantsAssumption

(* What tcp_new() and the constructor of a context do: the other contexts  *)
(* that are not cut off keep their PCB, which is not p.                    *)
LEMMA NewContextFacts ==
  ASSUME TypeOK, Connections, NEW c \in Clients, NEW p \in Pcbs, NewContext(c, p)
  PROVE  /\ ctx[c] = 0 /\ gen[c] + 1 \in 1..MaxCtx
         /\ gen' \in [Clients -> 0..MaxCtx]
         /\ arg' \in [Pcbs -> Contexts \cup {Null}]
         /\ arg'[p] = <<c, gen[c] + 1>>
         /\ \A q \in Pcbs : q # p => arg'[q] = arg[q]
         /\ cut' \in [Clients -> {"no", "error", "stolen"}]
         /\ \A d \in Clients : d # c /\ ctx[d] # 0 /\ pcb[d] # Null /\ cut'[d] = "no" =>
              pcb[d] \in Pcbs /\ pcb[d] # p /\ Owns(d, pcb[d]) /\ state[pcb[d]] \in Active
         /\ pending' \in [Clients -> SUBSET Bridges]
         /\ \A d \in Clients : pending'[d] \subseteq bridges[d]
<1>1. /\ ctx[c] = 0 /\ gen[c] < MaxCtx
      /\ gen' = [gen EXCEPT ![c] = gen[c] + 1]
      /\ arg' = [arg EXCEPT ![p] = <<c, gen[c] + 1>>]
      /\ cut' = [CutOff(cut, p, "error") EXCEPT ![c] = "no"]
  BY DEF NewContext, NewPcb, Register
<1>2. gen[c] + 1 \in 1..MaxCtx /\ gen[c] + 1 \in 0..MaxCtx
  BY <1>1, ConstantsAssumption DEF TypeOK
<1>3. <<c, gen[c] + 1>> \in Contexts
  BY <1>2 DEF Contexts
<1>4. /\ CutOff(cut, p, "error") \in [Clients -> {"no", "error", "stolen"}]
      /\ \A d \in Clients : CutOff(cut, p, "error")[d] = "no" =>
           /\ cut[d] = "no"
           /\ \A g \in 1..MaxCtx : arg[p] # <<d, g>>
  BY CutOffFacts
<1>5. gen' \in [Clients -> 0..MaxCtx]
  BY <1>1, <1>2 DEF TypeOK
<1>6. /\ arg' \in [Pcbs -> Contexts \cup {Null}]
      /\ arg'[p] = <<c, gen[c] + 1>>
      /\ \A q \in Pcbs : q # p => arg'[q] = arg[q]
  BY <1>1, <1>3 DEF TypeOK
<1>7. cut' \in [Clients -> {"no", "error", "stolen"}]
  BY <1>1, <1>4
<1>8. ASSUME NEW d \in Clients, d # c, ctx[d] # 0, pcb[d] # Null, cut'[d] = "no"
      PROVE  pcb[d] \in Pcbs /\ pcb[d] # p /\ Owns(d, pcb[d]) /\ state[pcb[d]] \in Active
  <2>1. cut[d] = "no" /\ \A g \in 1..MaxCtx : arg[p] # <<d, g>>
    BY <1>1, <1>4, <1>8
  <2>2. pcb[d] \in Pcbs /\ ctx[d] \in 1..MaxCtx
    BY <1>8, ConstantsAssumption DEF TypeOK
  <2>3. Owns(d, pcb[d]) /\ state[pcb[d]] \in Active
    BY <1>8, <2>1 DEF Connections, HandleValid
  <2>4. QED
    BY <2>1, <2>2, <2>3 DEF Owns
<1>9. /\ pending' \in [Clients -> SUBSET Bridges]
      /\ \A d \in Clients : pending'[d] \subseteq bridges[d]
  BY SErrorFacts DEF NewContext
<1>10. QED
  BY <1>1, <1>2, <1>5, <1>6, <1>7, <1>8, <1>9

-----------------------------------------------------------------------------
(***************************************************************************)
(* The actions preserve IInv.                                              *)
(***************************************************************************)

(* A step that only tells a bridge something, and may hand it a buffer. *)
LEMMA BridgeStep ==
  ASSUME TypeOK, NEW c \in Clients, NEW e,
         pending' = Notify(pending, c, e),
         rx' \in [Clients -> [RxEvents -> 0..MaxCtx]],
         state' \in [Pcbs -> States],
         UNCHANGED <<clientVars, arg, port, bridges, running, histVars>>
  PROVE  TypeOK'
<1>1. UNCHANGED <<ctx, pcb, tx, gen, localPort, arg, port, bridges, running, cut,
                 abandoned, fault>>
  BY DEF clientVars, histVars
<1>2. /\ pending' \in [Clients -> SUBSET Bridges]
      /\ \A d \in Clients : pending'[d] \subseteq bridges[d]
  BY NotifyFacts
<1>3. QED
  BY <1>1, <1>2 DEF TypeOK, States

(* lwIP calls back: connected, receive, fin, poll. *)
LEMMA CallbackInv ==
  ASSUME IInv, NEW p \in Pcbs,
         LwipConnected(p) \/ LwipReceive(p) \/ LwipFin(p) \/ LwipPoll(p)
  PROVE  IInv'
<1>1. TypeOK /\ Connections /\ state[p] \in Active
  BY DEF IInv, Connections, LwipConnected, LwipReceive, LwipFin, LwipPoll, Active
<1> DEFINE c == arg[p][1]
<1>2. c \in Clients
  BY <1>1, OwnerOfActive DEF Connections
<1>3. \A e \in RxEvents : Workload(c, e) \in [Clients -> [RxEvents -> 0..MaxCtx]]
  BY <1>1, <1>2 DEF Workload, TypeOK
<1>4. UNCHANGED <<clientVars, arg, port, bridges, running, histVars>>
  BY DEF LwipConnected, LwipReceive, LwipFin, LwipPoll, lwipVars
<1>5. UNCHANGED <<ctx, pcb, arg, port, localPort, cut, abandoned>>
  BY <1>4 DEF clientVars, histVars
<1>6. PICK s \in Active : state' = [state EXCEPT ![p] = s]
  <2>1. CASE LwipReceive(p) \/ LwipPoll(p)
    <3>1. state' = [state EXCEPT ![p] = state[p]]
      BY <2>1, <1>1 DEF LwipReceive, LwipPoll, lwipVars, TypeOK
    <3>2. QED
      BY <3>1, <1>1
  <2>2. CASE LwipConnected(p) \/ LwipFin(p)
    BY <2>2 DEF LwipConnected, LwipFin, Active
  <2>3. QED
    BY <2>1, <2>2
<1>7. state' \in [Pcbs -> States]
  BY <1>1, <1>6 DEF TypeOK, States
<1>8. rx' \in [Clients -> [RxEvents -> 0..MaxCtx]]
  BY <1>1, <1>3 DEF LwipConnected, LwipReceive, LwipFin, LwipPoll, RxEvents, TypeOK
<1>9. PICK e \in {"connected", "received", "fin", "poll"} : pending' = Notify(pending, c, e)
  BY DEF LwipConnected, LwipReceive, LwipFin, LwipPoll
<1>10. TypeOK'
  <2> HIDE DEF c
  <2>1. QED
    BY <1>1, <1>2, <1>4, <1>7, <1>8, <1>9, BridgeStep
<1>11. Connections'
  BY <1>1, <1>5, <1>6, ConnectionMoves
<1>12. QED
  BY <1>10, <1>11 DEF IInv

(* lwIP resets a connection. *)
LEMMA LwipErrorInv ==
  ASSUME IInv, NEW p \in Pcbs, LwipError(p)
  PROVE  IInv'
<1>1. TypeOK /\ Connections
  BY DEF IInv, Connections
<1>2. /\ state' = [state EXCEPT ![p] = "free"]
      /\ arg' = [arg EXCEPT ![p] = Null]
      /\ SError(p)
      /\ cut' = CutOff(cut, p, "error")
      /\ UNCHANGED <<ctx, pcb, tx, gen, localPort, port, bridges, rx, running,
                     abandoned, fault>>
  BY DEF LwipError, clientVars
<1>3. /\ cut' \in [Clients -> {"no", "error", "stolen"}]
      /\ \A d \in Clients : cut'[d] = "no" =>
           cut[d] = "no" /\ \A g \in 1..MaxCtx : arg[p] # <<d, g>>
  BY <1>1, <1>2, CutOffFacts
<1>4. /\ pending' \in [Clients -> SUBSET Bridges]
      /\ \A d \in Clients : pending'[d] \subseteq bridges[d]
  BY <1>1, <1>2, SErrorFacts
<1>5. TypeOK'
  BY <1>1, <1>2, <1>3, <1>4 DEF TypeOK
<1>6. ASSUME NEW d \in Clients, ctx'[d] # 0, pcb'[d] # Null, cut'[d] = "no"
      PROVE  cut[d] = "no" /\ pcb'[d] # p
  <2>1. /\ ctx[d] \in 1..MaxCtx /\ pcb[d] # Null /\ cut[d] = "no"
        /\ arg[p] # <<d, ctx[d]>>
    BY <1>1, <1>2, <1>3, <1>6, ConstantsAssumption DEF TypeOK
  <2>2. arg[pcb[d]] = <<d, ctx[d]>>
    BY <1>1, <1>2, <1>6, <2>1 DEF Connections, HandleValid, Owns
  <2>3. QED
    BY <1>2, <2>1, <2>2
<1>7. Connections'
  BY <1>1, <1>2, <1>6, ConnectionEnds
<1>8. QED
  BY <1>5, <1>7 DEF IInv

(* lwIP is done with a closed connection. *)
LEMMA LwipReapInv ==
  ASSUME IInv, NEW p \in Pcbs, LwipReap(p)
  PROVE  IInv'
<1>1. TypeOK /\ Connections
  BY DEF IInv
<1>2. /\ state[p] = "closing" /\ state' = [state EXCEPT ![p] = "free"]
      /\ UNCHANGED <<ctx, pcb, tx, gen, localPort, arg, port, bridges, pending, rx, running,
                     cut, abandoned, fault>>
  BY DEF LwipReap, clientVars, bridgeVars, histVars
<1>3. TypeOK'
  BY <1>1, <1>2 DEF TypeOK
<1>4. arg' = [arg EXCEPT ![p] = Null]
  <2>1. arg[p] = Null
    BY <1>1, <1>2 DEF Connections, IdleCallsNobody
  <2>2. QED
    BY <1>1, <1>2, <2>1 DEF TypeOK
<1>5. \A d \in Clients : ctx'[d] # 0 /\ pcb'[d] # Null /\ cut'[d] = "no" =>
         cut[d] = "no" /\ pcb'[d] # p
  BY <1>1, <1>2 DEF Connections, HandleValid, Active
<1>6. Connections'
  BY <1>1, <1>2, <1>4, <1>5, ConnectionEnds
<1>7. QED
  BY <1>3, <1>6 DEF IInv

(* connect(): a new context with its PCB. *)
LEMMA ConnectInv ==
  ASSUME IInv, NEW c \in Clients, NEW p \in Pcbs, Connect(c, p)
  PROVE  IInv'
<1>1. TypeOK /\ Connections /\ NewContext(c, p)
  BY DEF IInv, Connect
<1> DEFINE g == gen[c] + 1
<1>2. /\ ctx[c] = 0 /\ g \in 1..MaxCtx
      /\ gen' \in [Clients -> 0..MaxCtx]
      /\ arg' \in [Pcbs -> Contexts \cup {Null}]
      /\ arg'[p] = <<c, g>>
      /\ \A q \in Pcbs : q # p => arg'[q] = arg[q]
      /\ cut' \in [Clients -> {"no", "error", "stolen"}]
      /\ \A d \in Clients : d # c /\ ctx[d] # 0 /\ pcb[d] # Null /\ cut'[d] = "no" =>
           pcb[d] \in Pcbs /\ pcb[d] # p /\ Owns(d, pcb[d]) /\ state[pcb[d]] \in Active
      /\ pending' \in [Clients -> SUBSET Bridges]
      /\ \A d \in Clients : pending'[d] \subseteq bridges[d]
  BY <1>1, NewContextFacts
<1>3. /\ ctx' = [ctx EXCEPT ![c] = g]
      /\ pcb' = [pcb EXCEPT ![c] = p]
      /\ tx' = [tx EXCEPT ![c] = p]
      /\ state' = [state EXCEPT ![p] = "syn_sent"]
      /\ UNCHANGED <<bridges, rx, running, abandoned, fault>>
  BY DEF Connect, InitTxWriter, ContextConnect
<1>4. PICK n \in LocalPorts(p) : port' = [port EXCEPT ![p] = n]
  BY DEF Connect
<1>5. /\ localPort' \in 0..PortMax
      /\ localPort' > 0 => localPort > 0 /\ localPort' = localPort + 1
  BY <1>1, LocalPortFacts DEF NewContext
<1> HIDE DEF g
<1>6. /\ n \in 0..PortMax /\ localPort \in 0..PortMax
      /\ localPort > 0 => n = localPort
      /\ localPort = 0 =>
           \A q \in Pcbs : q # p /\ state[q] \notin NoConnection => port[q] # n
  <2>1. localPort \in 0..PortMax
    BY <1>1 DEF TypeOK
  <2>2. CASE localPort > 0
    <3>1. n = localPort
      BY <2>2, <1>4 DEF LocalPorts
    <3>2. QED
      BY <2>1, <2>2, <3>1
  <2>3. CASE localPort = 0
    <3>1. /\ n \in LwipPorts
          /\ n \notin {port[q] : q \in {r \in Pcbs \ {p} : state[r] \notin NoConnection}}
      BY <2>3, <1>4 DEF LocalPorts
    <3>2. n \in 0..PortMax
      BY <3>1, ConstantsAssumption
    <3>3. QED
      BY <2>1, <2>3, <3>1, <3>2
  <2>4. QED
    BY <2>1, <2>2, <2>3, ConstantsAssumption
<1>7. /\ ctx'[c] = g /\ pcb'[c] = p /\ state'[p] = "syn_sent" /\ port'[p] = n
      /\ \A d \in Clients : d # c => ctx'[d] = ctx[d] /\ pcb'[d] = pcb[d]
      /\ \A q \in Pcbs : q # p => state'[q] = state[q] /\ port'[q] = port[q]
  BY <1>1, <1>3, <1>4 DEF TypeOK
<1>8. TypeOK'
  <2>1. /\ ctx' \in [Clients -> 0..MaxCtx]
        /\ pcb' \in [Clients -> Pcbs \cup {Null}] /\ tx' \in [Clients -> Pcbs \cup {Null}]
    BY <1>1, <1>2, <1>3 DEF TypeOK
  <2>2. /\ state' \in [Pcbs -> Active \cup {"free", "closing", "unconnected"}]
        /\ port' \in [Pcbs -> 0..PortMax]
    BY <1>1, <1>3, <1>4, <1>6 DEF TypeOK, Active
  <2>3. QED
    BY <1>1, <1>2, <1>3, <1>5, <2>1, <2>2 DEF TypeOK
<1>9. ActiveOwned' /\ IdleCallsNobody'
  <2>1. ASSUME NEW q \in Pcbs, state'[q] \in Active
        PROVE  Owned(q)' \/ LeftBehind(q)'
    <3>1. CASE q = p
      BY <3>1, <1>2, <1>7 DEF Owned, Owns
    <3>2. CASE q # p /\ Owned(q)
      <4>1. PICK d \in Clients : ctx[d] # 0 /\ Owns(d, q) /\ pcb[d] = q
        BY <3>2 DEF Owned
      <4>2. d # c
        BY <4>1, <1>2
      <4>3. QED
        BY <3>2, <4>1, <4>2, <1>2, <1>7 DEF Owned, Owns
    <3>3. CASE q # p /\ LeftBehind(q)
      BY <3>3, <1>2, <1>3 DEF LeftBehind
    <3>4. QED
      BY <2>1, <3>1, <3>2, <3>3, <1>1, <1>7 DEF Connections, ActiveOwned
  <2>2. IdleCallsNobody'
    BY <1>1, <1>2, <1>7 DEF Connections, IdleCallsNobody
  <2>3. QED
    BY <2>1, <2>2 DEF ActiveOwned
<1>10. HandleValid'
  <2>1. ASSUME NEW d \in Clients, ctx'[d] # 0, pcb'[d] # Null, cut'[d] = "no"
        PROVE  arg'[pcb'[d]] = <<d, ctx'[d]>> /\ state'[pcb'[d]] \in Active
    <3>1. CASE d = c
      BY <3>1, <1>2, <1>7 DEF Active
    <3>2. CASE d # c
      <4>1. ctx'[d] = ctx[d] /\ pcb'[d] = pcb[d]
        BY <3>2, <1>7
      <4>2. /\ pcb[d] \in Pcbs /\ pcb[d] # p
            /\ arg[pcb[d]] = <<d, ctx[d]>> /\ state[pcb[d]] \in Active
        BY <2>1, <3>2, <4>1, <1>2 DEF Owns
      <4>3. arg'[pcb[d]] = arg[pcb[d]] /\ state'[pcb[d]] = state[pcb[d]]
        BY <4>2, <1>2, <1>7
      <4>4. QED
        BY <4>1, <4>2, <4>3
    <3>3. QED
      BY <3>1, <3>2
  <2>2. QED
    BY <2>1 DEF HandleValid, Owns
<1>11. ASSUME NEW q \in Pcbs, q # p, state[q] \notin NoConnection
       PROVE  port[q] # n
  <2>1. CASE localPort > 0
    <3>1. port[q] < localPort
      BY <2>1, <1>1, <1>11 DEF Connections, PortsBelow
    <3>2. port[q] \in 0..PortMax
      BY <1>1 DEF TypeOK
    <3>3. QED
      BY <2>1, <3>1, <3>2, <1>6, ConstantsAssumption
  <2>2. CASE localPort = 0
    BY <2>2, <1>6, <1>11
  <2>3. QED
    BY <2>1, <2>2, <1>6
<1>12. PortsDistinct'
  <2>1. ASSUME NEW q \in Pcbs, NEW r \in Pcbs, q # r,
               {state'[q], state'[r]} \cap NoConnection = {}
        PROVE  port'[q] # port'[r]
    <3>1. CASE q = p
      BY <2>1, <3>1, <1>7, <1>11
    <3>2. CASE r = p
      BY <2>1, <3>2, <1>7, <1>11
    <3>3. CASE q # p /\ r # p
      BY <2>1, <3>3, <1>1, <1>7 DEF Connections, PortsDistinct
    <3>4. QED
      BY <3>1, <3>2, <3>3
  <2>2. QED
    BY <2>1 DEF PortsDistinct
<1>13. PortsBelow'
  <2>1. ASSUME localPort' > 0, NEW q \in Pcbs, state'[q] \notin NoConnection
        PROVE  port'[q] < localPort'
    <3>1. localPort > 0 /\ localPort' = localPort + 1
      BY <2>1, <1>5
    <3>2. CASE q = p
      BY <3>1, <3>2, <1>6, <1>7, ConstantsAssumption
    <3>3. CASE q # p
      <4>1. port[q] < localPort /\ port[q] \in 0..PortMax /\ port'[q] = port[q]
        BY <2>1, <3>1, <3>3, <1>1, <1>7 DEF Connections, PortsBelow, TypeOK
      <4>2. QED
        BY <3>1, <4>1, <1>6, ConstantsAssumption
    <3>4. QED
      BY <3>2, <3>3
  <2>2. QED
    BY <2>1 DEF PortsBelow
<1>14. QED
  BY <1>8, <1>9, <1>10, <1>12, <1>13 DEF IInv, Connections

(* connect() whose tcp_connect() fails: the PCB stays behind. *)
LEMMA ConnectFailInv ==
  ASSUME IInv, NEW c \in Clients, NEW p \in Pcbs, ConnectFail(c, p)
  PROVE  IInv'
<1>1. TypeOK /\ Connections /\ NewContext(c, p)
  BY DEF IInv, ConnectFail
<1>2. /\ ctx[c] = 0
      /\ gen' \in [Clients -> 0..MaxCtx]
      /\ arg' \in [Pcbs -> Contexts \cup {Null}]
      /\ \A q \in Pcbs : q # p => arg'[q] = arg[q]
      /\ cut' \in [Clients -> {"no", "error", "stolen"}]
      /\ \A d \in Clients : d # c /\ ctx[d] # 0 /\ pcb[d] # Null /\ cut'[d] = "no" =>
           pcb[d] \in Pcbs /\ pcb[d] # p /\ Owns(d, pcb[d]) /\ state[pcb[d]] \in Active
      /\ pending' \in [Clients -> SUBSET Bridges]
      /\ \A d \in Clients : pending'[d] \subseteq bridges[d]
  BY <1>1, NewContextFacts
<1>3. /\ state' = [state EXCEPT ![p] = "unconnected"]
      /\ port' = [port EXCEPT ![p] = localPort]
      /\ UNCHANGED <<ctx, pcb, tx, bridges, rx, running, abandoned, fault>>
  BY DEF ConnectFail, ContextConnect
<1>4. /\ localPort' \in 0..PortMax
      /\ localPort' > 0 => localPort > 0 /\ localPort' = localPort + 1
  BY <1>1, LocalPortFacts DEF NewContext
<1>5. /\ state'[p] = "unconnected"
      /\ \A q \in Pcbs : q # p => state'[q] = state[q] /\ port'[q] = port[q]
  BY <1>1, <1>3 DEF TypeOK
<1>6. TypeOK'
  <2>1. state' \in [Pcbs -> Active \cup {"free", "closing", "unconnected"}]
    BY <1>1, <1>3 DEF TypeOK
  <2>2. port' \in [Pcbs -> 0..PortMax]
    BY <1>1, <1>3 DEF TypeOK
  <2>3. QED
    BY <1>1, <1>2, <1>3, <1>4, <2>1, <2>2 DEF TypeOK
<1>7. ActiveOwned' /\ IdleCallsNobody'
  <2>1. \A q \in Pcbs : state'[q] \in Active \cup {"free", "closing"} =>
                          q # p /\ state'[q] = state[q] /\ arg'[q] = arg[q]
    BY <1>2, <1>5 DEF Active
  <2>2. \A q \in Pcbs : state'[q] \in Active /\ Owned(q) => Owned(q)'
    BY <1>3, <2>1 DEF Owned, Owns
  <2>3. \A q \in Pcbs : state'[q] \in Active /\ LeftBehind(q) => LeftBehind(q)'
    BY <1>3, <2>1 DEF LeftBehind
  <2>4. QED
    BY <1>1, <2>1, <2>2, <2>3 DEF Connections, ActiveOwned, IdleCallsNobody
<1>8. HandleValid'
  <2>1. ASSUME NEW d \in Clients, ctx'[d] # 0, pcb'[d] # Null, cut'[d] = "no"
        PROVE  arg'[pcb'[d]] = <<d, ctx'[d]>> /\ state'[pcb'[d]] \in Active
    BY <2>1, <1>2, <1>3, <1>5 DEF Owns
  <2>2. QED
    BY <2>1 DEF HandleValid, Owns
<1>9. \A q \in Pcbs : state'[q] \notin NoConnection =>
          state[q] \notin NoConnection /\ port'[q] = port[q]
  BY <1>5 DEF NoConnection
<1>10. PortsDistinct'
  <2>1. ASSUME NEW q \in Pcbs, NEW r \in Pcbs, q # r,
               {state'[q], state'[r]} \cap NoConnection = {}
        PROVE  port'[q] # port'[r]
    <3>1. {state[q], state[r]} \cap NoConnection = {}
      BY <2>1, <1>9
    <3>2. QED
      BY <2>1, <3>1, <1>1, <1>9 DEF Connections, PortsDistinct
  <2>2. QED
    BY <2>1 DEF PortsDistinct
<1>11. PortsBelow'
  <2>1. ASSUME localPort' > 0, NEW q \in Pcbs, state'[q] \notin NoConnection
        PROVE  port'[q] < localPort'
    <3>1. localPort > 0 /\ localPort' = localPort + 1
      BY <2>1, <1>4
    <3>2. port[q] < localPort
      BY <2>1, <3>1, <1>1, <1>9 DEF Connections, PortsBelow
    <3>3. port[q] \in 0..PortMax /\ localPort \in 0..PortMax /\ port'[q] = port[q]
      BY <2>1, <1>1, <1>9 DEF TypeOK
    <3>4. QED
      BY <3>1, <3>2, <3>3, ConstantsAssumption
  <2>2. QED
    BY <2>1 DEF PortsBelow
<1>12. QED
  BY <1>6, <1>7, <1>8, <1>10, <1>11 DEF IInv, Connections

(* stop() and shutdown(): close(), and with shutdown() the context goes. *)
LEMMA CloseInv ==
  ASSUME IInv, NEW c \in Clients, Stop(c) \/ Shutdown(c)
  PROVE  IInv'
<1>1. TypeOK /\ Connections
  BY DEF IInv, Connections
<1>2. Close(c) /\ UNCHANGED <<gen, localPort, bridges, pending, rx, running, abandoned>>
  BY DEF Stop, Shutdown, bridgeVars
<1>3. /\ UNCHANGED <<ctx, tx>> \/ (/\ ctx' = [ctx EXCEPT ![c] = 0]
                                   /\ tx' = [tx EXCEPT ![c] = Null])
      /\ ctx' \in [Clients -> 0..MaxCtx]
      /\ tx' \in [Clients -> Pcbs \cup {Null}]
      /\ \A d \in Clients : d # c => ctx'[d] = ctx[d]
  <2>1. UNCHANGED <<ctx, tx>> \/ (/\ ctx' = [ctx EXCEPT ![c] = 0]
                                  /\ tx' = [tx EXCEPT ![c] = Null])
    BY DEF Stop, Shutdown, DeleteContext
  <2>2. ctx \in [Clients -> 0..MaxCtx] /\ tx \in [Clients -> Pcbs \cup {Null}]
    BY <1>1 DEF TypeOK
  <2>3. QED
    BY <2>1, <2>2, ConstantsAssumption
<1>4. CASE pcb[c] = Null \/ state[pcb[c]] = "free"
  <2>1. /\ UNCHANGED <<pcb, state, arg, port, cut>>
        /\ fault' \in {fault, <<c, "freed_pcb">>}
    BY <1>2, <1>4 DEF Close, lwipVars
  <2>2. <<c, "freed_pcb">> \in Clients \X Faults
    BY DEF Faults
  <2>3. TypeOK'
    BY <1>1, <1>2, <1>3, <2>1, <2>2 DEF TypeOK
  <2>4. CASE UNCHANGED <<ctx, tx>>
    <3>1. Connections'
      BY <1>1, <1>2, <2>1, <2>4, ConnectionsKept
    <3>2. QED
      BY <2>3, <3>1 DEF IInv
  <2>5. CASE ctx' = [ctx EXCEPT ![c] = 0]
    <3>1. Connections'
      <4>1. ~Connected(c)
        BY <1>4 DEF Connected, Active
      <4>2. QED
        BY <1>1, <1>2, <2>1, <2>5, <4>1, ContextGone
    <3>2. QED
      BY <2>3, <3>1 DEF IInv
  <2>6. QED
    BY <1>3, <2>4, <2>5
<1>5. CASE pcb[c] # Null /\ state[pcb[c]] # "free"
  <2> DEFINE p == pcb[c]
  <2>1. p \in Pcbs /\ p # Null
    BY <1>1, <1>5 DEF TypeOK
  <2>2. /\ arg' = [arg EXCEPT ![p] = Null]
        /\ cut' = IF Owns(c, p) THEN cut ELSE CutOff(cut, p, "stolen")
        /\ pcb' = [pcb EXCEPT ![c] = Null]
        /\ UNCHANGED <<port, fault>>
    BY <1>2, <1>5 DEF Close, Unregister, ForgetPcb
  <2>3. PICK s \in TcpClose(state[p]) : state' = [state EXCEPT ![p] = s]
    BY <1>2, <1>5 DEF Close
  <2>4. /\ s \in {"free", "closing"}
        /\ state[p] = "free" => s = "free"
        /\ state[p] = "unconnected" => s = "free"
    BY <2>3 DEF TcpClose
  <2>5. pcb'[c] = Null /\ \A d \in Clients : d # c => pcb'[d] = pcb[d]
    BY <1>1, <2>2 DEF TypeOK
  <2>6. /\ CutOff(cut, p, "stolen") \in [Clients -> {"no", "error", "stolen"}]
        /\ \A d \in Clients : CutOff(cut, p, "stolen")[d] = "no" =>
             cut[d] = "no" /\ \A g \in 1..MaxCtx : arg[p] # <<d, g>>
    BY <1>1, <2>1, CutOffFacts
  <2> HIDE DEF p
  <2>7. TypeOK'
    <3>1. /\ pcb' \in [Clients -> Pcbs \cup {Null}]
          /\ arg' \in [Pcbs -> Contexts \cup {Null}]
          /\ cut' \in [Clients -> {"no", "error", "stolen"}]
      BY <1>1, <2>2, <2>6 DEF TypeOK
    <3>2. state' \in [Pcbs -> Active \cup {"free", "closing", "unconnected"}]
      BY <1>1, <2>3, <2>4 DEF TypeOK
    <3>3. QED
      BY <1>1, <1>2, <1>3, <2>2, <3>1, <3>2 DEF TypeOK
  <2>8. ASSUME NEW d \in Clients, ctx'[d] # 0, pcb'[d] # Null, cut'[d] = "no"
        PROVE  cut[d] = "no" /\ pcb'[d] # p
    <3>1. d # c
      BY <2>5, <2>8
    <3>2. /\ ctx[d] \in 1..MaxCtx /\ pcb[d] # Null /\ pcb'[d] = pcb[d]
      BY <1>1, <1>3, <2>5, <2>8, <3>1, ConstantsAssumption DEF TypeOK
    <3>3. cut[d] = "no" /\ arg[p] # <<d, ctx[d]>>
      <4>1. CASE Owns(c, p)
        BY <2>2, <2>8, <3>1, <4>1 DEF Owns
      <4>2. CASE ~Owns(c, p)
        BY <2>2, <2>6, <2>8, <3>2, <4>2
      <4>3. QED
        BY <4>1, <4>2
    <3>4. arg[pcb[d]] = <<d, ctx[d]>>
      BY <1>1, <3>2, <3>3, ConstantsAssumption DEF Connections, HandleValid, Owns
    <3>5. QED
      BY <3>2, <3>3, <3>4
  <2>9. \A d \in Clients : ctx'[d] # 0 /\ pcb'[d] # Null =>
           ctx'[d] = ctx[d] /\ pcb'[d] = pcb[d]
    BY <1>3, <2>5
  <2>10. \A d \in Clients : ctx[d] # 0 /\ pcb[d] \in Pcbs /\ pcb[d] # p =>
           ctx'[d] = ctx[d] /\ pcb'[d] = pcb[d]
    BY <1>3, <2>5 DEF p
  <2>11. Connections'
    <3>1. UNCHANGED <<port, localPort, abandoned>> /\ arg' = [arg EXCEPT ![p] = Null]
      BY <1>2, <2>2
    <3>2. QED
      BY <1>1, <2>1, <2>3, <2>4, <2>8, <2>9, <2>10, <3>1, ConnectionEnds
  <2>12. QED
    BY <2>7, <2>11 DEF IInv
<1>6. QED
  BY <1>4, <1>5

(* ~TcpClient(): the client's connection is left behind. *)
LEMMA DestroyInv ==
  ASSUME IInv, NEW c \in Clients, Destroy(c)
  PROVE  IInv'
<1>1. TypeOK /\ Connections
  BY DEF IInv
<1>2. /\ ctx' = [ctx EXCEPT ![c] = 0]
      /\ tx' = [tx EXCEPT ![c] = Null]
      /\ pcb' = [pcb EXCEPT ![c] = Null]
      /\ gen' = [gen EXCEPT ![c] = MaxCtx]
      /\ pending' = [pending EXCEPT ![c] = {}]
      /\ abandoned' = IF Connected(c) THEN abandoned \cup {c} ELSE abandoned
      /\ UNCHANGED <<localPort, state, arg, port, bridges, rx, running, cut, fault>>
  BY DEF Destroy, DeleteContext, lwipVars
<1>3. TypeOK'
  <2>1. /\ ctx' \in [Clients -> 0..MaxCtx] /\ gen' \in [Clients -> 0..MaxCtx]
        /\ tx' \in [Clients -> Pcbs \cup {Null}] /\ pcb' \in [Clients -> Pcbs \cup {Null}]
    BY <1>1, <1>2, ConstantsAssumption DEF TypeOK
  <2>2. /\ pending' \in [Clients -> SUBSET Bridges]
        /\ \A d \in Clients : pending'[d] \subseteq bridges[d]
    BY <1>1, <1>2 DEF TypeOK
  <2>3. abandoned' \subseteq Clients
    BY <1>1, <1>2 DEF TypeOK
  <2>4. QED
    BY <1>1, <1>2, <2>1, <2>2, <2>3 DEF TypeOK
<1>4. \A d \in Clients : d # c => pcb'[d] = pcb[d]
  BY <1>1, <1>2 DEF TypeOK
<1>5. abandoned \subseteq abandoned' /\ (Connected(c) => c \in abandoned')
  BY <1>2
<1>6. Connections'
  BY <1>1, <1>2, <1>4, <1>5, ContextGone
<1>7. QED
  BY <1>3, <1>6 DEF IInv

(* A step that at most accesses memory. *)
LEMMA AccessInv ==
  ASSUME IInv, UNCHANGED <<clientVars, lwipVars, bridgeVars, running, cut, abandoned>>,
         fault' = fault \/ fault' \in Clients \X Faults
  PROVE  IInv'
<1>1. UNCHANGED <<ctx, pcb, tx, gen, localPort, state, arg, port, bridges, pending, rx,
                 running, cut, abandoned>>
  BY DEF clientVars, lwipVars, bridgeVars
<1>2. TypeOK'
  BY <1>1 DEF IInv, TypeOK
<1>3. Connections'
  BY <1>1, ConnectionsKept DEF IInv
<1>4. QED
  BY <1>2, <1>3 DEF IInv

(* What the operations that only access memory do to fault. *)
LEMMA AccessFacts ==
  ASSUME NEW c \in Clients,
         \/ Write(c) \/ WriteChunk(c) \/ ReadPcb(c) \/ KeepAlive(c)
         \/ \E e \in RxEvents : ReadRx(c, e)
  PROVE  /\ UNCHANGED <<clientVars, lwipVars, bridgeVars, running, cut, abandoned>>
         /\ fault' = fault \/ fault' \in {c} \X Faults
<1>1. UNCHANGED <<clientVars, lwipVars, bridgeVars, running, cut, abandoned>>
  BY DEF Write, WriteChunk, ReadPcb, KeepAlive, ReadRx
<1>2. UsePcb(c) = fault \/ UsePcb(c) \in {c} \X Faults
  BY DEF UsePcb, Faults
<1>3. Dereference(c) = fault \/ Dereference(c) \in {c} \X Faults
  BY <1>2 DEF Dereference, Faults
<1>4. CASE Write(c)
  BY <1>4 DEF Write, Faults
<1>5. CASE WriteChunk(c) \/ ReadPcb(c)
  BY <1>2, <1>5 DEF WriteChunk, ReadPcb
<1>6. CASE KeepAlive(c)
  BY <1>3, <1>6 DEF KeepAlive, Faults
<1>7. CASE \E e \in RxEvents : ReadRx(c, e)
  BY <1>7 DEF ReadRx, Faults
<1>8. QED
  BY <1>1, <1>4, <1>5, <1>6, <1>7

(* lwIP calls a deleted context. *)
LEMMA DanglingFacts ==
  ASSUME IInv, NEW p \in Pcbs,
         LwipDangling(p) \/ \E c \in Clients : ConnectDangling(c, p)
  PROVE  /\ UNCHANGED <<clientVars, lwipVars, bridgeVars, running, cut, abandoned>>
         /\ arg[p][1] \in Clients
         /\ fault' = <<arg[p][1], "freed_ctx">>
         /\ arg[p][1] \in abandoned
<1>1. /\ Dangling(p)
      /\ fault' = <<arg[p][1], "freed_ctx">>
      /\ UNCHANGED <<clientVars, lwipVars, bridgeVars, running, cut, abandoned>>
  BY DEF LwipDangling, ConnectDangling, DeletedContext
<1>2. state[p] \in Active
  <2>1. arg[p] # Null
    BY <1>1 DEF Dangling
  <2>2. state[p] \notin {"free", "closing"}
    BY <2>1 DEF IInv, Connections, IdleCallsNobody
  <2>3. QED
    BY <2>2 DEF LwipDangling, ConnectDangling, NewPcb, TcpNew, Free
<1>3. QED
  BY <1>1, <1>2, OwnerOfActive DEF IInv, Connections

(* The application registers its handlers; a handler starts or returns; an *)
(* error of writeChunk() is reported.                                      *)
LEMMA HandlersInv ==
  ASSUME IInv,
         \/ HandlerReturn
         \/ \E c \in Clients : \/ SetOnCallbacks(c)
                               \/ WriteChunkError(c)
                               \/ \E e \in Events : HandlerStart(c, e)
  PROVE  IInv'
<1>1. TypeOK /\ Connections
  BY DEF IInv
<1>2. UNCHANGED <<ctx, pcb, tx, gen, localPort, state, arg, port, rx, cut, abandoned, fault>>
  BY DEF HandlerReturn, SetOnCallbacks, WriteChunkError, HandlerStart, clientVars,
         lwipVars, bridgeVars, histVars
<1>3. Connections'
  BY <1>1, <1>2, ConnectionsKept
<1>4. SUFFICES TypeOK'
  BY <1>3 DEF IInv
<1>5. CASE HandlerReturn
  <2>1. running' = <<>> /\ UNCHANGED <<bridges, pending>>
    BY <1>5 DEF HandlerReturn, bridgeVars
  <2>2. QED
    BY <1>1, <1>2, <2>1 DEF TypeOK
<1>6. ASSUME NEW c \in Clients, SetOnCallbacks(c)
      PROVE  TypeOK'
  <2>1. /\ bridges[c] = {} /\ bridges' = [bridges EXCEPT ![c] = Bridges]
        /\ UNCHANGED <<pending, running>>
    BY <1>6 DEF SetOnCallbacks
  <2>2. /\ bridges' \in [Clients -> SUBSET Bridges]
        /\ \A d \in Clients : pending[d] \subseteq bridges'[d]
    BY <1>1, <2>1 DEF TypeOK
  <2>3. QED
    BY <1>1, <1>2, <2>1, <2>2 DEF TypeOK
<1>7. ASSUME NEW c \in Clients, WriteChunkError(c)
      PROVE  TypeOK'
  <2>1. pending' = Notify(pending, c, "error") /\ UNCHANGED <<bridges, running>>
    BY <1>7 DEF WriteChunkError, OnError
  <2>2. /\ pending' \in [Clients -> SUBSET Bridges]
        /\ \A d \in Clients : pending'[d] \subseteq bridges[d]
    BY <1>1, <2>1, NotifyFacts
  <2>3. QED
    BY <1>1, <1>2, <2>1, <2>2 DEF TypeOK
<1>8. ASSUME NEW c \in Clients, NEW e \in Events, HandlerStart(c, e)
      PROVE  TypeOK'
  <2>1. /\ e \in pending[c] /\ running' = <<c, e>>
        /\ pending' = [pending EXCEPT ![c] = pending[c] \ {e}]
        /\ UNCHANGED bridges
    BY <1>8 DEF HandlerStart
  <2>2. running' \in Clients \X Bridges
    BY <1>1, <2>1 DEF TypeOK
  <2>3. /\ pending' \in [Clients -> SUBSET Bridges]
        /\ \A d \in Clients : pending'[d] \subseteq bridges'[d]
    BY <1>1, <2>1 DEF TypeOK
  <2>4. QED
    BY <1>1, <1>2, <2>1, <2>2, <2>3 DEF TypeOK
<1>9. QED
  BY <1>5, <1>6, <1>7, <1>8

(* Every step preserves IInv. *)
LEMMA NextInv == IInv /\ [Next]_vars => IInv'
<1> SUFFICES ASSUME IInv, [Next]_vars PROVE IInv'
  OBVIOUS
<1>1. CASE Lwip
  <2>1. PICK p \in Pcbs : \/ LwipAnswers(p) \/ LwipReceive(p) \/ LwipFin(p)
                          \/ LwipPoll(p) \/ LwipReap(p) \/ LwipDangling(p)
    BY <1>1 DEF Lwip
  <2>2. CASE LwipDangling(p)
    BY <2>2, DanglingFacts, AccessInv DEF Faults
  <2>3. QED
    BY <2>1, <2>2, CallbackInv, LwipErrorInv, LwipReapInv DEF LwipAnswers
<1>2. CASE UNCHANGED vars
  BY <1>2, AccessInv DEF vars, histVars
<1>3. CASE Api
  <2>1. PICK c \in Clients : \/ SetOnCallbacks(c) \/ ConnectRefused(c)
                             \/ \E p \in Pcbs : \/ Connect(c, p) \/ ConnectFail(c, p)
                                                \/ ConnectDangling(c, p)
                             \/ Stop(c) \/ Shutdown(c) \/ Destroy(c)
                             \/ Write(c) \/ WriteChunk(c) \/ WriteChunkError(c)
                             \/ ReadPcb(c)
    BY <1>3 DEF Api
  <2>2. CASE SetOnCallbacks(c) \/ WriteChunkError(c)
    BY <2>2, HandlersInv
  <2>3. CASE ConnectRefused(c)
    BY <2>3, <1>2 DEF ConnectRefused
  <2>4. CASE \E p \in Pcbs : Connect(c, p) \/ ConnectFail(c, p)
    BY <2>4, ConnectInv, ConnectFailInv
  <2>5. CASE \E p \in Pcbs : ConnectDangling(c, p)
    BY <2>5, DanglingFacts, AccessInv DEF Faults
  <2>6. CASE Stop(c) \/ Shutdown(c)
    BY <2>6, CloseInv
  <2>7. CASE Destroy(c)
    BY <2>7, DestroyInv
  <2>8. CASE Write(c) \/ WriteChunk(c) \/ ReadPcb(c)
    BY <2>8, AccessFacts, AccessInv
  <2>9. QED
    BY <2>1, <2>2, <2>3, <2>4, <2>5, <2>6, <2>7, <2>8
<1>4. CASE Handlers
  <2>1. CASE \E c \in Clients : KeepAlive(c) \/ \E e \in RxEvents : ReadRx(c, e)
    BY <2>1, AccessFacts, AccessInv
  <2>2. CASE HandlerReturn \/ \E c \in Clients : \E e \in Events : HandlerStart(c, e)
    BY <2>2, HandlersInv
  <2>3. QED
    BY <1>4, <2>1, <2>2 DEF Handlers
<1>5. QED
  BY <1>1, <1>2, <1>3, <1>4 DEF Next

(* IInv holds in every state. *)
THEOREM Invariance == Spec => []IInv
BY InitInv, NextInv, PTL DEF Spec

-----------------------------------------------------------------------------

(* The variables keep their types; only registered bridges are pending. *)
THEOREM TypeCorrect == Spec => []TypeOK
<1>1. IInv => TypeOK
  BY DEF IInv
<1>2. QED
  BY <1>1, Invariance, PTL

(* No callback of lwIP reaches a deleted context, and each connection has  *)
(* a context that can close it, however many clients share the pool,       *)
(* unless its client was destroyed while it was connected.                 *)
THEOREM CallbacksFindContext == Spec => []ActivePcbOwned
<1>1. IInv => ActivePcbOwned
  BY DEF IInv, Connections, ActiveOwned, IdleCallsNobody, Owned, LeftBehind, ActivePcbOwned
<1>2. QED
  BY <1>1, Invariance, PTL

(* A context's _pcb is its own PCB unless lwIP took it away. *)
THEOREM HandlesValid == Spec => []HandleValid
<1>1. IInv => HandleValid
  BY DEF IInv, Connections
<1>2. QED
  BY <1>1, Invariance, PTL

(* No two connections share a local port, before and after the counter of  *)
(* the clients wraps.                                                      *)
THEOREM LocalPortsDistinct == Spec => []PortsDistinct
<1>1. IInv => PortsDistinct
  BY DEF IInv, Connections
<1>2. QED
  BY <1>1, Invariance, PTL

-----------------------------------------------------------------------------
(***************************************************************************)
(* The end of a connection.                                                *)
(***************************************************************************)

(* A step that touches neither the client nor its PCB. *)
LEMMA StaysConnected ==
  ASSUME NEW d \in Clients,
         ctx'[d] = ctx[d], pcb'[d] = pcb[d],
         arg'[pcb[d]] = arg[pcb[d]],
         state'[pcb[d]] \in Active
  PROVE  EndTold(d)
BY DEF EndTold, Connected, Owns

(* lwIP's error callback of the PCB of a connection reaches its client. *)
LEMMA ErrorTold ==
  ASSUME TypeOK, NEW d \in Clients, Connected(d), SError(pcb[d])
  PROVE  EndTold(d)
<1>1. pcb[d] \in Pcbs /\ arg[pcb[d]] = <<d, ctx[d]>> /\ ctx[d] \in 1..MaxCtx
  BY ConstantsAssumption DEF TypeOK, Connected, Owns
<1>2. arg[pcb[d]] # Null /\ arg[pcb[d]][1] = d
  BY <1>1, ConstantsAssumption
<1>3. "error" \in bridges[d] => "error" \in pending'[d]
  BY <1>1, <1>2, SErrorFacts
<1>4. QED
  BY <1>3 DEF EndTold

(* close(), of the client itself or of another one. *)
LEMMA CloseTold ==
  ASSUME IInv, NEW d \in Clients, Connected(d), NEW c \in Clients,
         Stop(c) \/ Shutdown(c)
  PROVE  EndTold(d)
<1>1. TypeOK /\ HandleValid /\ pcb[d] \in Pcbs /\ state[pcb[d]] \in Active
  BY DEF IInv, Connections, TypeOK, Connected
<1>2. /\ ctx[c] # 0 /\ Close(c)
      /\ \A x \in Clients : x # c => ctx'[x] = ctx[x]
  BY <1>1 DEF Stop, Shutdown, DeleteContext, TypeOK
<1>3. CASE pcb[c] = Null \/ state[pcb[c]] = "free"
  <2>1. UNCHANGED <<pcb, state, arg>>
    BY <1>2, <1>3 DEF Close, lwipVars
  <2>2. d # c
    BY <1>1, <1>3 DEF Connected, Active
  <2>3. QED
    BY <1>1, <1>2, <2>1, <2>2, StaysConnected
<1>4. CASE pcb[c] # Null /\ state[pcb[c]] # "free"
  <2>1. /\ arg' = [arg EXCEPT ![pcb[c]] = Null]
        /\ \E s : state' = [state EXCEPT ![pcb[c]] = s]
        /\ pcb' = [pcb EXCEPT ![c] = Null]
    BY <1>2, <1>4 DEF Close, Unregister, ForgetPcb
  <2>2. pcb'[c] = Null /\ \A x \in Clients : x # c => pcb'[x] = pcb[x]
    BY <1>1, <2>1 DEF TypeOK
  <2>3. CASE d = c
    BY <2>2, <2>3 DEF EndTold
  <2>4. CASE d # c /\ pcb[c] = pcb[d]
    <3>1. ~Owns(c, pcb[c])
      BY <2>4 DEF Connected, Owns
    <3>2. cut[c] # "no"
      BY <1>1, <1>2, <1>4, <3>1 DEF HandleValid
    <3>3. QED
      BY <2>2, <2>4, <3>2 DEF EndTold
  <2>5. CASE d # c /\ pcb[c] # pcb[d]
    <3>1. arg'[pcb[d]] = arg[pcb[d]] /\ state'[pcb[d]] = state[pcb[d]]
      BY <1>1, <2>1, <2>5 DEF TypeOK
    <3>2. QED
      BY <1>1, <1>2, <2>2, <2>5, <3>1, StaysConnected
  <2>6. QED
    BY <2>3, <2>4, <2>5
<1>5. QED
  BY <1>3, <1>4

(* Every step tells the clients whose connections it ends. *)
LEMMA EndToldStep ==
  ASSUME IInv, Next, NEW d \in Clients
  PROVE  EndTold(d)
<1>1. SUFFICES ASSUME Connected(d)
               PROVE  EndTold(d)
  BY DEF EndTold
<1>2. /\ TypeOK /\ ctx[d] # 0 /\ pcb[d] \in Pcbs /\ state[pcb[d]] \in Active
      /\ state[pcb[d]] # "closing"
  BY <1>1 DEF IInv, TypeOK, Connected, Active
<1>3. CASE UNCHANGED <<ctx, pcb, arg, state>>
  BY <1>2, <1>3, StaysConnected
<1>4. ASSUME NEW p \in Pcbs, NEW s, p # pcb[d] \/ s \in Active,
             state' = [state EXCEPT ![p] = s],
             UNCHANGED <<ctx, pcb, arg>>
      PROVE  EndTold(d)
  BY <1>2, <1>4, StaysConnected DEF TypeOK
<1>5. ASSUME NEW p \in Pcbs, NEW x, NEW s, SError(p),
             arg' = [arg EXCEPT ![p] = x], state' = [state EXCEPT ![p] = s],
             ctx'[d] = ctx[d], pcb'[d] = pcb[d]
      PROVE  EndTold(d)
  <2>1. CASE p = pcb[d]
    BY <1>1, <1>2, <1>5, <2>1, ErrorTold
  <2>2. CASE p # pcb[d]
    BY <1>2, <1>5, <2>2, StaysConnected DEF TypeOK
  <2>3. QED
    BY <2>1, <2>2
<1>6. CASE Lwip
  <2>1. PICK p \in Pcbs : \/ LwipConnected(p) \/ LwipError(p) \/ LwipReceive(p) \/ LwipFin(p)
                          \/ LwipPoll(p) \/ LwipReap(p) \/ LwipDangling(p)
    BY <1>6 DEF Lwip, LwipAnswers
  <2>2. CASE LwipConnected(p)
    BY <2>2, <1>4 DEF LwipConnected, clientVars, Active
  <2>3. CASE LwipFin(p)
    BY <2>3, <1>4 DEF LwipFin, clientVars, Active
  <2>4. CASE LwipReap(p)
    BY <2>4, <1>2, <1>4 DEF LwipReap, clientVars
  <2>5. CASE LwipError(p)
    BY <2>5, <1>5 DEF LwipError, clientVars
  <2>6. CASE LwipReceive(p) \/ LwipPoll(p) \/ LwipDangling(p)
    BY <2>6, <1>3 DEF LwipReceive, LwipPoll, LwipDangling, DeletedContext, clientVars, lwipVars
  <2>7. QED
    BY <2>1, <2>2, <2>3, <2>4, <2>5, <2>6
<1>7. CASE Api
  <2>1. PICK c \in Clients : \/ SetOnCallbacks(c) \/ ConnectRefused(c)
                             \/ \E p \in Pcbs : \/ Connect(c, p) \/ ConnectFail(c, p)
                                                \/ ConnectDangling(c, p)
                             \/ Stop(c) \/ Shutdown(c) \/ Destroy(c)
                             \/ Write(c) \/ WriteChunk(c) \/ WriteChunkError(c)
                             \/ ReadPcb(c)
    BY <1>7 DEF Api
  <2>2. CASE \/ SetOnCallbacks(c) \/ WriteChunkError(c) \/ Write(c) \/ WriteChunk(c)
             \/ ReadPcb(c) \/ \E p \in Pcbs : ConnectDangling(c, p)
    BY <2>2, <1>3 DEF SetOnCallbacks, WriteChunkError, Write, WriteChunk, ReadPcb,
                      ConnectDangling, DeletedContext, clientVars, lwipVars
  <2>3. CASE ConnectRefused(c)
    BY <2>3, <1>3 DEF ConnectRefused, vars, clientVars, lwipVars
  <2>4. ASSUME NEW p \in Pcbs, Connect(c, p) \/ ConnectFail(c, p)
        PROVE  EndTold(d)
    <3>1. ctx[c] = 0 /\ SError(p) /\ arg' = [arg EXCEPT ![p] = <<c, gen[c] + 1>>]
      BY <2>4 DEF Connect, ConnectFail, NewContext, NewPcb, Register
    <3>2. \E s : state' = [state EXCEPT ![p] = s]
      BY <2>4 DEF Connect, ConnectFail, ContextConnect
    <3>3. ctx'[d] = ctx[d] /\ pcb'[d] = pcb[d]
      <4>1. d # c
        BY <1>2, <3>1
      <4>2. QED
        BY <4>1, <1>2, <2>4 DEF Connect, ConnectFail, TypeOK
    <3>4. QED
      BY <3>1, <3>2, <3>3, <1>5
  <2>5. CASE Stop(c) \/ Shutdown(c)
    BY <2>5, <1>1, CloseTold
  <2>6. CASE Destroy(c)
    <3>1. /\ ctx' = [ctx EXCEPT ![c] = 0] /\ pcb' = [pcb EXCEPT ![c] = Null]
          /\ UNCHANGED <<arg, state>>
      BY <2>6 DEF Destroy, DeleteContext, lwipVars
    <3>2. CASE d = c
      BY <3>1, <3>2, <1>2 DEF EndTold, TypeOK
    <3>3. CASE d # c
      BY <3>1, <3>3, <1>2, StaysConnected DEF TypeOK
    <3>4. QED
      BY <3>2, <3>3
  <2>7. QED
    BY <2>1, <2>2, <2>3, <2>4, <2>5, <2>6
<1>8. CASE Handlers
  BY <1>8, <1>3 DEF Handlers, KeepAlive, ReadRx, HandlerReturn, HandlerStart, clientVars,
                    lwipVars
<1>9. QED
  BY <1>6, <1>7, <1>8 DEF Next

(* A client whose connection ends ended it or gets its error handler, also *)
(* when lwIP takes the PCB for another client; only a client that was cut  *)
(* off itself, and closes through its stale _pcb, can end the connection   *)
(* of another one in silence.                                              *)
THEOREM EndsAreTold == Spec => NoSilentEnd
<1>1. IInv /\ [Next]_vars => [\A d \in Clients : EndTold(d)]_vars
  BY EndToldStep
<1>2. QED
  BY <1>1, Invariance, PTL DEF Spec, NoSilentEnd

-----------------------------------------------------------------------------
(***************************************************************************)
(* The uses of stale pointers.                                             *)
(***************************************************************************)

(* Until close() the writer has the context's pointer. *)
SamePcb ==
  \A c \in Clients : ctx[c] # 0 /\ pcb[c] # Null => tx[c] = pcb[c]

(* A connection or a context that is given up leaves the pointers of the   *)
(* context and of its writer equal, or no pointer in the context.          *)
LEMMA SamePcbStep ==
  ASSUME IInv, SamePcb, [Next]_vars
  PROVE  SamePcb'
<1>1. CASE UNCHANGED <<ctx, pcb, tx>>
  BY <1>1 DEF SamePcb
<1>2. CASE Lwip
  BY <1>1, <1>2 DEF Lwip, LwipAnswers, LwipConnected, LwipError, LwipReceive, LwipFin,
                    LwipPoll, LwipReap, LwipDangling, DeletedContext, clientVars
<1>3. CASE Api
  <2>1. PICK c \in Clients : \/ SetOnCallbacks(c) \/ ConnectRefused(c)
                             \/ \E p \in Pcbs : \/ Connect(c, p) \/ ConnectFail(c, p)
                                                \/ ConnectDangling(c, p)
                             \/ Stop(c) \/ Shutdown(c) \/ Destroy(c)
                             \/ Write(c) \/ WriteChunk(c) \/ WriteChunkError(c)
                             \/ ReadPcb(c)
    BY <1>3 DEF Api
  <2>2. CASE \/ SetOnCallbacks(c) \/ WriteChunkError(c) \/ Write(c) \/ WriteChunk(c)
             \/ ReadPcb(c) \/ \E p \in Pcbs : ConnectFail(c, p) \/ ConnectDangling(c, p)
    BY <2>2, <1>1 DEF SetOnCallbacks, WriteChunkError, Write, WriteChunk, ReadPcb,
                      ConnectFail, ConnectDangling, DeletedContext, clientVars
  <2>3. CASE ConnectRefused(c)
    BY <2>3, <1>1 DEF ConnectRefused, vars, clientVars
  <2>4. CASE \E p \in Pcbs : Connect(c, p)
    BY <2>4 DEF Connect, InitTxWriter, SamePcb, IInv, TypeOK
  <2>5. CASE Stop(c)
    <3>1. ctx' = ctx /\ tx' = tx /\ (pcb' = pcb \/ pcb' = [pcb EXCEPT ![c] = Null])
      BY <2>5 DEF Stop, Close, ForgetPcb
    <3>2. QED
      BY <3>1 DEF SamePcb, IInv, TypeOK
  <2>6. CASE Shutdown(c) \/ Destroy(c)
    <3>1. /\ ctx' = [ctx EXCEPT ![c] = 0] /\ tx' = [tx EXCEPT ![c] = Null]
          /\ pcb' = pcb \/ pcb' = [pcb EXCEPT ![c] = Null]
      BY <2>6 DEF Shutdown, Destroy, DeleteContext, Close, ForgetPcb
    <3>2. QED
      BY <3>1 DEF SamePcb, IInv, TypeOK
  <2>7. QED
    BY <2>1, <2>2, <2>3, <2>4, <2>5, <2>6
<1>4. CASE Handlers
  BY <1>4, <1>1 DEF Handlers, KeepAlive, ReadRx, HandlerReturn, HandlerStart, clientVars
<1>5. CASE UNCHANGED vars
  BY <1>5, <1>1 DEF vars, clientVars
<1>6. QED
  BY <1>2, <1>3, <1>4, <1>5 DEF Next

(* A context that still has its PCB works on that PCB, whichever of the    *)
(* two pointers it goes through.                                           *)
LEMMA OwnMeansValid ==
  ASSUME IInv, SamePcb, NEW c \in Clients, ctx[c] # 0, pcb[c] # Null, cut[c] = "no"
  PROVE  /\ state[pcb[c]] # "free" /\ Owns(c, pcb[c])
         /\ state[tx[c]] # "free" /\ Owns(c, tx[c])
<1>1. Owns(c, pcb[c]) /\ state[pcb[c]] # "free"
  BY DEF IInv, Connections, HandleValid, Active
<1>2. tx[c] = pcb[c]
  BY DEF SamePcb
<1>3. QED
  BY <1>1, <1>2

(* A use of _pcb that goes wrong is one of a client that was cut off. *)
LEMMA UsePcbFacts ==
  ASSUME IInv, SamePcb, NEW c \in Clients, ctx[c] # 0, pcb[c] # Null, Running
  PROVE  \/ UsePcb(c) = <<>>
         \/ UsePcb(c) \in {<<c, "freed_pcb">>, <<c, "foreign_pcb">>} /\ cut[c] # "no"
BY OwnMeansValid DEF UsePcb, Running

(* A step through a stale pointer is one of the very client that was cut   *)
(* off, that was closed or that was destroyed.                             *)
LEMMA StaleUseStep ==
  ASSUME IInv, SamePcb, StaleUseExplained, [Next]_vars
  PROVE  StaleUseExplained'
<1>1. CASE fault' = <<>>
  BY <1>1 DEF StaleUseExplained
<1>2. CASE UNCHANGED vars
  BY <1>2 DEF StaleUseExplained, vars, clientVars, histVars
<1>3. ASSUME NEW c \in Clients, cut'[c] # "no",
             fault' \in {<<c, "freed_pcb">>, <<c, "foreign_pcb">>}
      PROVE  StaleUseExplained'
  BY <1>3 DEF StaleUseExplained
<1>4. ASSUME NEW c \in Clients, pcb'[c] = Null \/ cut'[c] # "no",
             fault' \in {<<c, "freed_tx">>, <<c, "foreign_tx">>}
      PROVE  StaleUseExplained'
  BY <1>4 DEF StaleUseExplained
<1>5. ASSUME NEW c \in Clients, fault' \in {<<c, "null_pointer">>, <<c, "freed_rx">>}
      PROVE  StaleUseExplained'
  BY <1>5 DEF StaleUseExplained
<1>6. ASSUME NEW p \in Pcbs, LwipDangling(p) \/ \E c \in Clients : ConnectDangling(c, p)
      PROVE  StaleUseExplained'
  <2>1. arg[p][1] \in abandoned' /\ fault' = <<arg[p][1], "freed_ctx">>
    BY <1>6, DanglingFacts
  <2>2. QED
    BY <2>1 DEF StaleUseExplained
<1>7. CASE Lwip
  <2>1. CASE \E p \in Pcbs : LwipDangling(p)
    BY <2>1, <1>6
  <2>2. CASE ~\E p \in Pcbs : LwipDangling(p)
    BY <2>2, <1>1, <1>7 DEF Lwip, LwipAnswers, LwipConnected, LwipError, LwipReceive,
         LwipFin, LwipPoll, LwipReap, Callback, LwipMayCall, Running, histVars
  <2>3. QED
    BY <2>1, <2>2
<1>8. CASE Api
  <2>1. PICK c \in Clients : \/ SetOnCallbacks(c) \/ ConnectRefused(c)
                             \/ \E p \in Pcbs : \/ Connect(c, p) \/ ConnectFail(c, p)
                                                \/ ConnectDangling(c, p)
                             \/ Stop(c) \/ Shutdown(c) \/ Destroy(c)
                             \/ Write(c) \/ WriteChunk(c) \/ WriteChunkError(c)
                             \/ ReadPcb(c)
    BY <1>8 DEF Api
  <2>2. CASE SetOnCallbacks(c) \/ WriteChunkError(c) \/ Destroy(c)
    BY <2>2, <1>1 DEF SetOnCallbacks, WriteChunkError, Destroy, Running, histVars
  <2>3. CASE ConnectRefused(c)
    BY <2>3, <1>2 DEF ConnectRefused
  <2>4. CASE \E p \in Pcbs : Connect(c, p) \/ ConnectFail(c, p)
    BY <2>4, <1>1 DEF Connect, ConnectFail, NewContext, NewPcb, Running
  <2>5. CASE \E p \in Pcbs : ConnectDangling(c, p)
    BY <2>5, <1>6
  <2>6. CASE Stop(c) \/ Shutdown(c)
    <3>1. fault = <<>> /\ ctx[c] # 0 /\ Close(c)
      BY <2>6 DEF Stop, Shutdown, Running
    <3>2. CASE pcb[c] # Null /\ state[pcb[c]] = "free"
      <4>1. cut'[c] = cut[c] /\ fault' = <<c, "freed_pcb">>
        BY <3>1, <3>2 DEF Close
      <4>2. cut[c] # "no"
        BY <3>1, <3>2, OwnMeansValid
      <4>3. QED
        BY <4>1, <4>2, <1>3
    <3>3. CASE pcb[c] = Null \/ state[pcb[c]] # "free"
      BY <3>1, <3>3, <1>1 DEF Close
    <3>4. QED
      BY <3>2, <3>3
  <2>7. CASE Write(c)
    <3>1. /\ fault = <<>> /\ ctx[c] # 0 /\ UNCHANGED <<pcb, cut>>
          /\ \/ fault' = <<>>
             \/ /\ fault' \in {<<c, "freed_tx">>, <<c, "foreign_tx">>}
                /\ state[tx[c]] = "free" \/ ~Owns(c, tx[c])
      BY <2>7 DEF Write, Running, clientVars
    <3>2. fault' = <<>> \/ pcb[c] = Null \/ cut[c] # "no"
      BY <3>1, OwnMeansValid
    <3>3. QED
      BY <3>1, <3>2, <1>1, <1>4
  <2>8. CASE WriteChunk(c)
    <3>1. Running /\ ctx[c] # 0 /\ pcb[c] # Null /\ cut' = cut /\ fault' = UsePcb(c)
      BY <2>8 DEF WriteChunk
    <3>2. QED
      BY <3>1, <1>1, <1>3, UsePcbFacts
  <2>9. CASE ReadPcb(c)
    <3>1. /\ Running /\ ctx[c] # 0 /\ cut' = cut
          /\ fault' = IF pcb[c] # Null THEN UsePcb(c) ELSE <<>>
      BY <2>9 DEF ReadPcb, HasPcb, Running
    <3>2. QED
      BY <3>1, <1>1, <1>3, UsePcbFacts
  <2>10. QED
    BY <2>1, <2>2, <2>3, <2>4, <2>5, <2>6, <2>7, <2>8, <2>9
<1>9. CASE Handlers
  <2>1. ASSUME NEW c \in Clients, KeepAlive(c)
        PROVE  StaleUseExplained'
    <3>1. /\ Running /\ cut' = cut
          /\ \/ fault' = <<c, "null_pointer">>
             \/ fault' = UsePcb(c) /\ ctx[c] # 0 /\ pcb[c] # Null
      BY <2>1 DEF KeepAlive, Dereference
    <3>2. QED
      BY <3>1, <1>1, <1>3, <1>5, UsePcbFacts
  <2>2. ASSUME NEW c \in Clients, NEW e \in RxEvents, ReadRx(c, e)
        PROVE  StaleUseExplained'
    <3>1. fault' = <<>> \/ fault' = <<c, "freed_rx">>
      BY <2>2 DEF ReadRx, Running
    <3>2. QED
      BY <3>1, <1>1, <1>5
  <2>3. CASE HandlerReturn \/ \E c \in Clients : \E e \in Events : HandlerStart(c, e)
    BY <2>3, <1>1 DEF HandlerReturn, HandlerStart, LwipMayCall, Running, histVars
  <2>4. QED
    BY <1>9, <2>1, <2>2, <2>3 DEF Handlers
<1>10. QED
  BY <1>2, <1>7, <1>8, <1>9 DEF Next

(* A client uses a freed or foreign PCB through its context's _pcb only if *)
(* the PCB was taken from that context, through its writer only if that    *)
(* happened or that context was closed, and lwIP calls a deleted context   *)
(* only of a client destroyed while connected: the gaps are in the error   *)
(* path, the writer's own pointer and the destructor, and nowhere else.    *)
THEOREM StaleUseNeedsCut == Spec => []StaleUseExplained
<1>1. Init => SamePcb /\ StaleUseExplained
  BY DEF Init, SamePcb, StaleUseExplained
<1>2. QED
  BY <1>1, SamePcbStep, StaleUseStep, Invariance, PTL DEF Spec

=============================================================================
