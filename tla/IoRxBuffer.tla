----------------------------- MODULE IoRxBuffer -----------------------------
(***************************************************************************)
(* The receive buffer of a connection: the pbuf chain lwIP hands to        *)
(* lwip_receive_callback, the cursor (_head, _offset) over it, the         *)
(* consumption by peekConsume() and the window updates by tcp_recved().    *)
(*                                                                         *)
(* A pbuf chain pointer is the sequence of the pbufs it links, nullptr the *)
(* empty sequence.  A pbuf's payload is a run of the peer's byte stream:   *)
(* its bytes are number first[p] up to first[p] + len[p] - 1.              *)
(*                                                                         *)
(* Every operation runs in the networking core's async context, so none is *)
(* interrupted by another.  The loops of peekConsume() are nevertheless    *)
(* one step per iteration (pc), so that what holds between two iterations  *)
(* is visible; no other action is enabled until the call returns.          *)
(***************************************************************************)
EXTENDS Integers, Sequences

CONSTANTS
  Pbufs,            \* the pbuf pool
  Pcb, Null,        \* the connection's PCB, and nullptr
  TCP_WND,          \* lwIP's receive window
  AckMax,           \* 0xFFFF: the largest count one tcp_recved() call takes
  MaxChain,         \* bound: pbufs in one delivery
  MaxRequest,       \* bound: the n of peekConsume(n)
  MaxBytes,         \* bound: bytes the peer sends
  DrainingHandler   \* TRUE: a handler returns only when the buffer is empty

ASSUME ConstantsAssumption ==
  /\ Pcb # Null
  /\ TCP_WND \in Nat
  /\ AckMax \in Nat \ {0}
  /\ MaxChain \in Nat
  /\ MaxRequest \in Nat
  /\ MaxBytes \in Nat
  /\ DrainingHandler \in BOOLEAN

VARIABLES
  head, offset, pcb,            \* IoRxBuffer's _head, _offset and _pcb
  ref, len, first,              \* lwIP's pbufs: reference count, payload
  rcvd, rcv_wnd, conn,          \* lwIP's PCB: bytes delivered, window, state
  notified, app,                \* bridges signalled; the handler that runs
  pc, remaining, consumed, to_ack,  \* locals of peekConsume() and its loops
  pos, lost,                    \* history: bytes taken, bytes thrown away
  goal,                         \* history: what the call has to consume
  stale                         \* history: tcp_recved() got a freed PCB

rxVars   == <<head, offset, pcb>>
heapVars == <<ref, len, first>>
lwipVars == <<rcvd, rcv_wnd, conn>>
appVars  == <<notified, app>>
callVars == <<pc, remaining, consumed, to_ack>>
histVars == <<pos, lost, goal, stale>>
vars == <<rxVars, heapVars, lwipVars, appVars, callVars, histVars>>

Handlers == {"received", "fin"}

Chains == UNION {[1..n -> Pbufs] : n \in 1..MaxChain}

Smaller(a, b) == IF a <= b THEN a ELSE b

(***************************************************************************)
(* lwIP's pbuf primitives.                                                 *)
(***************************************************************************)

(* pbuf_free(c): drop one reference of c; a pbuf that reaches zero is      *)
(* deallocated and the reference it held on its successor is dropped too.  *)
PbufFree(r, c) ==
  [q \in Pbufs |->
     IF \E i \in DOMAIN c : c[i] = q /\ \A j \in 1..(i - 1) : r[c[j]] = 1
       THEN r[q] - 1
       ELSE r[q]]

PbufRef(r, c) == [r EXCEPT ![c[1]] = @ + 1]

(* Pbufs the driver allocated for an incoming segment, one reference each. *)
PbufAlloc(r, c) == [q \in Pbufs |-> IF \E i \in DOMAIN c : c[i] = q
                                      THEN 1 ELSE r[q]]

Index(c, q) == CHOOSE i \in DOMAIN c : c[i] = q

Unused(c) ==
  /\ \A i \in DOMAIN c : ref[c[i]] = 0
  /\ \A i, j \in DOMAIN c : c[i] = c[j] => i = j

(* The stretches of the stream the pbufs of c carry: non-empty, in order,  *)
(* beginning at the next byte the PCB expects and within its window.       *)
Cuts(c) ==
  {cut \in [1..(Len(c) + 1) -> rcvd..(rcvd + rcv_wnd)] :
     /\ cut[1] = rcvd
     /\ \A i, j \in 1..(Len(c) + 1) : i < j => cut[i] < cut[j]
     /\ cut[Len(c) + 1] <= MaxBytes}

(***************************************************************************)
(* IoRxBuffer.cpp                                                          *)
(***************************************************************************)

Available == len[head[1]] - offset

(* Mutant: the successor is not kept alive while the old head is freed. *)
FreeRef_NoPbufRef(r, h) == PbufFree(r, h)

(* _free(): advance to the next segment, keeping it alive while the old    *)
(* one is released.                                                        *)
FreeRef(r, h) ==
  LET kept == IF Tail(h) # <<>> THEN PbufRef(r, Tail(h)) ELSE r
  IN  PbufFree(kept, h)

(* Mutant: the offset into the old head is kept for the new one. *)
Free_KeepsOffset ==
  /\ head' = Tail(head)
  /\ offset' = offset
  /\ ref' = FreeRef(ref, head)

Free ==
  /\ head' = Tail(head)
  /\ offset' = 0
  /\ ref' = FreeRef(ref, head)

(* Mutant: a chain that is still being read is replaced. *)
TakeChain_Replaces(p) ==
  /\ head' = p
  /\ offset' = 0

(* The new chain is appended to the one there is, or becomes the head. *)
TakeChain(p) ==
  IF head # <<>>
    THEN /\ head' = head \o p      \* pbuf_cat
         /\ UNCHANGED offset
    ELSE /\ head' = p
         /\ offset' = 0

(* Mutant: only the branch that appends notifies the application. *)
OnReceived_OnlyOnAppend ==
  IF head # <<>> THEN notified \cup {"received"} ELSE notified

(* _onReceivedCallback(): the application's handler becomes pending. *)
OnReceived == notified \cup {"received"}

(* lwip_receive_callback() with data. *)
ReceiveData(p, cut) ==
  /\ pc = "idle"
  /\ conn = "open"
  /\ pcb' = Pcb
  /\ TakeChain(p)
  /\ ref' = PbufAlloc(ref, p)
  /\ len' = [q \in Pbufs |-> IF \E i \in DOMAIN p : p[i] = q
                               THEN cut[Index(p, q) + 1] - cut[Index(p, q)]
                               ELSE len[q]]
  /\ first' = [q \in Pbufs |-> IF \E i \in DOMAIN p : p[i] = q
                                 THEN cut[Index(p, q)]
                                 ELSE first[q]]
  /\ rcvd' = cut[Len(p) + 1]
  /\ rcv_wnd' = rcv_wnd - (cut[Len(p) + 1] - rcvd)
  /\ notified' = OnReceived
  /\ UNCHANGED <<conn, app, callVars, histVars>>

(* lwip_receive_callback() with err # ERR_OK: the pbuf, if any, is freed.  *)
ReceiveError(p) ==
  /\ pc = "idle"
  /\ conn = "open"
  /\ pcb' = Pcb
  /\ ref' = PbufFree(PbufAlloc(ref, p), p)
  /\ UNCHANGED <<head, offset, len, first, lwipVars, appVars, callVars,
                 histVars>>

(* lwip_receive_callback() with p == nullptr: the peer sent FIN. *)
ReceiveFin ==
  /\ pc = "idle"
  /\ conn = "open"
  /\ pcb' = Pcb
  /\ conn' = "fin"
  /\ notified' = notified \cup {"fin"}
  /\ UNCHANGED <<head, offset, heapVars, rcvd, rcv_wnd, app, callVars,
                 histVars>>

(* Mutants: an exhausted pbuf stays at the head; a pbuf is freed at once. *)
ExactFit_Never(n) == FALSE
ExactFit_Always(n) == TRUE

(* The request ends where the current pbuf does. *)
ExactFit(n) == offset + n = len[head[1]]

(* _fastPath(remaining): everything fits in the current pbuf. *)
FastPath(n) ==
  /\ IF ExactFit(n)
       THEN Free
       ELSE /\ offset' = offset + n
            /\ UNCHANGED <<head, ref>>
  /\ consumed' = n
  /\ pos' = pos + n

(* Mutant: what is left of the request is acknowledged too. *)
ToAck_Requested(n) == IF pcb # Null THEN n + remaining ELSE 0

(* What is acknowledged once the bytes are removed: if (_pcb && ...). *)
ToAck(n) == IF pcb # Null THEN n ELSE 0

(* peekConsume(n), past its guard n == 0 || !_head. *)
PeekConsume(n) ==
  /\ pc = "idle"
  /\ app \in Handlers
  /\ n > 0
  /\ head # <<>>
  /\ goal' = Smaller(n, rcvd - pos)
  /\ IF n <= Available
       THEN /\ FastPath(n)
            /\ to_ack' = ToAck(n)
            /\ pc' = "ack"
            /\ UNCHANGED remaining
       ELSE /\ pc' = "slow"
            /\ remaining' = n
            /\ consumed' = 0
            /\ UNCHANGED <<head, offset, ref, pos, to_ack>>
  /\ UNCHANGED <<pcb, len, first, lwipVars, appVars, lost, stale>>

(* Mutant: the loop is left after its first segment. *)
LoopDone_OneSegment == remaining = 0 \/ head = <<>> \/ consumed > 0

(* The condition that ends the loop of _slowPath(): request satisfied or   *)
(* chain exhausted.                                                        *)
LoopDone == remaining = 0 \/ head = <<>>

(* Mutant: the last segment is always consumed as a whole. *)
PartialSegment_Never == FALSE

(* The request ends inside the current segment. *)
PartialSegment == remaining < Available

(* One iteration of the loop of _slowPath(). *)
SlowPath ==
  /\ pc = "slow"
  /\ ~LoopDone
  /\ IF PartialSegment
       THEN /\ offset' = offset + remaining
            /\ consumed' = consumed + remaining
            /\ pos' = pos + remaining
            /\ to_ack' = ToAck(consumed + remaining)
            /\ pc' = "ack"
            /\ UNCHANGED <<head, ref, remaining>>
       ELSE /\ consumed' = consumed + Available
            /\ remaining' = remaining - Available
            /\ pos' = pos + Available
            /\ Free
            /\ UNCHANGED <<pc, to_ack>>
  /\ UNCHANGED <<pcb, len, first, lwipVars, appVars, lost, goal, stale>>

SlowPathEnd ==
  /\ pc = "slow"
  /\ LoopDone
  /\ to_ack' = ToAck(consumed)
  /\ pc' = "ack"
  /\ UNCHANGED <<rxVars, heapVars, lwipVars, appVars, remaining, consumed,
                 histVars>>

(* Mutant: the count is truncated to 16 bits instead of clamped. *)
AckChunk_Truncates(n) == n % (AckMax + 1)

(* static_cast<u16_t>(std::min<std::size_t>(to_ack, 0xFFFF)) *)
AckChunk(n) == Smaller(n, AckMax)

(* One iteration of _toAck(): tcp_recved(_pcb, chunk).  On a PCB that lwIP *)
(* has freed the call writes into memory the connection no longer owns.    *)
AckStep ==
  /\ pc = "ack"
  /\ to_ack > 0
  /\ to_ack' = to_ack - AckChunk(to_ack)
  /\ rcv_wnd' = IF conn \in {"open", "fin"} THEN rcv_wnd + AckChunk(to_ack)
                                            ELSE rcv_wnd
  /\ stale' = (stale \/ conn \notin {"open", "fin"})
  /\ UNCHANGED <<rxVars, heapVars, rcvd, conn, appVars, pc, remaining,
                 consumed, pos, lost, goal>>

(* peekConsume() returns. *)
AckEnd ==
  /\ pc = "ack"
  /\ to_ack = 0
  /\ pc' = "idle"
  /\ remaining' = 0
  /\ consumed' = 0
  /\ goal' = 0
  /\ UNCHANGED <<rxVars, heapVars, lwipVars, appVars, to_ack, pos, lost,
                 stale>>

(* reset(): nothing at all happens when there is no chain. *)
Drop ==
  IF head # <<>>
    THEN /\ ref' = PbufFree(ref, head)
         /\ head' = <<>>
         /\ offset' = 0
         /\ pcb' = Null
         /\ pos' = rcvd
         /\ lost' = lost + (rcvd - pos)
    ELSE UNCHANGED <<head, offset, pcb, ref, pos, lost>>

Reset ==
  /\ pc = "idle"
  /\ Drop
  /\ UNCHANGED <<len, first, lwipVars, appVars, callVars, goal, stale>>

(* TcpClientContext::close() and abort(): reset the buffer, unregister the *)
(* callbacks, give the PCB back to lwIP.                                   *)
Close ==
  /\ pc = "idle"
  /\ conn \in {"open", "fin"}
  /\ Drop
  /\ conn' = "closed"
  /\ UNCHANGED <<len, first, rcvd, rcv_wnd, appVars, callVars, goal, stale>>

(* tcp_err: lwIP has freed the PCB.  TcpClientContext::_error() leaves the *)
(* buffer, and the buffer's _pcb, as they are.                             *)
LwipError ==
  /\ pc = "idle"
  /\ conn \in {"open", "fin"}
  /\ conn' = "dead"
  /\ UNCHANGED <<rxVars, heapVars, rcvd, rcv_wnd, appVars, callVars,
                 histVars>>

(***************************************************************************)
(* The application: its handlers are workers of the async context, pending *)
(* once per notification however many notifications there were.            *)
(***************************************************************************)

HandlerStart(h) ==
  /\ pc = "idle"
  /\ app = "idle"
  /\ h \in notified
  /\ app' = h
  /\ notified' = notified \ {h}
  /\ UNCHANGED <<rxVars, heapVars, lwipVars, callVars, histVars>>

HandlerReturn ==
  /\ pc = "idle"
  /\ app \in Handlers
  /\ DrainingHandler => head = <<>>
  /\ app' = "idle"
  /\ UNCHANGED <<rxVars, heapVars, lwipVars, notified, callVars, histVars>>

-----------------------------------------------------------------------------

Init ==
  /\ head = <<>> /\ offset = 0 /\ pcb = Null
  /\ ref = [q \in Pbufs |-> 0]
  /\ len = [q \in Pbufs |-> 0]
  /\ first = [q \in Pbufs |-> 0]
  /\ rcvd = 0 /\ rcv_wnd = TCP_WND /\ conn = "open"
  /\ notified = {} /\ app = "idle"
  /\ pc = "idle" /\ remaining = 0 /\ consumed = 0 /\ to_ack = 0
  /\ pos = 0 /\ lost = 0 /\ goal = 0 /\ stale = FALSE

Receive ==
  \/ \E p \in Chains : Unused(p) /\ \E cut \in Cuts(p) : ReceiveData(p, cut)
  \/ \E p \in Chains \cup {<<>>} : Unused(p) /\ ReceiveError(p)
  \/ ReceiveFin

ConsumeSteps == SlowPath \/ SlowPathEnd \/ AckStep \/ AckEnd

Next ==
  \/ Receive
  \/ \E n \in 1..MaxRequest : PeekConsume(n)
  \/ ConsumeSteps
  \/ Reset
  \/ Close
  \/ LwipError
  \/ \E h \in Handlers : HandlerStart(h)
  \/ HandlerReturn

Spec == Init /\ [][Next]_vars

(* The core that runs the networking context does not stop: a call in      *)
(* progress goes on, a pending handler starts, and a handler that drains   *)
(* the buffer keeps consuming until it is empty.                           *)
Fairness ==
  /\ WF_vars(ConsumeSteps)
  /\ WF_vars(\E h \in Handlers : HandlerStart(h))
  /\ WF_vars(\E n \in 1..MaxRequest : PeekConsume(n))
  /\ WF_vars(HandlerReturn)

FairSpec == Spec /\ Fairness

-----------------------------------------------------------------------------
(***************************************************************************)
(* Properties                                                              *)
(***************************************************************************)

TypeOK ==
  /\ head \in Seq(Pbufs) /\ offset \in Nat /\ pcb \in {Pcb, Null}
  /\ ref \in [Pbufs -> Nat] /\ len \in [Pbufs -> Nat] /\ first \in [Pbufs -> Nat]
  /\ rcvd \in Nat /\ rcv_wnd \in Nat
  /\ conn \in {"open", "fin", "dead", "closed"}
  /\ notified \subseteq Handlers /\ app \in Handlers \cup {"idle"}
  /\ pc \in {"idle", "slow", "ack"}
  /\ remaining \in Nat /\ consumed \in Nat /\ to_ack \in Nat
  /\ pos \in Nat /\ lost \in Nat /\ goal \in Nat /\ stale \in BOOLEAN

(* The buffer owns its chain: each pbuf in it is linked once and holds one *)
(* reference, so none was freed under the cursor, and no pbuf outside the  *)
(* chain is still allocated (_free(), reset(), the callback's error path). *)
ChainOwned ==
  /\ \A i, j \in 1..Len(head) : head[i] = head[j] => i = j
  /\ \A q \in Pbufs : ref[q] = IF \E i \in 1..Len(head) : head[i] = q
                                 THEN 1 ELSE 0

(* The cursor stands on the first byte not yet taken and the chain holds   *)
(* exactly the bytes from there to the last one delivered, in order: no    *)
(* byte is skipped, repeated or reordered by pbuf_cat, _fastPath() or      *)
(* _slowPath(), whatever the segment boundaries are.                       *)
CursorOnStream ==
  /\ head = <<>> => pos = rcvd
  /\ head # <<>> => /\ first[head[1]] + offset = pos
                    /\ first[head[Len(head)]] + len[head[Len(head)]] = rcvd
  /\ \A i \in 1..(Len(head) - 1) :
       first[head[i + 1]] = first[head[i]] + len[head[i]]

(* Between calls the cursor is inside a segment: peek() reads a byte of    *)
(* the stream and peekAvailable() is positive exactly when data is left.   *)
CursorInSegment ==
  pc = "idle" /\ head # <<>> => offset < len[head[1]]

(* Bytes taken but not yet returned to the window by tcp_recved(). *)
Owed == CASE pc = "slow" -> consumed
          [] pc = "ack"  -> to_ack
          [] OTHER       -> 0

(* No byte of receive window leaks or is returned twice: window, unread    *)
(* bytes, bytes about to be acknowledged and bytes thrown away by reset()  *)
(* add up to TCP_WND for as long as the PCB lives, so that _toAck() never  *)
(* opens the window further than lwIP allows.                              *)
WindowConserved ==
  conn \in {"open", "fin"} =>
    rcv_wnd + (rcvd - pos) + Owed + lost = TCP_WND

(* peekConsume(n) removes n bytes, or all there are if they are fewer.     *)
ExactConsume == pc = "ack" => consumed = goal

(* A segment is released only when its last byte has been taken (or the    *)
(* buffer was reset): the pointer peekBuffer() returned is good until      *)
(* then.                                                                   *)
FreedOnlyWhenTaken ==
  [][\A q \in Pbufs :
       ref[q] > 0 /\ ref'[q] = 0 /\ lost' = lost => first[q] + len[q] <= pos']_vars

(* The byte the cursor stands on. *)
Cursor == IF head = <<>> THEN rcvd ELSE first[head[1]] + offset

Stream == INSTANCE RxStream WITH
  pos <- Cursor, wnd <- rcv_wnd, owed <- Owed, alive <- conn \in {"open", "fin"}

(* The buffer implements RxStream: every step of it delivers, takes,       *)
(* returns or discards bytes as the abstract stream allows, or changes     *)
(* nothing the stream shows; bytes taken are returned to the window.       *)
ImplementsStream == Stream!Spec

(* peekConsume() returns: _slowPath() and _toAck() terminate. *)
ConsumeReturns == pc # "idle" ~> pc = "idle"

(* With handlers that drain the buffer, every byte delivered is taken or   *)
(* thrown away: a notification of lwip_receive_callback() is never missed. *)
EveryByteTaken == \A k \in 1..MaxBytes : rcvd >= k ~> pos >= k

(* A PCB that lwIP has freed is not passed to tcp_recved(). *)
NoRecvedAfterFree == ~stale
=============================================================================
