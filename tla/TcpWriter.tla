----------------------------- MODULE TcpWriter -----------------------------
(***************************************************************************)
(* The send side of an open connection: TcpWriter::writeData(), which      *)
(* hands a message to lwIP in chunks, TcpClientContext::writeChunk(),      *)
(* which hands over one, and what lwIP then does with the bytes.           *)
(*                                                                         *)
(* Byte i of the w-th write is <<w, i>>.  The loop of writeData() takes    *)
(* one step per chunk; it runs in the networking core's async context, so  *)
(* lwIP does nothing before it returns.                                    *)
(***************************************************************************)
EXTENDS Integers, Sequences, FiniteSets

CONSTANTS
  TCP_SND_BUF,  \* lwIP's send buffer, in bytes
  TCP_MSS,      \* largest chunk of writeData()
  PeerWnd,      \* bytes the peer lets lwIP have in flight
  MaxSize,      \* bound: bytes in one write
  MaxWrites     \* bound: writes

ASSUME ConstantsAssumption ==
  /\ TCP_SND_BUF \in Nat \ {0}
  /\ TCP_MSS \in Nat \ {0}
  /\ PeerWnd \in Nat \ {0}
  /\ MaxSize \in Nat
  /\ MaxWrites \in Nat

Writes == 1..MaxWrites

VARIABLES
  sndbuf,         \* tcp_sndbuf(pcb)
  stream,         \* the bytes tcp_write() accepted, in order
  sent, acked,    \* how many of them went out, and were acknowledged
  pc,             \* writeData() is running: "loop"
  total_queued,   \* its local of that name
  count,          \* history: writes so far; the current one is the last
  via,            \* history: the function that was called
  asked,          \* history: its size argument
  returned,       \* history: what writeData() returned
  errors,         \* history: writes reported to the error callback
  released        \* history: writes whose buffer the caller took back

callVars == <<pc, total_queued>>
lwipVars == <<sndbuf, stream, sent, acked>>
histVars == <<count, via, asked, returned, errors, released>>
vars == <<callVars, lwipVars, histVars>>

Smaller(a, b) == IF a <= b THEN a ELSE b

(* Where the bytes of write w are that lwIP has accepted. *)
Places(w) == {i \in DOMAIN stream : stream[i][1] = w}

-----------------------------------------------------------------------------
(***************************************************************************)
(* lwIP                                                                    *)
(***************************************************************************)

(* tcp_write() accepts n bytes of write w, from byte `from' on.  It may    *)
(* run out of memory instead, at any time.                                 *)
TcpWrite(w, from, n) ==
  /\ n <= sndbuf
  /\ stream' = stream \o [i \in 1..n |-> <<w, from + i - 1>>]
  /\ sndbuf' = sndbuf - n

(* How much of the queue has been sent after tcp_output(): what the peer's *)
(* window allows.                                                          *)
TcpOutput(queue, ack) == Smaller(Len(queue), ack + PeerWnd)

-----------------------------------------------------------------------------
(***************************************************************************)
(* TcpWriter.cpp                                                           *)
(***************************************************************************)

NewWrite(f, n) ==
  /\ pc = "idle"
  /\ count < MaxWrites
  /\ count' = count + 1
  /\ via' = [via EXCEPT ![count + 1] = f]
  /\ asked' = [asked EXCEPT ![count + 1] = n]

(* writeData(data, n), up to its loop. *)
WriteData(n) ==
  /\ NewWrite("writeData", n)
  /\ pc' = "loop"
  /\ total_queued' = 0
  /\ UNCHANGED <<lwipVars, returned, errors, released>>

(* getOptimalChunkSize(n) *)
OptimalChunkSize(n) == Smaller(Smaller(n, sndbuf), TCP_MSS)

(* Mutant: the loop ends after the first chunk. *)
Finished_OneChunk == total_queued > 0

(* The condition of the loop, negated. *)
Finished == total_queued >= asked[count]

(* Mutant: a chunk starts one byte late. *)
ChunkStart_Next == total_queued + 1

(* data + total_queued *)
ChunkStart == total_queued

(* Mutant: a chunk is counted as a full segment. *)
Advance_Mss(chunk) == total_queued + TCP_MSS

(* total_queued += chunk_size *)
Advance(chunk) == total_queued + chunk

(* An iteration in which tcp_write() takes the chunk. *)
WriteLoop ==
  /\ pc = "loop"
  /\ ~Finished
  /\ LET chunk == OptimalChunkSize(asked[count] - total_queued) IN
     /\ chunk > 0
     /\ TcpWrite(count, ChunkStart, chunk)
     /\ total_queued' = Advance(chunk)
  /\ UNCHANGED <<sent, acked, pc, histVars>>

Return(n) ==
  /\ returned' = [returned EXCEPT ![count] = n]
  /\ pc' = "idle"
  /\ total_queued' = 0

(* Mutant: the size of the message is returned although it was broken off. *)
Rejected_Size == asked[count]

(* total_queued = 0 *)
Rejected == 0

(* The send buffer is full or tcp_write() failed, break: what was queued   *)
(* stays queued, and is not flushed.                                       *)
WriteRejected ==
  /\ pc = "loop"
  /\ ~Finished
  /\ Return(Rejected)
  /\ UNCHANGED <<lwipVars, count, via, asked, errors, released>>

(* Everything is queued: tcp_output(), return total_queued. *)
WriteReturn ==
  /\ pc = "loop"
  /\ Finished
  /\ sent' = TcpOutput(stream, acked)
  /\ Return(total_queued)
  /\ UNCHANGED <<sndbuf, stream, acked, count, via, asked, errors, released>>

(* lwip_sent_cb(): the peer acknowledged len bytes; onAckCallback() does   *)
(* nothing with them.  lwIP then sends what fits into the window.          *)
LwipSent(len) ==
  /\ pc = "idle"
  /\ acked + len <= sent
  /\ acked' = acked + len
  /\ sndbuf' = sndbuf + len
  /\ sent' = TcpOutput(stream, acked + len)
  /\ UNCHANGED <<stream, callVars, histVars>>

(***************************************************************************)
(* TcpClientContext.hpp                                                    *)
(***************************************************************************)

(* The size of the one chunk of writeChunk(). *)
ChunkSize(n) == Smaller(sndbuf, n)

(* writeChunk(data, n): tcp_write() of what fits, tcp_output(). *)
ContextWriteChunk(n) ==
  /\ NewWrite("writeChunk", n)
  /\ ChunkSize(n) > 0
  /\ TcpWrite(count + 1, 0, ChunkSize(n))
  /\ sent' = TcpOutput(stream', acked)
  /\ UNCHANGED <<acked, callVars, returned, errors, released>>

(* Mutant: the error is not reported. *)
ErrorCb_Not(w) == errors

(* _errorCb(ERR_MEM) *)
ErrorCb(w) == errors \cup {w}

(* Nothing fits, or tcp_write() fails. *)
ContextWriteError(n) ==
  /\ NewWrite("writeChunk", n)
  /\ errors' = ErrorCb(count + 1)
  /\ UNCHANGED <<lwipVars, callVars, returned, released>>

(* Mutant: _poll() returns an error. *)
PollResult_Abort == "ERR_ABRT"

(* What _poll() returns to lwIP. *)
PollResult == "ERR_OK"

(* lwIP's slow timer calls _s_poll() and, if that returns ERR_OK, sends    *)
(* what is queued.                                                         *)
LwipPoll ==
  /\ pc = "idle"
  /\ sent' = IF PollResult = "ERR_OK" THEN TcpOutput(stream, acked) ELSE sent
  /\ UNCHANGED <<sndbuf, stream, acked, callVars, histVars>>

(* The caller owns the buffer and may reuse it once the call is over, as   *)
(* write(uint8_t) does with its parameter.                                 *)
Release(w) ==
  /\ w \in 1..count \ released
  /\ w = count => pc = "idle"
  /\ released' = released \cup {w}
  /\ UNCHANGED <<lwipVars, callVars, count, via, asked, returned, errors>>

-----------------------------------------------------------------------------

Init ==
  /\ sndbuf = TCP_SND_BUF
  /\ stream = <<>>
  /\ sent = 0
  /\ acked = 0
  /\ pc = "idle"
  /\ total_queued = 0
  /\ count = 0
  /\ via = [w \in Writes |-> "none"]
  /\ asked = [w \in Writes |-> 0]
  /\ returned = [w \in Writes |-> 0]
  /\ errors = {}
  /\ released = {}

Writer == WriteLoop \/ WriteRejected \/ WriteReturn

Next ==
  \/ Writer
  \/ \E n \in 1..MaxSize : \/ WriteData(n)
                           \/ ContextWriteChunk(n)
                           \/ ContextWriteError(n)
  \/ \E len \in 1..TCP_SND_BUF : LwipSent(len)
  \/ LwipPoll
  \/ \E w \in Writes : Release(w)

Spec == Init /\ [][Next]_vars

(* writeData() runs to its end; the peer keeps acknowledging and lwIP's    *)
(* slow timer keeps polling while the connection is open.                  *)
FairSpec ==
  /\ Spec
  /\ WF_vars(Writer)
  /\ WF_vars(LwipPoll)
  /\ WF_vars(\E len \in 1..TCP_SND_BUF : LwipSent(len))

-----------------------------------------------------------------------------
(***************************************************************************)
(* Properties                                                              *)
(***************************************************************************)

TypeOK ==
  /\ sndbuf \in 0..TCP_SND_BUF
  /\ stream \in Seq(Writes \X Nat)
  /\ sent \in Nat /\ acked \in Nat
  /\ acked <= sent /\ sent <= Len(stream)
  /\ pc \in {"idle", "loop"}
  /\ total_queued \in 0..(IF pc = "loop" THEN asked[count] ELSE 0)
  /\ count \in 0..MaxWrites
  /\ via \in [Writes -> {"none", "writeData", "writeChunk"}]
  /\ asked \in [Writes -> 0..MaxSize]
  /\ returned \in [Writes -> 0..MaxSize]
  /\ errors \subseteq Writes
  /\ released \subseteq Writes

(* What the peer can receive of the writes: of each one a prefix, without  *)
(* a gap or a repetition, and the writes in the order of their calls,      *)
(* however they were cut into chunks or broken off.                        *)
Earlier(a, b) == a[1] < b[1] \/ (a[1] = b[1] /\ a[2] < b[2])
StreamInOrder ==
  \A i \in DOMAIN stream :
    /\ stream[i][2] < asked[stream[i][1]]
    /\ \A k \in 0..(stream[i][2] - 1) :
         \E j \in DOMAIN stream : stream[j] = <<stream[i][1], k>>
    /\ \A j \in DOMAIN stream : j < i => Earlier(stream[j], stream[i])

(* A positive result of writeData() means that lwIP has the whole message. *)
SuccessWhole ==
  \A w \in Writes : returned[w] > 0 =>
    /\ returned[w] = asked[w]
    /\ \A k \in 0..(asked[w] - 1) : \E i \in DOMAIN stream : stream[i] = <<w, k>>

(* writeChunk() reports an error exactly when lwIP took nothing of the     *)
(* chunk: a caller that resends after an error duplicates nothing.         *)
ErrorMeansNothing ==
  \A w \in Writes : via[w] = "writeChunk" => (w \in errors <=> Places(w) = {})

Tx == INSTANCE TxStream WITH
  line <- stream, last <- count, busy <- pc = "loop", taken <- total_queued,
  size <- asked, answer <- returned, refused <- errors

(* Both ways to write implement the abstract send stream: each step takes, *)
(* answers, refuses or sends as TxStream allows, and what was taken goes   *)
(* out although a write that is broken off does not call tcp_output().     *)
ImplementsTx == Tx!Spec

(* Every byte lwIP accepted is sent in the end, those of a write that was  *)
(* broken off without tcp_output() too.                                    *)
AllSent ==
  \A k \in 1..(MaxSize * MaxWrites) : Len(stream) >= k ~> sent >= k

(* writeData() returns the number of bytes queued (TcpWriter.hpp). *)
ReturnIsQueued ==
  \A w \in Writes : via[w] = "writeData" /\ (w = count => pc = "idle") =>
    returned[w] = Cardinality(Places(w))

(* The writer holds the data of a write until lwIP is done with it         *)
(* (TcpWriter.hpp, class TcpWriter).                                       *)
DataHeld ==
  \A i \in DOMAIN stream :
    i > acked /\ via[stream[i][1]] = "writeData" => stream[i][1] \notin released

=============================================================================
