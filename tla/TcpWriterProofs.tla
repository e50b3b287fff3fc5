-------------------------- MODULE TcpWriterProofs --------------------------
(***************************************************************************)
(* Proofs about TcpWriter, for every send buffer, segment size and window, *)
(* and for any number and size of writes.                                  *)
(*                                                                         *)
(* The invariants of TcpWriter are proved together.  IInv adds to them     *)
(* that the send buffer and the bytes not acknowledged make up             *)
(* TCP_SND_BUF, that no more is in flight than the peer's window, that     *)
(* nothing is known of a write before it is made, and that total_queued    *)
(* counts exactly the bytes of the current write that are in the stream.   *)
(***************************************************************************)
EXTENDS TcpWriter, SequenceTheorems, TLAPS

Bytes == Writes \X Nat

(* Bytes from..from+n-1 of write w. *)
Chunk(w, from, n) == [i \in 1..n |-> <<w, from + i - 1>>]

(* The send buffer is the part of TCP_SND_BUF that holds no byte waiting   *)
(* for its acknowledgement.                                                *)
SendBuffer == /\ sndbuf + Len(stream) = TCP_SND_BUF + acked
              /\ sent <= acked + PeerWnd

(* Of a write that has not been made nothing is queued or reported. *)
Unmade ==
  /\ \A i \in 1..Len(stream) : stream[i][1] <= count
  /\ \A w \in Writes : w > count =>
       via[w] = "none" /\ returned[w] = 0 /\ w \notin errors

(* writeData() in its loop: the first total_queued bytes of the current    *)
(* write are in the stream, and no others of it.                           *)
LoopInv ==
  pc = "loop" =>
    /\ count \in Writes
    /\ via[count] = "writeData" /\ returned[count] = 0 /\ asked[count] > 0
    /\ \A k \in 0..(total_queued - 1) :
         \E i \in 1..Len(stream) : stream[i] = <<count, k>>
    /\ \A i \in 1..Len(stream) : stream[i][1] = count => stream[i][2] < total_queued

IInv ==
  /\ TypeOK
  /\ SendBuffer
  /\ Unmade
  /\ LoopInv
  /\ StreamInOrder
  /\ SuccessWhole
  /\ ErrorMeansNothing

-----------------------------------------------------------------------------

(* The stream after tcp_write() has taken n bytes of write w: the old one, *)
(* followed by those bytes.                                                *)
LEMMA TakenBytes ==
  ASSUME NEW s \in Seq(Bytes), NEW w \in Writes, NEW from \in Nat, NEW n \in Nat
  PROVE  /\ s \o Chunk(w, from, n) \in Seq(Bytes)
         /\ Len(s) \in Nat
         /\ Len(s \o Chunk(w, from, n)) = Len(s) + n
         /\ \A i \in 1..Len(s) : (s \o Chunk(w, from, n))[i] = s[i]
         /\ \A i \in 1..(Len(s) + n) : i > Len(s) =>
              (s \o Chunk(w, from, n))[i] = <<w, from + (i - Len(s)) - 1>>
<1> DEFINE new == Chunk(w, from, n)
           t == s \o new
<1>1. \A i \in 1..n : new[i] \in Bytes
  BY DEF Bytes, Chunk
<1>2. new \in Seq(Bytes)
  <2>1. new \in [1..n -> Bytes]
    BY <1>1 DEF Chunk
  <2> HIDE DEF new
  <2>2. QED
    BY <2>1, SeqDef
<1>3. Len(new) = n
  BY <1>2, LenProperties DEF Chunk
<1>4. Len(s) \in Nat
  BY LenProperties
<1> HIDE DEF new
<1>5. /\ t \in Seq(Bytes)
      /\ Len(t) = Len(s) + n
      /\ \A i \in 1..(Len(s) + n) : t[i] = IF i <= Len(s) THEN s[i] ELSE new[i - Len(s)]
  BY <1>2, <1>3, ConcatProperties
<1> HIDE DEF t
<1>6. \A i \in 1..Len(s) : t[i] = s[i]
  BY <1>4, <1>5
<1>7. ASSUME NEW i \in 1..(Len(s) + n), i > Len(s)
      PROVE  t[i] = <<w, from + (i - Len(s)) - 1>>
  <2>1. i - Len(s) \in 1..n /\ t[i] = new[i - Len(s)]
    BY <1>4, <1>5, <1>7
  <2>2. QED
    BY <2>1 DEF new, Chunk
<1>8. QED
  BY <1>4, <1>5, <1>6, <1>7 DEF t, new

(* Nothing taken leaves the stream as it is. *)
LEMMA NothingTaken ==
  ASSUME NEW s \in Seq(Bytes), NEW w, NEW from
  PROVE  s \o Chunk(w, from, 0) = s
<1>1. Chunk(w, from, 0) = <<>>
  <2>1. 1..0 = {}
    OBVIOUS
  <2>2. Chunk(w, from, 0) \in [1..0 -> Bytes]
    BY <2>1 DEF Chunk
  <2>3. Chunk(w, from, 0) \in Seq(Bytes)
    BY <2>2, SeqDef
  <2>4. Len(Chunk(w, from, 0)) = 0
    BY <2>1, <2>2, <2>3, LenProperties
  <2>5. QED
    BY <2>3, <2>4, EmptySeq
<1>2. QED
  BY <1>1, ConcatEmptySeq

(* What the proofs use of the stream. *)
LEMMA StreamFacts ==
  ASSUME TypeOK
  PROVE  /\ stream \in Seq(Bytes)
         /\ Len(stream) \in Nat
         /\ DOMAIN stream = 1..Len(stream)
         /\ \A i \in 1..Len(stream) : /\ stream[i] \in Bytes
                                      /\ stream[i][1] \in Writes
                                      /\ stream[i][2] \in Nat
<1>1. stream \in Seq(Bytes)
  BY DEF TypeOK, Bytes
<1>2. Len(stream) \in Nat /\ DOMAIN stream = 1..Len(stream)
  BY <1>1, LenProperties
<1>3. \A i \in 1..Len(stream) : stream[i] \in Bytes
  BY <1>1, ElementOfSeq
<1>4. QED
  BY <1>1, <1>2, <1>3 DEF Bytes

(* The stream after tcp_write(). *)
LEMMA AfterTcpWrite ==
  ASSUME TypeOK, NEW w \in Writes, NEW from \in Nat, NEW n \in Nat,
         TcpWrite(w, from, n)
  PROVE  /\ stream' \in Seq(Bytes)
         /\ Len(stream) \in Nat
         /\ Len(stream') = Len(stream) + n
         /\ \A i \in 1..Len(stream) : stream'[i] = stream[i]
         /\ \A i \in 1..Len(stream') : i > Len(stream) =>
              stream'[i] = <<w, from + (i - Len(stream)) - 1>>
<1> DEFINE t == stream \o Chunk(w, from, n)
<1>1. stream \in Seq(Bytes)
  BY StreamFacts
<1>2. /\ t \in Seq(Bytes) /\ Len(stream) \in Nat
      /\ Len(t) = Len(stream) + n
  BY <1>1, TakenBytes
<1>3. \A i \in 1..Len(stream) : t[i] = stream[i]
  BY <1>1, TakenBytes
<1>4. \A i \in 1..(Len(stream) + n) : i > Len(stream) =>
        t[i] = <<w, from + (i - Len(stream)) - 1>>
  BY <1>1, TakenBytes
<1>5. stream' = t
  BY DEF TcpWrite, Chunk
<1> HIDE DEF t
<1>6. QED
  BY <1>2, <1>3, <1>4, <1>5

(* tcp_write() keeps the stream in order if it is given the bytes that     *)
(* come next of the latest write.                                          *)
LEMMA TakenInOrder ==
  ASSUME TypeOK, StreamInOrder,
         NEW w \in Writes, NEW from \in Nat, NEW n \in Nat, TcpWrite(w, from, n),
         asked' \in [Writes -> 0..MaxSize], from + n <= asked'[w],
         \A i \in 1..Len(stream) : /\ asked'[stream[i][1]] = asked[stream[i][1]]
                                   /\ stream[i][1] <= w
                                   /\ stream[i][1] = w => stream[i][2] < from,
         \A k \in 0..(from - 1) : \E i \in 1..Len(stream) : stream[i] = <<w, k>>
  PROVE  StreamInOrder'
<1> DEFINE old == Len(stream)
           end == old + n
<1>1. /\ old \in Nat /\ DOMAIN stream = 1..old
      /\ \A i \in 1..old : stream[i][1] \in Writes /\ stream[i][2] \in Nat
  BY StreamFacts
<1>2. /\ stream' \in Seq(Bytes) /\ Len(stream') = end
      /\ \A i \in 1..old : stream'[i] = stream[i]
      /\ \A i \in 1..end : i > old => stream'[i] = <<w, from + (i - old) - 1>>
  BY AfterTcpWrite
<1>3. DOMAIN stream' = 1..end
  BY <1>2, LenProperties
<1>4. \A i \in 1..old : i \in 1..end
  BY <1>1
<1>5. w \in Nat /\ \A i \in 1..old : stream[i][1] \in Nat
  BY <1>1, ConstantsAssumption DEF Writes
<1>6. asked'[w] \in Nat
  BY ConstantsAssumption
<1>7. \A i \in 1..old : /\ asked'[stream[i][1]] = asked[stream[i][1]]
                        /\ stream[i][1] <= w
                        /\ stream[i][1] = w => stream[i][2] < from
  OBVIOUS
<1>8. \A k \in 0..(from - 1) : \E i \in 1..old : stream[i] = <<w, k>>
  OBVIOUS
<1> HIDE DEF old
<1>9. ASSUME NEW i \in 1..end
      PROVE  /\ stream'[i][2] < asked'[stream'[i][1]]
             /\ \A k \in 0..(stream'[i][2] - 1) :
                  \E j \in 1..end : stream'[j] = <<stream'[i][1], k>>
             /\ \A j \in 1..end : j < i => Earlier(stream'[j], stream'[i])
  <2>1. CASE i <= old
    <3>1. i \in 1..old /\ stream'[i] = stream[i]
      BY <1>1, <1>2, <2>1
    <3>2. /\ stream[i][2] < asked[stream[i][1]]
          /\ \A k \in 0..(stream[i][2] - 1) :
               \E j \in 1..old : stream[j] = <<stream[i][1], k>>
          /\ \A j \in 1..old : j < i => Earlier(stream[j], stream[i])
      BY <1>1, <3>1 DEF StreamInOrder
    <3>3. stream'[i][2] < asked'[stream'[i][1]]
      BY <1>7, <3>1, <3>2
    <3>4. \A k \in 0..(stream'[i][2] - 1) :
            \E j \in 1..end : stream'[j] = <<stream'[i][1], k>>
      BY <1>2, <1>4, <3>1, <3>2
    <3>5. ASSUME NEW j \in 1..end, j < i
          PROVE  Earlier(stream'[j], stream'[i])
      <4>1. j \in 1..old
        BY <1>1, <3>1, <3>5
      <4>2. QED
        BY <1>2, <3>1, <3>2, <3>5, <4>1
    <3>6. QED
      BY <3>3, <3>4, <3>5
  <2>2. CASE i > old
    <3> DEFINE m == from + (i - old) - 1
    <3>1. m \in Nat /\ m >= from /\ m < from + n
      BY <1>1, <2>2 DEF end
    <3>2. stream'[i] = <<w, m>>
      BY <1>2, <2>2
    <3>3. stream'[i][1] = w /\ stream'[i][2] = m
      BY <3>2
    <3>4. stream'[i][2] < asked'[stream'[i][1]]
      BY <1>6, <3>1, <3>3
    <3>5. ASSUME NEW k \in 0..(m - 1)
          PROVE  \E j \in 1..end : stream'[j] = <<w, k>>
      <4>1. CASE k < from
        <5>1. k \in 0..(from - 1)
          BY <3>1, <4>1
        <5>2. PICK j \in 1..old : stream[j] = <<w, k>>
          BY <1>8, <5>1
        <5>3. QED
          BY <1>2, <1>4, <5>2
      <4>2. CASE k >= from
        <5> DEFINE j == old + (k - from) + 1
        <5>1. j \in 1..end /\ j > old /\ from + (j - old) - 1 = k
          BY <1>1, <3>1, <4>2 DEF end
        <5>2. stream'[j] = <<w, from + (j - old) - 1>>
          BY <1>2, <5>1
        <5>3. QED
          BY <5>1, <5>2
      <4>3. QED
        BY <3>1, <4>1, <4>2
    <3>6. ASSUME NEW j \in 1..end, j < i
          PROVE  Earlier(stream'[j], stream'[i])
      <4>1. CASE j <= old
        <5>1. j \in 1..old /\ stream'[j] = stream[j]
          BY <1>1, <1>2, <4>1
        <5>2. /\ stream[j][1] <= w /\ stream[j][1] \in Nat /\ stream[j][2] \in Nat
              /\ stream[j][1] = w => stream[j][2] < from
          BY <1>1, <1>5, <1>7, <5>1
        <5>3. QED
          BY <1>5, <3>1, <3>3, <5>1, <5>2 DEF Earlier
      <4>2. CASE j > old
        <5>1. stream'[j] = <<w, from + (j - old) - 1>>
          BY <1>2, <4>2
        <5>2. stream'[j][1] = w /\ stream'[j][2] = from + (j - old) - 1
          BY <5>1
        <5>3. from + (j - old) - 1 < m
          BY <1>1, <3>6
        <5>4. QED
          BY <3>3, <5>2, <5>3 DEF Earlier
      <4>3. QED
        BY <1>1, <4>1, <4>2
    <3> HIDE DEF m
    <3>7. QED
      BY <3>3, <3>4, <3>5, <3>6
  <2>3. i <= old \/ i > old
    BY <1>1
  <2>4. QED
    BY <2>1, <2>2, <2>3
<1>10. QED
  BY <1>3, <1>9 DEF StreamInOrder

(* A step that takes nothing keeps it in order. *)
LEMMA KeptInOrder ==
  ASSUME TypeOK, StreamInOrder, stream' = stream,
         \A i \in 1..Len(stream) : asked'[stream[i][1]] = asked[stream[i][1]]
  PROVE  StreamInOrder'
<1>1. DOMAIN stream = 1..Len(stream)
  BY StreamFacts
<1>2. ASSUME NEW i \in DOMAIN stream
      PROVE  /\ stream[i][2] < asked'[stream[i][1]]
             /\ \A k \in 0..(stream[i][2] - 1) :
                  \E j \in DOMAIN stream : stream[j] = <<stream[i][1], k>>
             /\ \A j \in DOMAIN stream : j < i => Earlier(stream[j], stream[i])
  <2>1. stream[i][2] < asked'[stream[i][1]]
    BY <1>1, <1>2 DEF StreamInOrder
  <2>2. QED
    BY <1>2, <2>1 DEF StreamInOrder
<1>3. QED
  BY <1>2 DEF StreamInOrder

-----------------------------------------------------------------------------

(* IInv holds before the first write. *)
LEMMA InitInv == Init => IInv
<1> SUFFICES ASSUME Init PROVE IInv
  OBVIOUS
<1>1. stream \in Seq(Bytes) /\ Len(stream) = 0 /\ DOMAIN stream = {}
  <2>1. stream \in Seq(Bytes) /\ Len(stream) = 0
    BY EmptySeq DEF Init
  <2>2. QED
    BY <2>1, LenProperties
<1>2. TypeOK
  BY <1>1, ConstantsAssumption DEF Init, TypeOK, Bytes
<1>3. SendBuffer /\ LoopInv
  BY <1>1, ConstantsAssumption DEF Init, SendBuffer, LoopInv
<1>4. Unmade /\ StreamInOrder /\ SuccessWhole /\ ErrorMeansNothing
  BY <1>1 DEF Init, Unmade, StreamInOrder, SuccessWhole, ErrorMeansNothing
<1>5. QED
  BY <1>2, <1>3, <1>4 DEF IInv

(* What tcp_output() sends: no more than is queued or than the window      *)
(* allows, and never less than before.                                     *)
LEMMA OutputFacts ==
  ASSUME NEW q, Len(q) \in Nat, NEW ack \in Nat, NEW s \in Nat,
         s <= Len(q), s <= ack + PeerWnd, ack <= Len(q)
  PROVE  /\ TcpOutput(q, ack) \in Nat
         /\ TcpOutput(q, ack) <= Len(q)
         /\ TcpOutput(q, ack) <= ack + PeerWnd
         /\ TcpOutput(q, ack) >= s
         /\ TcpOutput(q, ack) >= ack
BY ConstantsAssumption DEF TcpOutput, Smaller

(* The start of writeData(). *)
LEMMA WriteDataInv ==
  ASSUME IInv, NEW n \in 1..MaxSize, WriteData(n)
  PROVE  IInv'
<1>1. /\ pc = "idle" /\ count < MaxWrites /\ count' = count + 1
      /\ via' = [via EXCEPT ![count + 1] = "writeData"]
      /\ asked' = [asked EXCEPT ![count + 1] = n]
      /\ pc' = "loop" /\ total_queued' = 0
      /\ UNCHANGED <<sndbuf, stream, sent, acked, returned, errors, released>>
  BY DEF WriteData, NewWrite, lwipVars
<1>2. TypeOK /\ SendBuffer /\ Unmade /\ count \in Nat /\ count + 1 \in Writes
  BY <1>1, ConstantsAssumption DEF IInv, TypeOK, Writes
<1>3. /\ Len(stream) \in Nat
      /\ DOMAIN stream = 1..Len(stream)
      /\ \A i \in 1..Len(stream) : /\ stream[i][1] \in Writes
                                   /\ stream[i][1] <= count
                                   /\ stream[i][2] \in Nat
  BY <1>2, StreamFacts DEF Unmade
<1>4. TypeOK'
  BY <1>1, <1>2, ConstantsAssumption DEF TypeOK
<1>5. SendBuffer'
  BY <1>1, <1>2 DEF SendBuffer
<1>6. Unmade'
  <2>1. \A i \in 1..Len(stream') : stream'[i][1] <= count'
    BY <1>1, <1>2, <1>3 DEF Writes
  <2>2. ASSUME NEW w \in Writes, w > count'
        PROVE  via'[w] = "none" /\ returned'[w] = 0 /\ w \notin errors'
    BY <1>1, <1>2, <2>2, ConstantsAssumption DEF Unmade, TypeOK, Writes
  <2>3. QED
    BY <2>1, <2>2 DEF Unmade
<1>7. LoopInv'
  <2>1. via'[count'] = "writeData" /\ returned'[count'] = 0 /\ asked'[count'] > 0
    BY <1>1, <1>2 DEF TypeOK, Unmade
  <2>2. \A i \in 1..Len(stream') : stream'[i][1] # count'
    BY <1>1, <1>2, <1>3 DEF Writes
  <2>3. QED
    BY <1>1, <1>2, <2>1, <2>2 DEF LoopInv
<1>8. \A w \in Writes : w <= count => asked'[w] = asked[w] /\ via'[w] = via[w]
  BY <1>1, <1>2, ConstantsAssumption DEF TypeOK, Writes
<1>9. StreamInOrder'
  BY <1>1, <1>3, <1>8, KeptInOrder DEF IInv
<1>10. SuccessWhole'
  <2>1. \A w \in Writes : returned[w] > 0 => w <= count
    BY <1>2, ConstantsAssumption DEF Unmade, Writes
  <2>2. QED
    BY <1>1, <1>8, <2>1 DEF IInv, SuccessWhole
<1>11. ErrorMeansNothing'
  <2>1. \A w \in Writes : via'[w] = "writeChunk" => via[w] = "writeChunk"
    BY <1>1, <1>2 DEF TypeOK
  <2>2. QED
    BY <1>1, <2>1 DEF IInv, ErrorMeansNothing, Places
<1>12. QED
  BY <1>4, <1>5, <1>6, <1>7, <1>9, <1>10, <1>11 DEF IInv

(* An iteration of the loop: the chunk continues the message where the     *)
(* last one ended.                                                         *)
LEMMA WriteLoopInv ==
  ASSUME IInv, WriteLoop
  PROVE  IInv'
<1> DEFINE chunk == OptimalChunkSize(asked[count] - total_queued)
           old == Len(stream)
<1>1. /\ TypeOK /\ SendBuffer /\ Unmade /\ LoopInv
      /\ StreamInOrder /\ SuccessWhole /\ ErrorMeansNothing
  BY DEF IInv
<1>2. /\ pc = "loop" /\ pc' = "loop"
      /\ UNCHANGED <<sent, acked, count, via, asked, returned, errors, released>>
      /\ chunk > 0 /\ chunk <= sndbuf /\ sndbuf' = sndbuf - chunk
      /\ total_queued' = total_queued + chunk
      /\ total_queued < asked[count]
  <2>1. asked[count] \in Nat /\ total_queued \in Nat
    BY <1>1, ConstantsAssumption DEF TypeOK, LoopInv, WriteLoop
  <2>2. QED
    BY <2>1 DEF WriteLoop, Finished, TcpWrite, ChunkStart, Advance, histVars
<1>3. /\ count \in Writes /\ count \in Nat
      /\ asked[count] \in 1..MaxSize /\ total_queued \in Nat
      /\ chunk \in Nat /\ chunk <= asked[count] - total_queued
  <2>1. /\ count \in Writes /\ count \in Nat
        /\ asked[count] \in 1..MaxSize /\ total_queued \in Nat
        /\ sndbuf \in Nat
    BY <1>1, <1>2, ConstantsAssumption DEF LoopInv, TypeOK, Writes
  <2>2. QED
    BY <2>1, <1>2, ConstantsAssumption DEF OptimalChunkSize, Smaller
<1> HIDE DEF chunk, old
<1>4. /\ stream' \in Seq(Bytes)
      /\ old \in Nat
      /\ Len(stream') = old + chunk
      /\ \A i \in 1..old : stream'[i] = stream[i]
      /\ \A i \in 1..Len(stream') : i > old =>
           stream'[i] = <<count, total_queued + (i - old) - 1>>
  <2>1. TcpWrite(count, total_queued, chunk)
    BY DEF WriteLoop, ChunkStart, chunk
  <2>2. QED
    BY <1>1, <1>3, <2>1, AfterTcpWrite DEF old
<1>5. /\ DOMAIN stream' = 1..(old + chunk) /\ DOMAIN stream = 1..old
      /\ \A i \in 1..old : stream[i][1] \in Writes /\ stream[i][2] \in Nat
      /\ \A i \in 1..old : stream[i][1] <= count
  BY <1>1, <1>4, LenProperties, StreamFacts DEF Unmade, old
<1>6. TypeOK'
  <2>1. sndbuf' \in 0..TCP_SND_BUF /\ total_queued' \in 0..asked[count]
    BY <1>1, <1>2, <1>3, ConstantsAssumption DEF TypeOK
  <2>2. sent <= Len(stream')
    BY <1>1, <1>3, <1>4 DEF TypeOK, old
  <2>3. QED
    BY <1>1, <1>2, <1>4, <2>1, <2>2 DEF TypeOK, Bytes
<1>7. SendBuffer'
  <2>1. Len(stream') = Len(stream) + chunk /\ Len(stream) \in Nat
    BY <1>4 DEF old
  <2>2. sndbuf \in Nat /\ acked \in Nat /\ sndbuf' = sndbuf - chunk /\ chunk \in Nat
    BY <1>1, <1>2, <1>3, ConstantsAssumption DEF TypeOK
  <2>3. QED
    BY <1>1, <1>2, <2>1, <2>2, ConstantsAssumption DEF SendBuffer
<1>8. Unmade'
  <2>1. ASSUME NEW i \in 1..Len(stream')
        PROVE  stream'[i][1] <= count
    <3>1. CASE i <= old
      BY <3>1, <1>4, <1>5
    <3>2. CASE i > old
      BY <3>2, <1>3, <1>4
    <3>3. QED
      BY <3>1, <3>2, <1>3, <1>4
  <2>2. QED
    BY <1>1, <1>2, <2>1 DEF Unmade
<1>9. LoopInv'
  <2>1. ASSUME NEW k \in 0..(total_queued' - 1)
        PROVE  \E i \in 1..Len(stream') : stream'[i] = <<count, k>>
    <3>1. CASE k < total_queued
      <4>1. k \in 0..(total_queued - 1)
        BY <3>1, <1>2, <1>3
      <4>2. PICK i \in 1..old : stream[i] = <<count, k>>
        BY <4>1, <1>1, <1>2 DEF LoopInv, old
      <4>3. i \in 1..Len(stream') /\ stream'[i] = <<count, k>>
        BY <4>2, <1>3, <1>4
      <4>4. QED
        BY <4>3
    <3>2. CASE k >= total_queued
      <4> DEFINE i == old + (k - total_queued) + 1
      <4>1. /\ i \in 1..Len(stream') /\ i > old
            /\ total_queued + (i - old) - 1 = k
        BY <3>2, <1>2, <1>3, <1>4, <2>1
      <4>2. QED
        BY <4>1, <1>4
    <3>3. QED
      BY <3>1, <3>2, <1>3, <2>1
  <2>2. ASSUME NEW i \in 1..Len(stream'), stream'[i][1] = count
        PROVE  stream'[i][2] < total_queued'
    <3>1. CASE i <= old
      <4>1. i \in 1..old /\ stream'[i] = stream[i]
        BY <3>1, <1>4
      <4>2. stream[i][2] < total_queued /\ stream[i][2] \in Nat
        BY <2>2, <4>1, <1>1, <1>2, <1>5 DEF LoopInv, old
      <4>3. QED
        BY <4>1, <4>2, <1>2, <1>3
    <3>2. CASE i > old
      <4>1. stream'[i] = <<count, total_queued + (i - old) - 1>>
        BY <3>2, <1>4
      <4>2. QED
        BY <4>1, <1>2, <1>3, <1>4
    <3>3. QED
      BY <3>1, <3>2, <1>3, <1>4
  <2>3. /\ count' \in Writes /\ via'[count'] = "writeData"
        /\ returned'[count'] = 0 /\ asked'[count'] > 0
    BY <1>1, <1>2 DEF LoopInv
  <2>4. QED
    BY <1>2, <2>1, <2>2, <2>3 DEF LoopInv
<1>10. StreamInOrder'
  <2>1. TcpWrite(count, total_queued, chunk)
    BY DEF WriteLoop, ChunkStart, chunk
  <2>2. asked' = asked /\ asked \in [Writes -> 0..MaxSize] /\ asked[count] \in Nat
    BY <1>1, <1>2, <1>3 DEF TypeOK
  <2>3. total_queued + chunk <= asked'[count]
    BY <1>3, <2>2
  <2>4. \A i \in 1..Len(stream) : /\ asked'[stream[i][1]] = asked[stream[i][1]]
                                  /\ stream[i][1] <= count
                                  /\ stream[i][1] = count => stream[i][2] < total_queued
    BY <1>1, <1>2, <2>2 DEF LoopInv, Unmade
  <2>5. \A k \in 0..(total_queued - 1) :
          \E i \in 1..Len(stream) : stream[i] = <<count, k>>
    BY <1>1, <1>2 DEF LoopInv
  <2>6. QED
    BY <1>1, <1>3, <2>1, <2>2, <2>3, <2>4, <2>5, TakenInOrder
<1>11. SuccessWhole'
  <2>1. \A i \in 1..old : i \in 1..(old + chunk)
    BY <1>3, <1>4
  <2>2. QED
    BY <2>1, <1>1, <1>2, <1>4, <1>5 DEF SuccessWhole
<1>12. ErrorMeansNothing'
  <2>1. ASSUME NEW w \in Writes, via[w] = "writeChunk"
        PROVE  Places(w)' = Places(w)
    <3>1. w # count
      BY <2>1, <1>1, <1>2 DEF LoopInv
    <3>2. \A i \in 1..(old + chunk) : stream'[i][1] = w => i \in 1..old
      BY <3>1, <1>3, <1>4
    <3>3. QED
      BY <3>2, <1>3, <1>4, <1>5 DEF Places
  <2>2. QED
    BY <2>1, <1>1, <1>2 DEF ErrorMeansNothing
<1>13. QED
  BY <1>6, <1>7, <1>8, <1>9, <1>10, <1>11, <1>12 DEF IInv

(* writeData() returns, with everything queued or with 0. *)
LEMMA WriteReturnsInv ==
  ASSUME IInv, WriteRejected \/ WriteReturn
  PROVE  IInv'
<1>1. /\ TypeOK /\ SendBuffer /\ Unmade /\ LoopInv
      /\ StreamInOrder /\ SuccessWhole /\ ErrorMeansNothing
  BY DEF IInv
<1>2. /\ pc = "loop" /\ pc' = "idle" /\ total_queued' = 0
      /\ UNCHANGED <<sndbuf, stream, acked, count, via, asked, errors, released>>
      /\ count \in Writes /\ asked[count] \in 1..MaxSize
      /\ total_queued \in 0..asked[count]
  BY <1>1 DEF WriteRejected, WriteReturn, Return, lwipVars, TypeOK, LoopInv
<1>3. /\ sent' \in Nat /\ acked <= sent' /\ sent' <= Len(stream)
      /\ sent' <= acked + PeerWnd
  <2>1. CASE WriteRejected
    BY <2>1, <1>1 DEF WriteRejected, lwipVars, TypeOK, SendBuffer
  <2>2. CASE WriteReturn
    <3>1. /\ sent' = TcpOutput(stream, acked)
          /\ Len(stream) \in Nat /\ acked \in Nat /\ sent \in Nat
          /\ acked <= sent /\ sent <= Len(stream) /\ sent <= acked + PeerWnd
      BY <2>2, <1>1, StreamFacts DEF WriteReturn, TypeOK, SendBuffer
    <3>2. QED
      BY <3>1, OutputFacts
  <2>3. QED
    BY <2>1, <2>2
<1>4. PICK n \in {0, asked[count]} : /\ returned' = [returned EXCEPT ![count] = n]
                                     /\ n > 0 => total_queued = asked[count]
  <2>1. CASE WriteRejected
    BY <2>1 DEF WriteRejected, Return, Rejected
  <2>2. CASE WriteReturn
    <3>1. total_queued = asked[count]
      BY <2>2, <1>2 DEF WriteReturn, Finished
    <3>2. QED
      BY <2>2, <3>1 DEF WriteReturn, Return
  <2>3. QED
    BY <2>1, <2>2
<1>5. TypeOK'
  BY <1>1, <1>2, <1>3, <1>4, ConstantsAssumption DEF TypeOK
<1>6. SendBuffer' /\ LoopInv'
  BY <1>1, <1>2, <1>3 DEF SendBuffer, LoopInv
<1>7. Unmade'
  BY <1>1, <1>2, <1>4, ConstantsAssumption DEF Unmade, TypeOK, Writes
<1>8. StreamInOrder' /\ ErrorMeansNothing'
  BY <1>1, <1>2 DEF StreamInOrder, Earlier, ErrorMeansNothing, Places
<1>9. SuccessWhole'
  <2>1. ASSUME NEW w \in Writes, returned'[w] > 0
        PROVE  /\ returned'[w] = asked[w]
               /\ \A k \in 0..(asked[w] - 1) :
                    \E i \in DOMAIN stream : stream[i] = <<w, k>>
    <3>1. CASE w = count
      <4>1. returned'[w] = n /\ n > 0
        BY <3>1, <2>1, <1>1, <1>4 DEF TypeOK
      <4>2. total_queued = asked[count] /\ n = asked[count]
        BY <4>1, <1>4
      <4>3. QED
        BY <3>1, <4>1, <4>2, <1>1, <1>2, StreamFacts DEF LoopInv
    <3>2. CASE w # count
      BY <3>2, <2>1, <1>1, <1>4 DEF SuccessWhole, TypeOK
    <3>3. QED
      BY <3>1, <3>2
  <2>2. QED
    BY <2>1, <1>2 DEF SuccessWhole
<1>10. QED
  BY <1>5, <1>6, <1>7, <1>8, <1>9 DEF IInv

(* lwIP sends: after an acknowledgement, or from its slow timer. *)
LEMMA LwipInv ==
  ASSUME IInv, (\E len \in 1..TCP_SND_BUF : LwipSent(len)) \/ LwipPoll
  PROVE  IInv'
<1>1. /\ TypeOK /\ SendBuffer /\ Unmade /\ LoopInv
      /\ StreamInOrder /\ SuccessWhole /\ ErrorMeansNothing
      /\ Len(stream) \in Nat
  BY StreamFacts DEF IInv
<1>2. /\ pc = "idle"
      /\ UNCHANGED <<stream, pc, total_queued, count, via, asked, returned, errors, released>>
  BY DEF LwipSent, LwipPoll, callVars, histVars
<1>3. PICK len \in Nat : /\ acked + len <= sent
                         /\ acked' = acked + len
                         /\ sndbuf' = sndbuf + len
                         /\ sent' = TcpOutput(stream, acked + len)
  <2>1. CASE \E len \in 1..TCP_SND_BUF : LwipSent(len)
    BY <2>1, ConstantsAssumption DEF LwipSent
  <2>2. CASE LwipPoll
    <3>1. /\ acked + 0 <= sent /\ acked' = acked + 0 /\ sndbuf' = sndbuf + 0
          /\ acked + 0 = acked
      BY <2>2, <1>1, ConstantsAssumption DEF LwipPoll, TypeOK
    <3>2. sent' = TcpOutput(stream, acked + 0)
      BY <2>2, <3>1 DEF LwipPoll, PollResult
    <3>3. QED
      BY <3>1, <3>2
  <2>3. QED
    BY <2>1, <2>2
<1>4. /\ acked' \in Nat /\ sent' \in Nat
      /\ acked' <= sent' /\ sent' <= Len(stream) /\ sent' <= acked' + PeerWnd
  <2>1. /\ acked + len \in Nat /\ sent \in Nat /\ sent <= Len(stream)
        /\ sent <= acked + len + PeerWnd /\ acked + len <= Len(stream)
    BY <1>1, <1>3, ConstantsAssumption DEF TypeOK, SendBuffer
  <2>2. QED
    BY <1>1, <1>3, <2>1, OutputFacts
<1>5. sndbuf' \in 0..TCP_SND_BUF /\ sndbuf' + Len(stream) = TCP_SND_BUF + acked'
  <2>1. /\ sndbuf \in Nat /\ acked \in Nat /\ TCP_SND_BUF \in Nat
        /\ sndbuf + Len(stream) = TCP_SND_BUF + acked
    BY <1>1, ConstantsAssumption DEF TypeOK, SendBuffer
  <2>2. sndbuf' = sndbuf + len /\ acked' = acked + len /\ acked + len <= Len(stream)
    BY <1>3, <1>4
  <2>3. QED
    BY <1>1, <2>1, <2>2
<1>6. TypeOK'
  BY <1>1, <1>2, <1>4, <1>5 DEF TypeOK
<1>7. SendBuffer' /\ LoopInv'
  BY <1>2, <1>4, <1>5 DEF SendBuffer, LoopInv
<1>8. Unmade' /\ StreamInOrder' /\ SuccessWhole' /\ ErrorMeansNothing'
  BY <1>1, <1>2 DEF Unmade, StreamInOrder, Earlier, SuccessWhole, ErrorMeansNothing, Places
<1>9. QED
  BY <1>6, <1>7, <1>8 DEF IInv

(* writeChunk() whose chunk lwIP takes. *)
LEMMA ContextWriteChunkInv ==
  ASSUME IInv, NEW n \in 1..MaxSize, ContextWriteChunk(n)
  PROVE  IInv'
<1> DEFINE new == count + 1
           k == ChunkSize(n)
           old == Len(stream)
<1>1. /\ TypeOK /\ SendBuffer /\ Unmade /\ LoopInv
      /\ StreamInOrder /\ SuccessWhole /\ ErrorMeansNothing
  BY DEF IInv
<1>2. /\ pc = "idle" /\ count < MaxWrites /\ count' = new
      /\ via' = [via EXCEPT ![new] = "writeChunk"]
      /\ asked' = [asked EXCEPT ![new] = n]
      /\ k > 0 /\ k <= sndbuf /\ sndbuf' = sndbuf - k
      /\ sent' = TcpOutput(stream', acked)
      /\ UNCHANGED <<acked, pc, total_queued, returned, errors, released>>
  BY DEF ContextWriteChunk, NewWrite, TcpWrite, callVars
<1>3. /\ count \in Nat /\ new \in Writes /\ new \in Nat /\ new > count
      /\ n \in Nat /\ n \in 0..MaxSize /\ sndbuf \in Nat /\ k \in Nat /\ k <= n
  BY <1>1, <1>2, ConstantsAssumption DEF TypeOK, Writes, ChunkSize, Smaller
<1>4. /\ stream' \in Seq(Bytes)
      /\ old \in Nat
      /\ Len(stream') = old + k
      /\ \A i \in 1..old : stream'[i] = stream[i]
      /\ \A i \in 1..Len(stream') : i > old => stream'[i] = <<new, 0 + (i - old) - 1>>
  <2>1. TcpWrite(new, 0, k)
    BY DEF ContextWriteChunk
  <2>2. QED
    BY <1>1, <1>3, <2>1, AfterTcpWrite
<1>5. /\ DOMAIN stream' = 1..(old + k) /\ DOMAIN stream = 1..old
      /\ \A i \in 1..old : stream[i][1] \in Writes /\ stream[i][2] \in Nat
      /\ \A i \in 1..old : stream[i][1] <= count
  BY <1>1, <1>4, LenProperties, StreamFacts DEF Unmade
<1>6. /\ sent' \in Nat /\ acked <= sent' /\ sent' <= Len(stream')
      /\ sent' <= acked + PeerWnd
  <2>1. /\ Len(stream') \in Nat /\ acked \in Nat /\ sent \in Nat
        /\ sent <= Len(stream') /\ sent <= acked + PeerWnd /\ acked <= Len(stream')
    BY <1>1, <1>3, <1>4 DEF TypeOK, SendBuffer
  <2>2. QED
    BY <1>2, <2>1, OutputFacts
<1> HIDE DEF new, k, old
<1>7. TypeOK'
  <2>1. sndbuf' \in 0..TCP_SND_BUF /\ total_queued' = 0 /\ count' \in 0..MaxWrites
    BY <1>1, <1>2, <1>3, ConstantsAssumption DEF TypeOK, Writes
  <2>2. /\ via' \in [Writes -> {"none", "writeData", "writeChunk"}]
        /\ asked' \in [Writes -> 0..MaxSize]
    BY <1>1, <1>2, <1>3 DEF TypeOK
  <2>3. QED
    BY <1>1, <1>2, <1>4, <1>6, <2>1, <2>2 DEF TypeOK, Bytes
<1>8. SendBuffer' /\ LoopInv'
  <2>1. Len(stream') = Len(stream) + k /\ Len(stream) \in Nat
    BY <1>4 DEF old
  <2>2. sndbuf' + Len(stream') = TCP_SND_BUF + acked
    BY <1>1, <1>2, <1>3, <2>1, ConstantsAssumption DEF SendBuffer, TypeOK
  <2>3. QED
    BY <1>2, <1>6, <2>2 DEF SendBuffer, LoopInv
<1>9. Unmade'
  <2>1. ASSUME NEW i \in 1..Len(stream')
        PROVE  stream'[i][1] <= count'
    <3>1. CASE i <= old
      <4>1. i \in 1..old
        BY <3>1, <1>4
      <4>2. stream'[i][1] \in Writes /\ stream'[i][1] <= count
        BY <4>1, <1>4, <1>5
      <4>3. QED
        BY <4>2, <1>2, <1>3, ConstantsAssumption DEF Writes
    <3>2. CASE i > old
      BY <3>2, <1>2, <1>3, <1>4
    <3>3. QED
      BY <3>1, <3>2, <1>3, <1>4
  <2>2. ASSUME NEW w \in Writes, w > count'
        PROVE  via'[w] = "none" /\ returned'[w] = 0 /\ w \notin errors'
    <3>1. w # new /\ w > count
      BY <2>2, <1>2, <1>3, ConstantsAssumption DEF Writes
    <3>2. via'[w] = via[w]
      BY <3>1, <1>1, <1>2, <1>3 DEF TypeOK
    <3>3. QED
      BY <3>1, <3>2, <1>1, <1>2 DEF Unmade
  <2>3. QED
    BY <2>1, <2>2 DEF Unmade
<1>10. \A w \in Writes : w # new => asked'[w] = asked[w] /\ via'[w] = via[w]
  BY <1>1, <1>2, <1>3 DEF TypeOK
<1>11. asked'[new] = n
  BY <1>1, <1>2, <1>3 DEF TypeOK
<1>12. \A i \in 1..old : stream[i][1] # new
  BY <1>3, <1>5
<1>13. StreamInOrder'
  <2>1. TcpWrite(new, 0, k)
    BY DEF ContextWriteChunk, new, k
  <2>2. asked' \in [Writes -> 0..MaxSize] /\ 0 + k <= asked'[new]
    BY <1>1, <1>2, <1>3, <1>11 DEF TypeOK
  <2>3. \A i \in 1..Len(stream) : /\ asked'[stream[i][1]] = asked[stream[i][1]]
                                  /\ stream[i][1] <= new
                                  /\ stream[i][1] = new => stream[i][2] < 0
    BY <1>3, <1>5, <1>10, <1>12, ConstantsAssumption DEF old, Writes
  <2>4. \A j \in 0..(0 - 1) : \E i \in 1..Len(stream) : stream[i] = <<new, j>>
    OBVIOUS
  <2>5. QED
    BY <1>1, <1>3, <2>1, <2>2, <2>3, <2>4, TakenInOrder
<1>14. SuccessWhole'
  <2>1. \A w \in Writes : returned[w] > 0 => w # new
    BY <1>1, <1>3 DEF Unmade
  <2>2. \A i \in 1..old : i \in 1..(old + k)
    BY <1>3, <1>4
  <2>3. ASSUME NEW w \in Writes, returned'[w] > 0
        PROVE  /\ returned'[w] = asked'[w]
               /\ \A j \in 0..(asked'[w] - 1) :
                    \E i \in 1..(old + k) : stream'[i] = <<w, j>>
    <3>1. returned'[w] = returned[w] /\ asked'[w] = asked[w]
      BY <2>1, <2>3, <1>2, <1>10
    <3>2. /\ returned[w] = asked[w]
          /\ \A j \in 0..(asked[w] - 1) : \E i \in 1..old : stream[i] = <<w, j>>
      BY <2>3, <3>1, <1>1, <1>5 DEF SuccessWhole
    <3>3. \A i \in 1..old : stream'[i] = stream[i]
      BY <1>4
    <3>4. QED
      BY <2>2, <3>1, <3>2, <3>3
  <2>4. QED
    BY <2>3, <1>5 DEF SuccessWhole
<1>15. ErrorMeansNothing'
  <2>1. ASSUME NEW w \in Writes, via'[w] = "writeChunk"
        PROVE  w \in errors <=> Places(w)' = {}
    <3>1. CASE w = new
      <4>1. w \notin errors
        BY <3>1, <1>1, <1>3 DEF Unmade
      <4>2. old + 1 \in 1..(old + k) /\ old + 1 > old
        BY <1>2, <1>3, <1>4
      <4>3. stream'[old + 1][1] = w
        BY <3>1, <4>2, <1>4
      <4>4. QED
        BY <4>1, <4>2, <4>3, <1>5 DEF Places
    <3>2. CASE w # new
      <4>1. \A i \in 1..(old + k) : stream'[i][1] = w => i \in 1..old
        BY <3>2, <1>3, <1>4
      <4>2. Places(w)' = Places(w)
        BY <4>1, <1>3, <1>4, <1>5 DEF Places
      <4>3. QED
        BY <4>2, <3>2, <2>1, <1>1, <1>10 DEF ErrorMeansNothing
    <3>3. QED
      BY <3>1, <3>2
  <2>2. errors' = errors
    BY <1>2
  <2>3. QED
    BY <2>1, <2>2 DEF ErrorMeansNothing
<1>16. QED
  BY <1>7, <1>8, <1>9, <1>13, <1>14, <1>15 DEF IInv

(* writeChunk() of which lwIP takes nothing. *)
LEMMA ContextWriteErrorInv ==
  ASSUME IInv, NEW n \in 1..MaxSize, ContextWriteError(n)
  PROVE  IInv'
<1> DEFINE new == count + 1
<1>1. /\ TypeOK /\ SendBuffer /\ Unmade /\ LoopInv
      /\ StreamInOrder /\ SuccessWhole /\ ErrorMeansNothing
  BY DEF IInv
<1>2. /\ pc = "idle" /\ count < MaxWrites /\ count' = new
      /\ via' = [via EXCEPT ![new] = "writeChunk"]
      /\ asked' = [asked EXCEPT ![new] = n]
      /\ errors' = errors \cup {new}
      /\ UNCHANGED <<sndbuf, stream, sent, acked, pc, total_queued, returned, released>>
  BY DEF ContextWriteError, NewWrite, ErrorCb, callVars, lwipVars
<1>3. /\ count \in Nat /\ new \in Writes /\ new \in Nat /\ new > count
      /\ n \in 0..MaxSize
  BY <1>1, <1>2, ConstantsAssumption DEF TypeOK, Writes
<1>4. /\ DOMAIN stream = 1..Len(stream)
      /\ \A i \in 1..Len(stream) : stream[i][1] \in Writes /\ stream[i][1] <= count
  BY <1>1, StreamFacts DEF Unmade
<1> HIDE DEF new
<1>5. \A w \in Writes : w # new => asked'[w] = asked[w] /\ via'[w] = via[w]
  BY <1>1, <1>2, <1>3 DEF TypeOK
<1>6. \A i \in 1..Len(stream) : stream[i][1] # new
  BY <1>3, <1>4
<1>7. TypeOK'
  <2>1. total_queued' = 0 /\ count' \in 0..MaxWrites
    BY <1>1, <1>2, <1>3, ConstantsAssumption DEF TypeOK, Writes
  <2>2. /\ via' \in [Writes -> {"none", "writeData", "writeChunk"}]
        /\ asked' \in [Writes -> 0..MaxSize]
    BY <1>1, <1>2, <1>3 DEF TypeOK
  <2>3. QED
    BY <1>1, <1>2, <1>3, <2>1, <2>2 DEF TypeOK
<1>8. SendBuffer' /\ LoopInv'
  BY <1>1, <1>2 DEF SendBuffer, LoopInv
<1>9. Unmade'
  <2>1. \A i \in 1..Len(stream') : stream'[i][1] <= count'
    BY <1>2, <1>3, <1>4, ConstantsAssumption DEF Writes
  <2>2. ASSUME NEW w \in Writes, w > count'
        PROVE  via'[w] = "none" /\ returned'[w] = 0 /\ w \notin errors'
    <3>1. w # new /\ w > count
      BY <2>2, <1>2, <1>3, ConstantsAssumption DEF Writes
    <3>2. QED
      BY <3>1, <1>1, <1>2, <1>5 DEF Unmade
  <2>3. QED
    BY <2>1, <2>2 DEF Unmade
<1>10. StreamInOrder'
  BY <1>1, <1>2, <1>4, <1>5, <1>6, KeptInOrder
<1>11. SuccessWhole'
  <2>1. \A w \in Writes : returned[w] > 0 => w # new
    BY <1>1, <1>3 DEF Unmade
  <2>2. QED
    BY <2>1, <1>1, <1>2, <1>5 DEF SuccessWhole
<1>12. ErrorMeansNothing'
  <2>1. ASSUME NEW w \in Writes, via'[w] = "writeChunk"
        PROVE  w \in errors' <=> Places(w)' = {}
    <3>1. Places(w)' = Places(w)
      BY <1>2 DEF Places
    <3>2. CASE w = new
      <4>1. Places(w) = {}
        BY <3>2, <1>4, <1>6 DEF Places
      <4>2. QED
        BY <4>1, <3>1, <3>2, <1>2
    <3>3. CASE w # new
      BY <3>1, <3>3, <2>1, <1>1, <1>2, <1>5 DEF ErrorMeansNothing
    <3>4. QED
      BY <3>2, <3>3
  <2>2. QED
    BY <2>1 DEF ErrorMeansNothing
<1>13. QED
  BY <1>7, <1>8, <1>9, <1>10, <1>11, <1>12 DEF IInv

(* The caller takes its buffer back. *)
LEMMA ReleaseInv ==
  ASSUME IInv, NEW w \in Writes, Release(w)
  PROVE  IInv'
<1>1. /\ released' = released \cup {w}
      /\ UNCHANGED <<sndbuf, stream, sent, acked, pc, total_queued, count, via, asked,
                     returned, errors>>
  BY DEF Release, lwipVars, callVars
<1>2. TypeOK'
  BY <1>1 DEF IInv, TypeOK
<1>3. SendBuffer' /\ Unmade' /\ LoopInv'
  BY <1>1 DEF IInv, SendBuffer, Unmade, LoopInv
<1>4. StreamInOrder' /\ SuccessWhole' /\ ErrorMeansNothing'
  BY <1>1 DEF IInv, StreamInOrder, Earlier, SuccessWhole, ErrorMeansNothing, Places
<1>5. QED
  BY <1>2, <1>3, <1>4 DEF IInv

(* Every step preserves IInv. *)
LEMMA NextInv == IInv /\ [Next]_vars => IInv'
<1> SUFFICES ASSUME IInv, [Next]_vars PROVE IInv'
  OBVIOUS
<1>1. CASE Writer
  BY <1>1, WriteLoopInv, WriteReturnsInv DEF Writer
<1>2. CASE \E n \in 1..MaxSize : \/ WriteData(n)
                                 \/ ContextWriteChunk(n)
                                 \/ ContextWriteError(n)
  BY <1>2, WriteDataInv, ContextWriteChunkInv, ContextWriteErrorInv
<1>3. CASE (\E len \in 1..TCP_SND_BUF : LwipSent(len)) \/ LwipPoll
  BY <1>3, LwipInv
<1>4. CASE \E w \in Writes : Release(w)
  BY <1>4, ReleaseInv
<1>5. CASE UNCHANGED vars
  <2>1. UNCHANGED <<sndbuf, stream, sent, acked, pc, total_queued, count, via, asked,
                   returned, errors, released>>
    BY <1>5 DEF vars, callVars, lwipVars, histVars
  <2>2. TypeOK' /\ SendBuffer'
    BY <2>1 DEF IInv, TypeOK, SendBuffer
  <2>3. Unmade' /\ LoopInv'
    BY <2>1 DEF IInv, Unmade, LoopInv
  <2>4. StreamInOrder' /\ SuccessWhole' /\ ErrorMeansNothing'
    BY <2>1 DEF IInv, StreamInOrder, Earlier, SuccessWhole, ErrorMeansNothing, Places
  <2>5. QED
    BY <2>2, <2>3, <2>4 DEF IInv
<1>6. QED
  BY <1>1, <1>2, <1>3, <1>4, <1>5 DEF Next

(* IInv holds in every state, whatever the order of the writes, the        *)
(* acknowledgements and the polls.                                         *)
THEOREM Invariance == Spec => []IInv
BY InitInv, NextInv, PTL DEF Spec

-----------------------------------------------------------------------------

(* The variables keep their types and bounds: lwIP never sends what it     *)
(* does not have, nor acknowledges what was not sent.                      *)
THEOREM TypeCorrect == Spec => []TypeOK
<1>1. IInv => TypeOK
  BY DEF IInv
<1>2. QED
  BY <1>1, Invariance, PTL

(* What lwIP accepted is, of each write, a prefix, and the writes follow   *)
(* one another in the order of the calls.                                  *)
THEOREM InOrder == Spec => []StreamInOrder
<1>1. IInv => StreamInOrder
  BY DEF IInv
<1>2. QED
  BY <1>1, Invariance, PTL

(* writeData() returns a positive number only for a message lwIP has       *)
(* whole.                                                                  *)
THEOREM SuccessIsWhole == Spec => []SuccessWhole
<1>1. IInv => SuccessWhole
  BY DEF IInv
<1>2. QED
  BY <1>1, Invariance, PTL

(* writeChunk() reports an error exactly for a chunk of which lwIP took    *)
(* nothing.                                                                *)
THEOREM ErrorTookNothing == Spec => []ErrorMeansNothing
<1>1. IInv => ErrorMeansNothing
  BY DEF IInv
<1>2. QED
  BY <1>1, Invariance, PTL

-----------------------------------------------------------------------------
(***************************************************************************)
(* The refinement of TxStream, without its fairness.                       *)
(***************************************************************************)

(* A step that only lets lwIP send more. *)
LEMMA SendStep ==
  ASSUME IInv, IInv', sent' >= sent,
         UNCHANGED <<stream, pc, total_queued, count, asked, returned, errors>>
  PROVE  [Tx!Next]_(Tx!vars)
<1>1. /\ sent \in Nat /\ sent' \in Nat /\ Len(stream) \in Nat /\ sent' <= Len(stream)
  BY StreamFacts DEF IInv, TypeOK
<1>2. CASE sent' = sent
  BY <1>2 DEF Tx!vars
<1>3. CASE sent' # sent
  <2>1. Tx!Transmit
    BY <1>1, <1>3 DEF Tx!Transmit
  <2>2. QED
    BY <2>1 DEF Tx!Next
<1>4. QED
  BY <1>2, <1>3

(* Every step is one of TxStream's or changes nothing it knows of. *)
LEMMA StepSimulation ==
  ASSUME IInv, IInv', [Next]_vars
  PROVE  [Tx!Next]_(Tx!vars)
<1>1. /\ TypeOK /\ SendBuffer /\ LoopInv /\ Unmade
      /\ stream \in Seq(Bytes) /\ Len(stream) \in Nat
      /\ sent \in Nat /\ sent <= Len(stream)
  BY StreamFacts DEF IInv, TypeOK
<1>2. /\ Len(stream') \in Nat /\ sent' \in Nat /\ sent' <= Len(stream')
  <2>1. (Len(stream) \in Nat)'
    <3>1. stream' \in Seq(Bytes)
      BY DEF IInv, TypeOK, Bytes
    <3>2. QED
      BY <3>1, LenProperties
  <2>2. QED
    BY <2>1 DEF IInv, TypeOK
<1>3. ASSUME NEW n \in 1..MaxSize, WriteData(n)
      PROVE  Tx!Next
  <2>1. total_queued = 0
    BY <1>1, <1>3 DEF WriteData, NewWrite, TypeOK
  <2>2. Tx!Start(n)
    BY <2>1, <1>3 DEF WriteData, NewWrite, lwipVars, Tx!Start, Tx!New
  <2>3. QED
    BY <2>2 DEF Tx!Next
<1>4. ASSUME WriteLoop
      PROVE  Tx!Next
  <2> DEFINE chunk == OptimalChunkSize(asked[count] - total_queued)
  <2>1. /\ count \in Writes /\ asked[count] \in 1..MaxSize /\ total_queued \in Nat
        /\ sndbuf \in Nat
    BY <1>1, <1>4, ConstantsAssumption DEF LoopInv, TypeOK, WriteLoop
  <2>2. chunk \in 1..MaxSize /\ chunk <= asked[count] - total_queued
    <3>1. chunk > 0
      BY <1>4 DEF WriteLoop
    <3>2. asked[count] - total_queued \in Int
      BY <2>1, ConstantsAssumption
    <3>3. QED
      BY <2>1, <3>1, <3>2, ConstantsAssumption DEF OptimalChunkSize, Smaller
  <2> HIDE DEF chunk
  <2>3. /\ stream' = stream \o [i \in 1..chunk |-> <<count, total_queued + i - 1>>]
        /\ total_queued' = total_queued + chunk
        /\ pc = "loop" /\ pc' = "loop"
        /\ UNCHANGED <<sent, count, asked, returned, errors>>
    BY <1>4 DEF WriteLoop, TcpWrite, ChunkStart, Advance, chunk, histVars
  <2>4. Tx!Send
    <3>1. sent' = sent
      BY <2>3
    <3>2. QED
      BY <1>1, <1>2, <3>1 DEF Tx!Send
  <2>5. Tx!Piece(chunk)
    BY <2>3, <2>4 DEF Tx!Piece, Tx!Take
  <2>6. QED
    BY <2>2, <2>3, <2>5 DEF Tx!Next
<1>5. ASSUME WriteRejected
      PROVE  Tx!Next
  <2>1. /\ pc = "loop" /\ pc' = "idle" /\ total_queued' = 0
        /\ returned' = [returned EXCEPT ![count] = 0]
        /\ UNCHANGED <<stream, sent, count, asked, errors>>
    BY <1>5 DEF WriteRejected, Return, Rejected, lwipVars
  <2>2. 0 \in 0..total_queued
    BY <1>1, <2>1, ConstantsAssumption DEF LoopInv, TypeOK
  <2>3. Tx!Send
    BY <1>1, <2>1 DEF Tx!Send
  <2>4. Tx!Finish
    BY <2>1, <2>2, <2>3 DEF Tx!Finish
  <2>5. QED
    BY <2>4 DEF Tx!Next
<1>6. ASSUME WriteReturn
      PROVE  Tx!Next
  <2>1. /\ pc = "loop" /\ pc' = "idle" /\ total_queued' = 0
        /\ returned' = [returned EXCEPT ![count] = total_queued]
        /\ sent' = TcpOutput(stream, acked)
        /\ UNCHANGED <<stream, count, asked, errors>>
    BY <1>6 DEF WriteReturn, Return
  <2>2. total_queued \in 0..total_queued
    BY <1>1, <2>1, ConstantsAssumption DEF TypeOK, LoopInv
  <2>3. sent' >= sent
    BY <1>1, <2>1, OutputFacts DEF TypeOK, SendBuffer
  <2>4. Tx!Send
    BY <1>1, <1>2, <2>1, <2>3 DEF Tx!Send
  <2>5. Tx!Finish
    BY <2>1, <2>2, <2>4 DEF Tx!Finish
  <2>6. QED
    BY <2>5 DEF Tx!Next
<1>7. ASSUME NEW n \in 1..MaxSize, ContextWriteChunk(n)
      PROVE  Tx!Next
  <2> DEFINE k == ChunkSize(n)
  <2>1. k \in 0..n /\ k # 0
    BY <1>1, <1>7, ConstantsAssumption DEF ContextWriteChunk, ChunkSize, Smaller, TypeOK
  <2>2. sent' >= sent
    <3>1. Len(stream') >= Len(stream)
      <4>1. TcpWrite(count + 1, 0, k) /\ count + 1 \in Writes
        BY <1>1, <1>7, ConstantsAssumption DEF ContextWriteChunk, NewWrite, TypeOK, Writes
      <4>2. k \in Nat
        BY <2>1
      <4> HIDE DEF k
      <4>3. Len(stream') = Len(stream) + k
        BY <1>1, <4>1, <4>2, AfterTcpWrite
      <4>4. QED
        BY <1>1, <4>2, <4>3
    <3>2. sent' = TcpOutput(stream', acked)
      BY <1>7 DEF ContextWriteChunk
    <3>3. /\ sent <= Len(stream') /\ acked <= Len(stream') /\ acked \in Nat
          /\ sent <= acked + PeerWnd
      BY <1>1, <1>2, <3>1 DEF TypeOK, SendBuffer
    <3>4. QED
      BY <1>1, <1>2, <3>2, <3>3, OutputFacts
  <2> HIDE DEF k
  <2>3. Tx!Send
    BY <1>1, <1>2, <2>2 DEF Tx!Send
  <2>4. Tx!New(n) /\ Tx!Take(count + 1, 0, k)
    BY <1>7 DEF ContextWriteChunk, NewWrite, TcpWrite, Tx!New, Tx!Take, k
  <2>5. UNCHANGED <<pc, total_queued, returned, errors>>
    BY <1>7 DEF ContextWriteChunk, callVars
  <2>6. Tx!Offer(n, k)
    BY <2>1, <2>3, <2>4, <2>5 DEF Tx!Offer
  <2>7. QED
    BY <2>1, <2>6 DEF Tx!Next
<1>8. ASSUME NEW n \in 1..MaxSize, ContextWriteError(n)
      PROVE  Tx!Next
  <2>1. /\ errors' = errors \cup {count + 1}
        /\ UNCHANGED <<stream, sent, pc, total_queued, returned>>
    BY <1>8 DEF ContextWriteError, ErrorCb, lwipVars, callVars
  <2>2. Tx!New(n)
    BY <1>8 DEF ContextWriteError, NewWrite, Tx!New
  <2>3. stream' = stream \o Chunk(count + 1, 0, 0)
    BY <1>1, <2>1, NothingTaken
  <2>4. Tx!Take(count + 1, 0, 0)
    BY <2>3 DEF Tx!Take, Chunk
  <2>5. Tx!Send
    BY <1>1, <2>1 DEF Tx!Send
  <2>6. Tx!Offer(n, 0)
    BY <2>1, <2>2, <2>4, <2>5 DEF Tx!Offer
  <2>7. 0 \in 0..n
    OBVIOUS
  <2>8. QED
    BY <2>6, <2>7 DEF Tx!Next
<1>9. ASSUME (\E len \in 1..TCP_SND_BUF : LwipSent(len)) \/ LwipPoll
      PROVE  [Tx!Next]_(Tx!vars)
  <2>1. UNCHANGED <<stream, pc, total_queued, count, asked, returned, errors>>
    BY <1>9 DEF LwipSent, LwipPoll, callVars, histVars
  <2>2. sent' >= sent
    <3>1. CASE LwipPoll
      BY <1>1, <3>1, OutputFacts DEF LwipPoll, PollResult, TypeOK, SendBuffer
    <3>2. CASE \E len \in 1..TCP_SND_BUF : LwipSent(len)
      <4>1. PICK len \in 1..TCP_SND_BUF : LwipSent(len)
        BY <3>2
      <4>2. /\ acked + len \in Nat /\ acked + len <= sent
            /\ sent' = TcpOutput(stream, acked + len)
            /\ sent <= acked + len + PeerWnd /\ acked + len <= Len(stream)
        BY <1>1, <4>1, ConstantsAssumption DEF LwipSent, TypeOK, SendBuffer
      <4>3. QED
        BY <1>1, <4>2, OutputFacts
    <3>3. QED
      BY <1>9, <3>1, <3>2
  <2>3. QED
    BY <2>1, <2>2, SendStep
<1>10. ASSUME NEW w \in Writes, Release(w)
       PROVE  UNCHANGED Tx!vars
  BY <1>10 DEF Release, lwipVars, callVars, Tx!vars
<1>11. ASSUME UNCHANGED vars
       PROVE  UNCHANGED Tx!vars
  BY <1>11 DEF vars, lwipVars, callVars, histVars, Tx!vars
<1>12. QED
  BY <1>3, <1>4, <1>5, <1>6, <1>7, <1>8, <1>9, <1>10, <1>11 DEF Next, Writer

(* Both ways to write take, answer, refuse and send only as TxStream       *)
(* allows, whatever the chunks, the send buffer and the window: the part   *)
(* of ImplementsTx that says what may happen.                              *)
THEOREM TxRefinement == Spec => Tx!SafeSpec
<1>1. Init => Tx!Init
  BY DEF Init, Tx!Init, Writes
<1>2. QED
  BY <1>1, StepSimulation, Invariance, PTL DEF Spec, Tx!SafeSpec

=============================================================================
