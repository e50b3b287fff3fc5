-------------------------- MODULE IoRxBufferProofs --------------------------
(***************************************************************************)
(* Proofs about IoRxBuffer, for every pbuf pool, window and bound.         *)
(*                                                                         *)
(* The invariants of IoRxBuffer are proved together: IInv adds to them     *)
(* that every linked segment is non-empty and ends inside the stream, that *)
(* the cursor is inside the head, that the buffer knows its PCB whenever   *)
(* there is something to acknowledge, and what the loop of _slowPath() has *)
(* still to consume.                                                       *)
(***************************************************************************)
EXTENDS IoRxBuffer, SequenceTheorems, TLAPS

Segments ==
  /\ \A i \in 1..Len(head) : /\ len[head[i]] > 0
                             /\ first[head[i]] + len[head[i]] <= rcvd
  /\ head # <<>> => offset < len[head[1]]
  /\ pos <= rcvd

PcbKnown == head # <<>> \/ pc = "slow" => pcb = Pcb

CallInv ==
  /\ pc = "slow" => consumed + Smaller(remaining, rcvd - pos) = goal
  /\ pc = "ack"  => consumed = goal

IInv ==
  /\ TypeOK
  /\ ChainOwned
  /\ CursorOnStream
  /\ Segments
  /\ PcbKnown
  /\ CallInv
  /\ WindowConserved

-----------------------------------------------------------------------------

(* What the proofs use of a pbuf chain. *)
LEMMA SeqFacts ==
  ASSUME NEW c \in Seq(Pbufs)
  PROVE  /\ Len(c) \in Nat
         /\ DOMAIN c = 1..Len(c)
         /\ \A i \in 1..Len(c) : c[i] \in Pbufs
         /\ c = <<>> <=> Len(c) < 1
BY EmptySeq, LenProperties, ElementOfSeq

(* What they use of the chain behind its head, which _free() moves to. *)
LEMMA TailFacts ==
  ASSUME NEW c \in Seq(Pbufs), c # <<>>
  PROVE  /\ Tail(c) \in Seq(Pbufs)
         /\ Len(Tail(c)) = Len(c) - 1
         /\ \A i \in 1..Len(Tail(c)) : Tail(c)[i] = c[i + 1]
         /\ Tail(c) # <<>> <=> Len(c) > 1
<1>1. /\ Tail(c) \in Seq(Pbufs)
      /\ Len(Tail(c)) = Len(c) - 1
      /\ \A i \in 1..Len(Tail(c)) : Tail(c)[i] = c[i + 1]
  BY HeadTailProperties
<1>2. Len(Tail(c)) = 0 <=> Tail(c) = <<>>
  BY <1>1, EmptySeq
<1>3. QED
  BY <1>1, <1>2, SeqFacts

(* The reference counts after _free(): the old head is deallocated, the    *)
(* rest of the chain keeps exactly one reference per pbuf.                 *)
LEMMA FreeRefResult ==
  ASSUME TypeOK, ChainOwned, head # <<>>
  PROVE  /\ FreeRef(ref, head) \in [Pbufs -> Nat]
         /\ \A q \in Pbufs : FreeRef(ref, head)[q] =
              IF \E i \in 1..Len(Tail(head)) : Tail(head)[i] = q THEN 1 ELSE 0
<1> DEFINE t == Tail(head)
           kept == IF t # <<>> THEN PbufRef(ref, t) ELSE ref
<1>1. /\ head \in Seq(Pbufs)
      /\ Len(head) \in Nat /\ Len(head) >= 1
      /\ DOMAIN head = 1..Len(head)
      /\ \A i \in 1..Len(head) : head[i] \in Pbufs
      /\ ref \in [Pbufs -> Nat]
  BY SeqFacts DEF TypeOK
<1>2. /\ t \in Seq(Pbufs)
      /\ Len(t) = Len(head) - 1
      /\ \A i \in 1..Len(t) : t[i] = head[i + 1]
      /\ t # <<>> <=> Len(head) > 1
  BY TailFacts, <1>1
<1>3. \A q \in Pbufs : kept[q] = IF Len(head) > 1 /\ q = head[2]
                                   THEN ref[q] + 1 ELSE ref[q]
  BY <1>1, <1>2 DEF PbufRef
<1>3a. FreeRef(ref, head) = PbufFree(kept, head)
  BY DEF FreeRef
<1> HIDE DEF t, kept
<1>4. \A i \in 1..Len(head) : kept[head[i]] = IF i = 2 THEN 2 ELSE 1
  BY <1>1, <1>3 DEF ChainOwned
<1>5. \A i \in 1..Len(head) :
        (\A j \in 1..(i - 1) : kept[head[j]] = 1) <=> i <= 2
  BY <1>1, <1>4
<1>6. FreeRef(ref, head) =
        [q \in Pbufs |->
           IF \E i \in 1..Len(head) : head[i] = q /\ i <= 2
             THEN kept[q] - 1 ELSE kept[q]]
  BY <1>1, <1>5, <1>3a DEF PbufFree
<1>7. ASSUME NEW q \in Pbufs
      PROVE  FreeRef(ref, head)[q] =
               IF \E i \in 1..Len(t) : t[i] = q THEN 1 ELSE 0
  <2>1. CASE \E i \in 1..Len(head) : head[i] = q
    <3>1. PICK i \in 1..Len(head) : head[i] = q
      BY <2>1
    <3>2. \A k \in 1..Len(head) : head[k] = q => k = i
      BY <3>1 DEF ChainOwned
    <3>3. (\E k \in 1..Len(t) : t[k] = q) <=> i > 1
      <4>1. ASSUME NEW k \in 1..Len(t), t[k] = q PROVE i > 1
        <5>1. k + 1 \in 1..Len(head) /\ head[k + 1] = q
          BY <1>1, <1>2, <4>1
        <5>2. QED
          BY <3>2, <5>1
      <4>2. ASSUME i > 1 PROVE \E k \in 1..Len(t) : t[k] = q
        <5>1. i - 1 \in 1..Len(t) /\ t[i - 1] = head[(i - 1) + 1]
          BY <1>1, <1>2, <4>2
        <5>2. QED
          BY <3>1, <5>1
      <4>3. QED
        BY <4>1, <4>2
    <3>4. FreeRef(ref, head)[q] = IF i <= 2 THEN kept[q] - 1 ELSE kept[q]
      BY <1>6, <3>1, <3>2
    <3>5. QED
      BY <1>1, <1>4, <3>1, <3>3, <3>4
  <2>2. CASE ~ \E i \in 1..Len(head) : head[i] = q
    <3>1. ~ \E i \in 1..Len(t) : t[i] = q
      BY <1>1, <1>2, <2>2
    <3>2. FreeRef(ref, head)[q] = kept[q] /\ ref[q] = 0
      BY <1>6, <2>2 DEF ChainOwned
    <3>3. ~(Len(head) > 1 /\ q = head[2])
      BY <1>1, <2>2
    <3>4. QED
      BY <1>3, <3>1, <3>2, <3>3
  <2>3. QED
    BY <2>1, <2>2
<1>8. QED
  <2>1. FreeRef(ref, head) = [q \in Pbufs |-> FreeRef(ref, head)[q]]
    BY <1>6
  <2>2. ASSUME NEW q \in Pbufs PROVE FreeRef(ref, head)[q] \in Nat
    <3>1. FreeRef(ref, head)[q] \in {0, 1}
      BY <1>7, Zenon
    <3>2. QED
      BY <3>1
  <2>3. QED
    BY <1>7, <2>1, <2>2 DEF t

(* _free() moves the cursor to the first byte of the next segment. *)
LEMMA FreeStep ==
  ASSUME IInv, head # <<>>, Free,
         UNCHANGED <<len, first, rcvd>>, pos' = pos + Available
  PROVE  /\ head' \in Seq(Pbufs) /\ offset' = 0 /\ ref' \in [Pbufs -> Nat]
         /\ pos' \in Nat /\ pos' <= rcvd
         /\ ChainOwned' /\ CursorOnStream' /\ Segments'
<1>0. TypeOK /\ ChainOwned /\ CursorOnStream /\ Segments
  BY DEF IInv
<1>1. /\ Len(head) \in Nat /\ Len(head) >= 1
      /\ \A i \in 1..Len(head) : head[i] \in Pbufs
      /\ offset \in Nat /\ pos \in Nat /\ rcvd \in Nat
      /\ len \in [Pbufs -> Nat] /\ first \in [Pbufs -> Nat]
  BY <1>0, SeqFacts DEF TypeOK
<1>2a. head' \in Seq(Pbufs)
  BY <1>0, TailFacts DEF TypeOK, Free
<1>2. /\ Len(head') = Len(head) - 1
      /\ \A i \in 1..Len(head') : head'[i] = head[i + 1]
      /\ head' # <<>> <=> Len(head) > 1
      /\ offset' = 0
  BY <1>0, TailFacts DEF TypeOK, Free
<1>3. /\ ref' \in [Pbufs -> Nat]
      /\ \A q \in Pbufs : ref'[q] = IF \E i \in 1..Len(head') : head'[i] = q
                                       THEN 1 ELSE 0
  BY <1>0, FreeRefResult DEF Free
<1>4. ChainOwned'
  <2>1. ASSUME NEW i \in 1..Len(head'), NEW j \in 1..Len(head'),
               head'[i] = head'[j]
        PROVE  i = j
    <3>1. i + 1 \in 1..Len(head) /\ j + 1 \in 1..Len(head)
      BY <1>1, <1>2
    <3>2. head[i + 1] = head[j + 1]
      BY <1>2, <2>1
    <3>3. i + 1 = j + 1
      BY <1>0, <3>1, <3>2 DEF ChainOwned
    <3>4. QED
      BY <1>1, <1>2, <3>3
  <2>2. QED
    BY <1>3, <2>1 DEF ChainOwned
<1>5. pos' = first[head[1]] + len[head[1]]
  BY <1>0, <1>1 DEF CursorOnStream, Available
<1>6. pos' \in Nat /\ pos' <= rcvd
  BY <1>0, <1>1, <1>5 DEF Segments
<1>7. CursorOnStream'
  <2>1. CASE Len(head) <= 1
    <3>1. head' = <<>> /\ ~ \E i : i \in 1..(Len(head') - 1)
      BY <1>1, <1>2, <2>1
    <3>2. head[1] = head[Len(head)]
      BY <1>1, <2>1
    <3>3. first[head[1]] + len[head[1]] = rcvd
      BY <1>0, <3>2 DEF CursorOnStream
    <3>4. QED
      BY <1>5, <3>1, <3>3 DEF CursorOnStream
  <2>2. CASE Len(head) > 1
    <3>1. /\ head' # <<>>
          /\ head'[1] = head[2]
          /\ head'[Len(head')] = head[Len(head)]
      BY <1>1, <1>2, <2>2
    <3>2. first[head[2]] = first[head[1]] + len[head[1]]
      BY <1>0, <1>1, <2>2 DEF CursorOnStream
    <3>3. first[head'[1]] + offset' = pos'
      BY <1>1, <1>2, <1>5, <2>2, <3>1, <3>2
    <3>4. first[head'[Len(head')]] + len[head'[Len(head')]] = rcvd
      BY <1>0, <3>1 DEF CursorOnStream
    <3>5. ASSUME NEW i \in 1..(Len(head') - 1)
          PROVE  first[head'[i + 1]] = first[head'[i]] + len[head'[i]]
      <4>1. /\ i \in 1..Len(head') /\ i + 1 \in 1..Len(head')
            /\ i + 1 \in 1..(Len(head) - 1)
        BY <1>1, <1>2
      <4>2. head'[i] = head[i + 1] /\ head'[i + 1] = head[(i + 1) + 1]
        BY <1>2, <4>1
      <4>3. QED
        BY <1>0, <4>1, <4>2 DEF CursorOnStream
    <3>6. QED
      BY <3>1, <3>3, <3>4, <3>5 DEF CursorOnStream
  <2>3. Len(head) <= 1 \/ Len(head) > 1
    BY <1>1
  <2>4. QED
    BY <2>1, <2>2, <2>3
<1>8. Segments'
  <2>1. ASSUME NEW i \in 1..Len(head')
        PROVE  len[head'[i]] > 0 /\ first[head'[i]] + len[head'[i]] <= rcvd
    <3>1. i + 1 \in 1..Len(head) /\ head'[i] = head[i + 1]
      BY <1>1, <1>2
    <3>2. QED
      BY <1>0, <3>1 DEF Segments
  <2>2. head' # <<>> => offset' < len[head'[1]]
    BY <1>1, <1>2, <2>1
  <2>3. QED
    BY <1>6, <2>1, <2>2 DEF Segments
<1>9. QED
  BY <1>2, <1>2a, <1>3, <1>4, <1>6, <1>7, <1>8

(* Reading inside a segment only moves the cursor. *)
LEMMA AdvanceStep ==
  ASSUME IInv, head # <<>>, NEW n \in Nat, n < Available,
         UNCHANGED <<head, ref, len, first, rcvd>>,
         offset' = offset + n, pos' = pos + n
  PROVE  /\ offset' \in Nat /\ pos' \in Nat /\ pos' <= rcvd
         /\ ChainOwned' /\ CursorOnStream' /\ Segments'
<1>0. TypeOK /\ ChainOwned /\ CursorOnStream /\ Segments
  BY DEF IInv
<1>1. /\ Len(head) \in Nat /\ Len(head) >= 1
      /\ head[1] \in Pbufs
      /\ offset \in Nat /\ pos \in Nat /\ rcvd \in Nat
      /\ len[head[1]] \in Nat /\ first[head[1]] \in Nat
  BY <1>0, SeqFacts DEF TypeOK
<1>2. /\ first[head[1]] + offset = pos
      /\ first[head[1]] + len[head[1]] <= rcvd
  BY <1>0, <1>1 DEF CursorOnStream, Segments
<1>3. /\ offset + n \in Nat /\ pos + n \in Nat /\ pos + n <= rcvd
      /\ offset + n < len[head[1]]
      /\ first[head[1]] + (offset + n) = pos + n
  <2> DEFINE l == len[head[1]]
             f == first[head[1]]
  <2>1. /\ l \in Nat /\ f \in Nat /\ offset \in Nat /\ pos \in Nat
        /\ rcvd \in Nat /\ f + offset = pos /\ f + l <= rcvd
        /\ n < l - offset
    BY <1>1, <1>2 DEF Available
  <2> HIDE DEF l, f
  <2>2. /\ offset + n \in Nat /\ pos + n \in Nat /\ pos + n <= rcvd
        /\ offset + n < l /\ f + (offset + n) = pos + n
    BY <2>1
  <2>3. QED
    BY <2>2 DEF l, f
<1>4. ChainOwned'
  BY <1>0 DEF ChainOwned
<1>5. CursorOnStream'
  <2>1. first'[head'[1]] + offset' = pos'
    BY <1>3
  <2>2. QED
    BY <1>0, <2>1 DEF CursorOnStream
<1>6. Segments'
  BY <1>0, <1>3 DEF Segments
<1>7. QED
  BY <1>3, <1>4, <1>5, <1>6

(* reset() releases the whole chain: every pbuf of it held one reference. *)
LEMMA DropStep ==
  ASSUME IInv, Drop, UNCHANGED <<len, first, rcvd>>
  PROVE  /\ head' \in Seq(Pbufs) /\ offset' \in Nat /\ ref' \in [Pbufs -> Nat]
         /\ pcb' \in {Pcb, Null} /\ pos' \in Nat /\ lost' \in Nat
         /\ \/ pos' = pos /\ lost' = lost
            \/ pos' = rcvd /\ lost' = lost + (rcvd - pos)
         /\ pos' <= rcvd
         /\ head' # <<>> => pcb' = pcb
         /\ ChainOwned' /\ CursorOnStream' /\ Segments'
<1>0. TypeOK /\ ChainOwned /\ CursorOnStream /\ Segments
  BY DEF IInv
<1>1. CASE head = <<>>
  <2>1. UNCHANGED <<head, offset, pcb, ref, pos, lost>>
    BY <1>1 DEF Drop
  <2>2. ChainOwned'
    BY <1>0, <2>1 DEF ChainOwned
  <2>3. CursorOnStream'
    BY <1>0, <2>1 DEF CursorOnStream
  <2>4. Segments'
    BY <1>0, <2>1 DEF Segments
  <2>5. QED
    BY <1>0, <2>1, <2>2, <2>3, <2>4 DEF TypeOK, Segments
<1>2. CASE head # <<>>
  <2>1. /\ head' = <<>> /\ offset' = 0 /\ pcb' = Null /\ pos' = rcvd
        /\ lost' = lost + (rcvd - pos) /\ ref' = PbufFree(ref, head)
    BY <1>2 DEF Drop
  <2>2. /\ head \in Seq(Pbufs) /\ DOMAIN head = 1..Len(head)
        /\ Len(head) \in Nat
        /\ \A i \in 1..Len(head) : head[i] \in Pbufs
        /\ ref \in [Pbufs -> Nat]
        /\ rcvd \in Nat /\ pos \in Nat /\ lost \in Nat /\ pos <= rcvd
    BY <1>0, SeqFacts DEF TypeOK, Segments
  <2>3. \A i \in 1..Len(head) : ref[head[i]] = 1
    BY <1>0, <2>2 DEF ChainOwned
  <2>4. \A i \in 1..Len(head) : \A j \in 1..(i - 1) : ref[head[j]] = 1
    BY <2>2, <2>3
  <2>5. ASSUME NEW q \in Pbufs PROVE ref'[q] = 0
    <3>1. ref'[q] = IF \E i \in 1..Len(head) : head[i] = q
                      THEN ref[q] - 1 ELSE ref[q]
      BY <2>1, <2>2, <2>4 DEF PbufFree
    <3>2. QED
      BY <1>0, <3>1 DEF ChainOwned
  <2>6. ref' \in [Pbufs -> Nat]
    <3>1. ref' = [q \in Pbufs |-> ref'[q]]
      BY <2>1 DEF PbufFree
    <3>2. QED
      BY <2>5, <3>1
  <2>7. head' \in Seq(Pbufs) /\ ~ \E i : i \in 1..Len(head')
    BY <2>1, EmptySeq
  <2>8. ChainOwned'
    BY <2>5, <2>7 DEF ChainOwned
  <2>9. CursorOnStream'
    <3>1. ~ \E i : i \in 1..(Len(head') - 1)
      BY <2>1
    <3>2. QED
      BY <2>1, <3>1 DEF CursorOnStream
  <2>10. Segments'
    BY <2>1, <2>2, <2>7 DEF Segments
  <2>11. QED
    BY <2>1, <2>2, <2>6, <2>7, <2>8, <2>9, <2>10
<1>3. QED
  BY <1>1, <1>2

(* A chain that lwIP delivers. *)
LEMMA ChainFacts ==
  ASSUME NEW p \in Chains
  PROVE  p \in Seq(Pbufs) /\ Len(p) >= 1
<1>1. PICK n \in 1..MaxChain : p \in [1..n -> Pbufs]
  BY DEF Chains
<1>2. n \in Nat /\ n >= 1
  BY ConstantsAssumption
<1>3. p \in Seq(Pbufs) /\ Len(p) = n
  BY <1>1, <1>2, IsASeq
<1>4. QED
  BY <1>2, <1>3

(* The callback's error path frees what it was given and nothing else. *)
LEMMA ErrorPathRefs ==
  ASSUME TypeOK, NEW p \in Seq(Pbufs), Unused(p)
  PROVE  PbufFree(PbufAlloc(ref, p), p) = ref
<1> DEFINE r == PbufAlloc(ref, p)
<1>1. /\ DOMAIN p = 1..Len(p) /\ Len(p) \in Nat
      /\ \A i \in 1..Len(p) : p[i] \in Pbufs
      /\ ref \in [Pbufs -> Nat]
  BY SeqFacts DEF TypeOK
<1>2. \A q \in Pbufs : r[q] = IF \E i \in DOMAIN p : p[i] = q THEN 1 ELSE ref[q]
  BY DEF PbufAlloc
<1> HIDE DEF r
<1>3. ASSUME NEW i \in DOMAIN p, NEW j \in 1..(i - 1)
      PROVE  r[p[j]] = 1
  <2>1. j \in 1..Len(p)
    BY <1>1
  <2>2. j \in DOMAIN p /\ p[j] \in Pbufs
    BY <1>1, <2>1
  <2>3. QED
    BY <1>2, <2>2
<1>4. ASSUME NEW q \in Pbufs
      PROVE  (IF \E i \in DOMAIN p : p[i] = q /\ \A j \in 1..(i - 1) : r[p[j]] = 1
                THEN r[q] - 1 ELSE r[q]) = ref[q]
  <2>1. CASE \E i \in DOMAIN p : p[i] = q
    <3>1. r[q] = 1 /\ ref[q] = 0
      BY <1>2, <2>1 DEF Unused
    <3>2. QED
      BY <1>3, <2>1, <3>1
  <2>2. CASE ~ \E i \in DOMAIN p : p[i] = q
    BY <1>2, <2>2
  <2>3. QED
    BY <2>1, <2>2
<1>5. PbufFree(r, p) = [q \in Pbufs |-> ref[q]]
  BY <1>4 DEF PbufFree
<1>6. QED
  BY <1>1, <1>5 DEF r

(* A delivery extends the chain at its end with the bytes that follow. *)
LEMMA DeliverStep ==
  ASSUME IInv, NEW p \in Chains, Unused(p), NEW cut \in Cuts(p),
         ReceiveData(p, cut)
  PROVE  /\ head' \in Seq(Pbufs) /\ head' # <<>> /\ offset' \in Nat
         /\ ref' \in [Pbufs -> Nat] /\ len' \in [Pbufs -> Nat]
         /\ first' \in [Pbufs -> Nat]
         /\ rcvd' \in Nat /\ rcvd <= rcvd' /\ rcvd' <= rcvd + rcv_wnd
         /\ ChainOwned' /\ CursorOnStream' /\ Segments'
<1> DEFINE n == Len(head)
           k == Len(p)
           m == Len(head')
<1>0. TypeOK /\ ChainOwned /\ CursorOnStream /\ Segments
  BY DEF IInv
<1>1. /\ head \in Seq(Pbufs) /\ p \in Seq(Pbufs)
      /\ n \in Nat /\ k \in Nat /\ k >= 1 /\ DOMAIN p = 1..k
      /\ \A i \in 1..n : head[i] \in Pbufs
      /\ \A j \in 1..k : p[j] \in Pbufs
      /\ head = <<>> <=> n < 1
  BY <1>0, ChainFacts, SeqFacts DEF TypeOK
<1>2. /\ head' \in Seq(Pbufs)
      /\ m = n + k
      /\ \A i \in 1..n : head'[i] = head[i]
      /\ \A j \in 1..k : head'[n + j] = p[j]
      /\ offset' = IF n < 1 THEN 0 ELSE offset
  <2>1. CASE head # <<>>
    <3>1. head' = head \o p /\ offset' = offset /\ ~(n < 1)
      BY <1>1, <2>1 DEF ReceiveData, TakeChain
    <3>2. /\ head \o p \in Seq(Pbufs)
          /\ Len(head \o p) = n + k
          /\ \A i \in 1..(n + k) :
               (head \o p)[i] = IF i <= n THEN head[i] ELSE p[i - n]
      BY <1>1, ConcatProperties
    <3> HIDE DEF n, k
    <3>3. \A i \in 1..n : (head \o p)[i] = head[i]
      BY <1>1, <3>2
    <3>4. ASSUME NEW j \in 1..k PROVE (head \o p)[n + j] = p[j]
      <4>1. n + j \in 1..(n + k) /\ ~(n + j <= n) /\ (n + j) - n = j
        BY <1>1
      <4>2. QED
        BY <3>2, <4>1
    <3>5. QED
      BY <3>1, <3>2, <3>3, <3>4
  <2>2. CASE head = <<>>
    <3>1. head' = p /\ offset' = 0 /\ n < 1
      BY <1>1, <2>2 DEF ReceiveData, TakeChain
    <3> HIDE DEF n, k
    <3>2. n = 0
      BY <1>1, <3>1
    <3>3. \A j \in 1..k : n + j = j
      BY <1>1, <3>2
    <3>4. Len(head') = n + k
      BY <1>1, <3>1, <3>2 DEF k
    <3>5. \A i \in 1..n : head'[i] = head[i]
      BY <3>2
    <3>6. QED
      BY <1>1, <3>1, <3>3, <3>4, <3>5
  <2>3. QED
    BY <2>1, <2>2
<1>3. /\ rcvd \in Nat /\ rcv_wnd \in Nat
      /\ cut \in [1..(k + 1) -> rcvd..(rcvd + rcv_wnd)]
      /\ cut[1] = rcvd
      /\ \A i, j \in 1..(k + 1) : i < j => cut[i] < cut[j]
      /\ rcvd' = cut[k + 1]
  BY <1>0 DEF Cuts, TypeOK, ReceiveData
<1>4. /\ ref \in [Pbufs -> Nat] /\ len \in [Pbufs -> Nat]
      /\ first \in [Pbufs -> Nat] /\ offset \in Nat /\ pos \in Nat
  BY <1>0 DEF TypeOK
<1>5. \A j \in 1..k : Index(p, p[j]) = j
  BY <1>1 DEF Index, Unused
<1>6. ref' = [q \in Pbufs |-> IF \E j \in 1..k : p[j] = q THEN 1 ELSE ref[q]]
  BY <1>1 DEF ReceiveData, PbufAlloc
<1>7. /\ len' = [q \in Pbufs |-> IF \E j \in 1..k : p[j] = q
                 THEN cut[Index(p, q) + 1] - cut[Index(p, q)] ELSE len[q]]
      /\ first' = [q \in Pbufs |-> IF \E j \in 1..k : p[j] = q
                 THEN cut[Index(p, q)] ELSE first[q]]
  BY <1>1 DEF ReceiveData
<1>8. \A j \in 1..k : ref[p[j]] = 0
  BY <1>1 DEF Unused
<1>9. \A i \in 1..n : ref[head[i]] = 1
  BY <1>0, <1>1 DEF ChainOwned
<1>10. \A i \in 1..n : ~ \E j \in 1..k : p[j] = head[i]
  BY <1>8, <1>9
<1>11. /\ \A i, j \in 1..n : head[i] = head[j] => i = j
       /\ \A i, j \in 1..k : p[i] = p[j] => i = j
       /\ \A q \in Pbufs : ref[q] = IF \E i \in 1..n : head[i] = q THEN 1 ELSE 0
  BY <1>0, <1>1 DEF ChainOwned, Unused
<1>12. /\ n < 1 => pos = rcvd
       /\ n >= 1 => /\ first[head[1]] + offset = pos
                    /\ first[head[n]] + len[head[n]] = rcvd
                    /\ offset < len[head[1]]
       /\ \A i \in 1..(n - 1) : first[head[i + 1]] = first[head[i]] + len[head[i]]
       /\ \A i \in 1..n : len[head[i]] > 0 /\ first[head[i]] + len[head[i]] <= rcvd
       /\ pos <= rcvd
  BY <1>0, <1>1 DEF CursorOnStream, Segments
<1>13. pos' = pos
  BY DEF ReceiveData, histVars
<1>14. head' # <<>>
  BY <1>1, <1>2, SeqFacts
<1>15. head' \in Seq(Pbufs)
  BY <1>2
<1> HIDE DEF n, k, m
<1>16. \A j \in 1..k : /\ cut[j] \in Nat /\ cut[j + 1] \in Nat
                       /\ cut[j] < cut[j + 1] /\ cut[j + 1] <= rcvd'
                       /\ rcvd <= cut[j]
  <2>1. ASSUME NEW j \in 1..k
        PROVE  /\ cut[j] \in Nat /\ cut[j + 1] \in Nat
               /\ cut[j] < cut[j + 1] /\ cut[j + 1] <= rcvd'
               /\ rcvd <= cut[j]
    <3>1. /\ j \in 1..(k + 1) /\ j + 1 \in 1..(k + 1) /\ k + 1 \in 1..(k + 1)
          /\ j < j + 1 /\ (j + 1 = k + 1 \/ j + 1 < k + 1)
      BY <1>1
    <3>2. cut[j] < cut[j + 1]
      BY <1>3, <3>1
    <3>3. /\ cut[j] \in rcvd..(rcvd + rcv_wnd)
          /\ cut[j + 1] \in rcvd..(rcvd + rcv_wnd)
      BY <1>3, <3>1
    <3>4. j + 1 < k + 1 => cut[j + 1] < cut[k + 1]
      BY <1>3, <3>1
    <3>5. QED
      BY <1>3, <3>1, <3>2, <3>3, <3>4
  <2>2. QED
    BY <2>1
<1>17. rcvd' \in Nat /\ rcvd <= rcvd' /\ rcvd' <= rcvd + rcv_wnd
  <2>1. k + 1 \in 1..(k + 1)
    BY <1>1
  <2>2. QED
    BY <1>3, <2>1
<1>18. \A j \in 1..k : first'[p[j]] = cut[j] /\ len'[p[j]] = cut[j + 1] - cut[j]
  BY <1>1, <1>5, <1>7
<1>19. \A i \in 1..n : first'[head[i]] = first[head[i]] /\ len'[head[i]] = len[head[i]]
  BY <1>1, <1>7, <1>10
<1>20. ref' \in [Pbufs -> Nat] /\ len' \in [Pbufs -> Nat] /\ first' \in [Pbufs -> Nat]
  <2>1. ASSUME NEW q \in Pbufs
        PROVE  ref'[q] \in Nat /\ len'[q] \in Nat /\ first'[q] \in Nat
    <3>1. CASE \E j \in 1..k : p[j] = q
      <4>1. PICK j \in 1..k : p[j] = q
        BY <3>1
      <4>2. ref'[q] = 1 /\ first'[q] = cut[j] /\ len'[q] = cut[j + 1] - cut[j]
        BY <1>6, <1>18, <4>1
      <4>3. QED
        BY <1>16, <4>2
    <3>2. CASE ~ \E j \in 1..k : p[j] = q
      BY <1>4, <1>6, <1>7, <3>2
    <3>3. QED
      BY <3>1, <3>2
  <2>2. /\ ref' = [q \in Pbufs |-> ref'[q]] /\ len' = [q \in Pbufs |-> len'[q]]
        /\ first' = [q \in Pbufs |-> first'[q]]
    BY <1>6, <1>7
  <2>3. QED
    BY <2>1, <2>2
<1>21. ASSUME NEW i \in 1..m
       PROVE  \/ i \in 1..n /\ head'[i] = head[i]
              \/ i - n \in 1..k /\ head'[i] = p[i - n]
  <2>1. i \in 1..n \/ (i - n \in 1..k /\ n + (i - n) = i)
    BY <1>1, <1>2
  <2>2. QED
    BY <1>2, <2>1
<1>22. ChainOwned'
  <2>1. ASSUME NEW i \in 1..m, NEW j \in 1..m, head'[i] = head'[j]
        PROVE  i = j
    <3>1. \/ i \in 1..n /\ j \in 1..n /\ head[i] = head[j]
          \/ i - n \in 1..k /\ j - n \in 1..k /\ p[i - n] = p[j - n]
      BY <1>10, <1>21, <2>1
    <3>2. i = j \/ i - n = j - n
      BY <1>11, <3>1
    <3>3. QED
      BY <1>1, <1>2, <3>2
  <2>2. ASSUME NEW q \in Pbufs
        PROVE  ref'[q] = IF \E i \in 1..m : head'[i] = q THEN 1 ELSE 0
    <3>1. CASE \E j \in 1..k : p[j] = q
      <4>1. PICK j \in 1..k : p[j] = q
        BY <3>1
      <4>2. n + j \in 1..m
        BY <1>1, <1>2
      <4>3. head'[n + j] = q /\ ref'[q] = 1
        BY <1>2, <1>6, <4>1
      <4>4. QED
        BY <4>2, <4>3
    <3>2. CASE (~ \E j \in 1..k : p[j] = q) /\ \E i \in 1..n : head[i] = q
      <4>1. PICK i \in 1..n : head[i] = q
        BY <3>2
      <4>2. i \in 1..m
        BY <1>1, <1>2
      <4>3. head'[i] = q /\ ref'[q] = 1
        BY <1>2, <1>6, <1>11, <3>2, <4>1
      <4>4. QED
        BY <4>2, <4>3
    <3>3. CASE (~ \E j \in 1..k : p[j] = q) /\ ~ \E i \in 1..n : head[i] = q
      <4>1. ~ \E i \in 1..m : head'[i] = q
        BY <1>21, <3>3
      <4>2. ref'[q] = 0
        BY <1>6, <1>11, <3>3
      <4>3. QED
        BY <4>1, <4>2
    <3>4. QED
      BY <3>1, <3>2, <3>3
  <2>3. QED
    BY <2>1, <2>2 DEF ChainOwned, m
<1>23. CursorOnStream'
  <2>1. first'[head'[1]] + offset' = pos'
    <3>1. CASE n < 1
      <4>1. n + 1 = 1 /\ 1 \in 1..k
        BY <1>1, <3>1
      <4>2. head'[1] = p[1]
        BY <1>2, <4>1
      <4>3. first'[head'[1]] = rcvd
        BY <1>3, <1>18, <4>1, <4>2
      <4>4. QED
        BY <1>2, <1>3, <1>12, <1>13, <3>1, <4>3
    <3>2. CASE n >= 1
      <4>1. 1 \in 1..n /\ ~(n < 1)
        BY <1>1, <3>2
      <4>2. QED
        BY <1>2, <1>12, <1>13, <1>19, <3>2, <4>1
    <3>3. QED
      BY <1>1, <3>1, <3>2
  <2>2. first'[head'[m]] + len'[head'[m]] = rcvd'
    <3>1. k \in 1..k
      BY <1>1
    <3>2. head'[m] = p[k]
      BY <1>2, <3>1
    <3>3. first'[p[k]] = cut[k] /\ len'[p[k]] = cut[k + 1] - cut[k]
      BY <1>18, <3>1
    <3>4. cut[k] \in Nat /\ cut[k + 1] \in Nat
      BY <1>16, <3>1
    <3>5. cut[k] + (cut[k + 1] - cut[k]) = rcvd'
      BY <1>3, <3>4
    <3>6. QED
      BY <3>2, <3>3, <3>5
  <2>3. ASSUME NEW i \in 1..(m - 1)
        PROVE  first'[head'[i + 1]] = first'[head'[i]] + len'[head'[i]]
    <3>1. CASE i < n
      <4>1. i \in 1..(n - 1) /\ i \in 1..n /\ i + 1 \in 1..n
        BY <1>1, <1>2, <3>1
      <4>2. QED
        BY <1>2, <1>12, <1>19, <4>1
    <3>2. CASE i = n
      <4>1. n \in 1..n /\ 1 \in 1..k /\ n >= 1
        BY <1>1, <1>2, <3>2
      <4>2. head'[i] = head[n] /\ head'[i + 1] = p[1]
        BY <1>2, <3>2, <4>1
      <4>3. first'[p[1]] = rcvd
        BY <1>3, <1>18, <4>1
      <4>4. QED
        BY <1>12, <1>19, <4>1, <4>2, <4>3
    <3>3. CASE i > n
      <4> DEFINE j == i - n
      <4>1. j \in 1..k /\ j + 1 \in 1..k /\ n + j = i /\ n + (j + 1) = i + 1
        BY <1>1, <1>2, <3>3
      <4> HIDE DEF j
      <4>2. head'[i] = p[j] /\ head'[i + 1] = p[j + 1]
        BY <1>2, <4>1
      <4>3. first'[p[j]] = cut[j] /\ len'[p[j]] = cut[j + 1] - cut[j]
        BY <1>18, <4>1
      <4>4. first'[p[j + 1]] = cut[j + 1]
        BY <1>18, <4>1
      <4>5. cut[j + 1] = cut[j] + (cut[j + 1] - cut[j])
        BY <1>16, <4>1
      <4>6. QED
        BY <4>2, <4>3, <4>4, <4>5
    <3>4. QED
      BY <1>1, <1>2, <3>1, <3>2, <3>3
  <2>4. QED
    BY <1>14, <2>1, <2>2, <2>3 DEF CursorOnStream, m
<1>24. Segments'
  <2>1. ASSUME NEW i \in 1..m
        PROVE  len'[head'[i]] > 0 /\ first'[head'[i]] + len'[head'[i]] <= rcvd'
    <3>1. CASE i \in 1..n /\ head'[i] = head[i]
      <4>1. /\ len[head[i]] \in Nat /\ first[head[i]] \in Nat
            /\ len[head[i]] > 0 /\ first[head[i]] + len[head[i]] <= rcvd
        BY <1>1, <1>4, <1>12, <3>1
      <4>2. first[head[i]] + len[head[i]] <= rcvd'
        BY <1>3, <1>17, <4>1
      <4>3. QED
        BY <1>19, <3>1, <4>1, <4>2
    <3>2. CASE i - n \in 1..k /\ head'[i] = p[i - n]
      <4> DEFINE j == i - n
      <4>1. j \in 1..k /\ head'[i] = p[j]
        BY <3>2
      <4> HIDE DEF j
      <4>2. first'[p[j]] = cut[j] /\ len'[p[j]] = cut[j + 1] - cut[j]
        BY <1>18, <4>1
      <4>3. cut[j + 1] - cut[j] > 0 /\ cut[j] + (cut[j + 1] - cut[j]) <= rcvd'
        BY <1>16, <1>17, <4>1
      <4>4. QED
        BY <4>1, <4>2, <4>3
    <3>3. QED
      BY <1>21, <3>1, <3>2
  <2>2. offset' < len'[head'[1]]
    <3>1. CASE n < 1
      <4>1. 1 \in 1..m
        BY <1>1, <1>2
      <4>2. QED
        BY <1>2, <2>1, <3>1, <4>1
    <3>2. CASE n >= 1
      <4>1. 1 \in 1..n /\ ~(n < 1)
        BY <1>1, <3>2
      <4>2. QED
        BY <1>2, <1>12, <1>19, <3>2, <4>1
    <3>3. QED
      BY <1>1, <3>1, <3>2
  <2>3. pos' <= rcvd'
    BY <1>3, <1>4, <1>12, <1>13, <1>17
  <2>4. QED
    BY <2>1, <2>2, <2>3 DEF Segments, m
<1>25. offset' \in Nat
  BY <1>2, <1>4
<1>26. QED
  BY <1>14, <1>15, <1>17, <1>20, <1>22, <1>23, <1>24, <1>25

(* A delivery is never empty. *)
LEMMA DeliverGrows ==
  ASSUME IInv, NEW p \in Chains, NEW cut \in Cuts(p), ReceiveData(p, cut)
  PROVE  rcvd' # rcvd
<1>1. Len(p) \in Nat /\ Len(p) >= 1
  BY ChainFacts, SeqFacts
<1>2. 1 \in 1..(Len(p) + 1) /\ Len(p) + 1 \in 1..(Len(p) + 1) /\ 1 < Len(p) + 1
  BY <1>1
<1>3. cut[1] = rcvd /\ cut[1] < cut[Len(p) + 1] /\ rcvd' = cut[Len(p) + 1]
  BY <1>2 DEF Cuts, ReceiveData
<1>4. rcvd \in Nat
  BY DEF IInv, TypeOK
<1>5. QED
  BY <1>3, <1>4

(* Steps that leave chain, cursor and stream alone keep what is said of them. *)
LEMMA ChainKept ==
  ASSUME IInv, UNCHANGED <<head, offset, ref, len, first, rcvd, pos>>
  PROVE  ChainOwned' /\ CursorOnStream' /\ Segments'
<1>0. ChainOwned /\ CursorOnStream /\ Segments
  BY DEF IInv
<1>1. ChainOwned'
  BY <1>0 DEF ChainOwned
<1>2. CursorOnStream'
  BY <1>0 DEF CursorOnStream
<1>3. Segments'
  BY <1>0 DEF Segments
<1>4. QED
  BY <1>1, <1>2, <1>3

(* There is a byte under the cursor, and it is one of the unread ones. *)
LEMMA AvailableFacts ==
  ASSUME IInv, head # <<>>
  PROVE  /\ Available \in Nat /\ Available >= 1 /\ Available <= rcvd - pos
         /\ \A n \in Nat : ExactFit(n) <=> n = Available
<1> DEFINE l == len[head[1]]
           f == first[head[1]]
<1>1. /\ l \in Nat /\ f \in Nat /\ offset \in Nat /\ pos \in Nat /\ rcvd \in Nat
      /\ f + offset = pos /\ f + l <= rcvd /\ offset < l
  <2>1. head[1] \in Pbufs /\ 1 \in 1..Len(head)
    BY SeqFacts DEF IInv, TypeOK
  <2>2. QED
    BY <2>1 DEF IInv, TypeOK, CursorOnStream, Segments
<1>2. Available = l - offset /\ \A n : ExactFit(n) <=> offset + n = l
  BY DEF Available, ExactFit
<1> HIDE DEF l, f
<1>3. l - offset \in Nat /\ l - offset >= 1 /\ l - offset <= rcvd - pos
  BY <1>1
<1>4. \A n \in Nat : offset + n = l <=> n = l - offset
  BY <1>1
<1>5. QED
  BY <1>2, <1>3, <1>4

(* A new buffer, IoRxBuffer(nullptr), satisfies the invariant. *)
LEMMA InitInv == Init => IInv
<1> SUFFICES ASSUME Init PROVE IInv
  OBVIOUS
<1>1. /\ head \in Seq(Pbufs) /\ ~(\E i : i \in 1..Len(head))
      /\ ~(\E i : i \in 1..(Len(head) - 1))
  BY EmptySeq DEF Init
<1>2. TypeOK
  BY <1>1, ConstantsAssumption DEF Init, TypeOK
<1>3. ChainOwned
  BY <1>1 DEF Init, ChainOwned
<1>4. CursorOnStream /\ Segments /\ PcbKnown /\ CallInv
  BY <1>1 DEF Init, CursorOnStream, Segments, PcbKnown, CallInv
<1>5. WindowConserved
  BY ConstantsAssumption DEF Init, WindowConserved, Owed
<1>6. QED
  BY <1>2, <1>3, <1>4, <1>5 DEF IInv

(* peekConsume(n) up to its loop, or to the acknowledgement on the fast    *)
(* path.                                                                   *)
LEMMA PeekConsumeInv ==
  ASSUME IInv, NEW n \in 1..MaxRequest, PeekConsume(n)
  PROVE  IInv'
<1>1. /\ TypeOK /\ PcbKnown /\ WindowConserved
      /\ n \in Nat /\ n >= 1 /\ head # <<>> /\ pc = "idle"
      /\ UNCHANGED <<pcb, len, first, rcvd, rcv_wnd, conn, notified, app, lost, stale>>
      /\ goal' = Smaller(n, rcvd - pos)
      /\ pos \in Nat /\ rcvd \in Nat /\ pos <= rcvd
  BY ConstantsAssumption
     DEF IInv, TypeOK, Segments, PeekConsume, lwipVars, appVars
<1>2. /\ Available \in Nat /\ Available >= 1 /\ Available <= rcvd - pos
      /\ ExactFit(n) <=> n = Available
  BY <1>1, AvailableFacts
<1>3. pcb = Pcb /\ pcb # Null
  BY <1>1, ConstantsAssumption DEF PcbKnown
<1>4. CASE n <= Available
  <2>1. /\ FastPath(n) /\ to_ack' = n /\ pc' = "ack" /\ remaining' = remaining
        /\ consumed' = n /\ pos' = pos + n
    BY <1>1, <1>3, <1>4 DEF PeekConsume, FastPath, ToAck
  <2>2. goal' = n
    BY <1>1, <1>2, <1>4 DEF Smaller
  <2>3. /\ head' \in Seq(Pbufs) /\ offset' \in Nat /\ ref' \in [Pbufs -> Nat]
        /\ pos' \in Nat /\ pos' <= rcvd
        /\ ChainOwned' /\ CursorOnStream' /\ Segments'
    <3>1. CASE n = Available
      <4>1. Free
        BY <1>2, <2>1, <3>1 DEF FastPath
      <4>2. QED
        BY <1>1, <2>1, <3>1, <4>1, FreeStep
    <3>2. CASE n # Available
      <4>1. offset' = offset + n /\ UNCHANGED <<head, ref>>
        BY <1>2, <2>1, <3>2 DEF FastPath
      <4>2. n < Available
        BY <1>1, <1>2, <1>4, <3>2
      <4>3. QED
        BY <1>1, <2>1, <4>1, <4>2, AdvanceStep DEF TypeOK
    <3>3. QED
      BY <3>1, <3>2
  <2>4. TypeOK'
    BY <1>1, <2>1, <2>2, <2>3 DEF TypeOK
  <2>5. PcbKnown' /\ CallInv'
    BY <1>1, <1>3, <2>1, <2>2 DEF PcbKnown, CallInv
  <2>6. WindowConserved'
    BY <1>1, <2>1 DEF WindowConserved, Owed, TypeOK
  <2>7. QED
    BY <2>3, <2>4, <2>5, <2>6 DEF IInv
<1>5. CASE ~(n <= Available)
  <2>1. /\ pc' = "slow" /\ remaining' = n /\ consumed' = 0
        /\ UNCHANGED <<head, offset, ref, pos, to_ack>>
    BY <1>1, <1>5 DEF PeekConsume
  <2>2. goal' \in Nat /\ 0 + Smaller(n, rcvd - pos) = goal'
    BY <1>1 DEF Smaller
  <2>3. ChainOwned' /\ CursorOnStream' /\ Segments'
    BY <1>1, <2>1, ChainKept
  <2>4. TypeOK'
    BY <1>1, <2>1, <2>2 DEF TypeOK
  <2>5. PcbKnown'
    BY <1>1, <1>3 DEF PcbKnown
  <2>6. CallInv'
    BY <1>1, <2>1, <2>2 DEF CallInv
  <2>7. WindowConserved'
    BY <1>1, <2>1 DEF WindowConserved, Owed, TypeOK
  <2>8. QED
    BY <2>3, <2>4, <2>5, <2>6, <2>7 DEF IInv
<1>6. QED
  BY <1>4, <1>5

(* One iteration of _slowPath(). *)
LEMMA SlowPathInv ==
  ASSUME IInv, SlowPath
  PROVE  IInv'
<1>1. /\ TypeOK /\ PcbKnown /\ WindowConserved
      /\ head # <<>> /\ pc = "slow" /\ remaining # 0
      /\ UNCHANGED <<pcb, len, first, rcvd, rcv_wnd, conn, notified, app, lost, goal, stale>>
      /\ pos \in Nat /\ rcvd \in Nat /\ pos <= rcvd
      /\ remaining \in Nat /\ consumed \in Nat /\ goal \in Nat
      /\ consumed + Smaller(remaining, rcvd - pos) = goal
  BY DEF IInv, TypeOK, Segments, SlowPath, LoopDone, CallInv, lwipVars, appVars
<1>2. Available \in Nat /\ Available >= 1 /\ Available <= rcvd - pos
  BY <1>1, AvailableFacts
<1>3. pcb = Pcb /\ pcb # Null
  BY <1>1, ConstantsAssumption DEF PcbKnown
<1>4. CASE PartialSegment
  <2>1. /\ offset' = offset + remaining /\ consumed' = consumed + remaining
        /\ pos' = pos + remaining /\ to_ack' = consumed + remaining
        /\ pc' = "ack" /\ UNCHANGED <<head, ref, remaining>>
        /\ remaining < Available
    BY <1>1, <1>3, <1>4 DEF SlowPath, ToAck, PartialSegment
  <2>2. consumed + remaining = goal
    BY <1>1, <1>2, <2>1 DEF Smaller
  <2>3. /\ offset' \in Nat /\ pos' \in Nat /\ pos' <= rcvd
        /\ ChainOwned' /\ CursorOnStream' /\ Segments'
    BY <1>1, <2>1, AdvanceStep
  <2>4. TypeOK'
    BY <1>1, <2>1, <2>3 DEF TypeOK
  <2>5. PcbKnown' /\ CallInv'
    BY <1>1, <1>3, <2>1, <2>2 DEF PcbKnown, CallInv
  <2>6. WindowConserved'
    BY <1>1, <2>1 DEF WindowConserved, Owed, TypeOK
  <2>7. QED
    BY <2>3, <2>4, <2>5, <2>6 DEF IInv
<1>5. CASE ~PartialSegment
  <2>1. /\ consumed' = consumed + Available /\ remaining' = remaining - Available
        /\ pos' = pos + Available /\ Free /\ UNCHANGED <<pc, to_ack>>
        /\ ~(remaining < Available)
    BY <1>1, <1>5 DEF SlowPath, PartialSegment
  <2>2. /\ head' \in Seq(Pbufs) /\ offset' = 0 /\ ref' \in [Pbufs -> Nat]
        /\ pos' \in Nat /\ pos' <= rcvd
        /\ ChainOwned' /\ CursorOnStream' /\ Segments'
    BY <1>1, <2>1, FreeStep
  <2>3. consumed' + Smaller(remaining', rcvd - pos') = goal
    BY <1>1, <1>2, <2>1 DEF Smaller
  <2>4. consumed' \in Nat /\ remaining' \in Nat
    BY <1>1, <1>2, <2>1
  <2>5. TypeOK'
    BY <1>1, <2>1, <2>2, <2>4 DEF TypeOK
  <2>6. PcbKnown' /\ CallInv'
    BY <1>1, <1>3, <2>1, <2>3 DEF PcbKnown, CallInv
  <2>7. WindowConserved'
    BY <1>1, <1>2, <2>1 DEF WindowConserved, Owed, TypeOK
  <2>8. QED
    BY <2>2, <2>5, <2>6, <2>7 DEF IInv
<1>6. QED
  BY <1>4, <1>5

(* The steps of _toAck() and the return of peekConsume(). *)
LEMMA AckInv ==
  ASSUME IInv, SlowPathEnd \/ AckStep \/ AckEnd
  PROVE  IInv'
<1>0. TypeOK /\ CursorOnStream /\ Segments /\ PcbKnown /\ CallInv /\ WindowConserved
  BY DEF IInv
<1>1. CASE SlowPathEnd
  <2>1. /\ pc = "slow" /\ (remaining = 0 \/ head = <<>>) /\ pc' = "ack"
        /\ to_ack' = ToAck(consumed)
        /\ UNCHANGED <<rxVars, heapVars, lwipVars, appVars, remaining, consumed, histVars>>
    BY <1>1 DEF SlowPathEnd, LoopDone
  <2>2. to_ack' = consumed
    BY <1>0, <2>1, ConstantsAssumption DEF PcbKnown, ToAck
  <2>3. consumed = goal
    <3>1. /\ consumed \in Nat /\ remaining \in Nat /\ pos \in Nat /\ rcvd \in Nat
          /\ pos <= rcvd /\ (remaining = 0 \/ pos = rcvd)
          /\ consumed + Smaller(remaining, rcvd - pos) = goal
      BY <1>0, <2>1 DEF TypeOK, Segments, CursorOnStream, CallInv
    <3>2. QED
      BY <3>1 DEF Smaller
  <2>4. ChainOwned' /\ CursorOnStream' /\ Segments'
    BY <2>1, ChainKept DEF rxVars, heapVars, lwipVars, histVars
  <2>5. TypeOK'
    BY <1>0, <2>1, <2>2 DEF TypeOK, rxVars, heapVars, lwipVars, appVars, histVars
  <2>6. PcbKnown' /\ CallInv'
    BY <1>0, <2>1, <2>3 DEF PcbKnown, CallInv, rxVars, histVars
  <2>7. WindowConserved'
    BY <1>0, <2>1, <2>2 DEF WindowConserved, Owed, lwipVars, histVars
  <2>8. QED
    BY <2>4, <2>5, <2>6, <2>7 DEF IInv
<1>2. CASE AckStep
  <2> DEFINE c == AckChunk(to_ack)
  <2>1. /\ pc = "ack" /\ to_ack \in Nat /\ to_ack' = to_ack - c
        /\ rcv_wnd' = IF conn \in {"open", "fin"} THEN rcv_wnd + c ELSE rcv_wnd
        /\ stale' \in BOOLEAN
        /\ UNCHANGED <<rxVars, heapVars, rcvd, conn, appVars, pc, remaining,
                       consumed, pos, lost, goal>>
    BY <1>0, <1>2 DEF AckStep, TypeOK
  <2>2. c \in Nat /\ c <= to_ack
    BY <2>1, ConstantsAssumption DEF AckChunk, Smaller
  <2> HIDE DEF c
  <2>3. to_ack' \in Nat /\ rcv_wnd' \in Nat
    BY <1>0, <2>1, <2>2 DEF TypeOK
  <2>4. ChainOwned' /\ CursorOnStream' /\ Segments'
    BY <2>1, ChainKept DEF rxVars, heapVars
  <2>5. TypeOK'
    BY <1>0, <2>1, <2>3 DEF TypeOK, rxVars, heapVars, appVars
  <2>6. PcbKnown' /\ CallInv'
    BY <1>0, <2>1 DEF PcbKnown, CallInv, rxVars
  <2>7. WindowConserved'
    BY <1>0, <2>1, <2>2 DEF WindowConserved, Owed, TypeOK
  <2>8. QED
    BY <2>4, <2>5, <2>6, <2>7 DEF IInv
<1>3. CASE AckEnd
  <2>1. /\ pc = "ack" /\ to_ack = 0 /\ pc' = "idle" /\ remaining' = 0
        /\ consumed' = 0 /\ goal' = 0
        /\ UNCHANGED <<rxVars, heapVars, lwipVars, appVars, to_ack, pos, lost, stale>>
    BY <1>3 DEF AckEnd
  <2>2. ChainOwned' /\ CursorOnStream' /\ Segments'
    BY <2>1, ChainKept DEF rxVars, heapVars, lwipVars
  <2>3. TypeOK'
    BY <1>0, <2>1 DEF TypeOK, rxVars, heapVars, lwipVars, appVars
  <2>4. PcbKnown' /\ CallInv'
    BY <1>0, <2>1 DEF PcbKnown, CallInv, rxVars
  <2>5. WindowConserved'
    BY <1>0, <2>1 DEF WindowConserved, Owed, lwipVars
  <2>6. QED
    BY <2>2, <2>3, <2>4, <2>5 DEF IInv
<1>4. QED
  BY <1>1, <1>2, <1>3

(* lwip_receive_callback(), on each of its three paths. *)
LEMMA ReceiveInv ==
  ASSUME IInv, Receive
  PROVE  IInv'
<1>0. TypeOK /\ Segments /\ PcbKnown /\ CallInv /\ WindowConserved
  BY DEF IInv
<1>1. ASSUME NEW p \in Chains, Unused(p), NEW cut \in Cuts(p), ReceiveData(p, cut)
      PROVE  IInv'
  <2>1. /\ pc = "idle" /\ conn = "open" /\ pcb' = Pcb
        /\ rcvd' = cut[Len(p) + 1] /\ rcv_wnd' = rcv_wnd - (rcvd' - rcvd)
        /\ notified' = notified \cup {"received"}
        /\ UNCHANGED <<conn, app, callVars, histVars>>
    BY <1>1 DEF ReceiveData, OnReceived
  <2>2. /\ head' \in Seq(Pbufs) /\ offset' \in Nat
        /\ ref' \in [Pbufs -> Nat] /\ len' \in [Pbufs -> Nat]
        /\ first' \in [Pbufs -> Nat]
        /\ rcvd' \in Nat /\ rcvd <= rcvd' /\ rcvd' <= rcvd + rcv_wnd
        /\ ChainOwned' /\ CursorOnStream' /\ Segments'
    BY <1>1, DeliverStep
  <2>3. rcv_wnd' \in Nat
    BY <1>0, <2>1, <2>2 DEF TypeOK
  <2>4. TypeOK'
    BY <1>0, <2>1, <2>2, <2>3 DEF TypeOK, callVars, histVars, Handlers
  <2>5. PcbKnown' /\ CallInv'
    BY <2>1 DEF PcbKnown, CallInv, callVars
  <2>6. WindowConserved'
    <3>1. Owed = 0 /\ Owed' = 0 /\ pos' = pos /\ lost' = lost
      BY <2>1 DEF Owed, callVars, histVars
    <3>2. /\ rcv_wnd + (rcvd - pos) + 0 + lost = TCP_WND
          /\ rcv_wnd \in Nat /\ rcvd \in Nat /\ pos \in Nat /\ lost \in Nat
      BY <1>0, <2>1, <3>1 DEF WindowConserved, TypeOK
    <3>3. rcvd' \in Nat /\ rcv_wnd' = rcv_wnd - (rcvd' - rcvd)
      BY <2>1, <2>2
    <3>4. rcv_wnd' + (rcvd' - pos) + 0 + lost = TCP_WND
      BY <3>2, <3>3
    <3>5. QED
      BY <3>1, <3>4 DEF WindowConserved
  <2>7. QED
    BY <2>2, <2>4, <2>5, <2>6 DEF IInv
<1>2. ASSUME NEW p \in Chains \cup {<<>>}, Unused(p), ReceiveError(p)
      PROVE  IInv'
  <2>1. p \in Seq(Pbufs)
    BY ChainFacts, EmptySeq
  <2>2. /\ pc = "idle" /\ pcb' = Pcb /\ ref' = ref
        /\ UNCHANGED <<head, offset, len, first, lwipVars, appVars, callVars, histVars>>
    BY <1>0, <1>2, <2>1, ErrorPathRefs DEF ReceiveError
  <2>3. ChainOwned' /\ CursorOnStream' /\ Segments'
    BY <2>2, ChainKept DEF lwipVars, histVars
  <2>4. TypeOK'
    BY <1>0, <2>2 DEF TypeOK, lwipVars, appVars, callVars, histVars
  <2>5. PcbKnown' /\ CallInv'
    BY <2>2 DEF PcbKnown, CallInv, callVars
  <2>6. WindowConserved'
    BY <1>0, <2>2 DEF WindowConserved, Owed, lwipVars, callVars, histVars
  <2>7. QED
    BY <2>3, <2>4, <2>5, <2>6 DEF IInv
<1>3. CASE ReceiveFin
  <2>1. /\ pc = "idle" /\ conn = "open" /\ conn' = "fin" /\ pcb' = Pcb
        /\ notified' = notified \cup {"fin"}
        /\ UNCHANGED <<head, offset, heapVars, rcvd, rcv_wnd, app, callVars, histVars>>
    BY <1>3 DEF ReceiveFin
  <2>2. ChainOwned' /\ CursorOnStream' /\ Segments'
    BY <2>1, ChainKept DEF heapVars, histVars
  <2>3. TypeOK'
    BY <1>0, <2>1 DEF TypeOK, heapVars, callVars, histVars, Handlers
  <2>4. PcbKnown' /\ CallInv'
    BY <2>1 DEF PcbKnown, CallInv, callVars
  <2>5. WindowConserved'
    BY <1>0, <2>1 DEF WindowConserved, Owed, callVars, histVars
  <2>6. QED
    BY <2>2, <2>3, <2>4, <2>5 DEF IInv
<1>4. QED
  BY <1>1, <1>2, <1>3, Zenon DEF Receive

(* reset(), alone or as part of close(). *)
LEMMA DropInv ==
  ASSUME IInv, Reset \/ Close
  PROVE  IInv'
<1>0. TypeOK /\ Segments /\ PcbKnown /\ CallInv /\ WindowConserved
  BY DEF IInv
<1>1. /\ pc = "idle" /\ Drop /\ conn' \in {conn, "closed"}
      /\ UNCHANGED <<len, first, rcvd, rcv_wnd, appVars, callVars, goal, stale>>
  BY DEF Reset, Close, lwipVars
<1>2. /\ head' \in Seq(Pbufs) /\ offset' \in Nat /\ ref' \in [Pbufs -> Nat]
      /\ pcb' \in {Pcb, Null} /\ pos' \in Nat /\ lost' \in Nat
      /\ \/ pos' = pos /\ lost' = lost
         \/ pos' = rcvd /\ lost' = lost + (rcvd - pos)
      /\ pos' <= rcvd
      /\ head' # <<>> => pcb' = pcb
      /\ ChainOwned' /\ CursorOnStream' /\ Segments'
  BY <1>1, DropStep
<1>3. TypeOK'
  BY <1>0, <1>1, <1>2 DEF TypeOK, appVars, callVars
<1>4. PcbKnown'
  <2>1. head' # <<>> => head # <<>>
    BY <1>1 DEF Drop
  <2>2. QED
    BY <1>0, <1>1, <1>2, <2>1 DEF PcbKnown, callVars
<1>5. CallInv'
  BY <1>1 DEF CallInv, callVars
<1>6. WindowConserved'
  <2>1. Owed = 0 /\ Owed' = 0 /\ UNCHANGED <<rcvd, rcv_wnd>>
    BY <1>1 DEF Owed, callVars
  <2>2. /\ rcv_wnd \in Nat /\ rcvd \in Nat /\ pos \in Nat /\ lost \in Nat
        /\ TCP_WND \in Nat
    BY <1>0, ConstantsAssumption DEF TypeOK
  <2>3. rcv_wnd + (rcvd - pos) + 0 + lost = TCP_WND
          => rcv_wnd + (rcvd - pos') + 0 + lost' = TCP_WND
    <3>1. CASE pos' = pos /\ lost' = lost
      BY <3>1
    <3>2. CASE pos' = rcvd /\ lost' = lost + (rcvd - pos)
      BY <2>2, <3>2
    <3>3. QED
      BY <1>2, <3>1, <3>2
  <2>4. conn' \in {"open", "fin"} => conn \in {"open", "fin"}
    BY <1>1
  <2>5. conn \in {"open", "fin"} => rcv_wnd + (rcvd - pos) + 0 + lost = TCP_WND
    BY <1>0, <2>1 DEF WindowConserved
  <2>6. conn' \in {"open", "fin"} =>
          rcv_wnd' + (rcvd' - pos') + Owed' + lost' = TCP_WND
    BY <2>1, <2>3, <2>4, <2>5
  <2>7. QED
    BY <2>6, Zenon DEF WindowConserved
<1>7. QED
  BY <1>2, <1>3, <1>4, <1>5, <1>6 DEF IInv

(* The steps of lwIP's error path and of the application's handlers. *)
LEMMA HandlerInv ==
  ASSUME IInv, LwipError \/ (\E h \in Handlers : HandlerStart(h)) \/ HandlerReturn
  PROVE  IInv'
<1>0. TypeOK /\ PcbKnown /\ CallInv /\ WindowConserved
  BY DEF IInv
<1>1. /\ pc = "idle" /\ conn' \in {conn, "dead"}
      /\ notified' \subseteq Handlers /\ app' \in Handlers \cup {"idle"}
      /\ UNCHANGED <<rxVars, heapVars, rcvd, rcv_wnd, callVars, histVars>>
  BY <1>0 DEF LwipError, HandlerStart, HandlerReturn, TypeOK, appVars, lwipVars
<1>2. ChainOwned' /\ CursorOnStream' /\ Segments'
  BY <1>1, ChainKept DEF rxVars, heapVars, histVars
<1>3. TypeOK'
  BY <1>0, <1>1 DEF TypeOK, rxVars, heapVars, callVars, histVars
<1>4. PcbKnown' /\ CallInv'
  BY <1>0, <1>1 DEF PcbKnown, CallInv, rxVars, callVars, histVars
<1>5. WindowConserved'
  BY <1>0, <1>1 DEF WindowConserved, Owed, callVars, histVars
<1>6. QED
  BY <1>2, <1>3, <1>4, <1>5 DEF IInv

(* No operation of the buffer, of lwIP or of a handler breaks it. *)
LEMMA NextInv == IInv /\ [Next]_vars => IInv'
<1> SUFFICES ASSUME IInv, [Next]_vars PROVE IInv'
  OBVIOUS
<1>1. CASE Receive
  BY <1>1, ReceiveInv
<1>2. ASSUME NEW n \in 1..MaxRequest, PeekConsume(n) PROVE IInv'
  BY <1>2, PeekConsumeInv
<1>3. CASE SlowPath
  BY <1>3, SlowPathInv
<1>4. CASE SlowPathEnd \/ AckStep \/ AckEnd
  BY <1>4, AckInv
<1>5. CASE Reset \/ Close
  BY <1>5, DropInv
<1>6. CASE LwipError \/ (\E h \in Handlers : HandlerStart(h)) \/ HandlerReturn
  BY <1>6, HandlerInv
<1>7. CASE UNCHANGED vars
  <2>1. UNCHANGED <<rxVars, heapVars, lwipVars, appVars, callVars, histVars>>
    BY <1>7 DEF vars
  <2>2. ChainOwned' /\ CursorOnStream' /\ Segments'
    BY <2>1, ChainKept DEF rxVars, heapVars, lwipVars, histVars
  <2>3. TypeOK' /\ PcbKnown' /\ CallInv'
    BY <2>1 DEF IInv, TypeOK, PcbKnown, CallInv, rxVars, heapVars, lwipVars,
               appVars, callVars, histVars
  <2>4. WindowConserved'
    BY <2>1 DEF IInv, WindowConserved, Owed, lwipVars, callVars, histVars
  <2>5. QED
    BY <2>2, <2>3, <2>4 DEF IInv
<1>8. QED
  BY <1>1, <1>2, <1>3, <1>4, <1>5, <1>6, <1>7, Zenon DEF Next, ConsumeSteps

-----------------------------------------------------------------------------

(* IInv is an invariant of the receive buffer. *)
THEOREM Invariance == Spec => []IInv
BY InitInv, NextInv, PTL DEF Spec

(* Types, and with them: no counter of the buffer goes below zero, in      *)
(* particular not lwIP's receive window.                                   *)
THEOREM TypeCorrect == Spec => []TypeOK
<1>1. IInv => TypeOK
  BY DEF IInv
<1>2. QED
  BY <1>1, Invariance, PTL

(* Every pbuf of the chain is held once and none outside it is leaked.     *)
THEOREM Ownership == Spec => []ChainOwned
<1>1. IInv => ChainOwned
  BY DEF IInv
<1>2. QED
  BY <1>1, Invariance, PTL

(* The cursor stands on the first byte not taken. *)
THEOREM StreamOrder == Spec => []CursorOnStream
<1>1. IInv => CursorOnStream
  BY DEF IInv
<1>2. QED
  BY <1>1, Invariance, PTL

(* Between calls the cursor is inside a segment: peek() reads a byte of    *)
(* the payload and peekAvailable() is not 0 while there is data.           *)
THEOREM CursorInside == Spec => []CursorInSegment
<1>1. IInv => CursorInSegment
  BY DEF IInv, Segments, CursorInSegment
<1>2. QED
  BY <1>1, Invariance, PTL

(* The receive window is never leaked and never over-acknowledged.         *)
THEOREM WindowAccounting == Spec => []WindowConserved
<1>1. IInv => WindowConserved
  BY DEF IInv
<1>2. QED
  BY <1>1, Invariance, PTL

(* peekConsume(n) consumes n bytes or all that are there.                  *)
THEOREM ConsumeExactly == Spec => []ExactConsume
<1>1. IInv => ExactConsume
  BY DEF IInv, CallInv, ExactConsume
<1>2. QED
  BY <1>1, Invariance, PTL

-----------------------------------------------------------------------------

(* _free() is the only way a pbuf of a buffer that is not reset is         *)
(* deallocated, and it takes the head, whose last byte was just consumed.  *)
LEMMA FreeTakesHead ==
  ASSUME IInv, IInv', head # <<>>, Free, pos' = pos + Available,
         NEW q \in Pbufs, ref[q] > 0, ref'[q] = 0
  PROVE  first[q] + len[q] <= pos'
<1>1. /\ Len(head) \in Nat /\ Len(head') = Len(head) - 1
      /\ \A i \in 1..Len(head') : head'[i] = head[i + 1]
  BY SeqFacts, TailFacts DEF IInv, TypeOK, Free
<1>2. PICK i \in 1..Len(head) : head[i] = q
  BY DEF IInv, ChainOwned
<1>3. ~ \E j \in 1..Len(head') : head'[j] = q
  BY DEF IInv, ChainOwned
<1>4. i = 1
  <2>1. ASSUME i # 1 PROVE FALSE
    <3>1. i - 1 \in 1..Len(head') /\ (i - 1) + 1 = i
      BY <1>1, <2>1
    <3>2. head'[i - 1] = q
      BY <1>1, <1>2, <3>1
    <3>3. QED
      BY <1>3, <3>1, <3>2
  <2>2. QED
    BY <2>1
<1>5. /\ first[q] + offset = pos /\ Available = len[q] - offset
      /\ first[q] \in Nat /\ len[q] \in Nat /\ offset \in Nat /\ pos \in Nat
  BY <1>2, <1>4 DEF IInv, TypeOK, CursorOnStream, Available
<1>6. QED
  BY <1>5

(* A segment is released only when its last byte was taken.                *)
THEOREM ReleaseAfterUse == Spec => FreedOnlyWhenTaken
<1>1. ASSUME IInv, IInv', [Next]_vars, NEW q \in Pbufs,
             ref[q] > 0, ref'[q] = 0, lost' = lost
      PROVE  first[q] + len[q] <= pos'
  <2>0. ref \in [Pbufs -> Nat]
    BY <1>1 DEF IInv, TypeOK
  <2>1. ASSUME NEW p \in Chains, Unused(p), NEW cut \in Cuts(p), ReceiveData(p, cut)
        PROVE  FALSE
    <3>1. ref'[q] = 1 \/ ref'[q] = ref[q]
      BY <2>1 DEF ReceiveData, PbufAlloc
    <3>2. QED
      BY <1>1, <2>0, <3>1
  <2>2. ASSUME NEW p \in Chains \cup {<<>>}, Unused(p), ReceiveError(p)
        PROVE  FALSE
    <3>1. p \in Seq(Pbufs)
      BY ChainFacts, EmptySeq
    <3>2. ref' = ref
      BY <1>1, <2>2, <3>1, ErrorPathRefs DEF IInv, ReceiveError
    <3>3. QED
      BY <1>1, <2>0, <3>2
  <2>3. ASSUME NEW n \in 1..MaxRequest, PeekConsume(n)
        PROVE  first[q] + len[q] <= pos'
    <3>1. n \in Nat /\ head # <<>> /\ (ExactFit(n) <=> n = Available)
      BY <1>1, <2>3, AvailableFacts, ConstantsAssumption DEF PeekConsume
    <3>2. ref' # ref
      BY <1>1, <2>0
    <3>3. Free /\ pos' = pos + Available
      BY <2>3, <3>1, <3>2 DEF PeekConsume, FastPath
    <3>4. QED
      BY <1>1, <3>1, <3>3, FreeTakesHead
  <2>4. CASE SlowPath
    <3>1. ref' # ref
      BY <1>1, <2>0
    <3>2. head # <<>> /\ Free /\ pos' = pos + Available
      BY <2>4, <3>1 DEF SlowPath, LoopDone
    <3>3. QED
      BY <1>1, <3>2, FreeTakesHead
  <2>5. CASE Reset \/ Close
    <3>1. Drop /\ ref' # ref
      BY <1>1, <2>0, <2>5 DEF Reset, Close
    <3>2. head # <<>> /\ lost' = lost + (rcvd - pos)
      BY <3>1 DEF Drop
    <3>3. /\ Available \in Nat /\ Available >= 1 /\ Available <= rcvd - pos
          /\ rcvd \in Nat /\ pos \in Nat /\ lost \in Nat
      BY <1>1, <3>2, AvailableFacts DEF IInv, TypeOK
    <3>4. lost + (rcvd - pos) # lost
      BY <3>3
    <3>5. QED
      BY <1>1, <3>2, <3>4
  <2>6. CASE \/ ReceiveFin \/ SlowPathEnd \/ AckStep \/ AckEnd \/ LwipError
             \/ (\E h \in Handlers : HandlerStart(h)) \/ HandlerReturn
             \/ UNCHANGED vars
    <3>1. ref' = ref
      BY <2>6 DEF ReceiveFin, SlowPathEnd, AckStep, AckEnd, LwipError,
                  HandlerStart, HandlerReturn, vars, heapVars
    <3>2. QED
      BY <1>1, <2>0, <3>1
  <2>7. QED
    BY <1>1, <2>1, <2>2, <2>3, <2>4, <2>5, <2>6, Zenon
       DEF Next, Receive, ConsumeSteps
<1> DEFINE A == \A q \in Pbufs : ref[q] > 0 /\ ref'[q] = 0 /\ lost' = lost
                                   => first[q] + len[q] <= pos'
<1>2. IInv /\ IInv' /\ [Next]_vars => [A]_vars
  BY <1>1, Zenon
<1>3. QED
  BY <1>2, Invariance, PTL DEF Spec, FreedOnlyWhenTaken

-----------------------------------------------------------------------------

Alive == conn \in {"open", "fin"}

(* The refinement mapping reads the stream's position off the cursor; the  *)
(* invariant says it is the number of bytes taken.                         *)
LEMMA CursorIsPos == (IInv => Cursor = pos) /\ (IInv' => Cursor' = pos')
BY DEF IInv, CursorOnStream, Cursor

(* A step that changes nothing the stream shows. *)
LEMMA StreamStutter ==
  ASSUME IInv, IInv', UNCHANGED <<rcvd, pos, rcv_wnd, Owed, lost, Alive>>
  PROVE  UNCHANGED Stream!vars
<1>1. Cursor' = Cursor
  BY CursorIsPos
<1>2. QED
  BY <1>1 DEF Stream!vars, Alive

(* The reader takes n bytes. *)
LEMMA StreamConsume ==
  ASSUME IInv, IInv', NEW n \in Nat, n >= 1, n <= rcvd - pos, pos' = pos + n,
         Owed' = Owed + n, UNCHANGED <<rcvd, rcv_wnd, lost, Alive>>
  PROVE  Stream!Next
<1>1. Cursor = pos /\ Cursor' = pos'
  BY CursorIsPos
<1>2. n \in 1..(rcvd - Cursor)
  BY <1>1 DEF IInv, TypeOK
<1>3. Stream!Consume(n)
  BY <1>1 DEF Stream!Consume, Alive
<1>4. QED
  BY <1>2, <1>3 DEF Stream!Next

(* The size of a delivery lies within the window it fits in. *)
LEMMA Growth ==
  ASSUME NEW a \in Nat, NEW b \in Nat, NEW w \in Nat,
         a <= b, b <= a + w, b # a
  PROVE  b - a \in 1..w /\ b - a <= w /\ b = a + (b - a)
OBVIOUS

(* Every step of the buffer is a step of the stream or a stutter. *)
LEMMA StreamStep ==
  ASSUME IInv, IInv', [Next]_vars
  PROVE  [Stream!Next]_(Stream!vars)
<1>0. /\ Cursor = pos /\ Cursor' = pos'
      /\ TypeOK /\ Segments /\ PcbKnown /\ CursorOnStream
  BY CursorIsPos DEF IInv
<1>1. ASSUME NEW p \in Chains, Unused(p), NEW cut \in Cuts(p), ReceiveData(p, cut)
      PROVE  Stream!Next
  <2> DEFINE n == rcvd' - rcvd
  <2>1. /\ rcv_wnd' = rcv_wnd - n /\ conn = "open" /\ conn' = conn
        /\ pos' = pos /\ lost' = lost /\ pc = "idle" /\ pc' = pc
    BY <1>1 DEF ReceiveData, histVars, callVars
  <2>2. /\ rcvd' \in Nat /\ rcvd \in Nat /\ rcvd' <= rcvd + rcv_wnd
        /\ rcv_wnd \in Nat /\ rcvd <= rcvd'
    BY <1>0, <1>1, DeliverStep DEF TypeOK
  <2>3. Owed = 0 /\ Owed' = 0
    BY <2>1 DEF Owed
  <2>4. rcvd' # rcvd
    BY <1>1, DeliverGrows
  <2>5. n \in 1..rcv_wnd /\ n <= rcv_wnd /\ rcvd' = rcvd + n
    BY <2>2, <2>4, Growth
  <2> HIDE DEF n
  <2>6. Stream!Deliver(n)
    BY <1>0, <2>1, <2>3, <2>5 DEF Stream!Deliver
  <2>7. QED
    BY <2>5, <2>6 DEF Stream!Next
<1>2. ASSUME NEW n \in 1..MaxRequest, PeekConsume(n)
      PROVE  [Stream!Next]_(Stream!vars)
  <2>1. /\ n \in Nat /\ n >= 1 /\ head # <<>> /\ pc = "idle" /\ Owed = 0
        /\ UNCHANGED <<rcvd, rcv_wnd, lost, Alive>>
    BY <1>2, ConstantsAssumption DEF PeekConsume, Owed, lwipVars, Alive
  <2>2. /\ Available \in Nat /\ Available <= rcvd - pos
        /\ rcvd \in Nat /\ pos \in Nat
    BY <1>0, <2>1, AvailableFacts DEF TypeOK
  <2>3. CASE n <= Available
    <3>1. pos' = pos + n /\ Owed' = n
      BY <1>0, <1>2, <2>1, <2>3, ConstantsAssumption
         DEF PeekConsume, FastPath, ToAck, Owed, PcbKnown
    <3>2. n <= rcvd - pos /\ 0 + n = n
      BY <2>1, <2>2, <2>3
    <3>3. QED
      BY <2>1, <3>1, <3>2, StreamConsume
  <2>4. CASE ~(n <= Available)
    <3>1. UNCHANGED <<pos, Owed>>
      BY <1>2, <2>1, <2>4 DEF PeekConsume, Owed
    <3>2. QED
      BY <2>1, <3>1, StreamStutter
  <2>5. QED
    BY <2>3, <2>4
<1>3. CASE SlowPath
  <2>1. /\ head # <<>> /\ pc = "slow" /\ Owed = consumed /\ remaining # 0
        /\ UNCHANGED <<rcvd, rcv_wnd, lost, Alive>>
    BY <1>3 DEF SlowPath, LoopDone, Owed, lwipVars, Alive
  <2>2. /\ Available \in Nat /\ Available >= 1 /\ Available <= rcvd - pos
        /\ rcvd \in Nat /\ pos \in Nat /\ remaining \in Nat /\ consumed \in Nat
    BY <1>0, <2>1, AvailableFacts DEF TypeOK
  <2>3. CASE PartialSegment
    <3>1. pos' = pos + remaining /\ Owed' = consumed + remaining
      BY <1>0, <1>3, <2>1, <2>3, ConstantsAssumption
         DEF SlowPath, ToAck, Owed, PcbKnown
    <3>2. remaining >= 1 /\ remaining <= rcvd - pos
      BY <2>1, <2>2, <2>3 DEF PartialSegment
    <3>3. QED
      BY <2>1, <2>2, <3>1, <3>2, StreamConsume
  <2>4. CASE ~PartialSegment
    <3>1. pos' = pos + Available /\ Owed' = consumed + Available
      BY <1>3, <2>1, <2>4 DEF SlowPath, Owed
    <3>2. QED
      BY <2>1, <2>2, <3>1, StreamConsume
  <2>5. QED
    BY <2>3, <2>4
<1>4. CASE SlowPathEnd \/ AckEnd
  <2>1. UNCHANGED <<rcvd, pos, rcv_wnd, Owed, lost, Alive>>
    BY <1>0, <1>4, ConstantsAssumption
       DEF SlowPathEnd, AckEnd, Owed, ToAck, PcbKnown, lwipVars, histVars, Alive
  <2>2. QED
    BY <2>1, StreamStutter
<1>5. CASE AckStep
  <2> DEFINE c == AckChunk(to_ack)
  <2>1. /\ pc = "ack" /\ pc' = pc /\ to_ack > 0 /\ to_ack \in Nat
        /\ to_ack' = to_ack - c /\ UNCHANGED <<rcvd, pos, lost, conn>>
        /\ rcv_wnd' = IF conn \in {"open", "fin"} THEN rcv_wnd + c ELSE rcv_wnd
    BY <1>0, <1>5 DEF AckStep, TypeOK
  <2>2. c \in 1..to_ack /\ c <= to_ack
    BY <2>1, ConstantsAssumption DEF AckChunk, Smaller
  <2> HIDE DEF c
  <2>3. Owed = to_ack /\ Owed' = to_ack'
    BY <2>1 DEF Owed
  <2>4. Stream!Ack(c)
    BY <1>0, <2>1, <2>2, <2>3 DEF Stream!Ack
  <2>5. QED
    BY <2>2, <2>3, <2>4 DEF Stream!Next
<1>6. CASE Reset \/ Close
  <2>1. /\ Drop /\ UNCHANGED <<rcvd, rcv_wnd, pc>> /\ pc = "idle"
        /\ conn' \in {conn, "closed"}
    BY <1>6 DEF Reset, Close, lwipVars, callVars
  <2>2. Owed = 0 /\ Owed' = 0
    BY <2>1 DEF Owed
  <2>3. pos' = rcvd /\ lost' = lost + (rcvd - pos)
    <3>1. CASE head # <<>>
      BY <2>1, <3>1 DEF Drop
    <3>2. CASE head = <<>>
      <4>1. UNCHANGED <<pos, lost>> /\ pos = rcvd /\ lost \in Nat /\ rcvd \in Nat
        BY <1>0, <2>1, <3>2 DEF Drop, CursorOnStream, TypeOK
      <4>2. QED
        BY <4>1
    <3>3. QED
      BY <3>1, <3>2
  <2>4. Alive' \in {Alive, FALSE}
    <3>1. CASE conn' = conn
      BY <3>1 DEF Alive
    <3>2. CASE conn' = "closed"
      <4>1. Alive' = FALSE
        BY <3>2 DEF Alive
      <4>2. QED
        BY <4>1, Zenon
    <3>3. QED
      BY <2>1, <3>1, <3>2
  <2>5. Stream!Discard
    BY <1>0, <2>1, <2>2, <2>3, <2>4 DEF Stream!Discard, Alive
  <2>6. QED
    BY <2>5 DEF Stream!Next
<1>7. CASE LwipError
  <2>1. /\ UNCHANGED <<rcvd, rcv_wnd, pos, lost, pc>> /\ pc = "idle" /\ conn' = "dead"
    BY <1>7 DEF LwipError, histVars, callVars
  <2>2. Owed = 0 /\ Owed' = 0
    BY <2>1 DEF Owed
  <2>3. Stream!Die
    BY <1>0, <2>1, <2>2 DEF Stream!Die
  <2>4. QED
    BY <2>3 DEF Stream!Next
<1>8. CASE \/ (\E p \in Chains \cup {<<>>} : Unused(p) /\ ReceiveError(p))
           \/ ReceiveFin \/ (\E h \in Handlers : HandlerStart(h)) \/ HandlerReturn
           \/ UNCHANGED vars
  <2>1. UNCHANGED <<rcvd, pos, rcv_wnd, Owed, lost, Alive>>
    BY <1>8 DEF ReceiveError, ReceiveFin, HandlerStart, HandlerReturn, vars, Owed,
                lwipVars, callVars, histVars, Alive
  <2>2. QED
    BY <2>1, StreamStutter
<1>9. QED
  BY <1>1, <1>2, <1>3, <1>4, <1>5, <1>6, <1>7, <1>8, Zenon
     DEF Next, Receive, ConsumeSteps

(* The receive buffer implements the byte stream with a window (its        *)
(* safety part): whatever the segments are, the reader sees the bytes in   *)
(* order, once each, and the window is returned for what was read.         *)
THEOREM Refinement == Spec => Stream!SafeSpec
<1>1. Init => Stream!Init
  BY DEF Init, Stream!Init, Cursor, Owed
<1>2. IInv /\ IInv' /\ [Next]_vars => [Stream!Next]_(Stream!vars)
  BY StreamStep
<1>3. QED
  BY <1>1, <1>2, Invariance, PTL DEF Spec, Stream!SafeSpec
=============================================================================
