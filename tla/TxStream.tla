------------------------------ MODULE TxStream ------------------------------
(***************************************************************************)
(* What the send side promises its callers, with no send buffer, segments  *)
(* or window: lwIP takes the bytes of each write from its beginning, in    *)
(* order, one write after the other, and sends what it has taken.          *)
(*                                                                         *)
(* A write is taken piece by piece and answered with a number of bytes, of *)
(* which at least so many were taken; or it is offered once and an error   *)
(* reported if nothing is taken.                                           *)
(***************************************************************************)
EXTENDS Integers, Sequences

CONSTANTS MaxSize, MaxWrites

VARIABLES
  line,     \* the bytes taken: <<w, i>> is byte i of the w-th write
  sent,     \* how many of them are out
  last,     \* the number of the latest write
  busy,     \* that write is being taken piece by piece
  taken,    \* as far as this
  size, answer, refused

vars == <<line, sent, last, busy, taken, size, answer, refused>>

Init ==
  /\ line = <<>>
  /\ sent = 0
  /\ last = 0
  /\ ~busy
  /\ taken = 0
  /\ size = [w \in 1..MaxWrites |-> 0]
  /\ answer = [w \in 1..MaxWrites |-> 0]
  /\ refused = {}

(* Bytes from..from+n-1 of write w are taken. *)
Take(w, from, n) == line' = line \o [i \in 1..n |-> <<w, from + i - 1>>]

(* Bytes that have been taken may go out in any step. *)
Send == sent' \in sent..Len(line')

New(n) ==
  /\ ~busy
  /\ last < MaxWrites
  /\ last' = last + 1
  /\ size' = [size EXCEPT ![last + 1] = n]

Start(n) ==
  /\ New(n)
  /\ busy' = TRUE
  /\ UNCHANGED <<line, sent, taken, answer, refused>>

Piece(n) ==
  /\ busy
  /\ Take(last, taken, n)
  /\ taken' = taken + n
  /\ Send
  /\ UNCHANGED <<last, busy, size, answer, refused>>

(* The answer claims no more than was taken.  It may claim less. *)
Finish ==
  /\ busy
  /\ busy' = FALSE
  /\ taken' = 0
  /\ \E r \in 0..taken : answer' = [answer EXCEPT ![last] = r]
  /\ UNCHANGED line
  /\ Send
  /\ UNCHANGED <<last, size, refused>>

Offer(n, k) ==
  /\ New(n)
  /\ Take(last + 1, 0, k)
  /\ refused' = IF k = 0 THEN refused \cup {last + 1} ELSE refused
  /\ Send
  /\ UNCHANGED <<busy, taken, answer>>

Transmit ==
  /\ sent < Len(line)
  /\ sent' \in (sent + 1)..Len(line)
  /\ UNCHANGED <<line, last, busy, taken, size, answer, refused>>

Next ==
  \/ \E n \in 1..MaxSize : Start(n) \/ \E k \in 0..n : Offer(n, k)
  \/ \E n \in 1..MaxSize : busy /\ n <= size[last] - taken /\ Piece(n)
  \/ Finish
  \/ Transmit

SafeSpec == Init /\ [][Next]_vars

(* Bytes that have been taken do not stay behind. *)
Spec == SafeSpec /\ WF_vars(Transmit)
=============================================================================
