------------------------------ MODULE RxStream ------------------------------
(***************************************************************************)
(* What the receive side promises its reader and its peer, with no pbufs.  *)
(*                                                                         *)
(* The peer's bytes are numbered 0, 1, 2, ...  rcvd of them have been      *)
(* delivered, the reader has taken those below pos, and the rest wait to   *)
(* be read.  Delivery uses up the receive window wnd; a byte the reader    *)
(* takes is owed to the window until tcp_recved() has returned it.  Bytes  *)
(* the owner throws away are lost: they never return to the window.        *)
(***************************************************************************)
EXTENDS Integers

CONSTANT TCP_WND    \* the full receive window, in bytes

VARIABLES rcvd, pos, wnd, owed, lost,
          alive     \* FALSE once the connection's PCB is gone

vars == <<rcvd, pos, wnd, owed, lost, alive>>

Init ==
  /\ rcvd = 0
  /\ pos = 0
  /\ wnd = TCP_WND
  /\ owed = 0
  /\ lost = 0
  /\ alive = TRUE

(* n more bytes arrive, within the window that was advertised. *)
Deliver(n) ==
  /\ alive
  /\ n <= wnd
  /\ rcvd' = rcvd + n
  /\ wnd' = wnd - n
  /\ UNCHANGED <<pos, owed, lost, alive>>

(* The reader takes the next n bytes, in order. *)
Consume(n) ==
  /\ n <= rcvd - pos
  /\ pos' = pos + n
  /\ owed' = owed + n
  /\ UNCHANGED <<rcvd, wnd, lost, alive>>

(* n of the bytes taken are returned to the window of a live connection. *)
Ack(n) ==
  /\ n <= owed
  /\ owed' = owed - n
  /\ wnd' = IF alive THEN wnd + n ELSE wnd
  /\ UNCHANGED <<rcvd, pos, lost, alive>>

(* Everything unread is thrown away, possibly with the connection. *)
Discard ==
  /\ lost' = lost + (rcvd - pos)
  /\ pos' = rcvd
  /\ alive' \in {alive, FALSE}
  /\ UNCHANGED <<rcvd, wnd, owed>>

(* The connection ends under the reader; what arrived stays readable. *)
Die ==
  /\ alive' = FALSE
  /\ UNCHANGED <<rcvd, pos, wnd, owed, lost>>

Next ==
  \/ \E n \in 1..wnd : Deliver(n)
  \/ \E n \in 1..(rcvd - pos) : Consume(n)
  \/ \E n \in 1..owed : Ack(n)
  \/ Discard
  \/ Die

(* Nothing obliges the peer to send or the reader to read, but a byte that *)
(* was taken is returned to the window.                                    *)
Spec == Init /\ [][Next]_vars /\ WF_vars(\E n \in 1..owed : Ack(n))

SafeSpec == Init /\ [][Next]_vars
=============================================================================
