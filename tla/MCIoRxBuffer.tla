---- MODULE MCIoRxBuffer ----
(* Instances of IoRxBuffer for TLC: pbufs are interchangeable. *)
EXTENDS IoRxBuffer, TLC

PbufSymmetry == Permutations(Pbufs)
====
