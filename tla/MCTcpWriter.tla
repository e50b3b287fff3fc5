---------------------------- MODULE MCTcpWriter ----------------------------
(* Instances of TcpWriter for TLC. *)
EXTENDS TcpWriter
=============================================================================
