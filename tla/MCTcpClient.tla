---------------------------- MODULE MCTcpClient ----------------------------
(* Instances of TcpClient for TLC: clients and PCBs are interchangeable. *)
EXTENDS TcpClient, TLC

ClientPcbSymmetry == Permutations(Clients) \cup Permutations(Pcbs)
=============================================================================
