---------------------- MODULE MCTcpClientSyncAccessor ----------------------
(* An instance of TcpClientSyncAccessor for TLC. *)
EXTENDS TcpClientSyncAccessor
=============================================================================
