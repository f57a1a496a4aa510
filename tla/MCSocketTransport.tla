-------------------------- MODULE MCSocketTransport --------------------------
(* One connection.                                                          *)
EXTENDS SocketTransport
=============================================================================
