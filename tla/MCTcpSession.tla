---------------------------- MODULE MCTcpSession ----------------------------
(* TcpSession for TLC: small streams and number spaces, given in the cfg.  *)
EXTENDS TcpSession
=============================================================================
