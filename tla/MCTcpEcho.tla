----------------------------- MODULE MCTcpEcho ------------------------------
(* Instances of TcpEcho for model checking.                                *)
EXTENDS TcpEcho
=============================================================================
