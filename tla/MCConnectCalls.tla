--------------------------- MODULE MCConnectCalls ----------------------------
(***************************************************************************)
(* Small instances of DarwinCall: ConnectFull with either engine.          *)
(***************************************************************************)
EXTENDS DarwinCall, TLC

=============================================================================
