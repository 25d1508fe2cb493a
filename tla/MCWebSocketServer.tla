-------------------------- MODULE MCWebSocketServer --------------------------
(***************************************************************************)
(* Small instances of WebSocketServer: one connection more than there is   *)
(* room for.                                                               *)
(***************************************************************************)
EXTENDS WebSocketServer
=============================================================================
