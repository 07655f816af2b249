------------------------- MODULE MCWebSocketSession -------------------------
(***************************************************************************)
(* Instances of WebSocketSession: as many requests as fill the queue       *)
(* behind a write in progress.                                             *)
(***************************************************************************)
EXTENDS WebSocketSession
===========================================================================
