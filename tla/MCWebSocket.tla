---------------------------- MODULE MCWebSocket ----------------------------
(* One session, with a ping period just long enough for a live peer.       *)
EXTENDS WebSocket
=============================================================================
