------------------------ MODULE MCWebsocketTransport ------------------------
(* Instance of WebsocketTransport for model checking.                      *)
EXTENDS WebsocketTransport
=============================================================================
