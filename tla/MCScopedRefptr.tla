--------------------------- MODULE MCScopedRefptr ---------------------------
(* The program of 10_rtc_peer_connection, and any use of three pointers to *)
(* two objects by two threads.                                             *)
EXTENDS PeerConnection

AllPointers == PeerPointers \cup {"p1", "p2", "p3"}
FreeUse == {"p1", "p2", "p3", track, connection}
=============================================================================
