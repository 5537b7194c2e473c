---------------------------- MODULE MCRtcThread -----------------------------
(* The programs of RtcThread.                                              *)
EXTENDS RtcThread
=============================================================================
