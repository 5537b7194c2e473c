---------------------------- MODULE MCSwapQueue -----------------------------
(* A queue of three slots and two values.                                  *)
EXTENDS SwapQueue
=============================================================================
