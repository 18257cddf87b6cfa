---------------------------- MODULE MCAsyncBridge ----------------------------
(* A queue of three, hence windows of two batches, and its smallest size.   *)
EXTENDS AsyncBridge
=============================================================================
