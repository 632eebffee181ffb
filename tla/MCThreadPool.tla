--------------------------- MODULE MCThreadPool ---------------------------
(* An instance of ThreadPool: the threads are model values.                *)
EXTENDS ThreadPool

CONSTANTS w1, w2, w3, c1, c2
=============================================================================
