--------------------------- MODULE MCTokenBucket ---------------------------
(* One instance of TokenBucket: a bucket of two tokens and three threads.  *)
EXTENDS TokenBucket

CONSTANTS t1, t2, t3
=============================================================================
