------------------------- MODULE MCThreadSafeQueue -------------------------
(***************************************************************************)
(* Instances of ThreadSafeQueue for TLC.  Two producers and two consumers  *)
(* are more than either queue of the gateway has (outq_: the zmq thread    *)
(* and the worker push, the worker pops; inq_: one of each) and are enough *)
(* for a notification to reach the wrong one of two sleepers.              *)
(***************************************************************************)
EXTENDS ThreadSafeQueue, TLC

Symmetric == Permutations(Producers) \cup Permutations(Consumers)
=============================================================================
