---------------------------- MODULE AlgorithmInput ----------------------------
(* The one variable of a module that says what an algorithm computes: the  *)
(* input, a record whose field alg names the algorithm it is for.          *)
VARIABLE input
=============================================================================
