---------------------------- MODULE MCThreadPool ----------------------------
(* Model-checking instance of ThreadPool. *)
EXTENDS ThreadPool

CONSTANTS t1, t2, t3, w1, w2, w3

ThreeThreads == {t1, t2, t3}
ThreeWorks == {w1, w2, w3}
=============================================================================
