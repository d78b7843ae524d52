----------------------------- MODULE MCSessions ------------------------------
(* TradeSessions on small instances. *)
EXTENDS TradeSessions, TLC

OnePrice  == {10}
TwoPrices == {10, 11}
OneShare  == {1}

Everything == Kinds \cup {"clock", "upgrade"}

\* Request threads run the same code, and so do the workers.
RequestSymmetry == Permutations(Requests)
WorkerSymmetry == RequestSymmetry \cup Permutations(Executors)
=============================================================================
