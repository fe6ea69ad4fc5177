-------------------------- MODULE MCScrapingWorker --------------------------
(* ScrapingWorker on interchangeable calls and workers. *)
EXTENDS ScrapingWorker, TLC

AllSymmetry == Permutations(Calls) \cup Permutations(Workers)
============================================================================
