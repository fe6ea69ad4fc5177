-------------------------- MODULE MCScrapingSystem --------------------------
(* ScrapingSystem on interchangeable calls and workers. *)
EXTENDS ScrapingSystem, TLC

AllSymmetry == Permutations(Calls) \cup Permutations(Workers)
============================================================================
