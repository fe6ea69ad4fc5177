------------------------ MODULE MCConnectionManager ------------------------
(* ConnectionManager on interchangeable sockets and connection ids. *)
EXTENDS ConnectionManager, TLC

AllSymmetry == Permutations(Sockets) \cup Permutations(Ids)
============================================================================
