--------------------------- MODULE MCRabbitMQRPC ---------------------------
(* RabbitMQRPC on two interchangeable calls. *)
EXTENDS RabbitMQRPC, TLC

CallSymmetry == Permutations(Calls)
============================================================================
