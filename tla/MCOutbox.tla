------------------------------ MODULE MCOutbox ------------------------------
(***************************************************************************)
(* Instances of Outbox for TLC.                                            *)
(***************************************************************************)
EXTENDS Outbox, TLC

Symmetric == Permutations(Dispatchers) \cup Permutations(Consumers)
=============================================================================
