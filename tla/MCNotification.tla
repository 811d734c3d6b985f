--------------------------- MODULE MCNotification ---------------------------
(***************************************************************************)
(* Instances of Notification for TLC.                                      *)
(***************************************************************************)
EXTENDS Notification, TLC

Symmetric == Permutations(Intents) \cup Permutations(Dispatchers)
               \cup Permutations(Sessions)
=============================================================================
