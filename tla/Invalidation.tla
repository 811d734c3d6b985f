---------------------------- MODULE Invalidation ----------------------------
(***************************************************************************)
(* What a copy promises of the thing it is a copy of.  The owner's         *)
(* revision only grows; the copy is of the newest revision that was read   *)
(* again, which is never invented and never goes back, however notices and *)
(* answers are lost, repeated or late.                                     *)
(*                                                                         *)
(* Alerting keeps such a copy of a monitoring projection, and the cache of *)
(* the console one of each answer that it shows.                           *)
(***************************************************************************)
EXTENDS Naturals

VARIABLES
    rev,    \* revision of what the owner has
    known   \* newest revision the copy was read at

vars == <<rev, known>>

Init == rev = 0 /\ known = 0

Change == rev' = rev + 1 /\ UNCHANGED known

Learn == /\ known' \in (known + 1) .. rev
         /\ UNCHANGED rev

Next == Change \/ Learn

Spec == Init /\ [][Next]_vars
=============================================================================
