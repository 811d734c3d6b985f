------------------------------ MODULE WorkQueue ------------------------------
(***************************************************************************)
(* What a queue of durable work promises.  A job is held by one worker at  *)
(* most, and only its answer ends the job.  Others may still have it in    *)
(* hand, from claims that were taken back; what they answer changes        *)
(* nothing.  What is done stays so.                                        *)
(*                                                                         *)
(* One transaction may take many jobs a step further.                      *)
(***************************************************************************)
CONSTANTS Jobs, Workers

VARIABLES
    phase,   \* of each job
    holders, \* the worker whose answer the job waits for, if it still lives
    hands    \* the workers that have the job in hand

vars == <<phase, holders, hands>>

Init ==
    /\ phase \in [Jobs -> {"absent", "waiting"}]
    /\ holders = [j \in Jobs |-> {}]
    /\ hands = [j \in Jobs |-> {}]

Becomes(j, p, held, had) == phase'[j] = p /\ holders'[j] = held /\ hands'[j] = had

Rest(j) == Becomes(j, phase[j], holders[j], hands[j])

Submit(j) ==
    /\ phase[j] = "absent"
    /\ Becomes(j, "waiting", {}, hands[j])

Take(j, w) ==
    /\ phase[j] = "waiting" /\ w \notin hands[j]
    /\ Becomes(j, "taken", {w}, hands[j] \cup {w})

\* The job ends, or is to be tried again.
Answer(j, w) ==
    /\ phase[j] = "taken" /\ holders[j] = {w}
    /\ \E p \in {"done", "failed", "waiting"} : Becomes(j, p, {}, hands[j] \ {w})

\* A worker dies, gives up, or is told that its claim is lost.
Drop(j, w) ==
    /\ w \in hands[j]
    /\ Becomes(j, phase[j], holders[j] \ {w}, hands[j] \ {w})

\* A job that is held for too long.
TakeBack(j) ==
    /\ phase[j] = "taken"
    /\ \E p \in {"waiting", "failed"} : Becomes(j, p, {}, hands[j])

\* There is nothing to do, or no one can do it any more.
Settle(j) ==
    /\ phase[j] = "waiting"
    /\ \E p \in {"done", "failed"} : Becomes(j, p, {}, hands[j])

Retry(j) ==
    /\ phase[j] = "failed"
    /\ Becomes(j, "waiting", {}, hands[j])

Step(j) ==
    \/ Rest(j) \/ Submit(j) \/ TakeBack(j) \/ Settle(j) \/ Retry(j)
    \/ \E w \in Workers : Take(j, w) \/ Answer(j, w) \/ Drop(j, w)

Next == \A j \in Jobs : Step(j)

Spec == Init /\ [][Next]_vars
=============================================================================
