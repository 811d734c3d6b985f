---------------------------- MODULE Notification ----------------------------
(***************************************************************************)
(* Delivery of alert notifications.                                        *)
(*                                                                         *)
(* An intent is created together with its first dispatch.  A dispatcher    *)
(* claims the oldest due dispatch, sends it and records the attempt in ONE *)
(* transaction: the claim is a row lock, and whatever goes wrong rolls it  *)
(* back.  A failed or unknown attempt adds a later dispatch, up to         *)
(* MaxAttempts.  The provider reports on accepted messages by callbacks,   *)
(* each handled in a transaction that appends evidence, recomputes the     *)
(* delivery projection from the facts it can see, and writes it.           *)
(*                                                                         *)
(* Only an accepted attempt binds a provider reference, and an accepted    *)
(* intent has no further dispatch: dispatchers and callbacks never write   *)
(* one projection at the same time.  A callback for a reference that is    *)
(* not bound (yet) is answered and parked under a pseudo-tenant, where     *)
(* nothing reads it: it changes nothing here.                              *)
(***************************************************************************)
EXTENDS Naturals, Sequences, FiniteSets

CONSTANTS
    Intents,        \* notification intents (a bound)
    Dispatchers,    \* concurrent dispatcher loops
    Sessions,       \* concurrent callback requests
    MaxAttempts,    \* MAX_ATTEMPTS
    MaxErrors,      \* bound: crashes and unexpected exceptions
    MaxWindows,     \* bound: maintenance windows and snoozes
    Fragile,        \* bound: intents whose adapter may break
    Reports,        \* what the provider reports, as normalised
    Bodies,         \* signed bodies that may carry one report
    NoIntent        \* absent value

Outcomes == {"provider_accepted", "failed", "unknown"}
Normalized == Outcomes \cup {"delivered", "external_read_observed"}

\* quiet: the source is in maintenance or the alert snoozed.  broken: the
\* adapter of the channel raises what the dispatcher does not expect (no SMTP
\* host in production; an answer without "raw", as in development).
Reasons == {"quiet", "broken"}

ASSUME ReportsAssumption == Reports \subseteq Normalized
ASSUME AbsentAssumption == NoIntent \notin Intents
ASSUME LimitAssumption ==
    /\ MaxAttempts \in Nat \ {0} /\ MaxErrors \in Nat /\ MaxWindows \in Nat
    /\ IsFiniteSet(Intents)

VARIABLES
    intents,    \* notification_intent
    dispatches, \* pending rows of notification_dispatch_outbox
    attempts,   \* outcomes of notification_attempt, by attempt number
    evidence,   \* what callbacks reported: notification_provider_evidence
    bound,      \* intents with a provider_ref_binding
    projection, \* notification_projection
    inbox,      \* notification_callback_inbox
    hindered,   \* intents that cannot be sent for now, each with the reason
    tx,         \* the transaction each dispatcher has open, and its cycle
    session,    \* the transaction each callback request has open
    sends,      \* history: messages that may have reached the recipient
    errors,     \* crashes and unexpected exceptions so far
    windows     \* suppressions so far

vars == <<intents, dispatches, attempts, evidence, bound, projection, inbox,
          hindered, tx, session, sends, errors, windows>>
facts == <<intents, attempts, evidence, bound>>
callbackVars == <<inbox, session>>

\* since: how many intents existed when the row's transaction began.
Dispatch == [intent : Intents, n : 1 .. MaxAttempts, since : Nat, due : BOOLEAN]

NoDispatch == [intent |-> NoIntent, n |-> 0, since |-> 0, due |-> FALSE]

\* outcome: what sending gave.  ref: whether the provider named the message.
\* began: intents at the claim.
NoTx == [row |-> NoDispatch, outcome |-> "none", ref |-> FALSE, began |-> 0]

Transaction == [row : Dispatch \cup {NoDispatch}, outcome : Outcomes \cup {"none"},
                ref : BOOLEAN, began : Nat]

Callback == [intent : Intents, report : Reports, body : Bodies]

ProjectionRow == [state : Normalized \cup {"none", "dispatching"},
                  retry : BOOLEAN, fallback : BOOLEAN]

NoProjection == [state |-> "none", retry |-> FALSE, fallback |-> FALSE]

NoSession == [callback |-> [intent |-> NoIntent, report |-> "none", body |-> 0],
              computed |-> NoProjection]

TypeOK ==
    /\ intents \subseteq Intents
    /\ dispatches \subseteq Dispatch
    /\ attempts \in [Intents -> Seq(Outcomes)]
    /\ evidence \in [Intents -> SUBSET Reports]
    /\ bound \subseteq Intents
    /\ projection \in [Intents -> ProjectionRow]
    /\ inbox \subseteq Callback
    /\ hindered \subseteq Intents \X Reasons
    /\ tx \in [Dispatchers -> Transaction]
    /\ session \in [Sessions ->
                      [callback : Callback, computed : ProjectionRow] \cup {NoSession}]
    /\ sends \in [Intents -> Nat]
    /\ errors \in 0 .. MaxErrors
    /\ windows \in 0 .. MaxWindows

-----------------------------------------------------------------------------
(* The projection                                                          *)

Rank == [s \in Normalized \cup {"none", "dispatching"} |->
           CASE s = "provider_accepted"      -> 2
             [] s = "delivered"              -> 3
             [] s = "external_read_observed" -> 4
             [] OTHER                        -> 0]

LastOutcome(tried) == IF tried = <<>> THEN "dispatching" ELSE tried[Len(tried)]

\* Faulty variant: a retry left counts as one too many.
ExhaustedLate(tried) == Len(tried) > MaxAttempts

Exhausted(tried) == Len(tried) >= MaxAttempts

\* Faulty variant: evidence of any rank replaces what the attempts say.
StateFromAny(tried, seen) ==
    IF seen = {} THEN LastOutcome(tried)
    ELSE CHOOSE s \in seen : \A t \in seen : Rank[s] <= Rank[t]

\* The strongest evidence, where it is stronger than the last attempt.
StateFrom(tried, seen) ==
    IF \E s \in seen : Rank[s] > Rank[LastOutcome(tried)]
    THEN CHOOSE s \in seen : \A t \in seen : Rank[t] <= Rank[s]
    ELSE LastOutcome(tried)

\* _recompute_projection: the row the facts give.
Projected(tried, seen) ==
    LET state  == StateFrom(tried, seen)
        failed == /\ LastOutcome(tried) \in {"failed", "unknown"}
                  /\ state \notin {"delivered", "external_read_observed"}
    IN [state    |-> state,
        retry    |-> failed /\ ~Exhausted(tried),
        fallback |-> failed /\ Exhausted(tried)]

-----------------------------------------------------------------------------
(* Intents and suppression                                                 *)

\* The intent and its first dispatch commit together.
CreateIntent(i) ==
    /\ i \notin intents
    /\ intents' = intents \cup {i}
    /\ dispatches' = dispatches \cup
         {[intent |-> i, n |-> 1, since |-> Cardinality(intents) + 1, due |-> TRUE]}
    /\ UNCHANGED <<attempts, evidence, bound, projection, callbackVars, hindered,
                   tx, sends, errors, windows>>

Quiet(i) == <<i, "quiet">> \in hindered
Broken(i) == <<i, "broken">> \in hindered

\* A maintenance window opens on the source, or the alert is snoozed.
Suppress(i) ==
    /\ i \in intents /\ ~Quiet(i)
    /\ windows < MaxWindows
    /\ windows' = windows + 1
    /\ hindered' = hindered \cup {<<i, "quiet">>}
    /\ UNCHANGED <<facts, dispatches, projection, callbackVars, tx, sends, errors>>

\* It ends, or an operator cancels it.
Release(i) ==
    /\ Quiet(i)
    /\ hindered' = hindered \ {<<i, "quiet">>}
    /\ UNCHANGED <<facts, dispatches, projection, callbackVars, tx, sends, errors,
                   windows>>

\* The process is started without, or again with, what the adapter needs.
AdapterBreaks(i) ==
    /\ i \in intents \cap Fragile /\ ~Broken(i)
    /\ hindered' = hindered \cup {<<i, "broken">>}
    /\ UNCHANGED <<facts, dispatches, projection, callbackVars, tx, sends, errors,
                   windows>>

AdapterMends(i) ==
    /\ Broken(i)
    /\ hindered' = hindered \ {<<i, "broken">>}
    /\ UNCHANGED <<facts, dispatches, projection, callbackVars, tx, sends, errors,
                   windows>>

\* next_attempt_at is reached.
BackoffPasses(r) ==
    /\ ~r.due
    /\ dispatches' = (dispatches \ {r}) \cup {[r EXCEPT !.due = TRUE]}
    /\ UNCHANGED <<facts, projection, callbackVars, hindered, tx, sends, errors,
                   windows>>

-----------------------------------------------------------------------------
(* The dispatcher                                                          *)

\* Faulty variant: the claim does not lock the row it selects.
NeverLocked(d, r) == FALSE

\* SKIP LOCKED: another dispatcher's open transaction holds the row.
Locked(d, r) == \E e \in Dispatchers \ {d} : tx[e].row = r

Claimable(d) == {r \in dispatches : r.due /\ ~Locked(d, r)}

\* ORDER BY created_at.  Retries of one moment are not ordered further.
Older(q, r) ==
    \/ q.since < r.since
    \/ q.since = r.since /\ q.n = 1 /\ r.n > 1

Claim(d) ==
    /\ tx[d].row = NoDispatch
    /\ \E r \in Claimable(d) :
         /\ \A q \in Claimable(d) : ~Older(q, r)
         /\ tx' = [tx EXCEPT ![d].row = r, ![d].began = Cardinality(intents)]
    /\ UNCHANGED <<facts, dispatches, projection, callbackVars, hindered, sends,
                   errors, windows>>

\* No dispatch is due: the cycle ends and the loop sleeps.
CycleEnds(d) ==
    /\ tx[d].row = NoDispatch
    /\ Claimable(d) = {}
    /\ tx' = [tx EXCEPT ![d] = NoTx]
    /\ UNCHANGED <<facts, dispatches, projection, callbackVars, hindered, sends,
                   errors, windows>>

\* The transaction ends; the cycle goes on.
Closed(d) == [tx EXCEPT ![d] = NoTx]

Claimed(d) == tx[d].row # NoDispatch /\ tx[d].outcome = "none"
Sent(d) == tx[d].row # NoDispatch /\ tx[d].outcome # "none"

\* Rollback: the dispatch is pending again, and the loop continues.  (It does
\* the same for a row without its intent or alert: foreign keys, and that
\* nothing deletes either, leave no such row.)
SkipSuppressed(d) ==
    /\ Claimed(d)
    /\ Quiet(tx[d].row.intent)
    /\ tx' = Closed(d)
    /\ UNCHANGED <<facts, dispatches, projection, callbackVars, hindered, sends,
                   errors, windows>>

\* The adapter raises, this time and every time: rollback, no attempt, and
\* the loop claims the oldest due dispatch, which is this one again.
SendRaises(d) ==
    LET i == tx[d].row.intent IN
    /\ Claimed(d)
    /\ ~Quiet(i) /\ Broken(i)
    /\ tx' = Closed(d)
    /\ UNCHANGED <<facts, dispatches, projection, callbackVars, hindered, sends,
                   errors, windows>>

\* The provider call.  A transport error may hide a delivery, and an error
\* after the acceptance may be reported as a refusal.
Send(d) ==
    LET i == tx[d].row.intent IN
    /\ Claimed(d)
    /\ ~Quiet(i) /\ ~Broken(i)
    /\ \E outcome \in Outcomes, ref \in BOOLEAN, reached \in BOOLEAN :
         /\ ref => outcome = "provider_accepted"
         /\ outcome = "provider_accepted" => reached
         /\ tx' = [tx EXCEPT ![d].outcome = outcome, ![d].ref = ref]
         /\ sends' = [sends EXCEPT ![i] = IF reached THEN @ + 1 ELSE @]
    /\ UNCHANGED <<facts, dispatches, projection, callbackVars, hindered, errors,
                   windows>>

\* Faulty variants: any outcome is retried; one retry too many.
RetryAlways(row, outcome) == row.n < MaxAttempts
RetryOnceMore(row, outcome) ==
    outcome \in {"failed", "unknown"} /\ row.n <= MaxAttempts

Retryable(row, outcome) ==
    outcome \in {"failed", "unknown"} /\ row.n < MaxAttempts

Retries(d) ==
    LET row == tx[d].row IN
    IF Retryable(row, tx[d].outcome)
    THEN {[intent |-> row.intent, n |-> row.n + 1, since |-> tx[d].began,
           due |-> FALSE]}
    ELSE {}

\* The attempt, the binding, done, the projection, the retry: one commit.
\* Attempt identities are UNIQUE.  (The acceptance is added as evidence too,
\* which the projection ranks no higher than the accepted attempt.)
Complete(d) ==
    LET row == tx[d].row
        i   == row.intent
    IN
    /\ Sent(d)
    /\ row.n > Len(attempts[i])
    /\ attempts' = [attempts EXCEPT ![i] = Append(@, tx[d].outcome)]
    /\ bound' = IF tx[d].ref THEN bound \cup {i} ELSE bound
    /\ dispatches' = (dispatches \ {row}) \cup Retries(d)
    /\ projection' = [projection EXCEPT ![i] = Projected(attempts'[i], evidence[i])]
    /\ tx' = Closed(d)
    /\ UNCHANGED <<intents, evidence, callbackVars, hindered, sends, errors,
                   windows>>

\* An exception that passes, before or after the send: rollback, loop on.
DispatchRaises(d) ==
    /\ tx[d].row # NoDispatch
    /\ errors < MaxErrors
    /\ errors' = errors + 1
    /\ tx' = Closed(d)
    /\ UNCHANGED <<facts, dispatches, projection, callbackVars, hindered, sends,
                   windows>>

\* The process dies; the database rolls back.
DispatcherDies(d) ==
    /\ tx[d].row # NoDispatch
    /\ errors < MaxErrors
    /\ errors' = errors + 1
    /\ tx' = [tx EXCEPT ![d] = NoTx]
    /\ UNCHANGED <<facts, dispatches, projection, callbackVars, hindered, sends,
                   windows>>

-----------------------------------------------------------------------------
(* Provider callbacks                                                      *)

\* Inserts of one digest, or of one report, wait for one another.
Waits(s, c) ==
    \E t \in Sessions \ {s} : /\ session[t].callback.intent = c.intent
                              /\ session[t].callback.report = c.report

\* A callback that is new to the inbox (UNIQUE digest) and can be routed.
Admitted(s, c) ==
    /\ session[s] = NoSession /\ ~Waits(s, c)
    /\ c.intent \in bound
    /\ c \notin inbox

\* Only the inbox row: the timestamp is outside the replay window, or the
\* report is in evidence already.
ParkCallback(s, c) ==
    /\ Admitted(s, c)
    /\ inbox' = inbox \cup {c}
    /\ UNCHANGED <<facts, dispatches, projection, session, hindered, tx, sends,
                   errors, windows>>

\* Faulty variant: the evidence is read without regard to the intent.
SeenAnywhere(c) == (UNION {evidence[i] : i \in Intents}) \cup {c.report}

\* Faulty variant: the projection is computed before the evidence is added.
SeenBefore(c) == evidence[c.intent]

SeenWith(c) == evidence[c.intent] \cup {c.report}

\* Evidence appended, facts read; the projection is written at the commit.
BeginCallback(s, c) ==
    /\ Admitted(s, c)
    /\ c.report \notin evidence[c.intent]
    /\ session' = [session EXCEPT ![s] =
                     [callback |-> c,
                      computed |-> Projected(attempts[c.intent], SeenWith(c))]]
    /\ UNCHANGED <<facts, dispatches, projection, inbox, hindered, tx, sends,
                   errors, windows>>

CommitCallback(s) ==
    LET c == session[s].callback IN
    /\ session[s] # NoSession
    /\ inbox' = inbox \cup {c}
    /\ evidence' = [evidence EXCEPT ![c.intent] = @ \cup {c.report}]
    /\ projection' = [projection EXCEPT ![c.intent] = session[s].computed]
    /\ session' = [session EXCEPT ![s] = NoSession]
    /\ UNCHANGED <<intents, attempts, bound, dispatches, hindered, tx, sends,
                   errors, windows>>

CallbackFails(s) ==
    /\ session[s] # NoSession
    /\ session' = [session EXCEPT ![s] = NoSession]
    /\ UNCHANGED <<facts, dispatches, projection, inbox, hindered, tx, sends,
                   errors, windows>>

-----------------------------------------------------------------------------

Init ==
    /\ intents = {} /\ dispatches = {} /\ bound = {} /\ inbox = {}
    /\ attempts = [i \in Intents |-> <<>>]
    /\ evidence = [i \in Intents |-> {}]
    /\ projection = [i \in Intents |-> NoProjection]
    /\ hindered = {}
    /\ tx = [d \in Dispatchers |-> NoTx]
    /\ session = [s \in Sessions |-> NoSession]
    /\ sends = [i \in Intents |-> 0]
    /\ errors = 0 /\ windows = 0

Hindrance(i) ==
    Suppress(i) \/ Release(i) \/ AdapterBreaks(i) \/ AdapterMends(i)

\* No attempt is recorded.
GivesBack(d) == SkipSuppressed(d) \/ SendRaises(d)

DispatcherRuns(d) ==
    Claim(d) \/ CycleEnds(d) \/ GivesBack(d) \/ Send(d) \/ Complete(d)

DispatcherStep(d) == DispatcherRuns(d) \/ DispatchRaises(d) \/ DispatcherDies(d)

CallbackStep(s) ==
    \/ \E c \in Callback : ParkCallback(s, c) \/ BeginCallback(s, c)
    \/ CommitCallback(s)
    \/ CallbackFails(s)

Next ==
    \/ \E i \in Intents : CreateIntent(i) \/ Hindrance(i)
    \/ \E r \in dispatches : BackoffPasses(r)
    \/ \E d \in Dispatchers : DispatcherStep(d)
    \/ \E s \in Sessions : CallbackStep(s)

Spec == Init /\ [][Next]_vars

\* Loops poll for ever, backoffs pass, windows and snoozes end.  Exceptions
\* that pass, and crashes, are finitely many (MaxErrors); nothing mends an
\* adapter that is broken.
Fairness ==
    /\ \A d \in Dispatchers : WF_vars(DispatcherRuns(d))
    /\ \A i \in Intents : WF_vars(Release(i))
    /\ WF_vars(\E r \in dispatches : BackoffPasses(r))

FairSpec == Spec /\ Fairness

-----------------------------------------------------------------------------
(* Properties                                                              *)

Accepted(i) == \E k \in DOMAIN attempts[i] : attempts[i][k] = "provider_accepted"

Open(i) == {r \in dispatches : r.intent = i}

Handlers(i) == {d \in Dispatchers : tx[d].row.intent = i}

PhaseOf(i) ==
    IF i \notin intents THEN "absent"
    ELSE IF Accepted(i) THEN "done"
    ELSE IF Exhausted(attempts[i]) THEN "failed"
    ELSE IF Handlers(i) = {} THEN "waiting" ELSE "taken"

Queue == INSTANCE WorkQueue WITH
    Jobs <- Intents, Workers <- Dispatchers,
    phase <- [i \in Intents |-> PhaseOf(i)],
    holders <- [i \in Intents |-> Handlers(i)],
    hands <- [i \in Intents |-> Handlers(i)]

\* Row locks, retries and rollbacks implement the work queue: one dispatcher
\* at a time is at an intent, only what it records moves the intent on, and an
\* intent that was accepted, or whose attempts are spent, is not taken up again.
ImplementsWorkQueue == Queue!Spec

\* An intent has at most one open dispatch, none once the provider's
\* acceptance is recorded or the attempts are spent: no second message is
\* sent on purpose.
DispatchedInTurn ==
    \A i \in Intents :
        /\ \A q, r \in Open(i) : q = r
        /\ Accepted(i) \/ Exhausted(attempts[i]) => Open(i) = {}

\* The recipient gets at most one message per attempt, and one more for each
\* crash or exception between the send and its record.
SentOncePerAttempt ==
    \A i \in Intents :
        sends[i] <= Len(attempts[i]) + errors
                      + (IF \E d \in Dispatchers : Sent(d) /\ tx[d].row.intent = i
                         THEN 1 ELSE 0)

\* The stored projection is the one its facts give.
ProjectionFollowsFacts ==
    \A i \in Intents :
        projection[i].state # "none"
            => projection[i] = Projected(attempts[i], evidence[i])

\* However many callbacks are handled at once, a projection says nothing that
\* no fact of its own intent says: it has all of the attempts, and at worst it
\* lacks some of the evidence.
ProjectionFromFacts ==
    \A i \in Intents :
        projection[i].state # "none"
            => \E seen \in SUBSET evidence[i] :
                  projection[i] = Projected(attempts[i], seen)

\* The delivery state advances and is never downgraded.
NeverDowngraded ==
    [][\A i \in Intents :
         Rank[projection'[i].state] >= Rank[projection[i].state]]_projection

\* Where every adapter works in the end, every intent is accepted by the
\* provider, or an operator is told to act.
DeliveredOrFallback ==
    <>[](\A i \in Intents : ~Broken(i))
        => \A i \in Intents : (i \in intents) ~> (Accepted(i) \/ projection[i].fallback)
=============================================================================
