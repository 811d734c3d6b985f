------------------------------- MODULE Outbox -------------------------------
(***************************************************************************)
(* The durable publication outbox and the Alerting inbox that follows it.  *)
(*                                                                         *)
(* A projection transition appends its message in its own transaction.     *)
(* Dispatchers claim a batch under a lease (one transaction), publish it   *)
(* row by row over HTTP (no transaction), and record the outcomes, each in  *)
(* a transaction that does not check that the claim is still theirs.       *)
(* Consumers list published messages and drive each through the inbox: a   *)
(* receipt, a re-read of the owner's projection, completion.               *)
(*                                                                         *)
(* Message m announces revision m of one projection; its number is also    *)
(* its record_id.                                                          *)
(***************************************************************************)
EXTENDS FiniteSetsExt

CONSTANTS
    MaxRev,         \* bound: transitions, hence messages
    Dispatchers,    \* concurrent dispatcher loops
    Consumers,      \* concurrent inbox loops
    BatchSize,      \* LIMIT of the dispatcher's claim
    ScanSize,       \* LIMIT of the inbox's scan
    Lease,          \* _CLAIM_LEASE_SECONDS, in ticks
    MaxAttempts,    \* _MAX_ATTEMPTS
    MaxRedrives,    \* p_max_redrives
    MigratedFresh   \* all migrations ran at once, on an empty database

ASSUME LimitAssumption ==
    /\ MaxRev \in Nat /\ BatchSize \in Nat \ {0} /\ ScanSize \in Nat \ {0}
    /\ Lease \in Nat \ {0}
    /\ MaxAttempts \in Nat \ {0}
    /\ MaxRedrives \in Nat
ASSUME MigrationAssumption == MigratedFresh \in BOOLEAN

Messages == 1 .. MaxRev

VARIABLES
    rev,        \* projection_revision of the owner's projection
    bridge,     \* producer that the installed publish_invalidation writes
    outbox,     \* monitoring_outbox, by record_id
    batch,      \* what each dispatcher holds in memory, by message
    delivered,  \* messages the webhook has accepted at least once
    receipt,    \* alerting.inbox_receipt, by message
    todo,       \* what each consumer has listed and not processed
    txn         \* the inbox transaction each consumer has open

vars == <<rev, bridge, outbox, batch, delivered, receipt, todo, txn>>
dispatchVars == <<outbox, batch, delivered>>
inboxVars == <<receipt, todo, txn>>

Producers == {"monitoring", "monitoring-transition-bridge"}

OutboxRow == [state : {"absent", "pending", "claimed", "published", "quarantined"},
              left : 0 .. Lease, attempts : 0 .. MaxAttempts,
              redrives : 0 .. MaxRedrives, producer : Producers]

\* Held rows: what the claim read, and what publishing it gave.
Held == [outcome : {"none", "claimed", "ok", "error"}, attempts : 0 .. MaxAttempts]

NotHeld == [outcome |-> "none", attempts |-> 0]

ReceiptRow == [state : {"absent", "completed", "reconciliation_required",
                        "quarantined"},
               seen : 0 .. MaxRev]

NoTxn == [msg |-> 0, seen |-> 0]

TypeOK ==
    /\ rev \in 0 .. MaxRev
    /\ bridge \in Producers
    /\ outbox \in [Messages -> OutboxRow]
    /\ batch \in [Dispatchers -> [Messages -> Held]]
    /\ delivered \subseteq Messages
    /\ receipt \in [Messages -> ReceiptRow]
    /\ todo \in [Consumers -> SUBSET Messages]
    /\ txn \in [Consumers -> [msg : 0 .. MaxRev, seen : 0 .. MaxRev]]

-----------------------------------------------------------------------------
(* Appending                                                               *)

NewRow == [state |-> "pending", left |-> 0, attempts |-> 0, redrives |-> 0,
           producer |-> bridge]

\* Faulty variant: the message is appended ahead of the transition.
AppendAhead ==
    /\ rev < MaxRev
    /\ IF outbox[rev + 1].state = "absent"
       THEN outbox' = [outbox EXCEPT ![rev + 1] = NewRow] /\ UNCHANGED rev
       ELSE rev' = rev + 1 /\ UNCHANGED outbox
    /\ UNCHANGED <<bridge, batch, delivered, inboxVars>>

\* AFTER INSERT trigger on the transition table: the same transaction moves
\* the projection and appends the message.
Append ==
    /\ rev < MaxRev
    /\ rev' = rev + 1
    /\ outbox' = [outbox EXCEPT ![rev + 1] = NewRow]
    /\ UNCHANGED <<bridge, batch, delivered, inboxVars>>

\* migrate.py applies each file of sql/ once, in path order, so on an empty
\* database z_integration/001 redefines the bridge after monitoring/017.  A
\* database that already ran 001 gets 017's definition when it is upgraded.
UpgradeBridge ==
    /\ ~MigratedFresh
    /\ bridge' = "monitoring"
    /\ UNCHANGED <<rev, dispatchVars, inboxVars>>

-----------------------------------------------------------------------------
(* Dispatching                                                             *)

IdleDispatcher(d) == \A m \in Messages : batch[d][m] = NotHeld

\* Faulty variant: expired leases are not taken over.
DuePendingOnly == {m \in Messages : outbox[m].state = "pending"}

\* pending, or claimed by someone whose lease has run out.
Due == {m \in Messages : \/ outbox[m].state = "pending"
                         \/ outbox[m].state = "claimed" /\ outbox[m].left = 0}

\* ORDER BY record_id LIMIT size.
Oldest(rows, size) == {m \in rows : Cardinality({n \in rows : n < m}) < size}

NextBatch == Oldest(Due, BatchSize)

\* Attempts are indistinguishable from MaxAttempts on.
OneMore(a) == IF a < MaxAttempts THEN a + 1 ELSE a

\* Faulty variant: the claim does not count as an attempt.
ClaimedUncounted(row) == [row EXCEPT !.state = "claimed", !.left = Lease]

ClaimedRow(row) ==
    [row EXCEPT !.state = "claimed", !.left = Lease, !.attempts = OneMore(@)]

\* Phase 1: claim and commit.  The number of attempts is the one read before.
ClaimBatch(d) ==
    /\ IdleDispatcher(d)
    /\ NextBatch # {}
    /\ batch' = [batch EXCEPT ![d] =
                   [m \in Messages |->
                      IF m \in NextBatch
                      THEN [outcome |-> "claimed", attempts |-> outbox[m].attempts]
                      ELSE NotHeld]]
    /\ outbox' = [m \in Messages |-> IF m \in NextBatch THEN ClaimedRow(outbox[m])
                                                       ELSE outbox[m]]
    /\ UNCHANGED <<rev, bridge, delivered, inboxVars>>

Unsent(d) == {m \in Messages : batch[d][m].outcome = "claimed"}

\* Phase 2: one POST, in record order.  An error may hide a delivery.
Publish(d) ==
    /\ Unsent(d) # {}
    /\ LET m == Min(Unsent(d)) IN
       \E result \in {"ok", "lost", "timed_out"} :
         /\ batch' = [batch EXCEPT ![d][m].outcome =
                        IF result = "ok" THEN "ok" ELSE "error"]
         /\ delivered' = IF result = "lost" THEN delivered ELSE delivered \cup {m}
    /\ UNCHANGED <<rev, bridge, outbox, inboxVars>>

Sent(d) == {m \in Messages : batch[d][m].outcome \in {"ok", "error"}}

\* Faulty variants: one attempt too few; every outcome taken for a success.
RecordedEarly(row, held) ==
    [row EXCEPT !.left = 0,
                !.state = IF held.outcome = "ok" THEN "published"
                          ELSE IF held.attempts + 2 >= MaxAttempts THEN "quarantined"
                          ELSE "pending"]
RecordedAsSent(row, held) == [row EXCEPT !.state = "published", !.left = 0]

Recorded(row, held) ==
    [row EXCEPT !.left = 0,
                !.state = IF held.outcome = "ok" THEN "published"
                          ELSE IF held.attempts + 1 >= MaxAttempts THEN "quarantined"
                          ELSE "pending"]

\* Phase 3, once all is sent: each row in a transaction of its own (with no
\* transaction open, conn.transaction() is one), and a row whose update fails
\* is skipped.  Nothing checks that the claim is still this dispatcher's.
Recording(d, m) == Unsent(d) = {} /\ Sent(d) # {} /\ m = Min(Sent(d))

RecordOutcome(d, m) ==
    /\ Recording(d, m)
    /\ outbox' = [outbox EXCEPT ![m] = Recorded(@, batch[d][m])]
    /\ batch' = [batch EXCEPT ![d][m] = NotHeld]
    /\ UNCHANGED <<rev, bridge, delivered, inboxVars>>

SkipOutcome(d, m) ==
    /\ Recording(d, m)
    /\ batch' = [batch EXCEPT ![d][m] = NotHeld]
    /\ UNCHANGED <<rev, bridge, outbox, delivered, inboxVars>>

\* The dispatcher dies between two of its steps.
DispatcherFails(d) ==
    /\ ~IdleDispatcher(d)
    /\ batch' = [batch EXCEPT ![d] = [m \in Messages |-> NotHeld]]
    /\ UNCHANGED <<rev, bridge, outbox, delivered, inboxVars>>

Redriven(row) == [row EXCEPT !.state = "pending", !.left = 0, !.attempts = 0,
                             !.redrives = @ + 1]

\* Faulty variant: redrives are not bounded.
RedriveUncapped(m) ==
    /\ outbox[m].state = "quarantined"
    /\ outbox' = [outbox EXCEPT ![m] = Redriven(@)]
    /\ UNCHANGED <<rev, bridge, batch, delivered, inboxVars>>

\* monitoring.redrive_outbox_message.
Redrive(m) ==
    /\ outbox[m].state = "quarantined"
    /\ outbox[m].redrives < MaxRedrives
    /\ outbox' = [outbox EXCEPT ![m] = Redriven(@)]
    /\ UNCHANGED <<rev, bridge, batch, delivered, inboxVars>>

Tick ==
    /\ outbox' = [m \in Messages |->
                    [outbox[m] EXCEPT !.left = IF @ > 0 THEN @ - 1 ELSE 0]]
    /\ UNCHANGED <<rev, bridge, batch, delivered, inboxVars>>

-----------------------------------------------------------------------------
(* The inbox                                                               *)

EnvelopeValid(m) == outbox[m].producer = "monitoring"

\* The rows a consumer's scan selects.  (received and processing exist only
\* inside the inbox transaction.)
Awaiting == {m \in Messages :
               /\ outbox[m].state = "published"
               /\ receipt[m].state \in {"absent", "reconciliation_required"}}

Scan(c) ==
    /\ todo[c] = {}
    /\ Awaiting # {}
    /\ todo' = [todo EXCEPT ![c] = Oldest(Awaiting, ScanSize)]
    /\ UNCHANGED <<rev, bridge, dispatchVars, receipt, txn>>

\* Faulty variant: nothing keeps two consumers off one receipt.
NeverLocked(c, m) == FALSE

\* The receipt row is locked by another consumer's open transaction.
Locked(c, m) == \E b \in Consumers \ {c} : txn[b].msg = m

Handling(c, m) ==
    /\ todo[c] # {}
    /\ m = Min(todo[c])

Processed(c, m) == todo' = [todo EXCEPT ![c] = @ \ {m}]

\* An invalid envelope is quarantined, unless a receipt exists.
RefuseEnvelope(c, m) ==
    /\ Handling(c, m) /\ txn[c] = NoTxn /\ ~Locked(c, m)
    /\ ~EnvelopeValid(m)
    /\ receipt' = IF receipt[m].state = "absent"
                  THEN [receipt EXCEPT ![m].state = "quarantined"] ELSE receipt
    /\ Processed(c, m)
    /\ UNCHANGED <<rev, bridge, dispatchVars, txn>>

AlreadyHandled(m) == receipt[m].state \in {"completed", "quarantined"}

\* A duplicate delivery changes nothing.
ObserveDuplicate(c, m) ==
    /\ Handling(c, m) /\ txn[c] = NoTxn /\ ~Locked(c, m)
    /\ EnvelopeValid(m) /\ AlreadyHandled(m)
    /\ Processed(c, m)
    /\ UNCHANGED <<rev, bridge, dispatchVars, receipt, txn>>

\* The owner's projection is read again; its revision counts, not the event's.
\* 0 is the NULL of a projection that is missing.  Messages come with their
\* transition, and no code deletes a projection or a source: there is one.
Reread(m) == rev

\* Receipt created or claimed, projection re-read; not committed yet.
BeginResync(c, m) ==
    /\ Handling(c, m) /\ txn[c] = NoTxn /\ ~Locked(c, m)
    /\ EnvelopeValid(m) /\ ~AlreadyHandled(m)
    /\ txn' = [txn EXCEPT ![c] = [msg |-> m, seen |-> Reread(m)]]
    /\ UNCHANGED <<rev, bridge, dispatchVars, receipt, todo>>

CompleteResync(c) ==
    LET m == txn[c].msg IN
    /\ m # 0
    /\ receipt' = [receipt EXCEPT ![m] = [state |-> "completed", seen |-> txn[c].seen]]
    /\ txn' = [txn EXCEPT ![c] = NoTxn]
    /\ Processed(c, m)
    /\ UNCHANGED <<rev, bridge, dispatchVars>>

\* An exception while handling m: rollback, then the receipt, if there is one
\* by now, is marked whatever its state.
ConsumerErrs(c, m) ==
    /\ Handling(c, m)
    /\ receipt[m].state # "absent" => ~Locked(c, m)
    /\ receipt' = IF receipt[m].state = "absent" THEN receipt
                  ELSE [receipt EXCEPT ![m].state = "reconciliation_required"]
    /\ txn' = [txn EXCEPT ![c] = NoTxn]
    /\ Processed(c, m)
    /\ UNCHANGED <<rev, bridge, dispatchVars>>

ConsumerCrashes(c) ==
    /\ todo[c] # {}
    /\ todo' = [todo EXCEPT ![c] = {}]
    /\ txn' = [txn EXCEPT ![c] = NoTxn]
    /\ UNCHANGED <<rev, bridge, dispatchVars, receipt>>

-----------------------------------------------------------------------------

Init ==
    /\ rev = 0
    /\ bridge = "monitoring-transition-bridge"
    /\ outbox = [m \in Messages |-> [NewRow EXCEPT !.state = "absent"]]
    /\ batch = [d \in Dispatchers |-> [m \in Messages |-> NotHeld]]
    /\ delivered = {}
    /\ receipt = [m \in Messages |-> [state |-> "absent", seen |-> 0]]
    /\ todo = [c \in Consumers |-> {}]
    /\ txn = [c \in Consumers |-> NoTxn]

DispatcherStep(d) ==
    \/ ClaimBatch(d)
    \/ Publish(d)
    \/ \E m \in Messages : RecordOutcome(d, m) \/ SkipOutcome(d, m)
    \/ DispatcherFails(d)

ConsumerSettles(c) ==
    \/ Scan(c)
    \/ \E m \in Messages : RefuseEnvelope(c, m) \/ ObserveDuplicate(c, m)
                              \/ BeginResync(c, m)
    \/ CompleteResync(c)

ConsumerFails(c) ==
    \/ \E m \in Messages : ConsumerErrs(c, m)
    \/ ConsumerCrashes(c)

ConsumerStep(c) == ConsumerSettles(c) \/ ConsumerFails(c)

Next ==
    \/ Append
    \/ UpgradeBridge
    \/ \E d \in Dispatchers : DispatcherStep(d)
    \/ \E m \in Messages : Redrive(m)
    \/ Tick
    \/ \E c \in Consumers : ConsumerStep(c)

Spec == Init /\ [][Next]_vars

\* Loops poll for ever, leases run out, and from some time on processes are
\* not killed in the middle of their work.
Fairness ==
    /\ WF_vars(Tick)
    /\ \A d \in Dispatchers : /\ WF_vars(ClaimBatch(d))
                              /\ WF_vars(Publish(d))
                              /\ \A m \in Messages : SF_vars(RecordOutcome(d, m))
                              /\ <>[][~DispatcherFails(d)]_vars
    /\ \A c \in Consumers : /\ WF_vars(ConsumerSettles(c))
                            /\ <>[][~ConsumerFails(c)]_vars

FairSpec == Spec /\ Fairness

-----------------------------------------------------------------------------
(* Properties                                                              *)

\* A row is published only if the webhook accepted the message, however late,
\* repeated or overtaken the dispatcher that says so is.
PublishedWasDelivered ==
    \A m \in Messages : outbox[m].state = "published" => m \in delivered

\* Until an operator redrives it, a message is dead-lettered only after
\* MaxAttempts claims, whoever made them.
QuarantineAfterCap ==
    \A m \in Messages :
        outbox[m].state = "quarantined" /\ outbox[m].redrives = 0
            => outbox[m].attempts = MaxAttempts

\* A completed receipt has seen at least the revision its message announces:
\* the transition was committed before the message could be read.
ResyncSeesTransition ==
    \A m \in Messages : receipt[m].state = "completed" => receipt[m].seen >= m

\* The newest revision Alerting has re-read.
Known == Max({0} \cup {receipt[m].seen : m \in Messages})

Knowledge == INSTANCE Invalidation WITH known <- Known

\* The transport implements the invalidation protocol: what Alerting knows is
\* a revision the owner had, and never goes back.
ImplementsInvalidation == Knowledge!Spec

\* Dispatch terminates: no message is claimed and retried for ever.
DispatchSettles ==
    \A m \in Messages :
        <>[](outbox[m].state \in {"absent", "published", "quarantined"})

\* Every transition becomes known to Alerting, or its message is dead-lettered
\* by the dispatcher or refused by the inbox.
CatchesUp ==
    \A m \in Messages :
        (rev >= m) ~> (\/ Known >= m
                       \/ outbox[m].state = "quarantined"
                       \/ receipt[m].state = "quarantined")
=============================================================================
