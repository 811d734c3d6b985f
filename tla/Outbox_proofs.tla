---------------------------- MODULE Outbox_proofs ----------------------------
(***************************************************************************)
(* Theorems about Outbox, for every value of its constants.                *)
(***************************************************************************)
EXTENDS Outbox, WellFoundedInduction, TLAPS

-----------------------------------------------------------------------------
(* Least and greatest members of sets of numbers                           *)

LEMMA LeastExists ==
  ASSUME NEW T \in SUBSET Nat, T # {}
  PROVE  \E x \in T : \A y \in T : x <= y
<1> DEFINE R == OpToRel(<, Nat)
<1>1. \E x \in T : \A y \in T : ~(<<y, x>> \in R)
  BY NatLessThanWellFounded, WFMin, Zenon
<1>2. ASSUME NEW x \in Nat, NEW y \in Nat, y < x
      PROVE  <<y, x>> \in R
  <2>1. <<y, x>> \in Nat \X Nat /\ <<y, x>>[1] = y /\ <<y, x>>[2] = x
    OBVIOUS
  <2>2. QED
    BY <1>2, <2>1, Zenon DEF OpToRel
<1> HIDE DEF R
<1>3. PICK x \in T : \A y \in T : ~(<<y, x>> \in R)
  BY <1>1
<1>4. ASSUME NEW y \in T PROVE x <= y
  <2>1. x \in Nat /\ y \in Nat /\ ~(y < x)
    BY <1>2, <1>3
  <2>2. QED
    BY <2>1
<1>5. QED
  BY <1>4

LEMMA MinExists ==
  ASSUME NEW S \in SUBSET Nat, S # {}
  PROVE  Min(S) \in S
<1>1. \E x \in S : \A y \in S : x <= y
  BY LeastExists
<1>2. QED
  BY <1>1 DEF Min

LEMMA MaxExists ==
  ASSUME NEW S \in SUBSET Nat, S # {}, NEW b \in Nat, \A x \in S : x <= b
  PROVE  Max(S) \in S /\ \A x \in S : x <= Max(S)
<1> DEFINE T == {n \in Nat : \A x \in S : x <= n}
<1>1. PICK u \in T : \A y \in T : u <= y
  <2>1. T \in SUBSET Nat /\ T # {}
    OBVIOUS
  <2> HIDE DEF T
  <2>2. QED
    BY <2>1, LeastExists
<1>2. u \in S
  <2>1. SUFFICES ASSUME u \notin S PROVE FALSE
    OBVIOUS
  <2>2. \A x \in S : x < u /\ x <= u - 1 /\ u - 1 \in Nat
    BY <1>1, <2>1
  <2>3. u - 1 \in T
    BY <2>2
  <2>4. QED
    BY <1>1, <2>3
<1>3. \E x \in S : \A y \in S : x >= y
  BY <1>1, <1>2
<1>4. QED
  BY <1>3 DEF Max

-----------------------------------------------------------------------------
(* Row operators keep rows well typed                                      *)

LEMMA Bounds ==
  /\ 0 \in 0 .. Lease /\ Lease \in 0 .. Lease
  /\ 0 \in 0 .. MaxAttempts /\ 0 \in 0 .. MaxRedrives /\ 0 \in 0 .. MaxRev
  /\ \A l \in 0 .. Lease : l > 0 => l - 1 \in 0 .. Lease
  BY LimitAssumption

LEMMA NewRowTyped ==
  ASSUME bridge \in Producers
  PROVE  /\ NewRow \in OutboxRow
         /\ [NewRow EXCEPT !.state = "absent"] \in OutboxRow
  BY Bounds DEF NewRow, OutboxRow

LEMMA OneMoreBounded ==
  ASSUME NEW a \in 0 .. MaxAttempts
  PROVE  OneMore(a) \in 0 .. MaxAttempts /\ a <= OneMore(a)
  BY LimitAssumption DEF OneMore

LEMMA ClaimedRowTyped ==
  ASSUME NEW row \in OutboxRow
  PROVE  ClaimedRow(row) \in OutboxRow
<1>1. row.attempts \in 0 .. MaxAttempts
  BY DEF OutboxRow
<1>2. OneMore(row.attempts) \in 0 .. MaxAttempts
  BY <1>1, OneMoreBounded
<1>3. QED
  BY <1>2, Bounds DEF ClaimedRow, OutboxRow

LEMMA RecordedTyped ==
  ASSUME NEW row \in OutboxRow, NEW held \in Held
  PROVE  Recorded(row, held) \in OutboxRow
  BY Bounds DEF Recorded, OutboxRow

LEMMA NotHeldTyped == NotHeld \in Held
  BY Bounds DEF NotHeld, Held

LEMMA BatchesAreMessages ==
  /\ NextBatch \subseteq Messages
  /\ \A m \in NextBatch : outbox[m].state \in {"pending", "claimed"}
  BY DEF NextBatch, Oldest, Due

LEMMA ScansAreMessages ==
  /\ Oldest(Awaiting, ScanSize) \subseteq Messages
  /\ \A m \in Oldest(Awaiting, ScanSize) : outbox[m].state = "published"
  BY DEF Oldest, Awaiting

LEMMA NextUnsent ==
  ASSUME NEW d \in Dispatchers, Unsent(d) # {}
  PROVE  Min(Unsent(d)) \in Unsent(d)
<1>1. Unsent(d) \in SUBSET Nat
  BY LimitAssumption DEF Unsent, Messages
<1>2. QED
  BY <1>1, MinExists

-----------------------------------------------------------------------------
(* Type correctness                                                        *)

LEMMA InitTyped == Init => TypeOK
  BY NewRowTyped, NotHeldTyped, LimitAssumption
  DEF Init, TypeOK, Messages, ReceiptRow, NoTxn, Producers

LEMMA DispatcherTyped ==
  ASSUME TypeOK, NEW d \in Dispatchers, DispatcherStep(d)
  PROVE  TypeOK'
<1>1. CASE ClaimBatch(d)
  <2>1. outbox' \in [Messages -> OutboxRow]
    BY <1>1, ClaimedRowTyped DEF ClaimBatch, TypeOK
  <2>2. \A m \in Messages : [outcome |-> "claimed", attempts |-> outbox[m].attempts]
                               \in Held
    BY DEF TypeOK, OutboxRow, Held
  <2>3. batch' \in [Dispatchers -> [Messages -> Held]]
    BY <1>1, <2>2, NotHeldTyped DEF ClaimBatch, TypeOK
  <2>4. QED
    BY <1>1, <2>1, <2>3 DEF ClaimBatch, TypeOK, inboxVars
<1>2. CASE Publish(d)
  <2>1. Min(Unsent(d)) \in Messages
    BY <1>2, NextUnsent DEF Publish, Unsent
  <2> DEFINE m == Min(Unsent(d))
  <2>2. batch' \in [Dispatchers -> [Messages -> Held]]
    <3>1. PICK o \in {"ok", "error"} : batch' = [batch EXCEPT ![d][m].outcome = o]
      BY <1>2 DEF Publish
    <3>2. [batch[d][m] EXCEPT !.outcome = o] \in Held
      <4>1. batch[d][m] \in Held
        BY <2>1 DEF TypeOK
      <4> DEFINE held == batch[d][m]
      <4> HIDE DEF held
      <4>2. [held EXCEPT !.outcome = o] \in Held
        BY <4>1 DEF held, Held
      <4>3. QED
        BY <4>2 DEF held
    <3>3. QED
      BY <2>1, <3>1, <3>2 DEF TypeOK
  <2>3. QED
    BY <1>2, <2>1, <2>2 DEF Publish, TypeOK, inboxVars
<1>3. CASE \E m \in Messages : RecordOutcome(d, m)
  <2>1. PICK m \in Messages : RecordOutcome(d, m)
    BY <1>3
  <2>2. Recorded(outbox[m], batch[d][m]) \in OutboxRow
    BY RecordedTyped DEF TypeOK
  <2>3. QED
    BY <2>1, <2>2, NotHeldTyped DEF RecordOutcome, TypeOK, inboxVars
<1>4. CASE \E m \in Messages : SkipOutcome(d, m)
  BY <1>4, NotHeldTyped DEF SkipOutcome, TypeOK, inboxVars
<1>5. CASE DispatcherFails(d)
  BY <1>5, NotHeldTyped DEF DispatcherFails, TypeOK, inboxVars
<1>6. QED
  BY <1>1, <1>2, <1>3, <1>4, <1>5 DEF DispatcherStep

LEMMA ConsumerTyped ==
  ASSUME TypeOK, NEW c \in Consumers, ConsumerStep(c)
  PROVE  TypeOK'
<1>1. NoTxn \in [msg : 0 .. MaxRev, seen : 0 .. MaxRev]
  BY Bounds DEF NoTxn
<1>2. CASE Scan(c)
  BY <1>2, ScansAreMessages DEF Scan, TypeOK, dispatchVars
<1>3. CASE \E m \in Messages : RefuseEnvelope(c, m)
  BY <1>3 DEF RefuseEnvelope, Processed, TypeOK, ReceiptRow, dispatchVars
<1>4. CASE \E m \in Messages : ObserveDuplicate(c, m)
  BY <1>4 DEF ObserveDuplicate, Processed, TypeOK, dispatchVars
<1>5. CASE \E m \in Messages : BeginResync(c, m)
  BY <1>5, LimitAssumption DEF BeginResync, Reread, TypeOK, Messages, dispatchVars
<1>6. CASE CompleteResync(c)
  <2>1. txn[c].msg \in Messages /\ txn[c].seen \in 0 .. MaxRev
    BY <1>6, LimitAssumption DEF CompleteResync, TypeOK, Messages
  <2>2. receipt' \in [Messages -> ReceiptRow]
    BY <1>6, <2>1 DEF CompleteResync, TypeOK, ReceiptRow
  <2>3. QED
    BY <1>1, <1>6, <2>2 DEF CompleteResync, Processed, TypeOK, dispatchVars
<1>7. CASE \E m \in Messages : ConsumerErrs(c, m)
  BY <1>1, <1>7 DEF ConsumerErrs, Processed, TypeOK, ReceiptRow, dispatchVars
<1>8. CASE ConsumerCrashes(c)
  BY <1>1, <1>8 DEF ConsumerCrashes, TypeOK, dispatchVars
<1>9. QED
  BY <1>2, <1>3, <1>4, <1>5, <1>6, <1>7, <1>8
  DEF ConsumerStep, ConsumerSettles, ConsumerFails

LEMMA NextTyped == TypeOK /\ [Next]_vars => TypeOK'
<1> SUFFICES ASSUME TypeOK, [Next]_vars PROVE TypeOK'
  OBVIOUS
<1>1. CASE Append
  BY <1>1, NewRowTyped, LimitAssumption DEF Append, TypeOK, Messages, inboxVars
<1>2. CASE \E m \in Messages : Redrive(m)
  <2>1. PICK m \in Messages : Redrive(m)
    BY <1>2
  <2>2. outbox[m].redrives + 1 \in 0 .. MaxRedrives
    BY <2>1, LimitAssumption DEF Redrive, TypeOK, OutboxRow
  <2>3. outbox' \in [Messages -> OutboxRow]
    <3>1. Redriven(outbox[m]) \in OutboxRow
      <4>1. outbox[m] \in OutboxRow
        BY DEF TypeOK
      <4> DEFINE row == outbox[m]
      <4>2. /\ Redriven(row) = [row EXCEPT !.state = "pending", !.left = 0,
                                            !.attempts = 0, !.redrives = @ + 1]
            /\ row.redrives + 1 \in 0 .. MaxRedrives
        BY <2>2 DEF Redriven
      <4> HIDE DEF row
      <4>3. QED
        BY <4>1, <4>2, Bounds DEF row, OutboxRow
    <3>2. QED
      BY <2>1, <3>1 DEF Redrive, TypeOK
  <2>4. QED
    BY <2>1, <2>3 DEF Redrive, TypeOK, inboxVars
<1>3. CASE Tick
  <2>1. outbox' \in [Messages -> OutboxRow]
    <3>1. ASSUME NEW row \in OutboxRow
          PROVE  [row EXCEPT !.left = IF @ > 0 THEN @ - 1 ELSE 0] \in OutboxRow
      <4>1. (IF row.left > 0 THEN row.left - 1 ELSE 0) \in 0 .. Lease
        BY Bounds DEF OutboxRow
      <4>2. QED
        BY <4>1 DEF OutboxRow
    <3>2. \A m \in Messages : outbox[m] \in OutboxRow
      BY DEF TypeOK
    <3>3. QED
      BY <1>3, <3>1, <3>2 DEF Tick
  <2>2. QED
    BY <1>3, <2>1 DEF Tick, TypeOK, inboxVars
<1>4. CASE UpgradeBridge
  BY <1>4 DEF UpgradeBridge, TypeOK, Producers, dispatchVars, inboxVars
<1>5. CASE UNCHANGED vars
  BY <1>5 DEF vars, TypeOK
<1>6. QED
  BY <1>1, <1>2, <1>3, <1>4, <1>5, DispatcherTyped, ConsumerTyped DEF Next

\* Every value of the tables and of the workers' memories is one the schema
\* admits; in particular no message is redriven more than p_max_redrives
\* times (monitoring.redrive_outbox_message).
THEOREM TypeCorrect == Spec => []TypeOK
  BY InitTyped, NextTyped, PTL DEF Spec

-----------------------------------------------------------------------------
(* What one step may do to one message                                     *)

Reclaimed(m) == /\ outbox[m].state \in {"pending", "claimed"}
                /\ outbox'[m] = ClaimedRow(outbox[m])

Revived(m) == /\ outbox[m].state = "quarantined"
              /\ outbox'[m].state = "pending"
              /\ outbox'[m].redrives = outbox[m].redrives + 1

\* Its row, ...
RowChange(m) ==
  \/ /\ outbox'[m].state = outbox[m].state
     /\ outbox'[m].attempts = outbox[m].attempts
     /\ outbox'[m].redrives = outbox[m].redrives
  \/ m = rev + 1 /\ rev' = m /\ outbox'[m] = NewRow
  \/ Reclaimed(m)
  \/ \E d \in Dispatchers : /\ batch[d][m].outcome \in {"ok", "error"}
                            /\ outbox'[m] = Recorded(outbox[m], batch[d][m])
  \/ Revived(m)

\* ... and what a dispatcher holds of it.
HeldChange(d, m) ==
  \/ batch'[d][m] = batch[d][m]
  \/ batch'[d][m] = NotHeld
  \/ /\ Reclaimed(m)
     /\ batch'[d][m] = [outcome |-> "claimed", attempts |-> outbox[m].attempts]
  \/ /\ batch[d][m].outcome = "claimed"
     /\ batch'[d][m].outcome \in {"ok", "error"}
     /\ batch'[d][m].outcome = "ok" => m \in delivered'
     /\ batch'[d][m].attempts = batch[d][m].attempts
     /\ outbox' = outbox

LEMMA DispatcherSteps ==
  ASSUME TypeOK, NEW e \in Dispatchers, DispatcherStep(e)
  PROVE  /\ \A m \in Messages : RowChange(m)
         /\ \A d \in Dispatchers, m \in Messages : HeldChange(d, m)
         /\ delivered \subseteq delivered'
         /\ UNCHANGED <<rev, inboxVars>>
<1>1. CASE ClaimBatch(e)
  <2>1. ASSUME NEW m \in Messages
        PROVE  RowChange(m)
    BY <1>1, BatchesAreMessages DEF ClaimBatch, TypeOK, RowChange, Reclaimed
  <2>2. ASSUME NEW d \in Dispatchers, NEW m \in Messages
        PROVE  HeldChange(d, m)
    BY <1>1, BatchesAreMessages DEF ClaimBatch, TypeOK, HeldChange, Reclaimed
  <2>3. QED
    BY <1>1, <2>1, <2>2 DEF ClaimBatch
<1>2. CASE Publish(e)
  <2> DEFINE n == Min(Unsent(e))
  <2>1. n \in Messages /\ batch[e][n].outcome = "claimed"
    BY <1>2, NextUnsent DEF Publish, Unsent
  <2> HIDE DEF n
  <2>2. PICK o \in {"ok", "error"} :
          batch' = [batch EXCEPT ![e][n].outcome = o] /\ (o = "ok" => n \in delivered')
    BY <1>2 DEF Publish, n
  <2>3. ASSUME NEW d \in Dispatchers, NEW m \in Messages
        PROVE  HeldChange(d, m)
    <3>1. CASE d = e /\ m = n
      <4>1. batch'[e][n] = [batch[e][n] EXCEPT !.outcome = o]
        BY <2>1, <2>2 DEF TypeOK
      <4>2. batch'[e][n].outcome = o /\ batch'[e][n].attempts = batch[e][n].attempts
        BY <2>1, <4>1 DEF TypeOK, Held
      <4>3. outbox' = outbox
        BY <1>2 DEF Publish
      <4>4. QED
        BY <2>1, <2>2, <3>1, <4>2, <4>3 DEF HeldChange
    <3>2. CASE ~(d = e /\ m = n)
      <4>1. batch'[d][m] = batch[d][m]
        BY <2>1, <2>2, <3>2 DEF TypeOK
      <4>2. QED
        BY <4>1 DEF HeldChange
    <3>3. QED
      BY <3>1, <3>2
  <2>4. QED
    BY <1>2, <2>3 DEF Publish, RowChange
<1>3. CASE \E n \in Messages : RecordOutcome(e, n)
  <2>1. PICK n \in Messages : RecordOutcome(e, n)
    BY <1>3
  <2>2. batch[e][n].outcome \in {"ok", "error"}
    <3>1. Sent(e) \in SUBSET Nat /\ Sent(e) # {} /\ n = Min(Sent(e))
      BY <2>1, LimitAssumption DEF RecordOutcome, Recording, Sent, Messages
    <3>2. n \in Sent(e)
      BY <3>1, MinExists
    <3>3. QED
      BY <3>2 DEF Sent
  <2>3. ASSUME NEW m \in Messages
        PROVE  RowChange(m)
    BY <2>1, <2>2 DEF RecordOutcome, TypeOK, RowChange
  <2>4. ASSUME NEW d \in Dispatchers, NEW m \in Messages
        PROVE  HeldChange(d, m)
    BY <2>1 DEF RecordOutcome, TypeOK, HeldChange
  <2>5. QED
    BY <2>1, <2>3, <2>4 DEF RecordOutcome
<1>4. CASE \E n \in Messages : SkipOutcome(e, n)
  BY <1>4 DEF SkipOutcome, TypeOK, RowChange, HeldChange
<1>5. CASE DispatcherFails(e)
  BY <1>5 DEF DispatcherFails, TypeOK, RowChange, HeldChange
<1>6. QED
  BY <1>1, <1>2, <1>3, <1>4, <1>5 DEF DispatcherStep

LEMMA ConsumersLeaveOutbox ==
  ASSUME NEW c \in Consumers, ConsumerStep(c)
  PROVE  UNCHANGED <<rev, dispatchVars>>
  BY DEF ConsumerStep, ConsumerSettles, ConsumerFails, Scan, RefuseEnvelope,
         ObserveDuplicate, BeginResync, CompleteResync, ConsumerErrs, ConsumerCrashes

LEMMA MessageSteps ==
  ASSUME TypeOK, [Next]_vars
  PROVE  /\ \A m \in Messages : RowChange(m)
         /\ \A d \in Dispatchers, m \in Messages : HeldChange(d, m)
         /\ delivered \subseteq delivered'
         /\ rev <= rev' /\ \A m \in Messages : m <= rev' => m <= rev \/ outbox'[m] = NewRow
<1>1. CASE Append
  BY <1>1 DEF Append, TypeOK, RowChange, HeldChange, Messages
<1>2. CASE \E m \in Messages : Redrive(m)
  <2>1. PICK m \in Messages : Redrive(m)
    BY <1>2
  <2>2. outbox'[m] = Redriven(outbox[m]) /\ \A n \in Messages \ {m} : outbox'[n] = outbox[n]
    BY <2>1 DEF Redrive, TypeOK
  <2>3. \A n \in Messages : RowChange(n)
    BY <2>1, <2>2 DEF Redrive, Redriven, TypeOK, OutboxRow, RowChange, Revived
  <2>4. QED
    BY <2>1, <2>3, <2>2 DEF Redrive, TypeOK, HeldChange
<1>3. CASE Tick
  BY <1>3 DEF Tick, TypeOK, OutboxRow, RowChange, HeldChange
<1>4. CASE \E d \in Dispatchers : DispatcherStep(d)
  BY <1>4, DispatcherSteps DEF TypeOK
<1>5. CASE UNCHANGED <<rev, dispatchVars>>
  BY <1>5 DEF dispatchVars, TypeOK, RowChange, HeldChange
<1>6. QED
  BY <1>1, <1>2, <1>3, <1>4, <1>5, ConsumersLeaveOutbox
  DEF Next, UpgradeBridge, vars, dispatchVars
-----------------------------------------------------------------------------
(* The outbox                                                              *)

\* Rows exist for the transitions that happened, and only those are held.
Appended ==
  /\ \A m \in Messages : outbox[m].state = "absent" <=> m > rev
  /\ \A d \in Dispatchers, m \in Messages : batch[d][m].outcome # "none" => m <= rev

LEMMA HeldAreAppended ==
  ASSUME TypeOK, Appended, [Next]_vars, NEW d \in Dispatchers, NEW m \in Messages,
         batch'[d][m].outcome # "none"
  PROVE  m <= rev
<1>1. HeldChange(d, m)
  BY MessageSteps
<1>2. batch[d][m].outcome # "none" \/ Reclaimed(m)
  BY <1>1 DEF HeldChange, NotHeld
<1>3. CASE Reclaimed(m)
  <2>1. ~(m > rev)
    BY <1>3 DEF Appended, Reclaimed
  <2>2. QED
    BY <2>1, LimitAssumption DEF TypeOK, Messages
<1>4. QED
  BY <1>2, <1>3 DEF Appended

LEMMA AppendedHolds == Spec => []Appended
<1>1. Init => Appended
  BY DEF Init, Appended, NewRow, NotHeld, Messages
<1>2. TypeOK /\ Appended /\ [Next]_vars => Appended'
  <2> SUFFICES ASSUME TypeOK, Appended, [Next]_vars PROVE Appended'
    OBVIOUS
  <2>1. rev \in Nat /\ rev' \in Nat
    BY NextTyped, LimitAssumption DEF TypeOK
  <2>2. ASSUME NEW m \in Messages
        PROVE  outbox'[m].state = "absent" <=> m > rev'
    <3>1. m \in Nat
      BY LimitAssumption DEF Messages
    <3>2. outbox'[m].state = "absent" => m > rev'
      <4> SUFFICES ASSUME outbox'[m].state = "absent" PROVE m > rev'
        OBVIOUS
      <4>1. outbox[m] \in OutboxRow
        BY DEF TypeOK
      <4>2. outbox'[m] # NewRow
        BY DEF NewRow
      <4>3. outbox'[m].state = outbox[m].state
        BY <4>1, <4>2, MessageSteps
        DEF RowChange, Reclaimed, ClaimedRow, Revived, Recorded, OutboxRow
      <4>4. m > rev
        BY <4>3 DEF Appended
      <4>5. QED
        BY <2>1, <3>1, <4>2, <4>4, MessageSteps
    <3>3. m > rev' => outbox'[m].state = "absent"
      <4> SUFFICES ASSUME m > rev' PROVE outbox'[m].state = "absent"
        OBVIOUS
      <4>1. m > rev /\ m # rev'
        BY <2>1, <3>1, MessageSteps
      <4>2. outbox[m].state = "absent"
        BY <4>1 DEF Appended
      <4>3. \A d \in Dispatchers : batch[d][m].outcome = "none"
        BY <2>1, <3>1, <4>1 DEF Appended
      <4>4. QED
        BY <4>1, <4>2, <4>3, MessageSteps DEF RowChange, Reclaimed, Revived
    <3>4. QED
      BY <3>2, <3>3
  <2>3. ASSUME NEW d \in Dispatchers, NEW m \in Messages, batch'[d][m].outcome # "none"
        PROVE  m <= rev'
    <3>1. m \in Nat
      BY LimitAssumption DEF Messages
    <3>2. m <= rev
      BY <2>3, HeldAreAppended
    <3>3. QED
      BY <2>1, <3>1, <3>2, MessageSteps
  <2>4. QED
    BY <2>2, <2>3 DEF Appended
<1>3. QED
  BY <1>1, <1>2, TypeCorrect, PTL DEF Spec

\* A dispatcher that reports a success was answered by the webhook.
Acknowledged ==
  \A d \in Dispatchers, m \in Messages : batch[d][m].outcome = "ok" => m \in delivered

\* A message shown as published was accepted by the webhook at least once,
\* although the update of _publish_durable's third phase does not check that
\* the claim it reports on still stands.
THEOREM PublishedOnlyIfDelivered == Spec => []PublishedWasDelivered
<1> DEFINE Inv == Acknowledged /\ PublishedWasDelivered
<1>1. Init => Inv
  BY DEF Init, Acknowledged, PublishedWasDelivered, NewRow, NotHeld
<1>2. TypeOK /\ Inv /\ [Next]_vars => Inv'
  <2> SUFFICES ASSUME TypeOK, Inv, [Next]_vars PROVE Inv'
    OBVIOUS
  <2>1. ASSUME NEW d \in Dispatchers, NEW m \in Messages, batch'[d][m].outcome = "ok"
        PROVE  m \in delivered'
    <3>1. HeldChange(d, m) /\ delivered \subseteq delivered'
      BY MessageSteps
    <3>2. batch[d][m].outcome = "ok" \/ m \in delivered'
      BY <2>1, <3>1 DEF HeldChange, NotHeld
    <3>3. QED
      BY <3>1, <3>2 DEF Acknowledged
  <2>2. ASSUME NEW m \in Messages, outbox'[m].state = "published"
        PROVE  m \in delivered'
    <3>1. outbox[m] \in OutboxRow
      BY DEF TypeOK
    <3>2. RowChange(m) /\ delivered \subseteq delivered'
      BY MessageSteps
    <3>3. ASSUME NEW d \in Dispatchers, outbox'[m] = Recorded(outbox[m], batch[d][m])
          PROVE  batch[d][m].outcome = "ok"
      BY <2>2, <3>1, <3>3 DEF Recorded, OutboxRow
    <3>4. ASSUME Reclaimed(m)
          PROVE  FALSE
      BY <2>2, <3>1, <3>4 DEF Reclaimed, ClaimedRow, OutboxRow
    <3>5. \/ outbox[m].state = "published"
          \/ \E d \in Dispatchers : batch[d][m].outcome = "ok"
      BY <2>2, <3>2, <3>3, <3>4 DEF RowChange, Revived, NewRow
    <3>6. QED
      BY <3>2, <3>5 DEF Acknowledged, PublishedWasDelivered
  <2>3. QED
    BY <2>1, <2>2 DEF Acknowledged, PublishedWasDelivered
<1>3. QED
  BY <1>1, <1>2, TypeCorrect, PTL DEF Spec

\* A dispatcher's count is behind the row's by no more than it should be.
Counted ==
  \A d \in Dispatchers, m \in Messages :
    batch[d][m].outcome # "none" /\ outbox[m].redrives = 0
      => OneMore(batch[d][m].attempts) <= outbox[m].attempts

\* Dispatchers that overtake one another never dead-letter a message sooner
\* than _MAX_ATTEMPTS claims; a redrive is what breaks this (see FreshBudget).
THEOREM QuarantinedAfterCap == Spec => []QuarantineAfterCap
<1> DEFINE Inv == Counted /\ QuarantineAfterCap
<1>1. Init => Inv
  BY DEF Init, Counted, QuarantineAfterCap, NewRow, NotHeld
<1>2. TypeOK /\ TypeOK' /\ Appended /\ Inv /\ [Next]_vars => Inv'
  <2> SUFFICES ASSUME TypeOK, TypeOK', Appended, Inv, [Next]_vars PROVE Inv'
    OBVIOUS
  <2>1. ASSUME NEW m \in Messages
        PROVE  outbox[m] \in OutboxRow /\ RowChange(m) /\ m \in Nat /\ rev \in Nat
    BY MessageSteps, LimitAssumption DEF TypeOK, Messages
  <2>2. ASSUME NEW m \in Messages, outbox'[m].redrives = 0, m <= rev
        PROVE  /\ outbox[m].redrives = 0
               /\ outbox[m].attempts <= outbox'[m].attempts
    <3>1. /\ outbox[m].attempts <= outbox[m].attempts
          /\ outbox[m].redrives + 1 # 0
          /\ m # rev + 1
      BY <2>1, <2>2, LimitAssumption DEF OutboxRow
    <3>2. outbox[m].attempts <= OneMore(outbox[m].attempts)
      BY <2>1, OneMoreBounded DEF OutboxRow
    <3>3. CASE Reclaimed(m)
      BY <2>1, <2>2, <3>2, <3>3 DEF Reclaimed, ClaimedRow, OutboxRow
    <3>4. ASSUME NEW d \in Dispatchers, outbox'[m] = Recorded(outbox[m], batch[d][m])
          PROVE  /\ outbox'[m].redrives = outbox[m].redrives
                 /\ outbox'[m].attempts = outbox[m].attempts
      BY <2>1, <3>4 DEF Recorded, OutboxRow
    <3>5. QED
      BY <2>1, <2>2, <3>1, <3>3, <3>4 DEF RowChange, Revived
  <2>3. ASSUME NEW d \in Dispatchers, NEW m \in Messages,
               batch'[d][m].outcome # "none", outbox'[m].redrives = 0
        PROVE  OneMore(batch'[d][m].attempts) <= outbox'[m].attempts
    <3>1. outbox[m].redrives = 0 /\ outbox[m].attempts <= outbox'[m].attempts
      BY <2>2, <2>3, HeldAreAppended
    <3>2. /\ OneMore(batch[d][m].attempts) \in Nat
          /\ outbox[m].attempts \in Nat /\ outbox'[m].attempts \in Nat
          /\ OneMore(outbox[m].attempts) \in Nat
      BY OneMoreBounded, LimitAssumption DEF TypeOK, OutboxRow, Held
    <3>3. HeldChange(d, m)
      BY MessageSteps
    <3>4. CASE Reclaimed(m) /\ batch'[d][m] = [outcome |-> "claimed",
                                              attempts |-> outbox[m].attempts]
      <4>1. outbox'[m].attempts = OneMore(outbox[m].attempts)
        BY <2>1, <3>4 DEF Reclaimed, ClaimedRow, OutboxRow
      <4>2. QED
        BY <3>2, <3>4, <4>1
    <3>5. CASE /\ batch[d][m].outcome # "none"
               /\ batch'[d][m].attempts = batch[d][m].attempts
      BY <3>1, <3>2, <3>5 DEF Counted
    <3>6. QED
      BY <2>3, <3>3, <3>4, <3>5 DEF HeldChange, NotHeld
  <2>4. ASSUME NEW m \in Messages,
               outbox'[m].state = "quarantined", outbox'[m].redrives = 0
        PROVE  outbox'[m].attempts = MaxAttempts
    <3>1. ASSUME NEW d \in Dispatchers, batch[d][m].outcome \in {"ok", "error"},
                 outbox'[m] = Recorded(outbox[m], batch[d][m])
          PROVE  outbox'[m].attempts = MaxAttempts
      <4>1. /\ batch[d][m].outcome = "error"
            /\ batch[d][m].attempts + 1 >= MaxAttempts
            /\ outbox'[m].attempts = outbox[m].attempts
            /\ outbox'[m].redrives = outbox[m].redrives
        BY <2>1, <2>4, <3>1 DEF Recorded, OutboxRow
      <4>2. batch[d][m].attempts \in 0 .. MaxAttempts /\ outbox[m].attempts \in 0 .. MaxAttempts
        BY DEF TypeOK, Held, OutboxRow
      <4>3. OneMore(batch[d][m].attempts) = MaxAttempts
        BY <4>1, <4>2, LimitAssumption DEF OneMore
      <4>4. OneMore(batch[d][m].attempts) <= outbox[m].attempts
        BY <2>4, <4>1 DEF Counted
      <4>5. QED
        BY <4>1, <4>2, <4>3, <4>4, LimitAssumption
    <3>2. ASSUME Reclaimed(m)
          PROVE  FALSE
      BY <2>1, <2>4, <3>2 DEF Reclaimed, ClaimedRow, OutboxRow
    <3>3. QED
      BY <2>1, <2>4, <3>1, <3>2 DEF RowChange, Revived, NewRow, QuarantineAfterCap
  <2>5. QED
    BY <2>3, <2>4 DEF Counted, QuarantineAfterCap
<1>3. QED
  BY <1>1, <1>2, TypeCorrect, AppendedHolds, PTL DEF Spec

-----------------------------------------------------------------------------
(* The inbox                                                               *)

\* Consumers list messages of transitions that happened.
Announced == \A c \in Consumers : \A m \in todo[c] : m <= rev

\* What is recorded was read from the owner.
SeenExisted == \A m \in Messages : receipt[m].seen <= rev

\* An open resync has read no less than its message announces, nor than an
\* earlier resync of the message recorded ...
OpenIsNewer ==
  \A c \in Consumers :
    txn[c].msg # 0 => /\ txn[c].msg <= txn[c].seen
                      /\ txn[c].seen <= rev
                      /\ receipt[txn[c].msg].seen <= txn[c].seen

\* ... and the receipt's row lock keeps others off the message until it ends.
OpenIsAlone ==
  \A b, c \in Consumers : txn[b].msg # 0 /\ txn[b].msg = txn[c].msg => b = c

InboxInv == Announced /\ SeenExisted /\ OpenIsNewer /\ OpenIsAlone /\ ResyncSeesTransition

LEMMA Numbers ==
  ASSUME TypeOK
  PROVE  /\ rev \in Nat
         /\ \A m \in Messages : m \in Nat /\ m # 0 /\ receipt[m].seen \in Nat
         /\ \A c \in Consumers : /\ txn[c].seen \in Nat
                                 /\ txn[c].msg # 0 => txn[c].msg \in Messages
         /\ \A c \in Consumers : todo[c] \subseteq Messages
  BY LimitAssumption DEF TypeOK, ReceiptRow, Messages

LEMMA ScanAnnounced ==
  ASSUME TypeOK, Appended, NEW m \in Oldest(Awaiting, ScanSize)
  PROVE  m <= rev
<1>1. m \in Messages /\ ~(m > rev)
  BY ScansAreMessages DEF Appended
<1>2. QED
  BY <1>1, Numbers

\* A consumer's step changes what was seen of a message only by a resync.
LEMMA SeenSteps ==
  ASSUME TypeOK, NEW c \in Consumers, ConsumerStep(c)
  PROVE  \/ CompleteResync(c)
         \/ /\ receipt' \in [Messages -> ReceiptRow]
            /\ \A m \in Messages : receipt'[m].seen = receipt[m].seen
            /\ \A m \in Messages : receipt'[m].state = "completed"
                                     => receipt[m].state = "completed"
<1>1. CASE \E m \in Messages : RefuseEnvelope(c, m)
  BY <1>1 DEF RefuseEnvelope, TypeOK, ReceiptRow
<1>2. CASE \E m \in Messages : ConsumerErrs(c, m)
  BY <1>2 DEF ConsumerErrs, TypeOK, ReceiptRow
<1>3. CASE receipt' = receipt
  BY <1>3 DEF TypeOK
<1>4. QED
  BY <1>1, <1>2, <1>3
  DEF ConsumerStep, ConsumerSettles, ConsumerFails, Scan, ObserveDuplicate,
      BeginResync, ConsumerCrashes

LEMMA ConsumerKeepsInbox ==
  ASSUME TypeOK, Appended, InboxInv, NEW c \in Consumers, ConsumerStep(c)
  PROVE  InboxInv'
<1>0. rev' = rev
  BY ConsumersLeaveOutbox
<1>1. Announced'
  <2>1. CASE Scan(c)
    BY <1>0, <2>1, ScanAnnounced DEF Scan, Announced, InboxInv, TypeOK
  <2>2. CASE ~Scan(c)
    <3>0. \/ \E m : Processed(c, m)
          \/ todo' = [todo EXCEPT ![c] = {}]
          \/ UNCHANGED todo
      BY <2>2 DEF ConsumerStep, ConsumerSettles, ConsumerFails, RefuseEnvelope,
             ObserveDuplicate, BeginResync, CompleteResync, ConsumerErrs,
             ConsumerCrashes
    <3>1. \A b \in Consumers : todo'[b] \subseteq todo[b]
      BY <3>0 DEF Processed, TypeOK
    <3>2. QED
      BY <1>0, <3>1 DEF Announced, InboxInv
  <2>3. QED
    BY <2>1, <2>2
<1>2. CASE CompleteResync(c)
  <2> DEFINE m == txn[c].msg
  <2>1. /\ m \in Messages /\ m <= txn[c].seen /\ txn[c].seen <= rev
        /\ receipt'[m] = [state |-> "completed", seen |-> txn[c].seen]
        /\ \A n \in Messages \ {m} : receipt'[n] = receipt[n]
    BY <1>2, Numbers DEF CompleteResync, InboxInv, OpenIsNewer, TypeOK
  <2>2. /\ txn'[c] = NoTxn
        /\ \A b \in Consumers \ {c} : txn'[b] = txn[b]
    BY <1>2 DEF CompleteResync, TypeOK
  <2>3. \A b \in Consumers \ {c} : txn[b].msg # 0 => txn[b].msg \in Messages \ {m}
    BY <1>2, Numbers DEF InboxInv, OpenIsAlone, CompleteResync
  <2>4. SeenExisted' /\ ResyncSeesTransition'
    BY <1>0, <2>1 DEF InboxInv, SeenExisted, ResyncSeesTransition
  <2>5. OpenIsNewer'
    BY <1>0, <2>1, <2>2, <2>3 DEF InboxInv, OpenIsNewer, NoTxn
  <2>6. OpenIsAlone'
    BY <2>2 DEF InboxInv, OpenIsAlone, NoTxn
  <2>7. QED
    BY <1>1, <2>4, <2>5, <2>6 DEF InboxInv
<1>3. CASE ~CompleteResync(c)
  <2>1. /\ \A m \in Messages : receipt'[m].seen = receipt[m].seen
        /\ \A m \in Messages : receipt'[m].state = "completed"
                                 => receipt[m].state = "completed"
    BY <1>3, SeenSteps
  <2>2. SeenExisted' /\ ResyncSeesTransition'
    BY <1>0, <2>1 DEF InboxInv, SeenExisted, ResyncSeesTransition
  <2>3. CASE \E m \in Messages : BeginResync(c, m)
    <3>1. PICK m \in Messages : BeginResync(c, m)
      BY <2>3
    <3>2. /\ txn'[c] = [msg |-> m, seen |-> rev]
          /\ \A b \in Consumers \ {c} : txn'[b] = txn[b] /\ txn[b].msg # m
          /\ m \in todo[c]
      <4>1. m \in todo[c]
        <5>1. todo[c] \in SUBSET Nat /\ todo[c] # {} /\ m = Min(todo[c])
          BY <3>1, Numbers DEF BeginResync, Handling
        <5>2. QED
          BY <5>1, MinExists
      <4>2. QED
        BY <3>1, <4>1 DEF BeginResync, Reread, Locked, TypeOK
    <3>3. m <= rev /\ receipt[m].seen <= rev /\ rev <= rev
      BY <3>2, Numbers DEF InboxInv, Announced, SeenExisted
    <3>4. OpenIsNewer'
      BY <1>0, <2>1, <3>2, <3>3, Numbers DEF InboxInv, OpenIsNewer
    <3>5. OpenIsAlone'
      BY <3>2 DEF InboxInv, OpenIsAlone
    <3>6. QED
      BY <1>1, <2>2, <3>4, <3>5 DEF InboxInv
  <2>4. CASE ~\E m \in Messages : BeginResync(c, m)
    <3>1. \A b \in Consumers : txn'[b] = txn[b] \/ txn'[b] = NoTxn
      BY <1>3, <2>4 DEF ConsumerStep, ConsumerSettles, ConsumerFails, Scan,
             RefuseEnvelope, ObserveDuplicate, ConsumerErrs, ConsumerCrashes, TypeOK
    <3>2. OpenIsNewer'
      BY <1>0, <2>1, <3>1, Numbers DEF InboxInv, OpenIsNewer, NoTxn
    <3>3. OpenIsAlone'
      BY <3>1 DEF InboxInv, OpenIsAlone, NoTxn
    <3>4. QED
      BY <1>1, <2>2, <3>2, <3>3 DEF InboxInv
  <2>5. QED
    BY <2>3, <2>4
<1>4. QED
  BY <1>2, <1>3
LEMMA OthersLeaveInbox ==
  ASSUME TypeOK, [Next]_vars, ~\E c \in Consumers : ConsumerStep(c)
  PROVE  UNCHANGED inboxVars
<1>1. ASSUME NEW d \in Dispatchers, DispatcherStep(d)
      PROVE  UNCHANGED inboxVars
  BY <1>1, DispatcherSteps
<1>2. QED
  BY <1>1 DEF Next, Append, UpgradeBridge, Redrive, Tick, vars, inboxVars

LEMMA InboxHolds == Spec => []InboxInv
<1>1. Init => InboxInv
  <2> SUFFICES ASSUME Init PROVE InboxInv
    OBVIOUS
  <2>1. \A m \in Messages : receipt[m].seen = 0 /\ receipt[m].state = "absent"
    BY DEF Init
  <2>2. \A c \in Consumers : txn[c].msg = 0 /\ todo[c] = {}
    BY DEF Init, NoTxn
  <2>3. QED
    BY <2>1, <2>2
    DEF Init, InboxInv, Announced, SeenExisted, OpenIsNewer, OpenIsAlone,
        ResyncSeesTransition
<1>2. TypeOK /\ Appended /\ InboxInv /\ [Next]_vars => InboxInv'
  <2> SUFFICES ASSUME TypeOK, Appended, InboxInv, [Next]_vars PROVE InboxInv'
    OBVIOUS
  <2>1. CASE \E c \in Consumers : ConsumerStep(c)
    BY <2>1, ConsumerKeepsInbox
  <2>2. CASE ~\E c \in Consumers : ConsumerStep(c)
    <3>1. UNCHANGED inboxVars
      BY <2>2, OthersLeaveInbox
    <3>2. rev \in Nat /\ rev' \in Nat /\ rev <= rev'
      BY NextTyped, MessageSteps, LimitAssumption DEF TypeOK
    <3>3. Announced' /\ SeenExisted'
      BY <3>1, <3>2, Numbers DEF InboxInv, Announced, SeenExisted, inboxVars
    <3>4. OpenIsNewer'
      BY <3>1, <3>2, Numbers DEF InboxInv, OpenIsNewer, inboxVars
    <3>5. OpenIsAlone' /\ ResyncSeesTransition'
      BY <3>1 DEF InboxInv, OpenIsAlone, ResyncSeesTransition, inboxVars
    <3>6. QED
      BY <3>3, <3>4, <3>5 DEF InboxInv
  <2>3. QED
    BY <2>1, <2>2
<1>3. QED
  BY <1>1, <1>2, TypeCorrect, AppendedHolds, PTL DEF Spec

\* A receipt that _process_message completed has seen the transition its
\* message announces, or a later one, however the message was delayed, listed
\* twice, or its receipt reopened by a failing duplicate.
THEOREM CompletedHasSeen == Spec => []ResyncSeesTransition
<1>1. InboxInv => ResyncSeesTransition
  BY DEF InboxInv
<1>2. QED
  BY <1>1, InboxHolds, PTL

-----------------------------------------------------------------------------
(* The transport implements the invalidation protocol                      *)

Seen == {0} \cup {receipt[m].seen : m \in Messages}

LEMMA KnownIsNewest ==
  ASSUME TypeOK, SeenExisted
  PROVE  Known \in Seen /\ (\A s \in Seen : s <= Known) /\ Known \in 0 .. rev
<1>1. Seen \in SUBSET Nat /\ Seen # {} /\ rev \in Nat /\ \A s \in Seen : s <= rev
  BY Numbers DEF Seen, SeenExisted
<1>2. Known = Max(Seen)
  BY DEF Known, Seen
<1>3. Known \in Seen /\ \A s \in Seen : s <= Known
  BY <1>1, <1>2, MaxExists
<1>4. QED
  BY <1>1, <1>3

LEMMA SameSeenSameKnown ==
  ASSUME \A m \in Messages : receipt'[m].seen = receipt[m].seen
  PROVE  Known' = Known
  BY DEF Known

LEMMA InitRefines == Init => Knowledge!Init
<1> SUFFICES ASSUME Init PROVE Knowledge!Init
  OBVIOUS
<1>1. TypeOK /\ SeenExisted
  BY InitTyped DEF Init, SeenExisted
<1>2. QED
  BY <1>1, KnownIsNewest DEF Init, Knowledge!Init

LEMMA ResyncRefines ==
  ASSUME TypeOK, TypeOK', InboxInv, InboxInv', NEW c \in Consumers, CompleteResync(c)
  PROVE  [Knowledge!Next]_(Knowledge!vars)
<1> DEFINE m == txn[c].msg
<1>1. /\ m \in Messages
      /\ receipt'[m].seen = txn[c].seen /\ receipt[m].seen <= txn[c].seen
      /\ \A n \in Messages \ {m} : receipt'[n] = receipt[n]
      /\ rev' = rev
  BY Numbers DEF CompleteResync, InboxInv, OpenIsNewer, TypeOK
<1>2. ASSUME NEW n \in Messages
      PROVE  /\ receipt[n].seen <= receipt'[n].seen
             /\ receipt[n].seen \in Nat /\ receipt'[n].seen \in Nat
             /\ receipt'[n].seen <= rev'
  <2>1. receipt[n].seen \in Nat /\ receipt'[n].seen \in Nat
    BY LimitAssumption DEF TypeOK, ReceiptRow
  <2>2. receipt'[n].seen <= rev'
    BY DEF InboxInv, SeenExisted
  <2>3. QED
    BY <1>1, <2>1, <2>2
<1>3. Known \in Seen /\ Known \in 0 .. rev /\ rev \in Nat
  BY KnownIsNewest, Numbers DEF InboxInv
<1>4. Known' \in 0 .. rev /\ \A s \in Seen' : s <= Known'
  <2>1. Seen' \in SUBSET Nat /\ Seen' # {} /\ \A s \in Seen' : s <= rev
    BY <1>1, <1>2, <1>3 DEF Seen
  <2>2. Known' = Max(Seen')
    BY DEF Known, Seen
  <2>3. Known' \in Seen' /\ \A s \in Seen' : s <= Known'
    BY <1>3, <2>1, <2>2, MaxExists
  <2>4. QED
    BY <2>1, <2>3
<1>5. Known <= Known'
  <2>1. \E s \in Seen' : Known <= s /\ s \in Nat
    <3>1. CASE Known = 0
      BY <3>1 DEF Seen
    <3>2. CASE \E n \in Messages : Known = receipt[n].seen
      BY <1>2, <3>2 DEF Seen
    <3>3. QED
      BY <1>3, <3>1, <3>2 DEF Seen
  <2>2. QED
    BY <1>3, <1>4, <2>1
<1>6. Known' \in (Known + 1) .. rev \/ Known' = Known
  BY <1>3, <1>4, <1>5
<1>7. QED
  BY <1>1, <1>6 DEF Knowledge!Next, Knowledge!Learn, Knowledge!vars

\* Every step of the transport is a change of the owner's projection, the
\* consumer learning a newer revision the owner really had, or invisible.
LEMMA StepRefines ==
  ASSUME TypeOK, TypeOK', InboxInv, InboxInv', [Next]_vars
  PROVE  [Knowledge!Next]_(Knowledge!vars)
<1>1. CASE \E c \in Consumers : CompleteResync(c)
  BY <1>1, ResyncRefines
<1>2. CASE ~\E c \in Consumers : CompleteResync(c)
  <2>1. \A m \in Messages : receipt'[m].seen = receipt[m].seen
    BY <1>2, SeenSteps, OthersLeaveInbox DEF inboxVars
  <2>2. Known' = Known
    BY <2>1, SameSeenSameKnown
  <2>3. rev' = rev + 1 \/ rev' = rev
    BY DispatcherSteps, ConsumersLeaveOutbox
    DEF Next, Append, UpgradeBridge, Redrive, Tick, vars
  <2>4. QED
    BY <2>2, <2>3 DEF Knowledge!Next, Knowledge!Change, Knowledge!vars
<1>3. QED
  BY <1>1, <1>2

\* Outbox and inbox together implement Invalidation: currentness is decided by
\* the owner's projection (_reread), so what Alerting knows is never invented
\* and never goes back, whatever order messages are delivered in.
THEOREM TransportImplementsInvalidation == Spec => ImplementsInvalidation
<1>1. InboxInv /\ TypeOK /\ TypeOK' /\ InboxInv' /\ [Next]_vars
        => [Knowledge!Next]_(Knowledge!vars)
  BY StepRefines
<1>2. QED
  BY <1>1, InitRefines, TypeCorrect, InboxHolds, PTL
  DEF Spec, ImplementsInvalidation, Knowledge!Spec
=============================================================================
