------------------------- MODULE Notification_proofs -------------------------
(***************************************************************************)
(* Theorems about Notification, for any number of intents, dispatchers and *)
(* callback sessions, and any bounds.                                      *)
(***************************************************************************)
EXTENDS Notification, FiniteSetTheorems, TLAPS

-----------------------------------------------------------------------------
(* The projection                                                          *)

States == Normalized \cup {"none", "dispatching"}

LEMMA RankTyped == \A s \in States : Rank[s] \in {0, 2, 3, 4}
  BY DEF Rank, States

\* The strongest of some reports exists.
LEMMA StrongestExists ==
  ASSUME NEW seen \in SUBSET Normalized, seen # {}
  PROVE  \E s \in seen : \A t \in seen : Rank[t] <= Rank[s]
<1>0. \A s \in seen : Rank[s] \in {0, 2, 3, 4}
  BY RankTyped DEF States
<1>1. CASE \E s \in seen : Rank[s] = 4
  BY <1>0, <1>1
<1>2. CASE (~\E s \in seen : Rank[s] = 4) /\ \E s \in seen : Rank[s] = 3
  BY <1>0, <1>2
<1>3. CASE /\ ~\E s \in seen : Rank[s] \in {3, 4}
           /\ \E s \in seen : Rank[s] = 2
  BY <1>0, <1>3
<1>4. CASE ~\E s \in seen : Rank[s] \in {2, 3, 4}
  BY <1>0, <1>4
<1>5. QED
  BY <1>1, <1>2, <1>3, <1>4

LEMMA LastOutcomeTyped ==
  ASSUME NEW tried \in Seq(Outcomes)
  PROVE  LastOutcome(tried) \in Outcomes \cup {"dispatching"}
  BY DEF LastOutcome

\* The projected state is one of the facts, and at least as strong as each.
LEMMA StateFromFacts ==
  ASSUME NEW tried \in Seq(Outcomes), NEW seen \in SUBSET Normalized
  PROVE  /\ StateFrom(tried, seen) \in Normalized \cup {"dispatching"}
         /\ Rank[LastOutcome(tried)] <= Rank[StateFrom(tried, seen)]
         /\ \A s \in seen : Rank[s] <= Rank[StateFrom(tried, seen)]
         /\ StateFrom(tried, seen) \in seen \cup {LastOutcome(tried)}
<1>1. LastOutcome(tried) \in Outcomes \cup {"dispatching"}
  BY LastOutcomeTyped
<1>2. /\ Rank[LastOutcome(tried)] \in {0, 2, 3, 4}
      /\ \A s \in seen : Rank[s] \in {0, 2, 3, 4}
  BY <1>1, RankTyped DEF States, Normalized
<1>3. CASE \E s \in seen : Rank[s] > Rank[LastOutcome(tried)]
  <2> DEFINE best == CHOOSE s \in seen : \A t \in seen : Rank[t] <= Rank[s]
  <2>1. best \in seen /\ \A t \in seen : Rank[t] <= Rank[best]
    BY <1>3, StrongestExists
  <2>2. StateFrom(tried, seen) = best
    BY <1>3 DEF StateFrom
  <2>3. Rank[LastOutcome(tried)] <= Rank[best]
    BY <1>2, <1>3, <2>1
  <2>4. QED
    BY <2>1, <2>2, <2>3
<1>4. CASE ~\E s \in seen : Rank[s] > Rank[LastOutcome(tried)]
  <2>1. StateFrom(tried, seen) = LastOutcome(tried)
    BY <1>4 DEF StateFrom
  <2>2. \A s \in seen : Rank[s] <= Rank[LastOutcome(tried)]
    BY <1>2, <1>4
  <2>3. QED
    BY <1>1, <1>2, <2>1, <2>2 DEF Normalized
<1>5. QED
  BY <1>3, <1>4

LEMMA ProjectedTyped ==
  ASSUME NEW tried \in Seq(Outcomes), NEW seen \in SUBSET Normalized
  PROVE  Projected(tried, seen) \in ProjectionRow
  BY StateFromFacts DEF Projected, ProjectionRow

\* More evidence never weakens the projected state.
LEMMA ProjectedAdvances ==
  ASSUME NEW tried \in Seq(Outcomes), NEW seen \in SUBSET Normalized,
         NEW more \in SUBSET Normalized, seen \subseteq more
  PROVE  Rank[Projected(tried, seen).state] <= Rank[Projected(tried, more).state]
<1>1. StateFrom(tried, seen) \in more \cup {LastOutcome(tried)}
  BY StateFromFacts
<1>2. Rank[StateFrom(tried, seen)] <= Rank[StateFrom(tried, more)]
  BY <1>1, StateFromFacts
<1>3. QED
  BY <1>2 DEF Projected

-----------------------------------------------------------------------------
(* Types                                                                   *)

LEMMA CountTyped == ASSUME TypeOK PROVE Cardinality(intents) \in Nat
  BY LimitAssumption, FS_Subset, FS_CardinalityType DEF TypeOK

LEMMA RowTyped ==
  ASSUME TypeOK, NEW d \in Dispatchers, tx[d].row # NoDispatch
  PROVE  tx[d].row \in Dispatch /\ tx[d].row.intent \in Intents
  BY DEF TypeOK, Transaction, Dispatch

LEMMA SessionTyped ==
  ASSUME TypeOK, NEW s \in Sessions, session[s] # NoSession
  PROVE  /\ session[s] \in [callback : Callback, computed : ProjectionRow]
         /\ session[s].callback.intent \in Intents
         /\ session[s].callback.report \in Reports
  BY DEF TypeOK, Callback

LEMMA NoTxTyped == NoTx \in Transaction
  BY DEF NoTx, Transaction

LEMMA ClosedTyped ==
  ASSUME TypeOK, NEW d \in Dispatchers
  PROVE  Closed(d) \in [Dispatchers -> Transaction]
  BY NoTxTyped DEF Closed, TypeOK

LEMMA RetriesTyped ==
  ASSUME TypeOK, NEW d \in Dispatchers, tx[d].row # NoDispatch
  PROVE  Retries(d) \subseteq Dispatch
<1> DEFINE row == tx[d].row
           next == [intent |-> row.intent, n |-> row.n + 1, since |-> tx[d].began,
                    due |-> FALSE]
<1>1. row.intent \in Intents /\ row.n \in 1 .. MaxAttempts /\ tx[d].began \in Nat
  BY RowTyped DEF TypeOK, Transaction, Dispatch
<1>2. CASE Retryable(row, tx[d].outcome)
  <2>1. row.n + 1 \in 1 .. MaxAttempts
    BY <1>1, <1>2, LimitAssumption DEF Retryable
  <2>2. next \in Dispatch
    BY <1>1, <2>1 DEF Dispatch
  <2>3. Retries(d) = {next}
    BY <1>2, Zenon DEF Retries
  <2>4. QED
    BY <2>2, <2>3
<1>3. CASE ~Retryable(row, tx[d].outcome)
  BY <1>3, Zenon DEF Retries
<1>4. QED
  BY <1>2, <1>3

LEMMA InitTyped == Init => TypeOK
  BY LimitAssumption, NoTxTyped DEF Init, TypeOK, ProjectionRow, NoProjection

LEMMA DispatcherTyped ==
  ASSUME TypeOK, NEW d \in Dispatchers, DispatcherStep(d)
  PROVE  TypeOK'
<1>1. CASE Claim(d)
  <2>1. PICK r \in dispatches :
          tx' = [tx EXCEPT ![d].row = r, ![d].began = Cardinality(intents)]
    BY <1>1 DEF Claim, Claimable
  <2>2. r \in Dispatch
    BY DEF TypeOK
  <2>3. [tx[d] EXCEPT !.row = r, !.began = Cardinality(intents)] \in Transaction
    BY <2>2, CountTyped DEF TypeOK, Transaction
  <2>4. tx' \in [Dispatchers -> Transaction]
    BY <2>1, <2>3 DEF TypeOK
  <2>5. QED
    BY <1>1, <2>4 DEF Claim, TypeOK, facts, callbackVars
<1>2. CASE CycleEnds(d)
  BY <1>2, NoTxTyped DEF CycleEnds, TypeOK, facts, callbackVars
<1>3. CASE GivesBack(d)
  BY <1>3, ClosedTyped DEF GivesBack, SkipSuppressed, SendRaises, TypeOK, facts,
    callbackVars
<1>4. CASE Send(d)
  <2>1. tx[d].row.intent \in Intents
    BY <1>4, RowTyped DEF Send, Claimed
  <2>2. PICK outcome \in Outcomes, ref \in BOOLEAN, reached \in BOOLEAN :
          /\ tx' = [tx EXCEPT ![d].outcome = outcome, ![d].ref = ref]
          /\ sends' = [sends EXCEPT ![tx[d].row.intent] =
                          IF reached THEN @ + 1 ELSE @]
    BY <1>4, Zenon DEF Send
  <2>3. [tx[d] EXCEPT !.outcome = outcome, !.ref = ref] \in Transaction
    BY DEF TypeOK, Transaction
  <2>4. tx' \in [Dispatchers -> Transaction]
    BY <2>2, <2>3 DEF TypeOK
  <2>5. sends' \in [Intents -> Nat]
    BY <2>1, <2>2 DEF TypeOK
  <2>6. QED
    BY <1>4, <2>4, <2>5 DEF Send, TypeOK, facts, callbackVars
<1>5. CASE Complete(d)
  <2> DEFINE i == tx[d].row.intent
  <2>1. i \in Intents /\ tx[d].outcome \in Outcomes
    BY <1>5, RowTyped DEF Complete, Sent, TypeOK, Transaction
  <2>2. attempts' \in [Intents -> Seq(Outcomes)]
    BY <1>5, <2>1 DEF Complete, TypeOK
  <2>3. Projected(attempts'[i], evidence[i]) \in ProjectionRow
    <3>1. attempts'[i] \in Seq(Outcomes)
      BY <2>1, <2>2
    <3>2. evidence[i] \in SUBSET Normalized
      BY <2>1, ReportsAssumption DEF TypeOK
    <3>3. QED
      BY <3>1, <3>2, ProjectedTyped
  <2>4. projection' \in [Intents -> ProjectionRow]
    BY <1>5, <2>1, <2>3 DEF Complete, TypeOK
  <2>5. dispatches' \subseteq Dispatch
    BY <1>5, RetriesTyped DEF Complete, Sent, TypeOK
  <2>6. bound' \subseteq Intents
    BY <1>5, <2>1 DEF Complete, TypeOK
  <2>7. QED
    BY <1>5, <2>2, <2>4, <2>5, <2>6, ClosedTyped
    DEF Complete, TypeOK, callbackVars
<1>6. CASE DispatchRaises(d)
  BY <1>6, ClosedTyped, LimitAssumption
  DEF DispatchRaises, TypeOK, facts, callbackVars
<1>7. CASE DispatcherDies(d)
  BY <1>7, NoTxTyped, LimitAssumption DEF DispatcherDies, TypeOK, facts, callbackVars
<1>8. QED
  BY <1>1, <1>2, <1>3, <1>4, <1>5, <1>6, <1>7 DEF DispatcherStep, DispatcherRuns

LEMMA CallbackTyped ==
  ASSUME TypeOK, NEW s \in Sessions, CallbackStep(s)
  PROVE  TypeOK'
<1>1. ASSUME NEW c \in Callback, ParkCallback(s, c) PROVE TypeOK'
  BY <1>1 DEF ParkCallback, TypeOK, facts
<1>2. ASSUME NEW c \in Callback, BeginCallback(s, c) PROVE TypeOK'
  <2>1. c.intent \in Intents /\ c.report \in Reports
    BY DEF Callback
  <2>2. Projected(attempts[c.intent], SeenWith(c)) \in ProjectionRow
    <3>1. attempts[c.intent] \in Seq(Outcomes)
      BY <2>1 DEF TypeOK
    <3>2. SeenWith(c) \in SUBSET Normalized
      BY <2>1, ReportsAssumption DEF SeenWith, TypeOK
    <3>3. QED
      BY <3>1, <3>2, ProjectedTyped
  <2>3. QED
    BY <1>2, <2>2 DEF BeginCallback, TypeOK, facts
<1>3. CASE CommitCallback(s)
  BY <1>3, SessionTyped DEF CommitCallback, TypeOK
<1>4. CASE CallbackFails(s)
  BY <1>4 DEF CallbackFails, TypeOK, facts
<1>5. QED
  BY <1>1, <1>2, <1>3, <1>4 DEF CallbackStep

LEMMA NextTyped == TypeOK /\ [Next]_vars => TypeOK'
<1> SUFFICES ASSUME TypeOK, [Next]_vars PROVE TypeOK'
  OBVIOUS
<1>1. ASSUME NEW i \in Intents, CreateIntent(i) PROVE TypeOK'
  <2>1. [intent |-> i, n |-> 1, since |-> Cardinality(intents) + 1, due |-> TRUE]
          \in Dispatch
    BY CountTyped, LimitAssumption DEF Dispatch
  <2>2. QED
    BY <1>1, <2>1 DEF CreateIntent, TypeOK, callbackVars
<1>2. ASSUME NEW i \in Intents, Suppress(i) PROVE TypeOK'
  BY <1>2, LimitAssumption DEF Suppress, Reasons, TypeOK, facts, callbackVars
<1>3. ASSUME NEW i \in Intents, Release(i) \/ AdapterBreaks(i) \/ AdapterMends(i)
      PROVE  TypeOK'
  BY <1>3 DEF Release, AdapterBreaks, AdapterMends, Reasons, TypeOK, facts, callbackVars
<1>4. ASSUME NEW r \in dispatches, BackoffPasses(r) PROVE TypeOK'
  <2>1. [r EXCEPT !.due = TRUE] \in Dispatch
    BY DEF TypeOK, Dispatch
  <2>2. QED
    BY <1>4, <2>1 DEF BackoffPasses, TypeOK, facts, callbackVars
<1>5. CASE UNCHANGED vars
  BY <1>5 DEF vars, TypeOK
<1>6. QED
  BY <1>1, <1>2, <1>3, <1>4, <1>5, DispatcherTyped, CallbackTyped DEF Next, Hindrance

\* Every table, transaction and session keeps its type under every
\* interleaving of dispatchers, callbacks and suppression.
THEOREM TypeCorrect == Spec => []TypeOK
  BY InitTyped, NextTyped, PTL DEF Spec

-----------------------------------------------------------------------------
(* Dispatches in turn                                                      *)

\* The strengthening: an open dispatch is the next attempt of a created and
\* not accepted intent, the only one of it, and held by one transaction.
RowsInTurn ==
    \A r \in dispatches : /\ r.intent \in intents
                          /\ r.n = Len(attempts[r.intent]) + 1
                          /\ ~Accepted(r.intent)

OneRowEach == \A q, r \in dispatches : q.intent = r.intent => q = r

UntriedFirst == \A i \in Intents \ intents : attempts[i] = <<>>

HeldRowsOpen ==
    \A d \in Dispatchers :
        tx[d].row # NoDispatch => tx[d].row \in dispatches /\ tx[d].row.due

HeldOnce ==
    \A d, e \in Dispatchers :
        tx[d].row = tx[e].row => d = e \/ tx[d].row = NoDispatch

NamedIfAccepted ==
    \A d \in Dispatchers : tx[d].ref => tx[d].outcome = "provider_accepted"

RowsInv ==
    /\ RowsInTurn
    /\ OneRowEach
    /\ UntriedFirst
    /\ HeldRowsOpen
    /\ HeldOnce
    /\ NamedIfAccepted

LEMMA RowsInit == Init => RowsInv
  BY DEF Init, RowsInv, RowsInTurn, OneRowEach, UntriedFirst, HeldRowsOpen,
         HeldOnce, NamedIfAccepted, NoTx

\* What a step that changes at most transactions must show.
LEMMA RowsOfTransactions ==
  ASSUME RowsInv, UNCHANGED <<intents, attempts, dispatches>>,
         HeldRowsOpen', HeldOnce', NamedIfAccepted'
  PROVE  RowsInv'
  BY DEF RowsInv, RowsInTurn, OneRowEach, UntriedFirst, Accepted

\* After Closed the dispatcher holds nothing and the others what they held.
LEMMA ClosedHolds ==
  ASSUME TypeOK, NEW d \in Dispatchers
  PROVE  /\ Closed(d)[d].row = NoDispatch /\ ~Closed(d)[d].ref
         /\ \A e \in Dispatchers \ {d} : Closed(d)[e] = tx[e]
  BY DEF Closed, TypeOK, NoTx

LEMMA DroppedRows ==
  ASSUME TypeOK, RowsInv, NEW d \in Dispatchers,
         UNCHANGED <<intents, attempts, dispatches>>,
         tx'[d].row = NoDispatch, ~tx'[d].ref,
         \A e \in Dispatchers \ {d} : tx'[e] = tx[e]
  PROVE  RowsInv'
<1>1. HeldRowsOpen'
  BY DEF RowsInv, HeldRowsOpen
<1>2. HeldOnce'
  BY DEF RowsInv, HeldOnce
<1>3. NamedIfAccepted'
  BY DEF RowsInv, NamedIfAccepted
<1>4. QED
  BY <1>1, <1>2, <1>3, RowsOfTransactions

LEMMA RowsOfCreate ==
  ASSUME TypeOK, RowsInv, NEW i \in Intents, CreateIntent(i)
  PROVE  RowsInv'
<1> DEFINE new == [intent |-> i, n |-> 1, since |-> Cardinality(intents) + 1,
                   due |-> TRUE]
<1>0. /\ i \notin intents /\ intents' = intents \cup {i}
      /\ dispatches' = dispatches \cup {new}
      /\ attempts' = attempts /\ tx' = tx
  BY DEF CreateIntent
<1>1. \A r \in dispatches : r.intent # i
  BY <1>0 DEF RowsInv, RowsInTurn
<1>2. attempts[i] = <<>> /\ ~Accepted(i)'
  BY <1>0 DEF RowsInv, UntriedFirst, Accepted
<1>3. RowsInTurn'
  <2>1. \A r \in dispatches : /\ r.intent \in intents'
                              /\ r.n = Len(attempts'[r.intent]) + 1
                              /\ ~Accepted(r.intent)'
    BY <1>0 DEF RowsInv, RowsInTurn, Accepted
  <2>2. new.intent = i /\ new.n = Len(attempts'[i]) + 1
    BY <1>0, <1>2
  <2>3. QED
    BY <1>0, <1>2, <2>1, <2>2 DEF RowsInTurn
<1>4. OneRowEach'
  <2>1. new.intent = i
    OBVIOUS
  <2> HIDE DEF new
  <2>2. QED
    BY <1>0, <1>1, <2>1 DEF RowsInv, OneRowEach
<1>5. UntriedFirst' /\ HeldRowsOpen' /\ HeldOnce' /\ NamedIfAccepted'
  BY <1>0 DEF RowsInv, UntriedFirst, HeldRowsOpen, HeldOnce, NamedIfAccepted
<1>6. QED
  BY <1>3, <1>4, <1>5 DEF RowsInv

LEMMA RowsOfBackoff ==
  ASSUME TypeOK, RowsInv, NEW r \in dispatches, BackoffPasses(r)
  PROVE  RowsInv'
<1> DEFINE ready == [r EXCEPT !.due = TRUE]
<1>0. /\ ~r.due /\ dispatches' = (dispatches \ {r}) \cup {ready}
      /\ intents' = intents /\ attempts' = attempts /\ tx' = tx
  BY DEF BackoffPasses, facts
<1>1. ready.intent = r.intent /\ ready.n = r.n
  BY DEF TypeOK, Dispatch
<1> HIDE DEF ready
<1>2. RowsInTurn'
  BY <1>0, <1>1 DEF RowsInv, RowsInTurn, Accepted
<1>3. OneRowEach'
  BY <1>0, <1>1 DEF RowsInv, OneRowEach
<1>4. HeldRowsOpen'
  <2>1. \A d \in Dispatchers : tx[d].row # NoDispatch => tx[d].row # r
    BY <1>0 DEF RowsInv, HeldRowsOpen
  <2>2. QED
    BY <1>0, <2>1 DEF RowsInv, HeldRowsOpen
<1>5. UntriedFirst' /\ HeldOnce' /\ NamedIfAccepted'
  BY <1>0 DEF RowsInv, UntriedFirst, HeldOnce, NamedIfAccepted
<1>6. QED
  BY <1>2, <1>3, <1>4, <1>5 DEF RowsInv

LEMMA RowsOfClaim ==
  ASSUME TypeOK, RowsInv, NEW d \in Dispatchers, Claim(d)
  PROVE  RowsInv'
<1>1. PICK r \in Claimable(d) :
        tx' = [tx EXCEPT ![d].row = r, ![d].began = Cardinality(intents)]
  BY DEF Claim
<1>2. /\ r \in dispatches /\ r.due
      /\ \A e \in Dispatchers \ {d} : tx[e].row # r
  BY <1>1 DEF Claimable, Locked
<1>3. /\ tx'[d].row = r
      /\ tx'[d].ref = tx[d].ref /\ tx'[d].outcome = tx[d].outcome
      /\ \A e \in Dispatchers \ {d} : tx'[e] = tx[e]
  BY <1>1 DEF TypeOK, Transaction
<1>4. UNCHANGED <<intents, attempts, dispatches>>
  BY DEF Claim, facts
<1>5. HeldRowsOpen' /\ HeldOnce' /\ NamedIfAccepted'
  BY <1>2, <1>3, <1>4 DEF RowsInv, HeldRowsOpen, HeldOnce, NamedIfAccepted
<1>6. QED
  BY <1>4, <1>5, RowsOfTransactions

LEMMA RowsOfSend ==
  ASSUME TypeOK, RowsInv, NEW d \in Dispatchers, Send(d)
  PROVE  RowsInv'
<1>1. PICK outcome \in Outcomes, ref \in BOOLEAN, reached \in BOOLEAN :
        /\ ref => outcome = "provider_accepted"
        /\ tx' = [tx EXCEPT ![d].outcome = outcome, ![d].ref = ref]
  BY Zenon DEF Send
<1>2. /\ tx'[d].row = tx[d].row /\ tx'[d].ref = ref /\ tx'[d].outcome = outcome
      /\ \A e \in Dispatchers \ {d} : tx'[e] = tx[e]
  BY <1>1 DEF TypeOK, Transaction
<1>3. UNCHANGED <<intents, attempts, dispatches>>
  BY DEF Send, facts
<1>4. \A e \in Dispatchers : tx'[e].row = tx[e].row
  BY <1>2
<1>5. HeldRowsOpen' /\ HeldOnce'
  BY <1>3, <1>4 DEF RowsInv, HeldRowsOpen, HeldOnce
<1>6. NamedIfAccepted'
  BY <1>1, <1>2 DEF RowsInv, NamedIfAccepted
<1>7. QED
  BY <1>3, <1>5, <1>6, RowsOfTransactions

\* What a completion records: one more outcome, and a retry only of an
\* attempt that was not accepted.
LEMMA CompletedFacts ==
  ASSUME TypeOK, RowsInv, NEW d \in Dispatchers, Complete(d),
         NEW i \in Intents, tx[d].row.intent = i
  PROVE  LET row == tx[d].row
         IN /\ i \in intents /\ row \in dispatches
            /\ ~Accepted(i) /\ \A r \in dispatches \ {row} : r.intent # i
            /\ Len(attempts'[i]) = row.n
            /\ \A j \in Intents \ {i} : attempts'[j] = attempts[j]
            /\ tx[d].outcome # "provider_accepted" => ~Accepted(i)'
            /\ \A r \in Retries(d) : /\ r.intent = i /\ r.n = row.n + 1
                                     /\ tx[d].outcome # "provider_accepted"
            /\ \A q, r \in Retries(d) : q = r
<1> DEFINE row == tx[d].row
<1>1. row # NoDispatch /\ tx[d].outcome \in Outcomes
  BY DEF Complete, Sent, TypeOK, Transaction
<1>2. /\ row \in dispatches /\ i \in intents /\ ~Accepted(i)
      /\ row.n = Len(attempts[i]) + 1
  BY <1>1 DEF RowsInv, RowsInTurn, HeldRowsOpen
<1>3. attempts' = [attempts EXCEPT ![i] = Append(@, tx[d].outcome)]
  BY Zenon DEF Complete
<1>4. attempts[i] \in Seq(Outcomes)
  BY <1>2 DEF TypeOK
<1>5. attempts'[i] = Append(attempts[i], tx[d].outcome)
  BY <1>2, <1>3 DEF TypeOK
<1>6. Len(attempts'[i]) = row.n
  BY <1>1, <1>2, <1>4, <1>5
<1>7. \A j \in Intents \ {i} : attempts'[j] = attempts[j]
  BY <1>3 DEF TypeOK
<1>8. ASSUME tx[d].outcome # "provider_accepted" PROVE ~Accepted(i)'
  <2>1. \A k \in DOMAIN attempts'[i] : attempts'[i][k] # "provider_accepted"
    BY <1>1, <1>2, <1>4, <1>5, <1>8 DEF Accepted
  <2>2. QED
    BY <2>1 DEF Accepted
<1>9. \A r \in Retries(d) : /\ r.intent = i /\ r.n = row.n + 1
                            /\ tx[d].outcome # "provider_accepted"
  BY DEF Retries, Retryable
<1>10. \A q, r \in Retries(d) : q = r
  BY DEF Retries
<1>11. \A r \in dispatches \ {row} : r.intent # i
  BY <1>2 DEF RowsInv, OneRowEach
<1>12. QED
  BY <1>2, <1>6, <1>7, <1>8, <1>9, <1>10, <1>11

LEMMA RowsOfComplete ==
  ASSUME TypeOK, RowsInv, NEW d \in Dispatchers, Complete(d)
  PROVE  RowsInv'
<1> DEFINE row == tx[d].row
<1> PICK i \in Intents : tx[d].row.intent = i
  BY RowTyped DEF Complete, Sent
<1>0. /\ dispatches' = (dispatches \ {row}) \cup Retries(d)
      /\ intents' = intents /\ tx' = Closed(d)
  BY DEF Complete
<1>1. /\ i \in intents /\ row \in dispatches
      /\ \A r \in dispatches \ {row} : r.intent # i
      /\ Len(attempts'[i]) = row.n
      /\ \A j \in Intents \ {i} : attempts'[j] = attempts[j]
      /\ tx[d].outcome # "provider_accepted" => ~Accepted(i)'
      /\ \A r \in Retries(d) : /\ r.intent = i /\ r.n = row.n + 1
                               /\ tx[d].outcome # "provider_accepted"
      /\ \A q, r \in Retries(d) : q = r
  BY CompletedFacts
<1>2. \A r \in dispatches : r.intent \in Intents
  BY DEF TypeOK, Dispatch
<1>3. RowsInTurn'
  <2>1. ASSUME NEW r \in dispatches \ {row}
        PROVE  /\ r.intent \in intents'
               /\ r.n = Len(attempts'[r.intent]) + 1
               /\ ~Accepted(r.intent)'
    <3>1. r.intent \in Intents \ {i} /\ attempts'[r.intent] = attempts[r.intent]
      BY <1>1, <1>2
    <3>2. /\ r.intent \in intents /\ ~Accepted(r.intent)
          /\ r.n = Len(attempts[r.intent]) + 1
      BY DEF RowsInv, RowsInTurn
    <3>3. QED
      BY <1>0, <3>1, <3>2 DEF Accepted
  <2>2. ASSUME NEW r \in Retries(d)
        PROVE  /\ r.intent \in intents'
               /\ r.n = Len(attempts'[r.intent]) + 1
               /\ ~Accepted(r.intent)'
    BY <1>0, <1>1
  <2>3. QED
    BY <1>0, <2>1, <2>2 DEF RowsInTurn
<1>4. OneRowEach'
  BY <1>0, <1>1 DEF RowsInv, OneRowEach
<1>5. UntriedFirst'
  BY <1>0, <1>1 DEF RowsInv, UntriedFirst
<1>6. /\ tx'[d].row = NoDispatch /\ ~tx'[d].ref
      /\ \A e \in Dispatchers \ {d} : tx'[e] = tx[e]
  BY <1>0, ClosedHolds
<1>7. HeldRowsOpen'
  <2>1. ASSUME NEW e \in Dispatchers \ {d}, tx[e].row # NoDispatch
        PROVE  tx[e].row \in dispatches \ {row} /\ tx[e].row.due
    BY <2>1 DEF RowsInv, HeldRowsOpen, HeldOnce
  <2>2. QED
    BY <1>0, <1>6, <2>1 DEF HeldRowsOpen
<1>8. HeldOnce' /\ NamedIfAccepted'
  BY <1>6 DEF RowsInv, HeldOnce, NamedIfAccepted
<1>9. QED
  BY <1>3, <1>4, <1>5, <1>7, <1>8 DEF RowsInv

LEMMA RowsOfDispatcher ==
  ASSUME TypeOK, RowsInv, NEW d \in Dispatchers, DispatcherStep(d)
  PROVE  RowsInv'
<1>1. CASE GivesBack(d)
  <2>1. UNCHANGED <<intents, attempts, dispatches>> /\ tx' = Closed(d)
    BY <1>1 DEF GivesBack, SkipSuppressed, SendRaises, facts
  <2>2. QED
    BY <2>1, ClosedHolds, DroppedRows
<1>2. CASE CycleEnds(d) \/ DispatcherDies(d)
  <2>1. /\ UNCHANGED <<intents, attempts, dispatches>>
        /\ tx' = [tx EXCEPT ![d] = NoTx]
    BY <1>2 DEF CycleEnds, DispatcherDies, facts
  <2>2. QED
    BY <2>1, DroppedRows DEF NoTx, TypeOK
<1>3. CASE DispatchRaises(d)
  <2>1. UNCHANGED <<intents, attempts, dispatches>> /\ tx' = Closed(d)
    BY <1>3 DEF DispatchRaises, facts
  <2>2. QED
    BY <2>1, ClosedHolds, DroppedRows
<1>4. QED
  BY <1>1, <1>2, <1>3, RowsOfClaim, RowsOfSend, RowsOfComplete
  DEF DispatcherStep, DispatcherRuns

LEMMA RowsNext == TypeOK /\ RowsInv /\ [Next]_vars => RowsInv'
<1> SUFFICES ASSUME TypeOK, RowsInv, [Next]_vars PROVE RowsInv'
  OBVIOUS
<1>1. ASSUME UNCHANGED <<intents, attempts, dispatches, tx>> PROVE RowsInv'
  BY <1>1 DEF RowsInv, RowsInTurn, OneRowEach, UntriedFirst, HeldRowsOpen,
              HeldOnce, NamedIfAccepted, Accepted
<1>2. ASSUME NEW i \in Intents, Hindrance(i) PROVE RowsInv'
  BY <1>1, <1>2 DEF Hindrance, Suppress, Release, AdapterBreaks,
      AdapterMends, facts
<1>3. ASSUME NEW s \in Sessions, CallbackStep(s) PROVE RowsInv'
  BY <1>1, <1>3
  DEF CallbackStep, ParkCallback, BeginCallback, CommitCallback, CallbackFails, facts
<1>4. CASE UNCHANGED vars
  BY <1>1, <1>4 DEF vars
<1>5. QED
  BY <1>2, <1>3, <1>4, RowsOfCreate, RowsOfBackoff, RowsOfDispatcher DEF Next

LEMMA RowsAlways == Spec => [](TypeOK /\ RowsInv)
<1>1. TypeOK /\ RowsInv /\ [Next]_vars => (TypeOK /\ RowsInv)'
  BY NextTyped, RowsNext
<1>2. QED
  BY InitTyped, RowsInit, <1>1, PTL DEF Spec

LEMMA RowsImplyTurn == TypeOK /\ RowsInv => DispatchedInTurn
<1> SUFFICES ASSUME TypeOK, RowsInv, NEW i \in Intents
             PROVE  /\ \A q, r \in Open(i) : q = r
                    /\ Accepted(i) \/ Exhausted(attempts[i]) => Open(i) = {}
  BY DEF DispatchedInTurn
<1>1. \A q, r \in Open(i) : q = r
  BY DEF Open, RowsInv, OneRowEach
<1>2. \A r \in Open(i) : ~Accepted(i) /\ ~Exhausted(attempts[i])
  <2> SUFFICES ASSUME NEW r \in Open(i)
               PROVE  ~Accepted(i) /\ ~Exhausted(attempts[i])
    OBVIOUS
  <2>1. r.n \in 1 .. MaxAttempts /\ r.n = Len(attempts[i]) + 1 /\ ~Accepted(i)
    BY DEF Open, TypeOK, Dispatch, RowsInv, RowsInTurn
  <2>2. attempts[i] \in Seq(Outcomes)
    BY DEF TypeOK
  <2>3. QED
    BY <2>1, <2>2, LimitAssumption DEF Exhausted
<1>3. QED
  BY <1>1, <1>2

\* An intent never has two open dispatches, and none once an acceptance is
\* recorded or its attempts are spent: nothing is sent again on purpose,
\* whatever interleaving of claims, crashes, retries and callbacks.
THEOREM InTurn == Spec => []DispatchedInTurn
  BY RowsAlways, RowsImplyTurn, PTL

-----------------------------------------------------------------------------
(* One message per attempt                                                 *)

InFlight(i) == \E d \in Dispatchers : Sent(d) /\ tx[d].row.intent = i

SentOnce(i) ==
    /\ InFlight(i) => sends[i] <= Len(attempts[i]) + errors + 1
    /\ ~InFlight(i) => sends[i] <= Len(attempts[i]) + errors

LEMMA CountsTyped ==
  ASSUME TypeOK, NEW i \in Intents
  PROVE  /\ sends[i] \in Nat /\ errors \in Nat /\ Len(attempts[i]) \in Nat
         /\ attempts[i] \in Seq(Outcomes)
  BY LimitAssumption DEF TypeOK

LEMMA SentOnceIsProperty ==
  ASSUME TypeOK
  PROVE  SentOncePerAttempt <=> \A i \in Intents : SentOnce(i)
<1>1. ASSUME NEW i \in Intents
      PROVE  sends[i] <= Len(attempts[i]) + errors + (IF InFlight(i) THEN 1 ELSE 0)
               <=> SentOnce(i)
  <2>1. CASE InFlight(i)
    BY <2>1 DEF SentOnce
  <2>2. CASE ~InFlight(i)
    BY <2>2, CountsTyped DEF SentOnce
  <2>3. QED
    BY <2>1, <2>2
<1>2. QED
  BY <1>1, Zenon DEF SentOncePerAttempt, InFlight

\* No step but a send adds a message; what ends a flight is counted.
LEMMA SentOnceKept ==
  ASSUME TypeOK, TypeOK', NEW i \in Intents, SentOnce(i), sends'[i] = sends[i],
         Len(attempts'[i]) >= Len(attempts[i]), errors' >= errors,
         \/ InFlight(i) => InFlight(i)'
         \/ Len(attempts'[i]) > Len(attempts[i])
         \/ errors' > errors
  PROVE  SentOnce(i)'
<1>1. /\ sends[i] \in Nat /\ errors \in Nat /\ Len(attempts[i]) \in Nat
      /\ errors' \in Nat /\ Len(attempts'[i]) \in Nat
  BY CountsTyped, LimitAssumption DEF TypeOK
<1>2. SentOnce(i)' <=>
        /\ InFlight(i)' => sends'[i] <= Len(attempts'[i]) + errors' + 1
        /\ ~InFlight(i)' => sends'[i] <= Len(attempts'[i]) + errors'
  BY DEF SentOnce
<1>3. QED
  BY <1>1, <1>2 DEF SentOnce

\* The one dispatcher that sends for an intent is not yet in flight.
LEMMA SentOnceOfSend ==
  ASSUME TypeOK, RowsInv, NEW d \in Dispatchers, Send(d),
         NEW i \in Intents, SentOnce(i)
  PROVE  SentOnce(i)'
<1>1. PICK outcome \in Outcomes, ref \in BOOLEAN, reached \in BOOLEAN :
        /\ tx' = [tx EXCEPT ![d].outcome = outcome, ![d].ref = ref]
        /\ sends' = [sends EXCEPT ![tx[d].row.intent] = IF reached THEN @ + 1 ELSE @]
  BY Zenon DEF Send
<1>2. /\ tx'[d].row = tx[d].row /\ tx'[d].outcome = outcome
      /\ \A e \in Dispatchers \ {d} : tx'[e] = tx[e]
  BY <1>1 DEF TypeOK, Transaction
<1>3. attempts' = attempts /\ errors' = errors /\ Claimed(d)
  BY DEF Send, facts
<1>4. outcome # "none" /\ Sent(d)'
  BY <1>2, <1>3 DEF Claimed, Sent, Outcomes
<1>5. /\ sends[i] \in Nat /\ errors \in Nat /\ Len(attempts[i]) \in Nat
  BY CountsTyped
<1>6. CASE tx[d].row.intent = i
  <2>1. ~InFlight(i)
    <3> SUFFICES ASSUME NEW e \in Dispatchers, Sent(e), tx[e].row.intent = i
                 PROVE  FALSE
      BY DEF InFlight
    <3>1. tx[e].row = tx[d].row
      BY <1>3, <1>6 DEF RowsInv, HeldRowsOpen, OneRowEach, Sent, Claimed
    <3>2. e = d
      BY <1>3, <3>1 DEF RowsInv, HeldOnce, Claimed
    <3>3. QED
      BY <1>3, <3>2 DEF Claimed, Sent
  <2>2. InFlight(i)'
    BY <1>2, <1>4, <1>6 DEF InFlight
  <2>3. sends'[i] <= sends[i] + 1
    BY <1>1, <1>5, <1>6 DEF TypeOK
  <2>4. sends'[i] \in Nat
    BY <1>1, <1>5, <1>6 DEF TypeOK
  <2>5. sends'[i] <= Len(attempts'[i]) + errors' + 1
    BY <1>3, <1>5, <2>1, <2>3, <2>4 DEF SentOnce
  <2>6. QED
    BY <2>2, <2>5 DEF SentOnce
<1>7. CASE tx[d].row.intent # i
  <2>1. sends'[i] = sends[i]
    BY <1>1, <1>7 DEF TypeOK
  <2>2. InFlight(i)' = InFlight(i)
    BY <1>2, <1>7 DEF InFlight, Sent
  <2>3. QED
    BY <1>3, <2>1, <2>2 DEF SentOnce
<1>8. QED
  BY <1>6, <1>7

LEMMA SentOnceOfComplete ==
  ASSUME TypeOK, TypeOK', RowsInv, NEW d \in Dispatchers, Complete(d),
         NEW i \in Intents, SentOnce(i)
  PROVE  SentOnce(i)'
<1>0. PICK j \in Intents : tx[d].row.intent = j
  BY RowTyped DEF Complete, Sent
<1>1. /\ sends' = sends /\ errors' = errors /\ tx' = Closed(d)
      /\ Len(attempts'[j]) = tx[d].row.n /\ tx[d].row.n > Len(attempts[j])
      /\ \A k \in Intents \ {j} : attempts'[k] = attempts[k]
  <2>1. /\ Len(attempts'[j]) = tx[d].row.n
        /\ \A k \in Intents \ {j} : attempts'[k] = attempts[k]
    BY <1>0, CompletedFacts
  <2>2. /\ sends' = sends /\ errors' = errors /\ tx' = Closed(d)
        /\ tx[d].row.n > Len(attempts[j])
    BY <1>0 DEF Complete
  <2>3. QED
    BY <2>1, <2>2
<1>2. errors \in Nat /\ Len(attempts[i]) \in Nat
  BY CountsTyped
<1>3. CASE i = j
  <2>1. Len(attempts'[i]) > Len(attempts[i])
    BY <1>1, <1>3
  <2>2. Len(attempts'[i]) >= Len(attempts[i])
    BY <1>2, <2>1, LimitAssumption DEF TypeOK
  <2>3. QED
    BY <1>1, <1>2, <2>1, <2>2, SentOnceKept
<1>4. CASE i # j
  <2>1. InFlight(i) => InFlight(i)'
    BY <1>0, <1>1, <1>4, ClosedHolds DEF InFlight, Sent
  <2>2. QED
    BY <1>1, <1>2, <1>4, <2>1, SentOnceKept
<1>5. QED
  BY <1>3, <1>4

LEMMA SentOnceOfDispatcher ==
  ASSUME TypeOK, TypeOK', RowsInv, NEW d \in Dispatchers, DispatcherStep(d),
         NEW i \in Intents, SentOnce(i)
  PROVE  SentOnce(i)'
<1>0. errors \in Nat /\ Len(attempts[i]) \in Nat
  BY CountsTyped
<1>1. CASE Claim(d) \/ CycleEnds(d) \/ GivesBack(d)
  <2>1. sends' = sends /\ attempts' = attempts /\ errors' = errors /\ ~Sent(d)
    BY <1>1 DEF Claim, CycleEnds, GivesBack, SkipSuppressed, SendRaises,
           Claimed, Sent, facts
  <2>2. \A e \in Dispatchers \ {d} : tx'[e] = tx[e]
    <3>1. CASE Claim(d) \/ CycleEnds(d)
      BY <3>1 DEF Claim, CycleEnds, TypeOK
    <3>2. CASE GivesBack(d)
      <4>1. \A e \in Dispatchers \ {d} : tx'[e] = Closed(d)[e]
        BY <3>2, ClosedTyped DEF GivesBack, SkipSuppressed, SendRaises
      <4>2. QED
        BY <4>1, ClosedHolds
    <3>3. QED
      BY <1>1, <3>1, <3>2
  <2>3. InFlight(i) => InFlight(i)'
    BY <2>1, <2>2 DEF InFlight, Sent
  <2>4. QED
    BY <1>0, <2>1, <2>3, SentOnceKept
<1>2. CASE DispatchRaises(d) \/ DispatcherDies(d)
  <2>1. sends' = sends /\ attempts' = attempts /\ errors' = errors + 1
    BY <1>2 DEF DispatchRaises, DispatcherDies, facts
  <2>2. QED
    BY <1>0, <2>1, SentOnceKept
<1>3. QED
  BY <1>1, <1>2, SentOnceOfSend, SentOnceOfComplete
  DEF DispatcherStep, DispatcherRuns

LEMMA SentOnceNext ==
  ASSUME TypeOK, TypeOK', RowsInv, [Next]_vars, NEW i \in Intents, SentOnce(i)
  PROVE  SentOnce(i)'
<1>0. errors \in Nat /\ Len(attempts[i]) \in Nat
  BY CountsTyped
<1>1. ASSUME UNCHANGED <<attempts, tx, sends, errors>> PROVE SentOnce(i)'
  BY <1>1 DEF SentOnce, InFlight, Sent
<1>2. ASSUME NEW j \in Intents, CreateIntent(j) \/ Hindrance(j)
      PROVE  SentOnce(i)'
  BY <1>1, <1>2 DEF CreateIntent, Hindrance, Suppress, Release, AdapterBreaks,
      AdapterMends, facts
<1>3. ASSUME NEW r \in dispatches, BackoffPasses(r) PROVE SentOnce(i)'
  BY <1>1, <1>3 DEF BackoffPasses, facts
<1>4. ASSUME NEW s \in Sessions, CallbackStep(s) PROVE SentOnce(i)'
  BY <1>1, <1>4
  DEF CallbackStep, ParkCallback, BeginCallback, CommitCallback, CallbackFails, facts
<1>5. CASE UNCHANGED vars
  BY <1>1, <1>5 DEF vars
<1>6. QED
  BY <1>2, <1>3, <1>4, <1>5, SentOnceOfDispatcher DEF Next

LEMMA SentOnceInit == Init => \A i \in Intents : SentOnce(i)
  BY DEF Init, SentOnce, InFlight, Sent, NoTx

\* The recipient gets at most one message per recorded attempt, one more
\* while a send is not recorded, and one more for each crash or exception:
\* the price of sending inside the transaction that records it.
THEOREM SentOnceEach == Spec => []SentOncePerAttempt
<1> DEFINE Inv == TypeOK /\ RowsInv /\ \A i \in Intents : SentOnce(i)
<1>1. Init => Inv
  BY InitTyped, RowsInit, SentOnceInit
<1>2. Inv /\ [Next]_vars => Inv'
  <2> SUFFICES ASSUME Inv, [Next]_vars PROVE Inv'
    OBVIOUS
  <2>1. TypeOK' /\ RowsInv'
    BY NextTyped, RowsNext
  <2>2. ASSUME NEW i \in Intents PROVE SentOnce(i)'
    BY <2>1, SentOnceNext
  <2>3. QED
    BY <2>1, <2>2
<1>3. Inv => SentOncePerAttempt
  BY SentOnceIsProperty
<1>4. QED
  BY <1>1, <1>2, <1>3, PTL DEF Spec

-----------------------------------------------------------------------------
(* The projection, when callbacks are handled one at a time                *)

Serial == \A s, t \in Sessions : s = t

\* The strengthening: callbacks concern accepted intents only, and what an
\* open one has computed is what its commit will make true.
BoundAccepted == \A i \in bound : Accepted(i)

EvidenceBound == \A i \in Intents \ bound : evidence[i] = {}

SessionsCurrent ==
    \A s \in Sessions :
        session[s] # NoSession =>
            /\ session[s].callback.intent \in bound
            /\ session[s].computed = Projected(attempts[session[s].callback.intent],
                                               SeenWith(session[s].callback))

SerialInv ==
    /\ BoundAccepted
    /\ EvidenceBound
    /\ SessionsCurrent
    /\ ProjectionFollowsFacts

LEMMA SerialInit == Init => SerialInv
  BY DEF Init, SerialInv, BoundAccepted, EvidenceBound, SessionsCurrent,
         ProjectionFollowsFacts, NoProjection

\* Only an acceptance binds a reference.
LEMMA BoundOfComplete ==
  ASSUME TypeOK, RowsInv, BoundAccepted, NEW d \in Dispatchers, Complete(d)
  PROVE  BoundAccepted'
<1>0. PICK i \in Intents : tx[d].row.intent = i
  BY RowTyped DEF Complete, Sent
<1>1. /\ ~Accepted(i)
      /\ \A j \in Intents \ {i} : attempts'[j] = attempts[j]
  BY <1>0, CompletedFacts
<1>2. i \notin bound
  BY <1>1 DEF BoundAccepted
<1>3. /\ bound' = (IF tx[d].ref THEN bound \cup {i} ELSE bound)
      /\ attempts' = [attempts EXCEPT ![i] = Append(@, tx[d].outcome)]
  BY <1>0, Zenon DEF Complete
<1>4. ASSUME NEW j \in bound PROVE Accepted(j)'
  <2>1. j \in Intents \ {i} /\ Accepted(j)
    BY <1>2 DEF TypeOK, BoundAccepted
  <2>2. QED
    BY <1>1, <2>1 DEF Accepted
<1>5. ASSUME tx[d].ref PROVE Accepted(i)'
  <2>1. tx[d].outcome = "provider_accepted" /\ attempts[i] \in Seq(Outcomes)
    BY <1>5 DEF RowsInv, NamedIfAccepted, TypeOK
  <2>2. attempts'[i] = Append(attempts[i], "provider_accepted")
    BY <1>3, <2>1 DEF TypeOK
  <2>3. /\ Len(attempts[i]) + 1 \in DOMAIN attempts'[i]
        /\ attempts'[i][Len(attempts[i]) + 1] = "provider_accepted"
    BY <2>1, <2>2
  <2>4. QED
    BY <2>3 DEF Accepted
<1>6. QED
  BY <1>3, <1>4, <1>5 DEF BoundAccepted

LEMMA SerialOfComplete ==
  ASSUME TypeOK, RowsInv, SerialInv, NEW d \in Dispatchers, Complete(d)
  PROVE  SerialInv'
<1>0. PICK i \in Intents : tx[d].row.intent = i
  BY RowTyped DEF Complete, Sent
<1>1. /\ ~Accepted(i)
      /\ \A j \in Intents \ {i} : attempts'[j] = attempts[j]
  BY <1>0, CompletedFacts
<1>2. i \notin bound
  BY <1>1 DEF SerialInv, BoundAccepted
<1>3. /\ evidence' = evidence /\ session' = session
      /\ bound' = (IF tx[d].ref THEN bound \cup {i} ELSE bound)
      /\ projection' = [projection EXCEPT ![i] = Projected(attempts'[i], evidence[i])]
      /\ attempts' = [attempts EXCEPT ![i] = Append(@, tx[d].outcome)]
  BY <1>0, Zenon DEF Complete, callbackVars
<1>4. BoundAccepted'
  BY BoundOfComplete DEF SerialInv
<1>5. EvidenceBound'
  BY <1>3 DEF SerialInv, EvidenceBound
<1>6. SessionsCurrent'
  <2> SUFFICES ASSUME NEW s \in Sessions, session[s] # NoSession
               PROVE  /\ session[s].callback.intent \in bound'
                      /\ session[s].computed =
                           Projected(attempts'[session[s].callback.intent],
                                     SeenWith(session[s].callback)')
    BY <1>3, Zenon DEF SessionsCurrent, SeenWith
  <2>1. /\ session[s].callback.intent \in bound
        /\ session[s].callback.intent \in Intents \ {i}
        /\ session[s].computed = Projected(attempts[session[s].callback.intent],
                                           SeenWith(session[s].callback))
    BY <1>2, SessionTyped DEF SerialInv, SessionsCurrent
  <2>2. SeenWith(session[s].callback)' = SeenWith(session[s].callback)
    BY <1>3 DEF SeenWith
  <2>3. QED
    BY <1>1, <1>3, <2>1, <2>2
<1>7. ProjectionFollowsFacts'
  BY <1>1, <1>3 DEF SerialInv, ProjectionFollowsFacts, TypeOK
<1>8. QED
  BY <1>4, <1>5, <1>6, <1>7 DEF SerialInv

\* The only session there is computed its projection from what is stored.
LEMMA SerialOfCallback ==
  ASSUME Serial, TypeOK, SerialInv, NEW s \in Sessions, CallbackStep(s)
  PROVE  SerialInv'
<1>1. ASSUME NEW c \in Callback, ParkCallback(s, c) PROVE SerialInv'
  BY <1>1 DEF ParkCallback, facts, SerialInv, BoundAccepted, EvidenceBound,
              SessionsCurrent, ProjectionFollowsFacts, Accepted, SeenWith
<1>2. ASSUME NEW c \in Callback, BeginCallback(s, c) PROVE SerialInv'
  <2>1. /\ session' = [session EXCEPT ![s] =
              [callback |-> c, computed |-> Projected(attempts[c.intent], SeenWith(c))]]
        /\ UNCHANGED <<attempts, evidence, bound, projection>>
        /\ c.intent \in bound
    BY <1>2 DEF BeginCallback, Admitted, facts
  <2>2. /\ session'[s].callback = c
        /\ session'[s].computed = Projected(attempts[c.intent], SeenWith(c))
        /\ \A t \in Sessions : t = s
    BY <2>1 DEF TypeOK, Serial
  <2>3. \A x : SeenWith(x)' = SeenWith(x)
    BY <2>1 DEF SeenWith
  <2>4. SessionsCurrent'
    BY <2>1, <2>2, <2>3 DEF SessionsCurrent
  <2>5. BoundAccepted' /\ EvidenceBound' /\ ProjectionFollowsFacts'
    BY <2>1 DEF SerialInv, BoundAccepted, EvidenceBound, ProjectionFollowsFacts, Accepted
  <2>6. QED
    BY <2>4, <2>5 DEF SerialInv
<1>3. CASE CommitCallback(s)
  <2> DEFINE c == session[s].callback
  <2>1. /\ session[s] # NoSession
        /\ evidence' = [evidence EXCEPT ![c.intent] = @ \cup {c.report}]
        /\ projection' = [projection EXCEPT ![c.intent] = session[s].computed]
        /\ session' = [session EXCEPT ![s] = NoSession]
        /\ UNCHANGED <<attempts, bound>>
    BY <1>3, Zenon DEF CommitCallback
  <2>2. /\ c.intent \in bound /\ c.intent \in Intents
        /\ session[s].computed = Projected(attempts[c.intent],
                                           evidence[c.intent] \cup {c.report})
    BY <2>1, SessionTyped DEF SerialInv, SessionsCurrent, SeenWith
  <2>3. SessionsCurrent'
    <3>1. \A t \in Sessions : session'[t] = NoSession
      BY <2>1 DEF TypeOK, Serial
    <3>2. QED
      BY <3>1, Zenon DEF SessionsCurrent
  <2>4. ProjectionFollowsFacts'
    <3> SUFFICES ASSUME NEW i \in Intents, projection'[i].state # "none"
                 PROVE  projection'[i] = Projected(attempts'[i], evidence'[i])
      BY Zenon DEF ProjectionFollowsFacts
    <3>1. CASE i = c.intent
      BY <2>1, <2>2, <3>1 DEF TypeOK
    <3>2. CASE i # c.intent
      BY <2>1, <3>2 DEF TypeOK, SerialInv, ProjectionFollowsFacts
    <3>3. QED
      BY <3>1, <3>2
  <2>5. BoundAccepted' /\ EvidenceBound'
    BY <2>1, <2>2 DEF SerialInv, BoundAccepted, EvidenceBound, Accepted, TypeOK
  <2>6. QED
    BY <2>3, <2>4, <2>5 DEF SerialInv
<1>4. CASE CallbackFails(s)
  <2>1. /\ session' = [session EXCEPT ![s] = NoSession]
        /\ UNCHANGED <<attempts, evidence, bound, projection>>
    BY <1>4 DEF CallbackFails, facts
  <2>2. \A t \in Sessions : session'[t] = NoSession
    BY <2>1 DEF TypeOK, Serial
  <2>3. QED
    BY <2>1, <2>2 DEF SerialInv, BoundAccepted, EvidenceBound, SessionsCurrent,
                      ProjectionFollowsFacts, Accepted
<1>5. QED
  BY <1>1, <1>2, <1>3, <1>4 DEF CallbackStep

LEMMA SerialNext ==
  ASSUME Serial, TypeOK, RowsInv, SerialInv, [Next]_vars
  PROVE  SerialInv'
<1>1. ASSUME UNCHANGED <<attempts, evidence, bound, projection, session>>
      PROVE  SerialInv'
  BY <1>1 DEF SerialInv, BoundAccepted, EvidenceBound, SessionsCurrent,
              ProjectionFollowsFacts, Accepted, SeenWith
<1>2. ASSUME NEW i \in Intents, CreateIntent(i) \/ Hindrance(i)
      PROVE  SerialInv'
  BY <1>1, <1>2 DEF CreateIntent, Hindrance, Suppress, Release, AdapterBreaks,
      AdapterMends, facts, callbackVars
<1>3. ASSUME NEW r \in dispatches, BackoffPasses(r) PROVE SerialInv'
  BY <1>1, <1>3 DEF BackoffPasses, facts, callbackVars
<1>4. ASSUME NEW d \in Dispatchers, DispatcherStep(d) PROVE SerialInv'
  <2>1. CASE Complete(d)
    BY <2>1, SerialOfComplete
  <2>2. CASE ~Complete(d)
    BY <1>1, <1>4, <2>2
    DEF DispatcherStep, DispatcherRuns, Claim, CycleEnds, GivesBack,
        SkipSuppressed, SendRaises, Send,
        DispatchRaises, DispatcherDies, facts, callbackVars
  <2>3. QED
    BY <2>1, <2>2
<1>5. CASE UNCHANGED vars
  BY <1>1, <1>5 DEF vars, callbackVars
<1>6. QED
  BY <1>2, <1>3, <1>4, <1>5, SerialOfCallback DEF Next

LEMMA SerialAlways == ASSUME Serial PROVE Spec => [](TypeOK /\ RowsInv /\ SerialInv)
<1>1. Init => TypeOK /\ RowsInv /\ SerialInv
  BY InitTyped, RowsInit, SerialInit
<1>2. TypeOK /\ RowsInv /\ SerialInv /\ [Next]_vars
        => (TypeOK /\ RowsInv /\ SerialInv)'
  BY NextTyped, RowsNext, SerialNext
<1>3. QED
  BY <1>1, <1>2, PTL DEF Spec

\* With callbacks handled one at a time, the stored projection is always the
\* one that the attempts and the evidence give, whatever the dispatchers do.
THEOREM ProjectionExact == ASSUME Serial PROVE Spec => []ProjectionFollowsFacts
<1>1. TypeOK /\ RowsInv /\ SerialInv => ProjectionFollowsFacts
  BY DEF SerialInv
<1>2. QED
  BY <1>1, SerialAlways, PTL

\* Before an attempt is accepted there is nothing to downgrade.
LEMMA RankBeforeAcceptance ==
  ASSUME TypeOK, SerialInv, NEW i \in Intents, ~Accepted(i)
  PROVE  Rank[projection[i].state] = 0
<1>1. CASE projection[i].state = "none"
  BY <1>1 DEF Rank
<1>2. CASE projection[i].state # "none"
  <2>1. i \notin bound /\ evidence[i] = {}
    BY DEF SerialInv, BoundAccepted, EvidenceBound
  <2>2. attempts[i] \in Seq(Outcomes)
    BY DEF TypeOK
  <2>3. projection[i].state = LastOutcome(attempts[i])
    <3>1. projection[i] = Projected(attempts[i], {})
      BY <1>2, <2>1 DEF SerialInv, ProjectionFollowsFacts
    <3>2. projection[i].state = StateFrom(attempts[i], {})
      BY <3>1 DEF Projected
    <3>3. StateFrom(attempts[i], {}) \in {} \cup {LastOutcome(attempts[i])}
      BY <2>2, StateFromFacts
    <3>4. QED
      BY <3>2, <3>3
  <2>4. LastOutcome(attempts[i]) \in {"failed", "unknown", "dispatching"}
    <3>1. CASE attempts[i] = <<>>
      BY <3>1 DEF LastOutcome
    <3>2. CASE attempts[i] # <<>>
      <4>1. /\ Len(attempts[i]) \in DOMAIN attempts[i]
            /\ attempts[i][Len(attempts[i])] \in Outcomes
        BY <2>2, <3>2
      <4>2. attempts[i][Len(attempts[i])] # "provider_accepted"
        BY <4>1 DEF Accepted
      <4>3. QED
        BY <3>2, <4>1, <4>2 DEF LastOutcome, Outcomes
    <3>3. QED
      BY <3>1, <3>2
  <2>5. QED
    BY <2>3, <2>4 DEF Rank, Normalized, Outcomes
<1>3. QED
  BY <1>1, <1>2

LEMMA NeverDowngradedNext ==
  ASSUME Serial, TypeOK, TypeOK', RowsInv, SerialInv, [Next]_vars, NEW i \in Intents
  PROVE  Rank[projection'[i].state] >= Rank[projection[i].state]
<1>0. /\ Rank[projection[i].state] \in {0, 2, 3, 4}
      /\ Rank[projection'[i].state] \in {0, 2, 3, 4}
  BY RankTyped DEF TypeOK, ProjectionRow, States
<1>1. CASE projection'[i] = projection[i]
  BY <1>0, <1>1
<1>2. ASSUME NEW d \in Dispatchers, Complete(d)
      PROVE  Rank[projection'[i].state] >= Rank[projection[i].state]
  <2>1. CASE tx[d].row.intent = i
    <3>1. ~Accepted(i)
      BY <1>2, <2>1, CompletedFacts
    <3>2. QED
      BY <1>0, <3>1, RankBeforeAcceptance
  <2>2. CASE tx[d].row.intent # i
    BY <1>1, <1>2, <2>2 DEF Complete, TypeOK
  <2>3. QED
    BY <2>1, <2>2
<1>3. ASSUME NEW s \in Sessions, CommitCallback(s)
      PROVE  Rank[projection'[i].state] >= Rank[projection[i].state]
  <2> DEFINE c == session[s].callback
  <2>1. CASE c.intent = i
    <3>1. projection'[i] = Projected(attempts[i], evidence[i] \cup {c.report})
      BY <1>3, <2>1 DEF CommitCallback, TypeOK, SerialInv, SessionsCurrent, SeenWith
    <3>2. /\ attempts[i] \in Seq(Outcomes) /\ evidence[i] \in SUBSET Normalized
          /\ evidence[i] \cup {c.report} \in SUBSET Normalized
      BY <1>3, SessionTyped, ReportsAssumption DEF CommitCallback, TypeOK
    <3>3. CASE projection[i].state = "none"
      BY <1>0, <3>3 DEF Rank
    <3>4. CASE projection[i].state # "none"
      <4>1. projection[i] = Projected(attempts[i], evidence[i])
        BY <3>4 DEF SerialInv, ProjectionFollowsFacts
      <4>2. QED
        BY <1>0, <3>1, <3>2, <4>1, ProjectedAdvances
    <3>5. QED
      BY <3>3, <3>4
  <2>2. CASE c.intent # i
    BY <1>1, <1>3, <2>2 DEF CommitCallback, TypeOK
  <2>3. QED
    BY <2>1, <2>2
<1>4. ASSUME NEW j \in Intents, CreateIntent(j) \/ Hindrance(j)
      PROVE  projection'[i] = projection[i]
  BY <1>4 DEF CreateIntent, Hindrance, Suppress, Release, AdapterBreaks,
      AdapterMends
<1>5. ASSUME NEW r \in dispatches, BackoffPasses(r)
      PROVE  projection'[i] = projection[i]
  BY <1>5 DEF BackoffPasses
<1>6. ASSUME NEW d \in Dispatchers, DispatcherStep(d), ~Complete(d)
      PROVE  projection'[i] = projection[i]
  BY <1>6 DEF DispatcherStep, DispatcherRuns, Claim, CycleEnds, GivesBack,
        SkipSuppressed, SendRaises, Send,
              DispatchRaises, DispatcherDies
<1>7. ASSUME NEW s \in Sessions, CallbackStep(s), ~CommitCallback(s)
      PROVE  projection'[i] = projection[i]
  BY <1>7 DEF CallbackStep, ParkCallback, BeginCallback, CallbackFails
<1>8. CASE UNCHANGED vars
  BY <1>1, <1>8 DEF vars
<1>9. QED
  BY <1>1, <1>2, <1>3, <1>4, <1>5, <1>6, <1>7, <1>8 DEF Next

\* With callbacks handled one at a time, no step lowers the delivery state
\* that an intent shows: reports that come late or out of order included.
THEOREM NoDowngrade == ASSUME Serial PROVE Spec => NeverDowngraded
<1>1. TypeOK /\ RowsInv /\ SerialInv /\ [Next]_vars
        => [\A i \in Intents : Rank[projection'[i].state] >= Rank[projection[i].state]]_projection
  BY NextTyped, NeverDowngradedNext
<1>2. QED
  BY <1>1, SerialAlways, PTL DEF Spec, NeverDowngraded
-----------------------------------------------------------------------------
(* The projection, however many callbacks are handled at once              *)

\* The row that the attempts give with some of these reports.
FromSome(row, tried, reports) ==
    \E seen \in SUBSET reports : row = Projected(tried, seen)

\* The strengthening: what an open callback has computed is from the attempts
\* of an accepted intent, which do not change any more, and from evidence.
Grounded(s) ==
    /\ session[s].callback.intent \in bound
    /\ FromSome(session[s].computed, attempts[session[s].callback.intent],
                SeenWith(session[s].callback))

SessionsGrounded == \A s \in Sessions : session[s] # NoSession => Grounded(s)

GroundedInv ==
    /\ BoundAccepted
    /\ SessionsGrounded
    /\ ProjectionFromFacts

LEMMA GroundedInit == Init => GroundedInv
  BY DEF Init, GroundedInv, BoundAccepted, SessionsGrounded, ProjectionFromFacts,
         NoProjection

LEMMA FromMore ==
  ASSUME NEW row, NEW tried, NEW reports, NEW more, reports \subseteq more,
         FromSome(row, tried, reports)
  PROVE  FromSome(row, tried, more)
  BY DEF FromSome

\* Evidence only grows, and what an accepted intent was tried stays.
LEMMA GroundedSessions ==
  ASSUME SessionsGrounded, NEW s \in Sessions, session[s] # NoSession,
         session'[s] = session[s], bound \subseteq bound',
         LET i == session[s].callback.intent
         IN  attempts'[i] = attempts[i] /\ evidence[i] \subseteq evidence'[i]
  PROVE  Grounded(s)'
<1> DEFINE c == session[s].callback
<1>1. c.intent \in bound /\ FromSome(session[s].computed, attempts[c.intent], SeenWith(c))
  BY DEF SessionsGrounded, Grounded
<1>2. SeenWith(session[s].callback)' = evidence'[c.intent] \cup {c.report}
  BY DEF SeenWith
<1>3. SeenWith(c) \subseteq evidence'[c.intent] \cup {c.report}
  BY DEF SeenWith
<1>4. FromSome(session[s].computed, attempts[c.intent], evidence'[c.intent] \cup {c.report})
  BY <1>1, <1>3, FromMore
<1> HIDE DEF c
<1>5. session'[s].callback = c /\ session'[s].computed = session[s].computed
  BY DEF c
<1>6. bound \subseteq bound' /\ attempts'[c.intent] = attempts[c.intent]
  BY DEF c
<1> QED
  BY <1>1, <1>2, <1>4, <1>5, <1>6 DEF Grounded, c

LEMMA GroundedOfComplete ==
  ASSUME TypeOK, RowsInv, GroundedInv, NEW d \in Dispatchers, Complete(d)
  PROVE  GroundedInv'
<1>0. PICK i \in Intents : tx[d].row.intent = i
  BY RowTyped DEF Complete, Sent
<1>1. /\ ~Accepted(i)
      /\ \A j \in Intents \ {i} : attempts'[j] = attempts[j]
  BY <1>0, CompletedFacts
<1>2. /\ evidence' = evidence /\ session' = session /\ bound \subseteq bound'
      /\ projection' = [projection EXCEPT ![i] = Projected(attempts'[i], evidence[i])]
  BY <1>0, Zenon DEF Complete, callbackVars
<1>3. BoundAccepted'
  BY BoundOfComplete DEF GroundedInv
<1>4. SessionsGrounded'
  <2> SUFFICES ASSUME NEW s \in Sessions, session[s] # NoSession
               PROVE  Grounded(s)'
    BY <1>2 DEF SessionsGrounded
  <2>1. session[s].callback.intent \in Intents \ {i}
    BY <1>1, SessionTyped DEF GroundedInv, SessionsGrounded, Grounded, BoundAccepted
  <2> QED
    BY <1>1, <1>2, <2>1, GroundedSessions DEF GroundedInv
<1>5. ProjectionFromFacts'
  <2> SUFFICES ASSUME NEW j \in Intents, projection'[j].state # "none"
               PROVE  \E seen \in SUBSET evidence'[j] :
                        projection'[j] = Projected(attempts'[j], seen)
    BY DEF ProjectionFromFacts
  <2>1. CASE j = i
    <3>1. projection'[j] = Projected(attempts'[j], evidence'[j])
      BY <1>2, <2>1 DEF TypeOK
    <3> QED
      BY <3>1
  <2>2. CASE j # i
    <3>1. projection'[j] = projection[j] /\ attempts'[j] = attempts[j]
      BY <1>1, <1>2, <2>2 DEF TypeOK
    <3> QED
      BY <1>2, <3>1 DEF GroundedInv, ProjectionFromFacts
  <2> QED
    BY <2>1, <2>2
<1> QED
  BY <1>3, <1>4, <1>5 DEF GroundedInv

LEMMA GroundedOfCallback ==
  ASSUME TypeOK, GroundedInv, NEW s \in Sessions, CallbackStep(s)
  PROVE  GroundedInv'
<1>0. /\ attempts' = attempts /\ bound' = bound
      /\ \A t \in Sessions \ {s} : session'[t] = session[t]
      /\ \A i \in Intents : evidence[i] \subseteq evidence'[i]
  <2>1. CASE CommitCallback(s)
    BY <2>1, SessionTyped DEF CommitCallback, TypeOK
  <2>2. CASE ~CommitCallback(s)
    BY <2>2 DEF CallbackStep, ParkCallback, BeginCallback, CallbackFails, facts, TypeOK
  <2> QED
    BY <2>1, <2>2
<1>1. BoundAccepted'
  BY <1>0 DEF GroundedInv, BoundAccepted, Accepted
\* The other sessions are as they were.
<1>2. ASSUME session'[s] # NoSession => Grounded(s)' PROVE SessionsGrounded'
  <2>1. ASSUME NEW t \in Sessions, session'[t] # NoSession
        PROVE  Grounded(t)'
    <3>1. CASE t = s
      BY <1>2, <2>1, <3>1
    <3>2. CASE t # s
      <4>1. session'[t] = session[t] /\ session[t] # NoSession
        BY <1>0, <2>1, <3>2
      <4>2. session[t].callback.intent \in Intents
        BY <4>1, SessionTyped
      <4> QED
        BY <1>0, <4>1, <4>2, GroundedSessions DEF GroundedInv
    <3> QED
      BY <3>1, <3>2
  <2> QED
    BY <2>1 DEF SessionsGrounded
<1>3. ASSUME UNCHANGED <<evidence, projection>> PROVE ProjectionFromFacts'
  BY <1>0, <1>3 DEF GroundedInv, ProjectionFromFacts
<1>4. ASSUME NEW c \in Callback, ParkCallback(s, c) PROVE GroundedInv'
  <2>1. UNCHANGED <<evidence, projection>> /\ session'[s] = NoSession
    BY <1>4 DEF ParkCallback, Admitted, facts
  <2> QED
    BY <1>1, <1>2, <1>3, <2>1 DEF GroundedInv
<1>5. ASSUME NEW c \in Callback, BeginCallback(s, c) PROVE GroundedInv'
  <2>1. /\ UNCHANGED <<evidence, projection>> /\ c.intent \in bound
        /\ session'[s].callback = c
        /\ session'[s].computed = Projected(attempts[c.intent], SeenWith(c))
    BY <1>5 DEF BeginCallback, Admitted, facts, TypeOK
  <2>2. SeenWith(session[s].callback)' = SeenWith(c)
    BY <2>1 DEF SeenWith
  <2>3. FromSome(session'[s].computed, attempts[c.intent], SeenWith(c))
    BY <2>1 DEF FromSome
  <2>4. Grounded(s)'
    BY <1>0, <2>1, <2>2, <2>3 DEF Grounded
  <2> QED
    BY <1>1, <1>2, <1>3, <2>1, <2>4 DEF GroundedInv
<1>6. CASE CommitCallback(s)
  <2> DEFINE c == session[s].callback
  <2>1. /\ session[s] # NoSession /\ session'[s] = NoSession
        /\ evidence' = [evidence EXCEPT ![c.intent] = @ \cup {c.report}]
        /\ projection' = [projection EXCEPT ![c.intent] = session[s].computed]
    BY <1>6 DEF CommitCallback, TypeOK
  <2>2. c.intent \in Intents /\ FromSome(session[s].computed, attempts[c.intent], SeenWith(c))
    BY <2>1, SessionTyped DEF GroundedInv, SessionsGrounded, Grounded
  <2> HIDE DEF c
  <2>3. ASSUME NEW i \in Intents, projection'[i].state # "none"
        PROVE  \E seen \in SUBSET evidence'[i] : projection'[i] = Projected(attempts'[i], seen)
    <3>1. CASE i = c.intent
      <4>1. projection'[i] = session[s].computed /\ evidence'[i] = SeenWith(c)
        BY <2>1, <2>2, <3>1 DEF TypeOK, SeenWith
      <4> QED
        BY <1>0, <2>2, <3>1, <4>1 DEF FromSome
    <3>2. CASE i # c.intent
      <4>1. projection'[i] = projection[i] /\ evidence'[i] = evidence[i]
        BY <2>1, <3>2 DEF TypeOK
      <4> QED
        BY <1>0, <2>3, <4>1 DEF GroundedInv, ProjectionFromFacts
    <3> QED
      BY <3>1, <3>2
  <2>4. ProjectionFromFacts'
    BY <2>3 DEF ProjectionFromFacts
  <2> QED
    BY <1>1, <1>2, <2>1, <2>4 DEF GroundedInv
<1>7. CASE CallbackFails(s)
  <2>1. UNCHANGED <<evidence, projection>> /\ session'[s] = NoSession
    BY <1>7 DEF CallbackFails, facts, TypeOK
  <2> QED
    BY <1>1, <1>2, <1>3, <2>1 DEF GroundedInv
<1> QED
  BY <1>4, <1>5, <1>6, <1>7 DEF CallbackStep

LEMMA GroundedNext ==
  ASSUME TypeOK, RowsInv, GroundedInv, [Next]_vars
  PROVE  GroundedInv'
<1>1. ASSUME UNCHANGED <<attempts, evidence, bound, projection, session>>
      PROVE  GroundedInv'
  BY <1>1 DEF GroundedInv, BoundAccepted, SessionsGrounded, Grounded,
              ProjectionFromFacts, Accepted, SeenWith
<1>2. ASSUME NEW i \in Intents, CreateIntent(i) \/ Hindrance(i)
      PROVE  GroundedInv'
  BY <1>1, <1>2 DEF CreateIntent, Hindrance, Suppress, Release, AdapterBreaks,
      AdapterMends, facts, callbackVars
<1>3. ASSUME NEW r \in dispatches, BackoffPasses(r) PROVE GroundedInv'
  BY <1>1, <1>3 DEF BackoffPasses, facts, callbackVars
<1>4. ASSUME NEW d \in Dispatchers, DispatcherStep(d) PROVE GroundedInv'
  <2>1. CASE ~Complete(d)
    BY <1>1, <1>4, <2>1
    DEF DispatcherStep, DispatcherRuns, Claim, CycleEnds, GivesBack,
        SkipSuppressed, SendRaises, Send,
        DispatchRaises, DispatcherDies, facts, callbackVars
  <2> QED
    BY <2>1, GroundedOfComplete
<1>5. CASE UNCHANGED vars
  BY <1>1, <1>5 DEF vars, callbackVars
<1> QED
  BY <1>2, <1>3, <1>4, <1>5, GroundedOfCallback DEF Next

\* For any number of callbacks handled at once: a projection has all of its
\* intent's attempts and invents no report, so that an accepted intent never
\* asks for a retry or a fallback; it may lack evidence, and nothing else.
THEOREM ProjectionGrounded == Spec => []ProjectionFromFacts
<1>1. Init => TypeOK /\ RowsInv /\ GroundedInv
  BY InitTyped, RowsInit, GroundedInit
<1>2. TypeOK /\ RowsInv /\ GroundedInv /\ [Next]_vars
        => (TypeOK /\ RowsInv /\ GroundedInv)'
  BY NextTyped, RowsNext, GroundedNext
<1>3. GroundedInv => ProjectionFromFacts
  BY DEF GroundedInv
<1> QED
  BY <1>1, <1>2, <1>3, PTL DEF Spec

-----------------------------------------------------------------------------
(* The work queue that is implemented                                      *)

\* Whoever is at an intent holds its one row, alone.
LEMMA HandledAlone ==
  ASSUME TypeOK, RowsInv, NEW p \in Intents, NEW d \in Handlers(p)
  PROVE  /\ tx[d].row # NoDispatch
         /\ PhaseOf(p) = "taken" /\ Handlers(p) = {d}
         /\ p \in intents /\ ~Accepted(p) /\ ~Exhausted(attempts[p])
<1>1. d \in Dispatchers /\ tx[d].row.intent = p /\ tx[d].row # NoDispatch
  BY AbsentAssumption DEF Handlers, NoDispatch
<1>2. tx[d].row \in Open(p) /\ p \in intents
  BY <1>1 DEF RowsInv, HeldRowsOpen, RowsInTurn, Open
<1>3. ~Accepted(p) /\ ~Exhausted(attempts[p])
  BY <1>2, RowsImplyTurn DEF DispatchedInTurn
<1>4. ASSUME NEW e \in Handlers(p) PROVE e = d
  <2>1. e \in Dispatchers /\ tx[e].row.intent = p /\ tx[e].row # NoDispatch
    BY AbsentAssumption DEF Handlers, NoDispatch
  <2>2. tx[e].row = tx[d].row
    BY <1>1, <2>1 DEF RowsInv, HeldRowsOpen, OneRowEach
  <2> QED
    BY <1>1, <2>1, <2>2 DEF RowsInv, HeldOnce
<1>5. Handlers(p) = {d}
  BY <1>4
<1> QED
  BY <1>1, <1>2, <1>3, <1>5 DEF PhaseOf

LEMMA Rests ==
  ASSUME NEW p \in Intents, PhaseOf(p)' = PhaseOf(p), Handlers(p)' = Handlers(p)
  PROVE  Queue!Step(p)
  BY DEF Queue!Step, Queue!Rest, Queue!Becomes

\* What concerns other intents.
LEMMA RestsIfUntouched ==
  ASSUME NEW p \in Intents, p \in intents' <=> p \in intents,
         attempts'[p] = attempts[p], Handlers(p)' = Handlers(p)
  PROVE  Queue!Step(p)
<1>1. PhaseOf(p)' = PhaseOf(p)
  BY DEF PhaseOf, Accepted, Exhausted
<1> QED
  BY <1>1, Rests

\* A transaction that is rolled back, or was never begun.
LEMMA RolledBack ==
  ASSUME TypeOK, RowsInv, NEW d \in Dispatchers, NEW p \in Intents,
         UNCHANGED <<intents, attempts>>, tx'[d].row = NoDispatch,
         \A e \in Dispatchers \ {d} : tx'[e] = tx[e]
  PROVE  Queue!Step(p)
<1>1. Handlers(p)' = Handlers(p) \ {d}
  BY AbsentAssumption DEF Handlers, NoDispatch
<1>2. CASE d \in Handlers(p)
  <2>1. Handlers(p)' = {} /\ Handlers(p) = {d} /\ PhaseOf(p) = "taken"
    BY <1>1, <1>2, HandledAlone
  <2>2. PhaseOf(p)' = "waiting"
    BY <1>2, <2>1, HandledAlone DEF PhaseOf, Accepted, Exhausted
  <2>3. Queue!Answer(p, d)
    BY <2>1, <2>2 DEF Queue!Answer, Queue!Becomes
  <2> QED
    BY <2>3 DEF Queue!Step
<1>3. CASE d \notin Handlers(p)
  BY <1>1, <1>3, RestsIfUntouched
<1> QED
  BY <1>2, <1>3

LEMMA QueueCreates ==
  ASSUME TypeOK, RowsInv, NEW i \in Intents, CreateIntent(i), NEW p \in Intents
  PROVE  Queue!Step(p)
<1>1. /\ i \notin intents /\ intents' = intents \cup {i}
      /\ attempts' = attempts /\ tx' = tx
  BY DEF CreateIntent
<1>2. Handlers(p)' = Handlers(p)
  BY <1>1 DEF Handlers
<1>3. CASE p # i
  BY <1>1, <1>2, <1>3, RestsIfUntouched
<1>4. CASE p = i
  <2>1. Handlers(p) = {}
    BY <1>1, <1>4, HandledAlone
  <2>2. attempts[p] = <<>>
    BY <1>1, <1>4 DEF RowsInv, UntriedFirst
  <2>3. PhaseOf(p) = "absent"
    BY <1>1, <1>4 DEF PhaseOf
  <2>4. ~Accepted(p)' /\ ~Exhausted(attempts[p])
    BY <1>1, <2>2, LimitAssumption DEF Accepted, Exhausted
  <2>5. PhaseOf(p)' = "waiting"
    BY <1>1, <1>2, <1>4, <2>1, <2>4 DEF PhaseOf, Exhausted
  <2>6. Queue!Submit(p)
    BY <1>2, <2>1, <2>3, <2>5 DEF Queue!Submit, Queue!Becomes
  <2> QED
    BY <2>6 DEF Queue!Step
<1> QED
  BY <1>3, <1>4

\* The row that is claimed is the one row of its intent, and no one has it.
LEMMA QueueClaims ==
  ASSUME TypeOK, RowsInv, NEW d \in Dispatchers, Claim(d), NEW p \in Intents
  PROVE  Queue!Step(p)
<1>1. PICK r \in Claimable(d) :
        tx' = [tx EXCEPT ![d].row = r, ![d].began = Cardinality(intents)]
  BY DEF Claim
<1>2. /\ r \in dispatches /\ r.intent \in intents /\ ~Locked(d, r)
      /\ tx[d].row = NoDispatch /\ intents' = intents /\ attempts' = attempts
  BY DEF Claimable, Claim, facts, RowsInv, RowsInTurn
<1>3. tx'[d].row = r /\ \A e \in Dispatchers \ {d} : tx'[e] = tx[e]
  BY <1>1 DEF TypeOK, Transaction
<1>4. d \notin Handlers(p)
  BY <1>2, AbsentAssumption DEF Handlers, NoDispatch
<1>5. CASE r.intent # p
  <2>1. Handlers(p)' = Handlers(p)
    BY <1>3, <1>4, <1>5 DEF Handlers
  <2> QED
    BY <1>2, <2>1, RestsIfUntouched
<1>6. CASE r.intent = p
  <2>1. Handlers(p) = {}
    <3> SUFFICES ASSUME NEW e \in Handlers(p) PROVE FALSE
      OBVIOUS
    <3>1. e \in Dispatchers \ {d} /\ tx[e].row # NoDispatch /\ tx[e].row.intent = p
      BY <1>4, HandledAlone DEF Handlers
    <3>2. tx[e].row = r
      BY <1>2, <1>6, <3>1 DEF RowsInv, HeldRowsOpen, OneRowEach
    <3> QED
      BY <1>2, <3>1, <3>2 DEF Locked
  <2>2. Handlers(p)' = {d}
    BY <1>3, <1>6, <2>1 DEF Handlers
  <2>3. r \in Open(p)
    BY <1>2, <1>6 DEF Open
  <2>4. p \in intents /\ ~Accepted(p) /\ ~Exhausted(attempts[p])
    BY <1>2, <1>6, <2>3, RowsImplyTurn DEF DispatchedInTurn
  <2>5. PhaseOf(p) = "waiting"
    BY <2>1, <2>4 DEF PhaseOf
  <2>6. PhaseOf(p)' = "taken"
    BY <1>2, <2>2, <2>4 DEF PhaseOf, Accepted, Exhausted
  <2>7. Queue!Take(p, d)
    BY <2>1, <2>2, <2>5, <2>6 DEF Queue!Take, Queue!Becomes
  <2> QED
    BY <2>7 DEF Queue!Step
<1> QED
  BY <1>5, <1>6

LEMMA QueueSends ==
  ASSUME TypeOK, RowsInv, NEW d \in Dispatchers, Send(d), NEW p \in Intents
  PROVE  Queue!Step(p)
<1>1. PICK outcome \in Outcomes, ref \in BOOLEAN, reached \in BOOLEAN :
        tx' = [tx EXCEPT ![d].outcome = outcome, ![d].ref = ref]
  BY Zenon DEF Send
<1>2. \A e \in Dispatchers : tx'[e].row = tx[e].row
  BY <1>1 DEF TypeOK, Transaction
<1>3. Handlers(p)' = Handlers(p)
  BY <1>2 DEF Handlers
<1> QED
  BY <1>3, RestsIfUntouched DEF Send, facts

\* What is recorded ends the intent or makes it wait for its next attempt.
LEMMA QueueCompletes ==
  ASSUME TypeOK, RowsInv, NEW d \in Dispatchers, Complete(d), NEW p \in Intents
  PROVE  Queue!Step(p)
<1>0. PICK i \in Intents : tx[d].row.intent = i
  BY RowTyped DEF Complete, Sent
<1>1. intents' = intents /\ tx' = Closed(d)
  BY DEF Complete
<1>2. tx'[d].row = NoDispatch /\ \A e \in Dispatchers \ {d} : tx'[e] = tx[e]
  BY <1>1, ClosedHolds
<1>3. Handlers(p)' = Handlers(p) \ {d}
  BY <1>2, AbsentAssumption DEF Handlers, NoDispatch
<1>4. CASE p # i
  <2>1. Handlers(p)' = Handlers(p)
    BY <1>0, <1>3, <1>4 DEF Handlers
  <2>2. attempts'[p] = attempts[p]
    BY <1>0, <1>4, CompletedFacts
  <2> QED
    BY <1>1, <2>1, <2>2, RestsIfUntouched
<1>5. CASE p = i
  <2>1. d \in Handlers(p)
    BY <1>0, <1>5 DEF Handlers
  <2>2. Handlers(p) = {d} /\ PhaseOf(p) = "taken" /\ p \in intents
    BY <2>1, HandledAlone
  <2>3. Handlers(p)' = {}
    BY <1>3, <2>2
  <2>4. PhaseOf(p)' \in {"done", "failed", "waiting"}
    BY <1>1, <2>2, <2>3 DEF PhaseOf
  <2>5. Queue!Answer(p, d)
    BY <2>2, <2>3, <2>4 DEF Queue!Answer, Queue!Becomes
  <2> QED
    BY <2>5 DEF Queue!Step
<1> QED
  BY <1>4, <1>5

LEMMA QueueDispatches ==
  ASSUME TypeOK, RowsInv, NEW d \in Dispatchers, DispatcherStep(d), NEW p \in Intents
  PROVE  Queue!Step(p)
<1>1. CASE GivesBack(d) \/ DispatchRaises(d)
  <2>1. UNCHANGED <<intents, attempts>> /\ tx' = Closed(d)
    BY <1>1 DEF GivesBack, SkipSuppressed, SendRaises, DispatchRaises, facts
  <2> QED
    BY <2>1, ClosedHolds, RolledBack
<1>2. CASE CycleEnds(d) \/ DispatcherDies(d)
  <2>1. UNCHANGED <<intents, attempts>> /\ tx' = [tx EXCEPT ![d] = NoTx]
    BY <1>2 DEF CycleEnds, DispatcherDies, facts
  <2>2. tx'[d].row = NoDispatch /\ \A e \in Dispatchers \ {d} : tx'[e] = tx[e]
    BY <2>1 DEF NoTx, TypeOK
  <2> QED
    BY <2>1, <2>2, RolledBack
<1> QED
  BY <1>1, <1>2, QueueClaims, QueueSends, QueueCompletes
     DEF DispatcherStep, DispatcherRuns

LEMMA QueueSteps ==
  ASSUME TypeOK, RowsInv, [Next]_vars, NEW p \in Intents
  PROVE  Queue!Step(p)
<1>1. ASSUME UNCHANGED <<intents, attempts, tx>> PROVE Queue!Step(p)
  <2>1. Handlers(p)' = Handlers(p)
    BY <1>1 DEF Handlers
  <2> QED
    BY <1>1, <2>1, RestsIfUntouched
<1>2. ASSUME NEW i \in Intents, Hindrance(i) PROVE Queue!Step(p)
  BY <1>1, <1>2 DEF Hindrance, Suppress, Release, AdapterBreaks,
      AdapterMends, facts
<1>3. ASSUME NEW r \in dispatches, BackoffPasses(r) PROVE Queue!Step(p)
  BY <1>1, <1>3 DEF BackoffPasses, facts
<1>4. ASSUME NEW s \in Sessions, CallbackStep(s) PROVE Queue!Step(p)
  BY <1>1, <1>4
  DEF CallbackStep, ParkCallback, BeginCallback, CommitCallback, CallbackFails, facts
<1>5. CASE UNCHANGED vars
  BY <1>1, <1>5 DEF vars
<1> QED
  BY <1>2, <1>3, <1>4, <1>5, QueueCreates, QueueDispatches DEF Next

LEMMA QueueInit == Init => Queue!Init
<1> SUFFICES ASSUME Init PROVE Queue!Init
  OBVIOUS
<1>1. \A i \in Intents : PhaseOf(i) = "absent"
  BY DEF Init, PhaseOf
<1>2. \A i \in Intents : Handlers(i) = {}
  BY AbsentAssumption DEF Init, Handlers, NoTx, NoDispatch
<1> QED
  BY <1>1, <1>2 DEF Queue!Init

\* One dispatcher at a time is at an intent, only what it records moves the
\* intent on, and a crash, an exception or a suppression gives it back whole:
\* the row lock is all the claim that is needed.
THEOREM DispatchImplementsWorkQueue == Spec => ImplementsWorkQueue
<1>1. TypeOK /\ RowsInv /\ [Next]_vars => [Queue!Next]_(Queue!vars)
  BY QueueSteps DEF Queue!Next
<1> QED
  BY <1>1, QueueInit, RowsAlways, PTL DEF Spec, ImplementsWorkQueue, Queue!Spec
=============================================================================
