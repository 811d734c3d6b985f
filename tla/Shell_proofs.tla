---------------------------- MODULE Shell_proofs ----------------------------
(***************************************************************************)
(* What holds of the frame and the NOC for any number of tenants, switches *)
(* and failures, whatever tables the database has.                         *)
(***************************************************************************)
EXTENDS Shell, TLAPS

USE DEF serverVars, sessionVars, selectVars, viewVars, badgeVars, nocVars

-----------------------------------------------------------------------------
(* Types                                                                   *)

LEMMA TypeInit == Init => TypeOK
<1>1. First \in Tenants
  BY ShellAssumption DEF First
<1>2. Init => session \in Sessions /\ look \in [phase : {"idle", "sent", "read"},
                                                session : Sessions]
  BY DEF Init, Unknown, At, Looking, NoLook, States, Sessions
<1>3. Init => /\ shown \in [of : Tenants \cup {None}, version : Nat]
              /\ es \in [phase : {"closed", "connecting", "open"},
                         of : Tenants \cup {None}]
              /\ es.phase # "open"
  BY DEF Init, Nothing, Closed
<1>4. Init => selects = {} /\ asks = {}
  BY DEF Init
<1>5. Init => /\ path \in Views /\ lastPath \in [Tenants -> Views]
              /\ alerts \in [Tenants -> Nat]
              /\ badge \in [Tenants -> Tenants \cup {None}]
              /\ badgeGet \in [Tenants -> BOOLEAN]
  BY DEF Init, Views
<1> QED
  <2>5. Init => standing \in [Tenants -> Standings]
    BY ShellAssumption DEF Init, Standings
  <2>1. Init => /\ follow \in {"count", "noc"} /\ tables \in Deployments /\ alive \in BOOLEAN
                /\ bound \in Tenants \cup {None}
    BY <1>1, ShellAssumption DEF Init
  <2>2. 0 \in 0 .. MaxMoves /\ 0 \in 0 .. MaxMishaps /\ 0 \in Nat
    BY ShellAssumption
  <2>4. Init => /\ started \in Nat /\ missed \in BOOLEAN /\ expired \in BOOLEAN
                /\ moves \in 0 .. MaxMoves /\ stray \in Nat /\ retry \in BOOLEAN
                /\ mishaps \in 0 .. MaxMishaps
    BY <2>2, Zenon DEF Init
  <2>3. Init => /\ selects \subseteq [id : Nat, tenant : Tenants,
                                     code : {"sent", "200", "401", "403"}]
                /\ asks \subseteq Answers
    BY <1>4
  <2> QED
    BY <1>2, <1>3, <1>5, <2>1, <2>3, <2>4, <2>5 DEF TypeOK

\* What the server tells of a session, and what it answers, is well formed.
LEMMA SessionNowType == TypeOK => SessionNow \in Sessions
BY DEF TypeOK, SessionNow, Accessible, At, Sessions, States

LEMMA AnswerType == TypeOK => Answer(Status) \in Answers
BY DEF TypeOK, Answer, Status, Answers, Idle

LEMMA SentType == Sent \in Answers
BY DEF Sent, Idle, Answers

LEMMA RunNocType ==
    ASSUME TypeOK, NEW s, NEW view, RunNoc(s, view)
    PROVE  /\ shown' \in [of : Tenants \cup {None}, version : Nat]
           /\ asks' \subseteq Answers
           /\ es' \in [phase : {"closed", "connecting", "open"}, of : Tenants \cup {None}]
           /\ es'.phase = "open" => es'.of \in Tenants
           /\ stray' \in Nat /\ retry' \in BOOLEAN
<1>1. CASE UNCHANGED nocVars
  BY <1>1 DEF TypeOK
<1>2. CASE ~UNCHANGED nocVars
  <2>1. PICK t : /\ asks' = IF t = None THEN {} ELSE {Sent}
                 /\ es' = IF t = None THEN Closed ELSE Connecting
                 /\ retry' = FALSE
                 /\ shown' = IF Noc = None THEN Nothing ELSE shown
                 /\ stray' = stray
    BY <1>2 DEF RunNoc, LeftOpen
  <2>2. asks' \subseteq Answers
    BY <2>1, SentType
  <2>3. /\ es' \in [phase : {"closed", "connecting", "open"}, of : Tenants \cup {None}]
        /\ es'.phase # "open"
    BY <2>1 DEF Closed, Connecting
  <2>4. shown' \in [of : Tenants \cup {None}, version : Nat]
    BY <2>1 DEF Nothing, TypeOK
  <2> QED
    BY <2>1, <2>2, <2>3, <2>4 DEF TypeOK
<1> QED
  BY <1>1, <1>2

LEMMA TypeNext == TypeOK /\ [Next]_vars => TypeOK'
<1> SUFFICES ASSUME TypeOK, [Next]_vars PROVE TypeOK'
  OBVIOUS
<1> USE ShellAssumption
<1>1. CASE LookServed
  BY <1>1, SessionNowType DEF LookServed, TypeOK
<1>2. CASE LookAnswered
  <2>1. session' \in Sessions
    BY <1>2 DEF LookAnswered, TypeOK
  <2>2. path' \in Views
    BY <1>2, <2>1 DEF LookAnswered, Restored, TypeOK, Sessions
  <2>3. badgeGet' \in [Tenants -> BOOLEAN]
    BY <1>2, <2>1 DEF LookAnswered, RunBadge, TypeOK, Sessions
  <2>4. look' \in [phase : {"idle", "sent", "read"}, session : Sessions]
    BY <1>2 DEF LookAnswered, NoLook, Unknown, At, Sessions, States
  <2>5. RunNoc(session', path')
    BY <1>2 DEF LookAnswered
  <2> QED
    BY <1>2, <2>1, <2>2, <2>3, <2>4, <2>5, RunNocType DEF LookAnswered, RunBadge, TypeOK
<1>3. CASE LookFails
  BY <1>3 DEF LookFails, NoLook, Unknown, At, Sessions, States, TypeOK
<1>4. CASE LookAgain
  BY <1>4 DEF LookAgain, Looking, NoLook, Unknown, At, Sessions, States, TypeOK
<1>5. CASE Expire
  BY <1>5 DEF Expire, TypeOK
<1>6. ASSUME NEW t \in Tenants, Revoke(t) PROVE TypeOK'
  BY <1>6 DEF Revoke, Standings, TypeOK
<1>7. ASSUME NEW t \in Tenants, Select(t) PROVE TypeOK'
  <2>1. path' \in Views
    BY <1>7 DEF Select, TypeOK, Views
  <2>2. /\ started' \in Nat
        /\ selects' \subseteq [id : Nat, tenant : Tenants,
                               code : {"sent", "200", "401", "403"}]
    BY <1>7 DEF Select, TypeOK
  <2>3. RunNoc(session, path')
    BY <1>7 DEF Select
  <2> QED
    BY <1>7, <2>1, <2>2, <2>3, RunNocType DEF Select, TypeOK
<1>8. ASSUME NEW c \in selects, SelectServed(c) PROVE TypeOK'
  BY <1>8 DEF SelectServed, TypeOK
<1>9. ASSUME NEW c \in selects, SelectAnswered(c) PROVE TypeOK'
  <2>1. look' \in [phase : {"idle", "sent", "read"}, session : Sessions]
    BY <1>9 DEF SelectAnswered, Looking, NoLook, Unknown, At, Sessions, States, TypeOK
  <2>2. expired' \in BOOLEAN
    BY <1>9 DEF SelectAnswered, Noticed, TypeOK
  <2> QED
    BY <1>9, <2>1, <2>2 DEF SelectAnswered, TypeOK
<1>10. ASSUME NEW c \in selects, SelectLost(c) PROVE TypeOK'
  BY <1>10 DEF SelectLost, TypeOK
<1>11. ASSUME NEW v \in Views, goTo(v) PROVE TypeOK'
  <2>1. RunNoc(session, v)
    BY <1>11 DEF goTo
  <2>2. path' \in Views /\ lastPath' \in [Tenants -> Views] /\ moves' \in 0 .. MaxMoves
    <3>1. path' = v /\ moves' = moves + 1 /\ moves < MaxMoves
      BY <1>11 DEF goTo
    <3>2. lastPath' = [lastPath EXCEPT ![session.tenant] = v]
      BY <1>11 DEF goTo
    <3>3. moves \in 0 .. MaxMoves /\ lastPath \in [Tenants -> Views]
      BY DEF TypeOK
    <3>4. moves' \in 0 .. MaxMoves
      BY <3>1, <3>3
    <3> QED
      BY <3>1, <3>2, <3>3, <3>4
  <2>3. /\ shown' \in [of : Tenants \cup {None}, version : Nat]
        /\ asks' \subseteq Answers
        /\ es' \in [phase : {"closed", "connecting", "open"}, of : Tenants \cup {None}]
        /\ es'.phase = "open" => es'.of \in Tenants
        /\ stray' \in Nat /\ retry' \in BOOLEAN
    BY <2>1, RunNocType
  <2> QED
    BY <1>11, <2>2, <2>3 DEF goTo, TypeOK
<1>12. CASE PollBadge
  BY <1>12 DEF PollBadge, TypeOK
<1>13. ASSUME NEW t \in Tenants, BadgeAnswered(t) PROVE TypeOK'
  BY <1>13 DEF BadgeAnswered, Noticed, TypeOK
<1>14. ASSUME NEW t \in Tenants, AlertsChange(t) PROVE TypeOK'
  BY <1>14 DEF AlertsChange, TypeOK
<1>15. CASE StreamOpens
  BY <1>15 DEF StreamOpens, Admitted, Member, TypeOK
<1>16. CASE StreamCycle
  <2>1. shown' \in [of : Tenants \cup {None}, version : Nat]
    BY <1>16 DEF StreamCycle, TypeOK
  <2> QED
    BY <1>16, <2>1 DEF StreamCycle, TypeOK
<1>17. CASE StreamFails
  BY <1>17, SentType DEF StreamFails, OnError, Closed, TypeOK
<1>18. CASE StreamRefused
  BY <1>18, SentType DEF StreamRefused, OnError, Closed, TypeOK
<1>19. CASE Connect
  <2>1. /\ es' \in [phase : {"closed", "connecting", "open"}, of : Tenants \cup {None}]
        /\ es'.phase # "open"
    BY <1>19 DEF Connect, Connecting
  <2>2. stray' \in Nat /\ retry' \in BOOLEAN
    <3>1. stray \in Nat
      BY DEF TypeOK
    <3>2. stray' = stray \/ stray' = stray + 1
      BY <1>19 DEF Connect, Overwritten
    <3>3. stray' \in Nat
      BY <3>1, <3>2
    <3> QED
      BY <1>19, <3>3 DEF Connect
  <2>3. UNCHANGED <<serverVars, sessionVars, selectVars, viewVars, badgeVars, shown, asks,
                    mishaps>>
    BY <1>19 DEF Connect
  <2> QED
    BY <2>1, <2>2, <2>3 DEF TypeOK
<1>20. ASSUME NEW a \in asks, AskServed(a) PROVE TypeOK'
  BY <1>20, AnswerType DEF AskServed, TypeOK
<1>21. ASSUME NEW a \in asks, AskAnswered(a) PROVE TypeOK'
  BY <1>21 DEF AskAnswered, Noticed, Answers, TypeOK
<1>22. ASSUME NEW a \in asks, AskFails(a) PROVE TypeOK'
  BY <1>22 DEF AskFails, TypeOK
<1>23. CASE UNCHANGED vars
  BY <1>23 DEF vars, TypeOK
<1> QED
  BY <1>1, <1>2, <1>3, <1>4, <1>5, <1>6, <1>7, <1>8, <1>9, <1>10, <1>11, <1>12, <1>13,
     <1>14, <1>15, <1>16, <1>17, <1>18, <1>19, <1>20, <1>21, <1>22, <1>23
  DEF Next

\* The variables of the frame and the NOC keep their types.
THEOREM TypeCorrect == Spec => []TypeOK
BY TypeInit, TypeNext, PTL DEF Spec

-----------------------------------------------------------------------------
(* One stream                                                              *)

LEMMA Phases ==
    /\ Closed.phase = "closed" /\ Connecting.phase = "connecting"
    /\ Closed # Connecting
    /\ \A t : Closed # [phase |-> "open", of |-> t]
BY DEF Closed, Connecting

\* Running the effect anew starts from nothing.
LEMMA RunNocOneStream ==
    ASSUME TypeOK, OneStream, NEW s, NEW view, RunNoc(s, view)
    PROVE  /\ stray' = 0
           /\ NocOf(s, view) = None => es' = Closed /\ ~retry' /\ asks' = {}
           /\ NocOf(s, view) # None => (es' = Closed) = retry'
<1>1. CASE NocOf(s, view) = Noc /\ UNCHANGED nocVars
  BY <1>1 DEF OneStream
<1>2. CASE ~(NocOf(s, view) = Noc /\ UNCHANGED nocVars)
  <2>1. /\ asks' = IF NocOf(s, view) = None THEN {} ELSE {Sent}
        /\ es' = IF NocOf(s, view) = None THEN Closed ELSE Connecting
        /\ retry' = FALSE
        /\ stray' = stray
    BY <1>2 DEF RunNoc, LeftOpen
  <2> QED
    BY <2>1, Phases DEF OneStream
<1> QED
  BY <1>1, <1>2

\* A step after which the NOC is shown for whom it was shown before.
LEMMA SameNoc ==
    ASSUME UNCHANGED <<session, path, follow>>
    PROVE  Noc' = Noc
BY DEF Noc, NocOf

\* What touches neither the view nor the NOC leaves the stream alone.
LEMMA StreamUntouched ==
    ASSUME OneStream, UNCHANGED <<session, path, follow, stray, es, retry>>,
           asks' = {} \/ Noc # None \/ asks' = asks
    PROVE  OneStream'
<1>1. Noc' = Noc
  BY SameNoc
<1> QED
  BY <1>1 DEF OneStream, Closed

\* A failed stream is closed and tried again.
LEMMA OnErrorOneStream ==
    ASSUME OneStream, es.phase # "closed", OnError, UNCHANGED <<session, path, follow>>
    PROVE  OneStream'
<1>1. Noc' = Noc /\ Noc # None
  BY SameNoc, Phases DEF OneStream
<1>2. es' = Closed /\ retry' = TRUE /\ stray' = stray
  BY DEF OnError
<1> QED
  BY <1>1, <1>2 DEF OneStream, Closed

LEMMA StreamNext == TypeOK /\ OneStream /\ [Next]_vars => OneStream'
<1> SUFFICES ASSUME TypeOK, OneStream, [Next]_vars PROVE OneStream'
  OBVIOUS
<1>1. CASE LookServed \/ LookFails \/ LookAgain
  BY <1>1, StreamUntouched DEF LookServed, LookFails, LookAgain
<1>2. CASE LookAnswered
  <2>1. RunNoc(session', path') /\ follow' = follow
    BY <1>2 DEF LookAnswered
  <2>2. NocOf(session', path') = Noc'
    BY <2>1 DEF Noc, NocOf
  <2> QED
    BY <2>1, <2>2, RunNocOneStream DEF OneStream, Closed
<1>3. CASE Expire
  BY <1>3, StreamUntouched DEF Expire
<1>4. ASSUME NEW t \in Tenants, Revoke(t) \/ AlertsChange(t) \/ BadgeAnswered(t)
      PROVE  OneStream'
  BY <1>4, StreamUntouched DEF Revoke, AlertsChange, BadgeAnswered
<1>5. ASSUME NEW t \in Tenants, Select(t) PROVE OneStream'
  <2>1. RunNoc(session, path') /\ follow' = follow /\ session' = session
    BY <1>5 DEF Select
  <2>2. NocOf(session, path') = Noc'
    BY <2>1 DEF Noc, NocOf
  <2> QED
    BY <2>1, <2>2, RunNocOneStream DEF OneStream, Closed
<1>6. ASSUME NEW c \in selects, SelectServed(c) \/ SelectAnswered(c) \/ SelectLost(c)
      PROVE  OneStream'
  BY <1>6, StreamUntouched DEF SelectServed, SelectAnswered, SelectLost
<1>7. ASSUME NEW v \in Views, goTo(v) PROVE OneStream'
  <2>1. RunNoc(session, path') /\ follow' = follow /\ session' = session
    BY <1>7 DEF goTo
  <2>2. NocOf(session, path') = Noc'
    BY <2>1 DEF Noc, NocOf
  <2> QED
    BY <2>1, <2>2, RunNocOneStream DEF OneStream, Closed
<1>8. CASE PollBadge \/ StreamCycle
  BY <1>8, StreamUntouched DEF PollBadge, StreamCycle
<1>9. CASE StreamOpens
  <2>1. Noc # None /\ ~retry /\ Noc' = Noc
    BY <1>9, SameNoc, Phases DEF StreamOpens, OneStream
  <2>2. es' = [phase |-> "open", of |-> bound] /\ retry' = retry /\ stray' = stray
    BY <1>9 DEF StreamOpens
  <2>3. es' # Closed
    BY <2>2, Phases
  <2> QED
    BY <2>1, <2>2, <2>3 DEF OneStream, Closed
<1>10. CASE StreamFails
  BY <1>10, OnErrorOneStream DEF StreamFails
<1>11. CASE StreamRefused
  BY <1>11, OnErrorOneStream DEF StreamRefused
<1>12. CASE Connect
  <2>1. Noc # None /\ es = Closed /\ Noc' = Noc
    BY <1>12, SameNoc DEF Connect, OneStream
  <2>2. es' = Connecting /\ retry' = FALSE /\ stray' = stray
    BY <1>12, <2>1, Phases DEF Connect, Overwritten
  <2> QED
    BY <2>1, <2>2, Phases DEF OneStream, Closed
<1>13. ASSUME NEW a \in asks, AskServed(a) \/ AskAnswered(a) \/ AskFails(a)
       PROVE  OneStream'
  <2>1. Noc # None
    BY <1>13 DEF OneStream
  <2> QED
    BY <1>13, <2>1, StreamUntouched DEF AskServed, AskAnswered, AskFails
<1>14. CASE UNCHANGED vars
  BY <1>14, StreamUntouched DEF vars
<1> QED
  BY <1>1, <1>2, <1>3, <1>4, <1>5, <1>6, <1>7, <1>8, <1>9, <1>10, <1>11, <1>12, <1>13,
     <1>14
  DEF Next

LEMMA StreamInit == Init => OneStream
BY DEF Init, OneStream, Noc, NocOf, Unknown, At, Closed

\* The NOC never has two streams, and leaves none behind: not when the view
\* is left, not when the tenant is switched, not when a stream fails.
THEOREM StreamsClosed == Spec => []OneStream
BY TypeInit, TypeNext, StreamInit, StreamNext, PTL DEF Spec

-----------------------------------------------------------------------------
(* The notice of an expired session                                        *)

\* No answer under way says that there is no session while there is one.
Truthful ==
    /\ expired => ~alive
    /\ \A c \in selects : c.code = "401" => ~alive
    /\ \A a \in asks : a.code = "401" => ~alive

LEMMA StatusTruthful == Status = "401" => ~alive
BY DEF Status

\* The call for alerts that the effect starts is not answered yet.
LEMMA RunNocTruthful ==
    ASSUME Truthful, NEW s, NEW view, RunNoc(s, view), alive' = alive
    PROVE  \A a \in asks' : a.code = "401" => ~alive'
<1>1. asks' = asks \/ asks' = {} \/ asks' = {Sent}
  BY DEF RunNoc
<1>2. Sent.code = "200"
  BY DEF Sent, Idle
<1> QED
  BY <1>1, <1>2 DEF Truthful

LEMMA TruthfulNext == Truthful /\ [Next]_vars => Truthful'
<1> SUFFICES ASSUME Truthful, [Next]_vars PROVE Truthful'
  OBVIOUS
<1>1. CASE LookServed \/ LookFails \/ LookAgain
  BY <1>1 DEF LookServed, LookFails, LookAgain, Truthful
<1>2. CASE LookAnswered
  <2>1. RunNoc(session', path') /\ UNCHANGED <<alive, expired, selects>>
    BY <1>2 DEF LookAnswered
  <2> QED
    BY <2>1, RunNocTruthful DEF Truthful
<1>3. CASE Expire
  BY <1>3 DEF Expire, Truthful
<1>4. ASSUME NEW t \in Tenants, Revoke(t) \/ AlertsChange(t) PROVE Truthful'
  BY <1>4 DEF Revoke, AlertsChange, Truthful
<1>5. ASSUME NEW t \in Tenants, BadgeAnswered(t) PROVE Truthful'
  BY <1>5, StatusTruthful DEF BadgeAnswered, Noticed, Truthful
<1>6. ASSUME NEW t \in Tenants, Select(t) PROVE Truthful'
  <2>1. RunNoc(session, path') /\ UNCHANGED <<alive, expired>>
    BY <1>6 DEF Select
  <2>2. \A c \in selects' : c \in selects \/ c.code = "sent"
    BY <1>6 DEF Select
  <2> QED
    BY <2>1, <2>2, RunNocTruthful DEF Truthful
<1>7. ASSUME NEW c \in selects, SelectServed(c) PROVE Truthful'
  <2>1. PICK code : /\ code = "401" => ~alive
                    /\ selects' = (selects \ {c}) \cup {[c EXCEPT !.code = code]}
    BY <1>7 DEF SelectServed
  <2>2. \A d \in selects' : d \in selects \/ d = [c EXCEPT !.code = code]
    BY <2>1
  <2>4. [c EXCEPT !.code = code].code = "401" => c.code = "401" \/ code = "401"
    OBVIOUS
  <2>3. UNCHANGED <<alive, expired, asks>>
    BY <1>7 DEF SelectServed
  <2> QED
    BY <2>1, <2>2, <2>3, <2>4 DEF Truthful
<1>8. ASSUME NEW c \in selects, SelectAnswered(c) \/ SelectLost(c) PROVE Truthful'
  <2>1. selects' = selects \ {c} /\ UNCHANGED <<alive, asks>>
    BY <1>8 DEF SelectAnswered, SelectLost
  <2>2. expired' => expired \/ c.code = "401"
    BY <1>8 DEF SelectAnswered, SelectLost, Noticed
  <2> QED
    BY <2>1, <2>2 DEF Truthful
<1>9. ASSUME NEW v \in Views, goTo(v) PROVE Truthful'
  <2>1. RunNoc(session, v) /\ UNCHANGED <<alive, expired, selects>>
    BY <1>9 DEF goTo
  <2> QED
    BY <2>1, RunNocTruthful DEF Truthful
<1>10. CASE PollBadge \/ StreamOpens \/ StreamCycle \/ Connect
  BY <1>10 DEF PollBadge, StreamOpens, StreamCycle, Connect, Truthful
<1>11. CASE StreamFails \/ StreamRefused
  <2>1. asks' = asks \cup {Sent} /\ UNCHANGED <<alive, expired, selects>>
    BY <1>11 DEF StreamFails, StreamRefused, OnError
  <2>2. Sent.code = "200"
    BY DEF Sent, Idle
  <2> QED
    BY <2>1, <2>2 DEF Truthful
<1>12. ASSUME NEW a \in asks, AskServed(a) PROVE Truthful'
  <2>1. asks' = (asks \ {a}) \cup {Answer(Status)} /\ UNCHANGED <<alive, expired, selects>>
    BY <1>12 DEF AskServed
  <2>2. Answer(Status).code = Status
    BY DEF Answer
  <2> QED
    BY <2>1, <2>2, StatusTruthful DEF Truthful
<1>13. ASSUME NEW a \in asks, AskAnswered(a) \/ AskFails(a) PROVE Truthful'
  <2>1. asks' = asks \ {a} /\ UNCHANGED <<alive, selects>>
    BY <1>13 DEF AskAnswered, AskFails
  <2>2. expired' => expired \/ a.code = "401"
    BY <1>13 DEF AskAnswered, AskFails, Noticed
  <2> QED
    BY <2>1, <2>2 DEF Truthful
<1>14. CASE UNCHANGED vars
  BY <1>14 DEF vars, Truthful
<1> QED
  BY <1>1, <1>2, <1>3, <1>4, <1>5, <1>6, <1>7, <1>8, <1>9, <1>10, <1>11, <1>12, <1>13,
     <1>14
  DEF Next

LEMMA TruthfulInit == Init => Truthful
BY DEF Init, Truthful

\* Who is told that the session has expired has none: a lost membership, a
\* failed call or a late answer never shows the notice.
THEOREM ExpiryCorrect == Spec => []ExpiryIsReal
<1>1. Truthful => ExpiryIsReal
  BY DEF Truthful, ExpiryIsReal
<1> QED
  BY <1>1, TruthfulInit, TruthfulNext, PTL DEF Spec
=============================================================================
