------------------------------- MODULE Shell -------------------------------
(***************************************************************************)
(* The frame of the web console, the session behind it, and the live view  *)
(* of the NOC.                                                             *)
(*                                                                         *)
(* The server binds a session to one tenant, and answers every call for    *)
(* the tenant it is bound to when the call arrives.  The console labels    *)
(* what it shows with the tenant of its last look at the session.  A       *)
(* switch of tenants moves the two at different times, with polls, a       *)
(* stream of snapshots and its fallbacks under way.                        *)
(*                                                                         *)
(* The polled counts of the navigation and the NOC do not touch each       *)
(* other: a behaviour follows one count, or the NOC.                       *)
(***************************************************************************)
EXTENDS Naturals, FiniteSets

CONSTANTS
    Tenants,      \* the tenants of one user
    None,         \* no tenant
    Entitled,     \* how the user may stand to them to begin with
    Followed,     \* what behaviours follow: the count, the NOC or either
    Deployments,  \* sets of tables a database may have
    MaxSelects,   \* bound: switches of the tenant, by what is followed
    MaxMoves,     \* bound: changes of the view
    MaxMishaps    \* bound: calls and streams that fail, tenants the user loses,
                  \* changes of a tenant's alerts

ASSUME ShellAssumption ==
    /\ Tenants # {} /\ None \notin Tenants
    /\ Entitled \subseteq [Tenants -> {"member", "granted"}]
    /\ Followed \subseteq {"count", "noc"}
    /\ MaxSelects \in [{"count", "noc"} -> Nat] /\ MaxMoves \in Nat /\ MaxMishaps \in Nat

VARIABLES
    follow,   \* what is followed: "count" or "noc"
    \* the server
    tables,   \* the tables there are
    alive,    \* the session is valid
    bound,    \* the tenant it is bound to
    standing, \* how the user stands to each tenant
    alerts,   \* changes of each tenant's alerts so far
    \* the frame
    session,  \* what the console knows of the session
    look,     \* the session fetch under way
    selects,  \* the switches under way, numbered
    started,  \* switches so far
    missed,   \* the answer to a switch or a look at the session was lost
    expired,  \* the notice that the session has expired
    path,     \* the view
    lastPath, \* the view remembered for each tenant
    moves,    \* changes of the view so far
    \* a count in the navigation, cached for each tenant
    badge,    \* the tenant the cached answer is of, None without one
    badgeGet, \* a fetch is under way
    \* the NOC
    shown,    \* the alerts shown
    asks,     \* the calls for alerts under way
    es,       \* the stream
    stray,    \* streams that are open with nothing to close them
    retry,    \* a new attempt is due after a delay, which doubles up to a minute
    mishaps   \* failures, losses and changes so far

serverVars == <<follow, tables, alive, bound, standing, alerts>>
sessionVars == <<session, look, missed, expired>>
selectVars == <<selects, started>>
viewVars == <<path, lastPath, moves>>
badgeVars == <<badge, badgeGet>>
nocVars == <<shown, asks, es, stray, retry>>
vars == <<serverVars, sessionVars, selectVars, viewVars, badgeVars, nocVars, mishaps>>

Views == {"noc", "other"}
States == {"unknown", "unauthenticated", "forbidden", "needs_tenant", "ready"}

\*   member   an active membership of an active tenant
\*   granted  no membership, but a delegated grant, or a platform administrator
\*   shut     either of them, but the tenant is no longer active
Standings == {"member", "granted", "shut", "none"}

-----------------------------------------------------------------------------
(* The BFF                                                                 *)

At(state, tenant) == [state |-> state, tenant |-> tenant]

Unknown == At("unknown", None)
NoLook == [phase |-> "idle", session |-> Unknown]
Looking == [NoLook EXCEPT !.phase = "sent"]

\* Three checks that are not the same: what the session may be entered for
\* (accessible_tenants), what it may be bound to (check_membership or
\* tenant_authorized), and what the proxy lets calls through for
\* (check_membership).
Accessible == {t \in Tenants : standing[t] \in {"member", "granted"}}

Bindable == {t \in Tenants : standing[t] # "none"}

Member == {t \in Tenants : standing[t] = "member"}

\* GET /api/session.
SessionNow ==
    IF ~alive THEN At("unauthenticated", None)
    ELSE IF Accessible = {} THEN At("forbidden", None)
    ELSE IF bound = None THEN At("needs_tenant", None)
    ELSE IF bound \notin Accessible THEN At("forbidden", None)
    ELSE At("ready", bound)

\* A call to the API: 401 without a session, 403 without the membership.
Admitted == alive /\ bound \in Member

\* Faulty variant: a tenant that is lost is not found.
StatusHidden == IF ~alive THEN "401" ELSE IF bound \in Member THEN "200" ELSE "404"

Status == IF ~alive THEN "401" ELSE IF bound \in Member THEN "200" ELSE "403"

\* Faulty variant: any refusal is taken for the end of the session.
NoticedAny(code) == expired' = (expired \/ code \in {"401", "403"})

\* Faulty variant: the end of the session is an error like any other.
NoticedNever(code) == expired' = expired

\* What every call that fails does.
Noticed(code) == expired' = (expired \/ code = "401")

-----------------------------------------------------------------------------
(* What is watched, as the session or the view changes                     *)

Idle == [phase |-> "idle", of |-> None, version |-> 0, code |-> "200"]
Sent == [Idle EXCEPT !.phase = "sent"]
Answer(code) ==
    [phase |-> "read", of |-> bound, code |-> code,
     version |-> IF bound = None THEN 0 ELSE alerts[bound]]

\* The tenant the NOC is shown for.
NocOf(s, view) ==
    IF s.state = "ready" /\ view = "noc" /\ follow = "noc" THEN s.tenant ELSE None

Noc == NocOf(session, path)

Nothing == [of |-> None, version |-> 0]
Closed == [phase |-> "closed", of |-> None]
Connecting == [phase |-> "connecting", of |-> None]

\* A stream that is overwritten stays open for good.
Overwritten == IF es.phase = "closed" THEN stray ELSE stray + 1

\* One that is closed does not.
LeftOpen == stray

\* The effect of the NOC is cleaned up and run again when the tenant changes;
\* its alerts last as long as the view does.
RunNoc(s, view) ==
    LET t == NocOf(s, view) IN
    \/ t = Noc /\ UNCHANGED nocVars
    \/ /\ t # Noc
       /\ asks' = IF t = None THEN {} ELSE {Sent}
       /\ es' = IF t = None THEN Closed ELSE Connecting
       /\ retry' = FALSE
       /\ shown' = IF Noc = None THEN Nothing ELSE shown
       /\ stray' = LeftOpen

\* A count is fetched when its tenant appears and none is cached.
RunBadge(s) ==
    /\ badge' = badge
    /\ badgeGet' =
         IF s.tenant = None \/ follow # "count" THEN badgeGet
         ELSE [badgeGet EXCEPT ![s.tenant] = @ \/ badge[s.tenant] = None]

\* The view last opened for a tenant comes back when the tenant does.
Restored(s) ==
    IF s.tenant # None /\ s.tenant # session.tenant /\ path = "noc"
      THEN lastPath[s.tenant] ELSE path

-----------------------------------------------------------------------------
\* Any tenant will do to begin with; the others were last seen elsewhere.
First == CHOOSE t \in Tenants : TRUE

Init ==
    /\ follow \in Followed
    /\ tables \in Deployments
    /\ alive = TRUE
    /\ bound \in {None, First}
    /\ standing \in Entitled
    /\ alerts = [t \in Tenants |-> 0]
    /\ session = Unknown
    /\ look = Looking
    /\ selects = {}
    /\ started = 0
    /\ missed = FALSE
    /\ expired = FALSE
    /\ path = "noc"
    /\ lastPath = [t \in Tenants |-> IF t = First THEN "noc" ELSE "other"]
    /\ moves = 0
    /\ badge = [t \in Tenants |-> None]
    /\ badgeGet = [t \in Tenants |-> FALSE]
    /\ shown = Nothing
    /\ asks = {}
    /\ es = Closed
    /\ stray = 0
    /\ retry = FALSE
    /\ mishaps = 0

(* The session                                                             *)

LookServed ==
    /\ look.phase = "sent"
    /\ look' = [phase |-> "read", session |-> SessionNow]
    /\ UNCHANGED <<serverVars, session, missed, expired, selectVars, viewVars, badgeVars,
                   nocVars, mishaps>>

LookAnswered ==
    /\ look.phase = "read"
    /\ look' = NoLook
    /\ session' = look.session
    /\ path' = Restored(session')
    /\ RunBadge(session')
    /\ RunNoc(session', path')
    /\ UNCHANGED <<serverVars, missed, expired, selectVars, lastPath, moves, mishaps>>

\* What was known before is still shown.
LookFails ==
    /\ look.phase # "idle" /\ mishaps < MaxMishaps
    /\ mishaps' = mishaps + 1
    /\ look' = NoLook
    /\ missed' = TRUE
    /\ UNCHANGED <<serverVars, session, expired, selectVars, viewVars, badgeVars, nocVars>>

\* The window gets the focus some time after the last look.
LookAgain ==
    /\ look = NoLook
    /\ look' = Looking
    /\ UNCHANGED <<serverVars, session, missed, expired, selectVars, viewVars, badgeVars,
                   nocVars, mishaps>>

Expire ==
    /\ alive
    /\ alive' = FALSE
    /\ UNCHANGED <<follow, tables, bound, standing, alerts, sessionVars, selectVars, viewVars,
                   badgeVars, nocVars, mishaps>>

\* The membership or the grant is revoked, a grant may remain where there was
\* a membership as well, or the tenant is suspended.
Revoke(t) ==
    /\ t \in Accessible /\ mishaps < MaxMishaps
    /\ mishaps' = mishaps + 1
    /\ \E s \in {"granted", "shut", "none"} \ {standing[t]} :
          standing' = [standing EXCEPT ![t] = s]
    /\ UNCHANGED <<follow, tables, alive, bound, alerts, sessionVars, selectVars, viewVars,
                   badgeVars, nocVars>>

(* Switching the tenant                                                    *)

\* Chosen from the frame, the view changes at once; the chooser of a session
\* without a tenant has no view.
Select(t) ==
    /\ session.state \in {"ready", "needs_tenant"} /\ started < MaxSelects[follow]
    /\ started' = started + 1
    /\ selects' = selects \cup {[id |-> started', tenant |-> t, code |-> "sent"]}
    /\ path' = IF session.state = "ready" THEN "noc" ELSE path
    /\ RunNoc(session, path')
    /\ UNCHANGED <<serverVars, sessionVars, lastPath, moves, badgeVars, mishaps>>

SelectServed(c) ==
    /\ c.code = "sent"
    /\ LET code == IF ~alive THEN "401" ELSE IF c.tenant \in Bindable THEN "200" ELSE "403"
       IN  /\ selects' = (selects \ {c}) \cup {[c EXCEPT !.code = code]}
           /\ bound' = IF code = "200" THEN c.tenant ELSE bound
    /\ UNCHANGED <<follow, tables, alive, standing, alerts, sessionVars, started, viewVars, badgeVars,
                   nocVars, mishaps>>

\* Faulty variant: its success changes nothing in the console.
SelectAnsweredQuietly(c) ==
    /\ c.code # "sent"
    /\ selects' = selects \ {c}
    /\ Noticed(c.code)
    /\ UNCHANGED <<serverVars, session, look, missed, started, viewVars, badgeVars, nocVars,
                   mishaps>>

\* Its success has the console look at the session anew.
SelectAnswered(c) ==
    /\ c.code # "sent"
    /\ selects' = selects \ {c}
    /\ look' = IF c.code = "200" THEN Looking ELSE look
    /\ Noticed(c.code)
    /\ UNCHANGED <<serverVars, session, missed, started, viewVars, badgeVars, nocVars,
                   mishaps>>

SelectLost(c) ==
    /\ c.code # "sent" /\ mishaps < MaxMishaps
    /\ mishaps' = mishaps + 1
    /\ selects' = selects \ {c}
    /\ missed' = TRUE
    /\ UNCHANGED <<serverVars, session, look, expired, started, viewVars, badgeVars, nocVars>>

\* Which view is open makes a difference to the NOC only.
goTo(v) ==
    /\ follow = "noc"
    /\ session.state = "ready" /\ v # path /\ moves < MaxMoves
    /\ moves' = moves + 1
    /\ path' = v
    /\ lastPath' = [lastPath EXCEPT ![session.tenant] = v]
    /\ RunNoc(session, v)
    /\ UNCHANGED <<serverVars, sessionVars, selectVars, badgeVars, mishaps>>

(* The count                                                               *)

\* Faulty variant: a count there is will do.
PollBadgeOnce ==
    /\ follow = "count" /\ session.state = "ready" /\ ~badgeGet[session.tenant]
    /\ badge[session.tenant] = None
    /\ badgeGet' = [badgeGet EXCEPT ![session.tenant] = TRUE]
    /\ UNCHANGED <<serverVars, sessionVars, selectVars, viewVars, badge, nocVars, mishaps>>

PollBadge ==
    /\ follow = "count" /\ session.state = "ready" /\ ~badgeGet[session.tenant]
    /\ badgeGet' = [badgeGet EXCEPT ![session.tenant] = TRUE]
    /\ UNCHANGED <<serverVars, sessionVars, selectVars, viewVars, badge, nocVars, mishaps>>

\* It is kept for the tenant that was the label when it was asked for.
BadgeAnswered(t) ==
    /\ badgeGet[t]
    /\ badgeGet' = [badgeGet EXCEPT ![t] = FALSE]
    /\ badge' = [badge EXCEPT ![t] = IF Admitted THEN bound ELSE @]
    /\ Noticed(Status)
    /\ UNCHANGED <<serverVars, session, look, missed, selectVars, viewVars, nocVars, mishaps>>

(* The NOC                                                                 *)

AlertsChange(t) ==
    /\ follow = "noc" /\ mishaps < MaxMishaps
    /\ mishaps' = mishaps + 1
    /\ alerts' = [alerts EXCEPT ![t] = @ + 1]
    /\ UNCHANGED <<follow, tables, alive, bound, standing, sessionVars, selectVars, viewVars,
                   badgeVars, nocVars>>

\* What the database sends a snapshot of.
StreamTables == {"alerting.alert", "monitoring.source"}

Readable == StreamTables \subseteq tables

StreamOpens ==
    /\ es.phase = "connecting" /\ Admitted
    /\ es' = [phase |-> "open", of |-> bound]
    /\ UNCHANGED <<serverVars, sessionVars, selectVars, viewVars, badgeVars, shown, asks,
                   stray, retry, mishaps>>

\* Faulty variant: the stream sends one snapshot.
StreamOnce ==
    /\ es.phase = "open"
    /\ shown' = IF Readable /\ shown = Nothing
                  THEN [of |-> es.of, version |-> alerts[es.of]] ELSE shown
    /\ UNCHANGED <<serverVars, sessionVars, selectVars, viewVars, badgeVars, asks, es, stray,
                   retry, mishaps>>

\* A cycle that cannot read its tables sends a heartbeat, which no one hears.
StreamCycle ==
    /\ es.phase = "open"
    /\ shown' = IF Readable THEN [of |-> es.of, version |-> alerts[es.of]] ELSE shown
    /\ UNCHANGED <<serverVars, sessionVars, selectVars, viewVars, badgeVars, asks, es, stray,
                   retry, mishaps>>

\* Faulty variant: only what was open is tried again.
OnErrorOnce ==
    /\ es' = Closed
    /\ asks' = asks \cup {Sent}
    /\ retry' = (es.phase = "open")
    /\ UNCHANGED <<shown, stray>>

\* The stream is closed, the alerts are asked for once, and a new attempt
\* is made later.
OnError ==
    /\ es' = Closed
    /\ asks' = asks \cup {Sent}
    /\ retry' = TRUE
    /\ UNCHANGED <<shown, stray>>

StreamFails ==
    /\ es.phase # "closed" /\ mishaps < MaxMishaps
    /\ mishaps' = mishaps + 1
    /\ OnError
    /\ UNCHANGED <<serverVars, sessionVars, selectVars, viewVars, badgeVars>>

StreamRefused ==
    /\ es.phase = "connecting" /\ ~Admitted
    /\ OnError
    /\ UNCHANGED <<serverVars, sessionVars, selectVars, viewVars, badgeVars, mishaps>>

\* The delay is over.
Connect ==
    /\ retry
    /\ retry' = FALSE
    /\ es' = Connecting
    /\ stray' = Overwritten
    /\ UNCHANGED <<serverVars, sessionVars, selectVars, viewVars, badgeVars, shown, asks,
                   mishaps>>

AskServed(a) ==
    /\ a.phase = "sent"
    /\ asks' = (asks \ {a}) \cup {Answer(Status)}
    /\ UNCHANGED <<serverVars, sessionVars, selectVars, viewVars, badgeVars, shown, es,
                   stray, retry, mishaps>>

\* An answer is shown whatever came in the meantime.
AskAnswered(a) ==
    /\ a.phase = "read"
    /\ asks' = asks \ {a}
    /\ shown' = IF a.code = "200" THEN [of |-> a.of, version |-> a.version] ELSE shown
    /\ Noticed(a.code)
    /\ UNCHANGED <<serverVars, session, look, missed, selectVars, viewVars, badgeVars, es,
                   stray, retry, mishaps>>

AskFails(a) ==
    /\ mishaps < MaxMishaps
    /\ mishaps' = mishaps + 1
    /\ asks' = asks \ {a}
    /\ UNCHANGED <<serverVars, sessionVars, selectVars, viewVars, badgeVars, shown, es,
                   stray, retry>>

-----------------------------------------------------------------------------
Next ==
    \/ LookServed \/ LookAnswered \/ LookFails \/ LookAgain
    \/ Expire
    \/ \E t \in Tenants :
          Revoke(t) \/ Select(t) \/ BadgeAnswered(t) \/ AlertsChange(t)
    \/ \E c \in selects : SelectServed(c) \/ SelectAnswered(c) \/ SelectLost(c)
    \/ \E v \in Views : goTo(v)
    \/ PollBadge
    \/ StreamOpens \/ StreamCycle \/ StreamFails \/ StreamRefused \/ Connect
    \/ \E a \in asks : AskServed(a) \/ AskAnswered(a) \/ AskFails(a)

\* Calls are answered, intervals and delays pass, and streams go on.  Users
\* need not do anything, nor does a window get the focus.
Fairness ==
    /\ WF_vars(LookServed) /\ WF_vars(LookAnswered)
    /\ WF_vars(\E c \in selects : SelectServed(c) \/ SelectAnswered(c))
    /\ WF_vars(PollBadge)
    /\ \A t \in Tenants : WF_vars(BadgeAnswered(t))
    /\ WF_vars(StreamOpens) /\ WF_vars(StreamRefused) /\ WF_vars(Connect)
    /\ WF_vars(StreamCycle)
    /\ WF_vars(\E a \in asks : AskServed(a) \/ AskAnswered(a))

Spec == Init /\ [][Next]_vars /\ Fairness

-----------------------------------------------------------------------------
Answers ==
    [phase : {"idle", "sent", "read"}, of : Tenants \cup {None}, version : Nat,
     code : {"200", "401", "403"}]

Sessions == [state : States, tenant : Tenants \cup {None}]

TypeOK ==
    /\ follow \in {"count", "noc"}
    /\ tables \in Deployments /\ alive \in BOOLEAN
    /\ bound \in Tenants \cup {None} /\ standing \in [Tenants -> Standings]
    /\ alerts \in [Tenants -> Nat]
    /\ session \in Sessions
    /\ look \in [phase : {"idle", "sent", "read"}, session : Sessions]
    /\ selects \subseteq [id : Nat, tenant : Tenants,
                          code : {"sent", "200", "401", "403"}]
    /\ started \in Nat
    /\ missed \in BOOLEAN /\ expired \in BOOLEAN
    /\ path \in Views /\ lastPath \in [Tenants -> Views] /\ moves \in 0 .. MaxMoves
    /\ badge \in [Tenants -> Tenants \cup {None}]
    /\ badgeGet \in [Tenants -> BOOLEAN]
    /\ shown \in [of : Tenants \cup {None}, version : Nat]
    /\ asks \subseteq Answers
    /\ es \in [phase : {"closed", "connecting", "open"}, of : Tenants \cup {None}]
    /\ es.phase = "open" => es.of \in Tenants
    /\ stray \in Nat /\ retry \in BOOLEAN
    /\ mishaps \in 0 .. MaxMishaps

-----------------------------------------------------------------------------
(* Properties                                                              *)

\* The NOC has one stream, or one attempt to come, and a view that is left
\* or shown for another tenant leaves none behind.
OneStream ==
    /\ stray = 0
    /\ Noc = None => es = Closed /\ ~retry /\ asks = {}
    /\ Noc # None => (es = Closed) = retry

\* The notice of an expired session is not shown to a user who has one.
ExpiryIsReal == expired => ~alive

\* A session that has ended is noticed while its console is open, by the
\* calls it repeats.
ExpiryNoticed ==
    (follow = "count" /\ session.state = "ready" /\ ~alive) ~> (expired \/ session.state # "ready")

\* The label follows the session's tenant, if no answer is lost on the way.
Mislabelled == session.state = "ready" /\ session.tenant # bound /\ alive /\ ~missed

TenantSettles == Mislabelled ~> ~Mislabelled

\* A count that was fetched while the session was bound to another tenant
\* than the label said is replaced.
Foreign ==
    /\ session.state = "ready" /\ session.tenant = bound /\ Admitted
    /\ badge[bound] \notin {bound, None}

CountsComeTrue == Foreign ~> ~Foreign

\* The stream comes back.
Silent == Noc # None /\ Admitted /\ es.phase # "open"

StreamReturns == Silent ~> ~Silent

\* The NOC catches up with the alerts there are, if its stream can read them,
\* and was opened for the tenant of the label.
Behind ==
    /\ Noc # None /\ Noc = bound /\ Admitted
    /\ es.phase = "open" /\ es.of = bound
    /\ shown # [of |-> bound, version |-> alerts[bound]]

NocCatchesUp == (Behind /\ Readable) ~> ~Behind

\* As the stream's documentation has it: a snapshot every few seconds.
NocIsLive == Behind ~> ~Behind
=============================================================================
