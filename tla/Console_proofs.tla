--------------------------- MODULE Console_proofs ---------------------------
(***************************************************************************)
(* What holds of the cache behind the console whatever its screens are,    *)
(* and however many writes, changes and failures there are.                *)
(***************************************************************************)
EXTENDS Console, TLAPS

USE DEF pageVars, cacheVars

Entries == [has : BOOLEAN, version : Nat, invalid : BOOLEAN, late : BOOLEAN]
Fetches == [phase : {"idle", "sent", "read"}, version : Nat, late : BOOLEAN]

-----------------------------------------------------------------------------
(* Types                                                                   *)

CacheOK == entry \in Entries /\ fetch \in Fetches

LEMMA FetchTypes == Idle \in Fetches /\ Sent \in Fetches /\ NoEntry \in Entries
BY DEF Idle, Sent, NoEntry, Fetches, Entries

LEMMA InvalidateType == CacheOK /\ Invalidate => CacheOK'
<1> SUFFICES ASSUME CacheOK, Invalidate PROVE CacheOK'
  OBVIOUS
<1>1. [entry EXCEPT !.invalid = TRUE] \in Entries
  BY DEF CacheOK, Entries
<1>2. [fetch EXCEPT !.late = @ \/ fetch.phase = "read"] \in Fetches
  BY DEF CacheOK, Fetches
<1> QED
  BY <1>1, <1>2, FetchTypes DEF Invalidate, CacheOK

LEMMA RearrangeCache ==
    ASSUME NEW n, NEW panes, Rearrange(n, panes)
    PROVE  Start \/ UNCHANGED cacheVars
BY DEF Rearrange

LEMMA RearrangeType ==
    ASSUME CacheOK, NEW n, NEW panes, Rearrange(n, panes)
    PROVE  CacheOK' /\ screen' = n /\ open' = panes
<1>1. screen' = n /\ open' = panes
  BY DEF Rearrange
<1> QED
  BY <1>1, RearrangeCache, FetchTypes DEF Start, CacheOK

LEMMA GiveUpType == CacheOK /\ GiveUp => CacheOK'
<1> SUFFICES ASSUME CacheOK, GiveUp PROVE CacheOK'
  OBVIOUS
<1>1. [entry EXCEPT !.invalid = entry.has] \in Entries
  BY DEF CacheOK, Entries
<1> QED
  BY <1>1, FetchTypes DEF GiveUp, CacheOK

\* The screens, panes and turns.
PageOK ==
    /\ screen \in Names \cup {Elsewhere}
    /\ turn \in Nat
    /\ \A p \in DOMAIN open : open[p] \in 0 .. turn

LEMMA WithoutType ==
    ASSUME PageOK, turn' \in {turn, turn + 1}, NEW p
    PROVE  /\ turn' \in Nat
           /\ \A q \in DOMAIN Without(p) : Without(p)[q] \in 0 .. turn'
BY DEF PageOK, Without

\* The writes and the versions they made.
TasksOK == tasks \in Seq(Tasks) /\ version \in Nat /\ mine \in 0 .. version

LEMMA BecomesType ==
    ASSUME tasks \in Seq(Tasks), NEW i \in DOMAIN tasks, NEW state \in TaskStates,
           Becomes(i, state)
    PROVE  tasks' \in Seq(Tasks)
<1>1. tasks[i] \in Tasks
  OBVIOUS
<1>2. [tasks[i] EXCEPT !.state = state] \in Tasks
  BY <1>1 DEF Tasks
<1>3. tasks' = [tasks EXCEPT ![i] = [tasks[i] EXCEPT !.state = state]]
  BY DEF Becomes
<1> QED
  BY <1>2, <1>3

\* No write made a version that the server does not hold.
MadeOK == \A i \in DOMAIN tasks : tasks[i].made <= version

LEMMA TypeParts ==
    TypeOK <=> /\ follow \in Pairs
               /\ rights \subseteq Permissions \cup {AdminRole, PlatformAdmin}
               /\ PageOK /\ TasksOK /\ CacheOK
               /\ mishaps \in 0 .. MaxMishaps
BY DEF TypeOK, PageOK, TasksOK, CacheOK, Entries, Fetches

LEMMA PlaceType == \A p \in Pairs : p.at \in Names \cup {Elsewhere}
<1>1. \A k, w, n : Pair(k, w, n).at = n
  BY DEF Pair
<1> QED
  BY <1>1 DEF Pairs, WrittenPairs, WatchedPairs, Names

LEMMA RelevantType == follow \in Pairs => Relevant \subseteq Names \cup {Elsewhere}
<1> SUFFICES ASSUME follow \in Pairs PROVE Relevant \subseteq Names \cup {Elsewhere}
  OBVIOUS
<1>1. PICK k, w, n : follow = Pair(k, w, n)
  BY DEF Pairs, WrittenPairs, WatchedPairs
<1>2. follow.at = n /\ Relevant = Differing(k) \cup {n, Elsewhere}
  BY <1>1 DEF Pair, Relevant
<1>3. Differing(k) \subseteq Names
  BY DEF Differing
<1> QED
  BY <1>2, <1>3, PlaceType

Inv == TypeOK /\ MadeOK

\* Nobody is granted anything else.
LEMMA RightsType ==
    \A p : \A r \in Rights(p) : r \subseteq Permissions \cup {AdminRole, PlatformAdmin}
<1>1. \A r \in DOMAIN RolePermissions :
         RolePermissions[r] \subseteq Permissions \cup {AdminRole, PlatformAdmin}
  BY DEF RolePermissions, ReadAll, Permissions
<1>2. \A g \in Grants : g \subseteq Permissions \cup {AdminRole, PlatformAdmin}
  BY <1>1 DEF Grants, Templates, PlatformRights, RolePermissions
<1> QED
  BY <1>2 DEF Rights

LEMMA InvInit == Init => Inv
<1> SUFFICES ASSUME Init PROVE Inv
  OBVIOUS
<1>1. PageOK
  BY DEF Init, PageOK
<1>2. TasksOK /\ MadeOK
  BY DEF Init, TasksOK, MadeOK
<1>3. CacheOK
  BY FetchTypes DEF Init, CacheOK
<1>4. 0 \in 0 .. MaxMishaps
  BY LimitAssumption
<1>5. rights \subseteq Permissions \cup {AdminRole, PlatformAdmin}
  BY RightsType DEF Init
<1> QED
  BY <1>1, <1>2, <1>3, <1>4, <1>5, TypeParts DEF Init, Inv

\* A step of the user's on the page.
LEMMA PageStep ==
    ASSUME Inv, PageOK', CacheOK',
           UNCHANGED <<follow, rights, tasks, version, mine, mishaps>>
    PROVE  Inv'
BY TypeParts DEF Inv, TasksOK, MadeOK, TypeOK, PageOK, CacheOK, Entries, Fetches

LEMMA NavigateNext == Inv /\ Navigate => Inv'
<1> SUFFICES ASSUME Inv, Navigate PROVE Inv'
  OBVIOUS
<1>1. PageOK /\ CacheOK /\ follow \in Pairs
  BY TypeParts DEF Inv
<1>2. ASSUME NEW n \in Relevant, Enter(n) PROVE Inv'
  <2>1. screen' = n /\ open' = [p \in {Page} |-> turn'] /\ CacheOK' /\ turn' = turn + 1
    BY <1>1, <1>2, RearrangeType DEF Enter
  <2>2. PageOK'
    BY <1>1, <2>1, RelevantType DEF PageOK
  <2> QED
    BY <1>2, <2>1, <2>2, PageStep DEF Enter
<1>3. ASSUME NEW p \in Wanted(screen), OpenPane(p) PROVE Inv'
  <2>1. /\ screen' = screen /\ turn' = turn /\ CacheOK'
        /\ open' = [q \in DOMAIN open \cup {p} |-> IF q = p THEN turn ELSE open[q]]
    BY <1>1, <1>3, RearrangeType DEF OpenPane
  <2>2. PageOK'
    BY <1>1, <2>1 DEF PageOK
  <2> QED
    BY <1>3, <2>1, <2>2, PageStep DEF OpenPane
<1>4. ASSUME NEW p \in DOMAIN open, ClosePane(p) PROVE Inv'
  <2>1. screen' = screen /\ open' = Without(p) /\ CacheOK' /\ turn' = turn + 1
    BY <1>1, <1>4, RearrangeType, InvalidateType DEF ClosePane
  <2>2. PageOK'
    BY <1>1, <2>1, WithoutType DEF PageOK
  <2> QED
    BY <1>4, <2>1, <2>2, PageStep DEF ClosePane
<1> QED
  BY <1>2, <1>3, <1>4 DEF Navigate

LEMMA PressNext == Inv /\ Press => Inv'
<1> SUFFICES ASSUME Inv, Press PROVE Inv'
  OBVIOUS
<1>1. PageOK /\ CacheOK /\ TasksOK
  BY TypeParts DEF Inv
<1> DEFINE t == Task(open[write.on], open[Around(screen, write.on)])
<1>2. t \in Tasks /\ t.made = 0
  BY <1>1 DEF Press, InPlace, PageOK, Task, Tasks, TaskStates, Pending
<1>3. tasks' = Append(tasks, t) /\ UNCHANGED <<follow, rights, version, mine, mishaps>>
  BY DEF Press
<1>4. TasksOK' /\ MadeOK'
  <2>1. TasksOK'
    BY <1>1, <1>2, <1>3 DEF TasksOK
  <2>2. \A i \in DOMAIN tasks' : tasks'[i] = t \/ (i \in DOMAIN tasks /\ tasks'[i] = tasks[i])
    BY <1>1, <1>3 DEF TasksOK
  <2>3. 0 <= version
    BY <1>1 DEF TasksOK
  <2> QED
    BY <1>2, <1>3, <2>1, <2>2, <2>3 DEF MadeOK, Inv
<1>5. CASE Does("leaves")
  <2>1. screen' = screen /\ open' = Without(write.on) /\ CacheOK' /\ turn' = turn + 1
    BY <1>1, <1>5, RearrangeType DEF Press
  <2>2. PageOK'
    BY <1>1, <2>1, WithoutType DEF PageOK
  <2> QED
    BY <1>3, <1>4, <2>1, <2>2, TypeParts DEF Inv, TypeOK, PageOK, CacheOK, TasksOK, Entries,
       Fetches
<1>6. CASE ~Does("leaves")
  BY <1>3, <1>4, <1>6 DEF Press, Inv, TypeOK, TasksOK
<1> QED
  BY <1>5, <1>6

\* A step that does no more to the writes than to move one on.
LEMMA TasksStep ==
    ASSUME Inv, NEW i \in DOMAIN tasks, NEW state \in TaskStates, Becomes(i, state),
           mine' = mine \/ mine' = tasks[i].made, version' = version,
           PageOK', CacheOK', UNCHANGED <<follow, rights, mishaps>>
    PROVE  Inv'
<1>1. TasksOK
  BY TypeParts DEF Inv
<1>2. tasks' \in Seq(Tasks)
  BY <1>1, BecomesType DEF TasksOK
<1>3. tasks[i] \in Tasks /\ tasks[i].made <= version
  BY <1>1 DEF TasksOK, Inv, MadeOK
<1>4. mine' \in 0 .. version'
  BY <1>1, <1>3 DEF TasksOK, Tasks
<1>5. \A j \in DOMAIN tasks' : j \in DOMAIN tasks /\ tasks'[j].made = tasks[j].made
  BY <1>1 DEF Becomes, TasksOK, Tasks
<1>6. TasksOK'
  BY <1>1, <1>2, <1>4 DEF TasksOK
<1>7. MadeOK'
  BY <1>5 DEF MadeOK, Inv
<1> QED
  BY <1>6, <1>7, TypeParts DEF Inv, TypeOK, PageOK, CacheOK, TasksOK, Entries, Fetches

LEMMA AfterAnswerType ==
    ASSUME PageOK, NEW i, NEW closing, AfterAnswer(i, closing), screen' = screen
    PROVE  PageOK'
<1>1. CASE open' = Without(write.on) /\ turn' = turn + 1
  BY <1>1, WithoutType DEF PageOK
<1>2. CASE UNCHANGED <<open, turn>>
  BY <1>2 DEF PageOK
<1> QED
  BY <1>1, <1>2 DEF AfterAnswer

LEMMA TaskStateNames ==
    {"refused", "rejected", "ok", "waiting", "failed", "lost", "unread"} \subseteq TaskStates
BY DEF TaskStates, Pending, CarriedOut

LEMMA CarryOutNext ==
    ASSUME Inv, NEW i \in DOMAIN tasks, CarryOut(i) PROVE Inv'
<1>1. TasksOK /\ MadeOK /\ PageOK /\ CacheOK
  BY TypeParts DEF Inv
<1>2. version' \in Nat /\ version <= version'
  BY <1>1 DEF CarryOut, TasksOK
<1>3. tasks[i] \in Tasks
  BY <1>1 DEF TasksOK
<1> DEFINE t == [tasks[i] EXCEPT !.state = "done", !.made = version']
<1>4. t \in Tasks /\ t.made = version'
  BY <1>2, <1>3 DEF Tasks, TaskStates, Pending
<1>5. tasks' = [tasks EXCEPT ![i] = t]
  BY DEF CarryOut
<1>6. tasks' \in Seq(Tasks)
  BY <1>1, <1>4, <1>5 DEF TasksOK
<1>7. UNCHANGED <<follow, rights, screen, open, turn, mine, entry, fetch, mishaps>>
  BY DEF CarryOut
<1>8. TasksOK'
  <2>1. mine \in 0 .. version'
    BY <1>1, <1>2 DEF TasksOK
  <2> QED
    BY <1>2, <1>6, <1>7, <2>1 DEF TasksOK
<1>9. MadeOK'
  <2> SUFFICES ASSUME NEW j \in DOMAIN tasks' PROVE tasks'[j].made <= version'
    BY DEF MadeOK
  <2>1. j \in DOMAIN tasks
    BY <1>1, <1>5 DEF TasksOK
  <2>2. CASE j = i
    <3>1. tasks'[i] = t
      BY <1>1, <1>5 DEF TasksOK
    <3>2. version' <= version'
      BY <1>2
    <3> QED
      BY <1>4, <2>2, <3>1, <3>2
  <2>3. CASE j # i
    <3>1. tasks'[j] = tasks[j] /\ tasks[j] \in Tasks
      BY <1>1, <1>5, <2>1, <2>3 DEF TasksOK
    <3>2. tasks[j].made \in Nat /\ tasks[j].made <= version
      BY <1>1, <2>1, <3>1 DEF MadeOK, Tasks
    <3>3. version \in Nat
      BY <1>1 DEF TasksOK
    <3> QED
      BY <1>2, <3>1, <3>2, <3>3
  <2> QED
    BY <2>2, <2>3
<1> QED
  BY <1>1, <1>7, <1>8, <1>9, TypeParts
  DEF Inv, TypeOK, PageOK, CacheOK, TasksOK, Entries, Fetches

LEMMA AnswerNext ==
    ASSUME Inv, NEW i \in DOMAIN tasks,
           Refuse(i) \/ Reject(i) \/ Succeed(i) \/ RefreshLater(i) \/ Fail(i)
    PROVE  Inv'
<1>1. PageOK /\ CacheOK
  BY TypeParts DEF Inv
<1>2. CASE Refuse(i) \/ Reject(i)
  <2>1. PageOK' /\ CacheOK' /\ mine' = mine /\ version' = version
        /\ UNCHANGED <<follow, rights, mishaps>>
    BY <1>1, <1>2 DEF Refuse, Reject, PageOK, CacheOK
  <2>2. Becomes(i, "refused") \/ Becomes(i, "rejected")
    BY <1>2 DEF Refuse, Reject
  <2> QED
    BY <2>1, <2>2, TasksStep, TaskStateNames
<1>3. CASE Succeed(i)
  <2>1. PageOK' /\ version' = version /\ UNCHANGED <<follow, rights, mishaps>>
    BY <1>1, <1>3, AfterAnswerType DEF Succeed
  <2>2. CacheOK'
    BY <1>1, <1>3, InvalidateType DEF Succeed, CacheOK
  <2>3. mine' = mine \/ mine' = tasks[i].made
    BY <1>3 DEF Succeed, Answered
  <2>4. Becomes(i, "waiting") \/ Becomes(i, "ok")
    BY <1>3 DEF Succeed
  <2> QED
    BY <2>1, <2>2, <2>3, <2>4, TasksStep, TaskStateNames
<1>4. CASE RefreshLater(i)
  <2>1. PageOK' /\ version' = version /\ mine' = mine /\ UNCHANGED <<follow, rights, mishaps>>
    BY <1>1, <1>4 DEF RefreshLater, PageOK
  <2>2. CacheOK'
    BY <1>1, <1>4, InvalidateType DEF RefreshLater, CacheOK
  <2>3. Becomes(i, "ok")
    BY <1>4 DEF RefreshLater
  <2> QED
    BY <2>1, <2>2, <2>3, TasksStep, TaskStateNames
<1>5. CASE Fail(i)
  <2>1. PageOK' /\ version' = version /\ UNCHANGED <<follow, rights, mishaps>>
    BY <1>1, <1>5, AfterAnswerType DEF Fail
  <2>2. CacheOK'
    BY <1>1, <1>5 DEF Fail, CacheOK
  <2>3. mine' = mine \/ mine' = tasks[i].made
    BY <1>5 DEF Fail, Answered
  <2>4. Becomes(i, "failed") \/ Becomes(i, "lost") \/ Becomes(i, "unread")
    BY <1>5 DEF Fail
  <2> QED
    BY <2>1, <2>2, <2>3, <2>4, TasksStep, TaskStateNames
<1> QED
  BY <1>2, <1>3, <1>4, <1>5

\* A step of the cache, or of others.
LEMMA CacheStep ==
    ASSUME Inv, CacheOK', mishaps' \in 0 .. MaxMishaps,
           version' \in {version, version + 1},
           UNCHANGED <<follow, rights, pageVars, tasks, mine>>
    PROVE  Inv'
<1>1. TasksOK /\ MadeOK
  BY TypeParts DEF Inv
<1>2. version' \in Nat /\ version <= version' /\ mine \in 0 .. version'
  BY <1>1 DEF TasksOK
<1>3. TasksOK'
  BY <1>1, <1>2 DEF TasksOK
<1>4. MadeOK'
  <2> SUFFICES ASSUME NEW j \in DOMAIN tasks PROVE tasks[j].made <= version'
    BY DEF MadeOK
  <2>1. tasks[j].made \in Nat
    <3>1. tasks[j] \in Tasks
      BY <1>1 DEF TasksOK
    <3> QED
      BY <3>1 DEF Tasks
  <2>2. tasks[j].made <= version /\ version \in Nat
    BY <1>1 DEF MadeOK, TasksOK
  <2> QED
    BY <1>2, <2>1, <2>2
<1> QED
  BY <1>3, <1>4, TypeParts DEF Inv, TypeOK, PageOK, CacheOK, TasksOK, Entries, Fetches

LEMMA CacheNext ==
    ASSUME Inv,
           OthersChange \/ Poll \/ Focus \/ FetchServed \/ FetchRefused \/ FetchAnswered
             \/ FetchFails
    PROVE  Inv'
<1>1. CacheOK /\ mishaps \in 0 .. MaxMishaps /\ version \in Nat
  BY TypeParts DEF Inv, TasksOK
<1>2. CASE OthersChange
  <2>1. CacheOK'
    BY <1>1, <1>2 DEF OthersChange, CacheOK
  <2>2. mishaps' \in 0 .. MaxMishaps
    BY <1>1, <1>2, LimitAssumption DEF OthersChange
  <2> QED
    BY <1>2, <2>1, <2>2, CacheStep DEF OthersChange
<1>3. CASE Poll \/ Focus
  <2>1. CacheOK'
    BY <1>1, <1>3, FetchTypes DEF Poll, Focus, Start, CacheOK
  <2> QED
    BY <1>1, <1>3, <2>1, CacheStep DEF Poll, Focus
<1>4. CASE FetchServed
  <2>1. CacheOK'
    <3>1. [phase |-> "read", version |-> version, late |-> FALSE] \in Fetches
      BY <1>1 DEF Fetches
    <3> QED
      BY <1>1, <1>4, <3>1 DEF FetchServed, CacheOK
  <2> QED
    BY <1>1, <1>4, <2>1, CacheStep DEF FetchServed
<1>5. CASE FetchRefused \/ FetchFails
  <2>1. CacheOK'
    BY <1>1, <1>5, GiveUpType DEF FetchRefused, FetchFails
  <2>2. mishaps' \in 0 .. MaxMishaps
    BY <1>1, <1>5, LimitAssumption DEF FetchRefused, FetchFails
  <2> QED
    BY <1>5, <2>1, <2>2, CacheStep DEF FetchRefused, FetchFails
<1>6. CASE FetchAnswered
  <2>1. CacheOK'
    BY <1>1, <1>6, FetchTypes DEF FetchAnswered, CacheOK, Fetches, Entries
  <2> QED
    BY <1>1, <1>6, <2>1, CacheStep DEF FetchAnswered
<1> QED
  BY <1>2, <1>3, <1>4, <1>5, <1>6

LEMMA InvNext == Inv /\ [Next]_vars => Inv'
<1> SUFFICES ASSUME Inv, [Next]_vars PROVE Inv'
  OBVIOUS
<1>1. CASE UNCHANGED vars
  BY <1>1 DEF vars, Inv, TypeOK, MadeOK
<1>2. CASE Navigate \/ Press
  BY <1>2, NavigateNext, PressNext
<1>3. CASE \E i \in DOMAIN tasks :
             \/ Refuse(i) \/ Reject(i) \/ CarryOut(i)
             \/ Succeed(i) \/ RefreshLater(i) \/ Fail(i)
  BY <1>3, AnswerNext, CarryOutNext
<1>4. CASE OthersChange \/ Poll \/ Focus \/ FetchServed \/ FetchRefused \/ FetchAnswered
             \/ FetchFails
  BY <1>4, CacheNext
<1> QED
  BY <1>1, <1>2, <1>3, <1>4 DEF Next

\* The variables of the console keep their types.
THEOREM TypeCorrect == Spec => []TypeOK
<1>1. Inv => TypeOK
  BY DEF Inv
<1> QED
  BY <1>1, InvInit, InvNext, PTL DEF Spec

-----------------------------------------------------------------------------
(* What users did shows                                                    *)

LEMMA Refreshed ==
    ASSUME RefreshedOrListed, follow \in Pairs, Shows, ~Missing
    PROVE  Refreshes
BY DEF RefreshedOrListed, Shows, Missing, HasAnswer, Refreshes, write

Waiting == \E i \in DOMAIN tasks : tasks[i].state = "waiting"

\* Neither what is cached nor what is on its way is from before the latest
\* write that was answered, or it is due to be fetched again.
Fresh ==
    /\ ~Shows => mine = 0
    /\ \/ Missing \/ Waiting
       \/ ~entry.has \/ entry.version >= mine \/ entry.invalid \/ entry.late
    /\ \/ Missing \/ Waiting
       \/ fetch.phase # "read" \/ fetch.late \/ fetch.version >= mine

LEMMA FreshShown == Fresh => OwnWritesShown
BY DEF Fresh, OwnWritesShown, Waiting

\* What is followed never changes, nor what is known of it.
LEMMA Static ==
    ASSUME follow' = follow
    PROVE  (Missing' <=> Missing) /\ (Shows' <=> Shows)
BY DEF Missing, Shows, HasAnswer, write

\* A write keeps waiting for its refresh but for RefreshLater.
LEMMA StillWaiting ==
    ASSUME tasks \in Seq(Tasks), NEW i \in DOMAIN tasks, NEW state, Becomes(i, state),
           tasks[i].state # "waiting", Waiting
    PROVE  Waiting'
<1>1. PICK j \in DOMAIN tasks : tasks[j].state = "waiting"
  BY DEF Waiting
<1>2. j \in DOMAIN tasks' /\ tasks'[j] = tasks[j]
  BY <1>1 DEF Becomes
<1> QED
  BY <1>1, <1>2 DEF Waiting

LEMMA NowWaiting ==
    ASSUME tasks \in Seq(Tasks), NEW i \in DOMAIN tasks, Becomes(i, "waiting")
    PROVE  Waiting'
<1>1. tasks[i] \in Tasks
  OBVIOUS
<1>2. i \in DOMAIN tasks' /\ tasks'[i].state = "waiting"
  BY <1>1 DEF Becomes, Tasks
<1> QED
  BY <1>2 DEF Waiting

LEMMA CacheUntouched ==
    ASSUME Fresh, Waiting => Waiting', UNCHANGED <<follow, mine, cacheVars>>
    PROVE  Fresh'
BY Static DEF Fresh

LEMMA CacheStarted ==
    ASSUME Fresh, Waiting => Waiting', UNCHANGED <<follow, mine>>, Start
    PROVE  Fresh'
<1>1. fetch'.phase # "read" /\ entry' = entry
  BY DEF Start, Sent, Idle
<1> QED
  BY <1>1, Static DEF Fresh

LEMMA CacheInvalidated ==
    ASSUME CacheOK, follow' = follow, Invalidate, ~Shows => mine' = 0
    PROVE  Fresh'
<1>1. entry'.invalid
  BY DEF Invalidate, CacheOK, Entries
<1>2. fetch'.phase = "read" => fetch'.late
  <2>1. CASE fetch' = Sent
    BY <2>1 DEF Sent, Idle
  <2>2. CASE fetch' = [fetch EXCEPT !.late = @ \/ fetch.phase = "read"]
    BY <2>2 DEF CacheOK, Fetches
  <2> QED
    BY <2>1, <2>2 DEF Invalidate
<1> QED
  BY <1>1, <1>2, Static DEF Fresh

LEMMA NothingToShow ==
    ASSUME CacheOK', mine' = 0, follow' = follow
    PROVE  Fresh'
<1>1. entry'.version >= 0 /\ fetch'.version >= 0
  BY DEF CacheOK, Entries, Fetches
<1> QED
  BY <1>1 DEF Fresh

LEMMA FreshNavigate ==
    ASSUME Inv, Fresh, Navigate \/ Press PROVE Fresh'
<1>1. CacheOK /\ TasksOK
  BY TypeParts DEF Inv
<1>2. ASSUME NEW n \in Relevant, Enter(n) PROVE Fresh'
  BY <1>2, RearrangeCache, CacheStarted, CacheUntouched DEF Enter, Waiting
<1>3. ASSUME NEW p \in Wanted(screen), OpenPane(p) PROVE Fresh'
  BY <1>3, RearrangeCache, CacheStarted, CacheUntouched DEF OpenPane, Waiting
<1>4. ASSUME NEW p \in DOMAIN open, ClosePane(p) PROVE Fresh'
  <2>1. UNCHANGED <<follow, mine, tasks>>
    BY <1>4 DEF ClosePane
  <2>2. CASE Invalidate
    BY <1>1, <2>1, <2>2, CacheInvalidated DEF Fresh
  <2>3. CASE Rearrange(screen, Without(p))
    BY <2>1, <2>3, RearrangeCache, CacheStarted, CacheUntouched DEF Waiting
  <2> QED
    BY <1>4, <2>2, <2>3 DEF ClosePane
<1>5. CASE Press
  <2>1. Waiting => Waiting'
    <3>1. \A i \in DOMAIN tasks : i \in DOMAIN tasks' /\ tasks'[i] = tasks[i]
      BY <1>1, <1>5 DEF Press, TasksOK
    <3> QED
      BY <3>1 DEF Waiting
  <2>2. Start \/ UNCHANGED cacheVars
    BY <1>5, RearrangeCache DEF Press
  <2> QED
    BY <1>5, <2>1, <2>2, CacheStarted, CacheUntouched DEF Press
<1> QED
  BY <1>2, <1>3, <1>4, <1>5 DEF Navigate

LEMMA FreshAnswer ==
    ASSUME RefreshedOrListed, Inv, Fresh, NEW i \in DOMAIN tasks,
           \/ Refuse(i) \/ Reject(i) \/ CarryOut(i)
           \/ Succeed(i) \/ RefreshLater(i) \/ Fail(i)
    PROVE  Fresh'
<1>1. CacheOK /\ TasksOK /\ follow \in Pairs
  BY TypeParts DEF Inv
<1>2. tasks \in Seq(Tasks) /\ mine \in Nat
  BY <1>1 DEF TasksOK
<1>3. CASE Refuse(i) \/ Reject(i)
  <2>1. Waiting => Waiting'
    BY <1>2, <1>3, StillWaiting DEF Refuse, Reject
  <2> QED
    BY <1>3, <2>1, CacheUntouched DEF Refuse, Reject
<1>4. CASE CarryOut(i)
  <2>1. Waiting => Waiting'
    <3>1. \A j \in DOMAIN tasks : tasks[j].state = "waiting" =>
             j \in DOMAIN tasks' /\ tasks'[j] = tasks[j]
      BY <1>4 DEF CarryOut
    <3> QED
      BY <3>1 DEF Waiting
  <2> QED
    BY <1>4, <2>1, CacheUntouched DEF CarryOut
<1>5. CASE Succeed(i)
  <2>1. follow' = follow /\ HasAnswer
    BY <1>5 DEF Succeed
  <2>2. ~Shows => mine' = 0
    BY <1>5 DEF Succeed, Answered, Fresh
  <2>3. CASE ~Shows
    <3>1. CacheOK'
      BY <1>1, <1>5, InvalidateType DEF Succeed, CacheOK
    <3> QED
      BY <2>1, <2>2, <2>3, <3>1, NothingToShow
  <2>4. CASE Missing
    BY <2>1, <2>2, <2>4, Static DEF Fresh
  <2>5. CASE Shows /\ ~Missing /\ Does("later")
    <3>1. Waiting'
      BY <1>2, <1>5, <2>5, NowWaiting DEF Succeed
    <3> QED
      BY <2>1, <2>5, <3>1, Static DEF Fresh
  <2>6. CASE Shows /\ ~Missing /\ ~Does("later")
    <3>1. Invalidate
      BY <1>1, <1>5, <2>6, Refreshed DEF Succeed
    <3> QED
      BY <1>1, <2>1, <2>2, <3>1, CacheInvalidated
  <2> QED
    BY <2>3, <2>4, <2>5, <2>6
<1>6. CASE RefreshLater(i)
  <2>1. follow' = follow /\ mine' = mine
    BY <1>6 DEF RefreshLater
  <2>2. CASE Invalidate
    BY <1>1, <2>1, <2>2, CacheInvalidated DEF Fresh
  <2>3. CASE ~Refreshes /\ UNCHANGED cacheVars
    <3>1. ~Shows \/ Missing
      BY <1>1, <2>3, Refreshed
    <3>2. CASE ~Shows
      <4>1. CacheOK' /\ mine' = 0
        BY <1>1, <2>1, <2>3, <3>2 DEF CacheOK, Fresh
      <4> QED
        BY <2>1, <4>1, NothingToShow
    <3>3. CASE Missing
      BY <2>1, <3>3, Static DEF Fresh
    <3> QED
      BY <3>1, <3>2, <3>3
  <2> QED
    BY <1>6, <2>2, <2>3 DEF RefreshLater
<1>7. CASE Fail(i)
  <2>1. UNCHANGED <<follow, cacheVars>>
    BY <1>7 DEF Fail
  <2>2. CASE mine' = mine
    <3>1. Waiting => Waiting'
      BY <1>2, <1>7, StillWaiting DEF Fail
    <3> QED
      BY <2>1, <2>2, <3>1, CacheUntouched
  <2>3. CASE ~HasAnswer /\ Answered(i)
    <3>1. Missing /\ (~Shows => mine' = 0)
      BY <2>3 DEF Missing, Answered, Fresh
    <3> QED
      BY <2>1, <3>1, Static DEF Fresh
  <2> QED
    BY <1>7, <2>2, <2>3 DEF Fail
<1> QED
  BY <1>3, <1>4, <1>5, <1>6, <1>7

LEMMA FreshCache ==
    ASSUME Inv, Fresh,
           OthersChange \/ Poll \/ Focus \/ FetchServed \/ FetchRefused \/ FetchAnswered
             \/ FetchFails
    PROVE  Fresh'
<1>1. CacheOK /\ TasksOK
  BY TypeParts DEF Inv
<1>2. CASE OthersChange
  BY <1>2, CacheUntouched DEF OthersChange, Waiting
<1>3. CASE Poll \/ Focus
  BY <1>3, CacheStarted DEF Poll, Focus, Waiting
<1>4. CASE FetchServed
  <2>1. /\ UNCHANGED <<follow, tasks, mine, entry>>
        /\ fetch' = [phase |-> "read", version |-> version, late |-> FALSE]
    BY <1>4 DEF FetchServed
  <2>2. fetch'.version >= mine'
    <3>1. fetch'.version = version /\ mine' = mine
      BY <2>1
    <3>2. version >= mine
      BY <1>1 DEF TasksOK
    <3> QED
      BY <3>1, <3>2
  <2>3. Waiting' <=> Waiting
    BY <2>1 DEF Waiting
  <2> QED
    BY <2>1, <2>2, <2>3, Static DEF Fresh
<1>5. CASE FetchRefused \/ FetchFails
  <2>1. UNCHANGED <<follow, tasks, mine>> /\ GiveUp
    BY <1>5 DEF FetchRefused, FetchFails
  <2>2. fetch'.phase # "read"
    BY <2>1 DEF GiveUp, Idle
  <2>3. entry'.has => entry'.invalid
    BY <1>1, <2>1 DEF GiveUp, CacheOK, Entries
  <2>4. Waiting' <=> Waiting
    BY <2>1 DEF Waiting
  <2> QED
    BY <2>1, <2>2, <2>3, <2>4, Static DEF Fresh
<1>6. CASE FetchAnswered
  <2>1. /\ UNCHANGED <<follow, tasks, mine>>
        /\ fetch.phase = "read" /\ fetch' = Idle
        /\ entry'.version = fetch.version /\ entry'.late = fetch.late
    BY <1>6 DEF FetchAnswered
  <2>2. fetch'.phase # "read"
    BY <2>1 DEF Idle
  <2>3. Waiting' <=> Waiting
    BY <2>1 DEF Waiting
  <2> QED
    BY <2>1, <2>2, <2>3, Static DEF Fresh
<1> QED
  BY <1>2, <1>3, <1>4, <1>5, <1>6

\* Whatever the screens: if every write refreshes what it shows in, no user
\* is left looking at an answer from before what they were told is done.
THEOREM WritesShown ==
    ASSUME RefreshedOrListed
    PROVE  Spec => []OwnWritesShown
<1>1. Init => Fresh
  <2> SUFFICES ASSUME Init PROVE Fresh
    OBVIOUS
  <2>1. entry.has = FALSE /\ mine = 0
    BY DEF Init, NoEntry
  <2>2. fetch.phase # "read"
    BY DEF Init, Sent, Idle
  <2> QED
    BY <2>1, <2>2 DEF Fresh
<1>2. Inv /\ Fresh /\ [Next]_vars => Fresh'
  <2> SUFFICES ASSUME Inv, Fresh, [Next]_vars PROVE Fresh'
    OBVIOUS
  <2>1. CASE UNCHANGED vars
    BY <2>1, CacheUntouched DEF vars, Waiting
  <2>2. CASE Navigate \/ Press
    BY <2>2, FreshNavigate
  <2>3. CASE \E i \in DOMAIN tasks :
               \/ Refuse(i) \/ Reject(i) \/ CarryOut(i)
               \/ Succeed(i) \/ RefreshLater(i) \/ Fail(i)
    BY <2>3, FreshAnswer
  <2>4. CASE OthersChange \/ Poll \/ Focus \/ FetchServed \/ FetchRefused
               \/ FetchAnswered \/ FetchFails
    BY <2>4, FreshCache
  <2> QED
    BY <2>1, <2>2, <2>3, <2>4 DEF Next
<1> QED
  BY <1>1, <1>2, InvInit, InvNext, FreshShown, PTL DEF Spec

-----------------------------------------------------------------------------
(* Who is offered what                                                     *)

\* The permissions are such as can be granted, the entry of the screen is
\* shown, a write has only been started by who is shown its control, and only
\* what is not allowed is refused.
OfferedInv ==
    /\ rights \in Rights(follow)
    /\ Visible(follow.at)
    /\ \A i \in DOMAIN tasks :
          write # NoWrite /\ Offered /\ (tasks[i].state = "refused" => ~Allowed)

\* Permissions and what is followed do not change, nor does what depends on them.
LEMMA FollowStatic == [Next]_vars => UNCHANGED <<follow, rights>>
BY DEF Next, vars, Navigate, Enter, OpenPane, ClosePane, Press, Refuse, Reject, CarryOut,
       Succeed, RefreshLater, Fail, OthersChange, Poll, Focus, FetchServed, FetchRefused,
       FetchAnswered, FetchFails

LEMMA RightsStatic ==
    ASSUME UNCHANGED <<follow, rights>>
    PROVE  /\ (Visible(follow.at)' <=> Visible(follow.at)) /\ (Offered' <=> Offered)
           /\ (Allowed' <=> Allowed) /\ write' = write
           /\ (rights \in Rights(follow))' <=> rights \in Rights(follow)
BY DEF Visible, Offered, Allowed, Does, write

\* What a step may do to the writes: one is started, or one moves on.
Started == \E t \in Tasks : t.state = "sent" /\ tasks' = Append(tasks, t)

Moved ==
    \E i \in DOMAIN tasks, t \in Tasks :
        /\ tasks' = [tasks EXCEPT ![i] = t]
        /\ t.form = tasks[i].form /\ t.owner = tasks[i].owner
        /\ t.state = "refused" => ~Allowed

LEMMA BecomesMoves ==
    ASSUME tasks \in Seq(Tasks), NEW i \in DOMAIN tasks, NEW state \in TaskStates,
           Becomes(i, state), state = "refused" => ~Allowed
    PROVE  Moved
<1> DEFINE t == [tasks[i] EXCEPT !.state = state]
<1>1. tasks[i] \in Tasks
  OBVIOUS
<1>2. t \in Tasks /\ t.form = tasks[i].form /\ t.owner = tasks[i].owner /\ t.state = state
  BY <1>1 DEF Tasks
<1>3. tasks' = [tasks EXCEPT ![i] = t]
  BY DEF Becomes
<1> QED
  BY <1>2, <1>3 DEF Moved

LEMMA PressStarts == Inv /\ Press => Started
<1> SUFFICES ASSUME Inv, Press PROVE Started
  OBVIOUS
<1> DEFINE t == Task(open[write.on], open[Around(screen, write.on)])
<1>1. PageOK
  BY TypeParts DEF Inv
<1>2. t \in Tasks /\ t.state = "sent"
  BY <1>1 DEF Press, InPlace, PageOK, Task, Tasks, TaskStates, Pending
<1>3. tasks' = Append(tasks, t)
  BY DEF Press
<1> QED
  BY <1>2, <1>3 DEF Started

LEMMA AnswerMoves ==
    ASSUME Inv, NEW i \in DOMAIN tasks,
           \/ Refuse(i) \/ Reject(i) \/ CarryOut(i)
           \/ Succeed(i) \/ RefreshLater(i) \/ Fail(i)
    PROVE  Moved
<1>1. tasks \in Seq(Tasks) /\ TasksOK
  BY TypeParts DEF Inv, TasksOK
<1>2. CASE Refuse(i)
  BY <1>1, <1>2, BecomesMoves, TaskStateNames DEF Refuse
<1>3. CASE Reject(i)
  BY <1>1, <1>3, BecomesMoves, TaskStateNames DEF Reject
<1>4. CASE CarryOut(i)
  <2> DEFINE t == [tasks[i] EXCEPT !.state = "done", !.made = version']
  <2>1. version' \in Nat
    BY <1>1, <1>4 DEF CarryOut, TasksOK
  <2>2. tasks[i] \in Tasks
    BY <1>1
  <2>3. t \in Tasks /\ t.form = tasks[i].form /\ t.owner = tasks[i].owner /\ t.state = "done"
    BY <2>1, <2>2 DEF Tasks, TaskStates, Pending
  <2>4. tasks' = [tasks EXCEPT ![i] = t]
    BY <1>4 DEF CarryOut
  <2> QED
    BY <2>3, <2>4 DEF Moved
<1>5. CASE Succeed(i)
  <2>1. Becomes(i, "waiting") \/ Becomes(i, "ok")
    BY <1>5 DEF Succeed
  <2> QED
    BY <1>1, <2>1, BecomesMoves, TaskStateNames
<1>6. CASE RefreshLater(i)
  BY <1>1, <1>6, BecomesMoves, TaskStateNames DEF RefreshLater
<1>7. CASE Fail(i)
  <2>1. Becomes(i, "failed") \/ Becomes(i, "lost") \/ Becomes(i, "unread")
    BY <1>7 DEF Fail
  <2> QED
    BY <1>1, <2>1, BecomesMoves, TaskStateNames
<1> QED
  BY <1>2, <1>3, <1>4, <1>5, <1>6, <1>7

\* Nothing else touches the writes.
LEMMA TasksElse ==
    ASSUME \/ UNCHANGED vars \/ Navigate \/ OthersChange \/ Poll \/ Focus
           \/ FetchServed \/ FetchRefused \/ FetchAnswered \/ FetchFails
    PROVE  tasks' = tasks
BY DEF vars, Navigate, Enter, OpenPane, ClosePane, OthersChange, Poll, Focus, FetchServed,
       FetchRefused, FetchAnswered, FetchFails

LEMMA OfferedNext == Inv /\ OfferedInv /\ [Next]_vars => OfferedInv'
<1> SUFFICES ASSUME Inv, OfferedInv, [Next]_vars PROVE OfferedInv'
  OBVIOUS
<1>1. UNCHANGED <<follow, rights>> /\ tasks \in Seq(Tasks)
      /\ Visible(follow.at)' /\ (rights \in Rights(follow))'
  BY FollowStatic, RightsStatic, TypeParts DEF Inv, TasksOK, OfferedInv
<1>2. ASSUME \A j \in DOMAIN tasks' :
                /\ write # NoWrite /\ Offered
                /\ tasks'[j].state = "refused" => ~Allowed
      PROVE  OfferedInv'
  BY <1>1, <1>2, RightsStatic DEF OfferedInv
<1>3. CASE tasks' = tasks
  BY <1>2, <1>3 DEF OfferedInv
<1>4. CASE Press
  <2>1. write # NoWrite /\ Offered
    BY <1>4 DEF Press, InPlace
  <2>2. PICK t \in Tasks : t.state = "sent" /\ tasks' = Append(tasks, t)
    BY <1>4, PressStarts DEF Started
  <2>3. \A j \in DOMAIN tasks' :
           (j \in DOMAIN tasks /\ tasks'[j] = tasks[j]) \/ tasks'[j].state = "sent"
    BY <1>1, <2>2
  <2> QED
    BY <1>2, <2>1, <2>3 DEF OfferedInv
<1>5. ASSUME NEW i \in DOMAIN tasks, Moved PROVE OfferedInv'
  <2>1. PICK k \in DOMAIN tasks, t \in Tasks :
            /\ tasks' = [tasks EXCEPT ![k] = t]
            /\ t.state = "refused" => ~Allowed
    BY <1>5 DEF Moved
  <2>2. \A j \in DOMAIN tasks' :
           j \in DOMAIN tasks /\ (tasks'[j] = tasks[j] \/ tasks'[j] = t)
    BY <1>1, <2>1
  <2> QED
    BY <1>2, <2>1, <2>2 DEF OfferedInv
<1> QED
  BY <1>3, <1>4, <1>5, AnswerMoves, TasksElse DEF Next

\* Whatever the screens and the routes, and whichever permissions a user was
\* granted by a template, a custom role or a grant: if a control is only shown
\* where the API lets its user through, or the exception is listed, no user is
\* refused what the console offered.
THEOREM OfferedAllowed ==
    ASSUME OfferedOrListed
    PROVE  Spec => []OfferedIsAllowed
<1>1. Init => OfferedInv
  BY DEF Init, OfferedInv
<1>2. Inv /\ OfferedInv => OfferedIsAllowed
  <2> SUFFICES ASSUME Inv, OfferedInv, NEW i \in DOMAIN tasks, tasks[i].state = "refused"
               PROVE  Listed(follow, rights)
    BY DEF OfferedIsAllowed
  <2>1. follow \in Pairs /\ rights \in Rights(follow)
    BY TypeParts DEF Inv, OfferedInv
  <2>2. /\ write # NoWrite /\ Offered /\ ~Allowed /\ Visible(follow.at)
    BY DEF OfferedInv
  <2>3. Misfit(follow, rights)
    BY <2>2 DEF Misfit, Offered, Allowed, Visible, Does, write
  <2> QED
    BY <2>1, <2>3 DEF OfferedOrListed
<1> QED
  BY <1>1, <1>2, InvInit, InvNext, OfferedNext, PTL DEF Spec

-----------------------------------------------------------------------------
(* Once per form                                                           *)

\* The form with this turn is open.
FormOpen(form) ==
    screen = follow.at /\ write.on \in DOMAIN open /\ open[write.on] = form

\* A form that is closed does not come back, as what opens has a later turn;
\* one that is open still lies in the pane it lay in when it was used.
FormOK(form, owner) ==
    /\ form <= turn
    /\ ~FormOpen(form) => form < turn
    /\ FormOpen(form) => /\ Around(screen, write.on) \in DOMAIN open
                         /\ open[Around(screen, write.on)] = owner

\* A success closes the form, and so does a failure that settles.
Failures == {"failed", "lost", "unread"}

Shut(state) == state \in {"ok", "waiting"} \/ (state \in Failures /\ Does("settles"))

FormsInv ==
    \A i \in DOMAIN tasks :
        /\ FormOK(tasks[i].form, tasks[i].owner)
        /\ Shut(tasks[i].state) => ~FormOpen(tasks[i].form)

\* A form is used again only after a failure that left it open.
AgainInv ==
    \A i, j \in DOMAIN tasks :
        i < j /\ Does("busy") /\ tasks[i].form = tasks[j].form
          => tasks[i].state \in Failures /\ ~Does("settles")

OnceInv == Does("closes") => FormsInv /\ AgainInv

\* Where the control of a write lies.
LEMMA WritePlace ==
    ASSUME follow \in Pairs, Does("closes")
    PROVE  /\ follow.at \in Names
           /\ write.on \in Path[follow.at][write.on]
           /\ Path[follow.at][Around(follow.at, write.on)] \subseteq Path[follow.at][write.on]
<1>1. follow \in WrittenPairs
  <2>1. ASSUME NEW r, follow = Pair(r.key, NoWrite, Elsewhere) PROVE FALSE
    BY <2>1 DEF Pair, Does, write, NoWrite, Write
  <2> QED
    BY <2>1 DEF Pairs, WatchedPairs
<1>2. PICK s \in Catalogue : \E w \in s.writes : \E k : follow = Pair(k, w, s.name)
  BY <1>1 DEF WrittenPairs
<1> PICK w \in s.writes : \E k : follow = Pair(k, w, s.name)
  BY <1>2
<1>3. write = w /\ follow.at = s.name
  BY <1>2 DEF Pair, write
<1>4. s.name \in Names /\ w.on \in {q.name : q \in s.panes} \cup {Page}
  BY CatalogueAssumption DEF Names
<1>5. w.on \in Path[s.name][w.on]
  BY <1>4 DEF Path
<1> QED
  BY <1>3, <1>4, <1>5, CatalogueAssumption

\* What a step may do to the screen and its panes.
Stays == UNCHANGED pageVars
Enters == screen' # screen /\ turn' = turn + 1 /\ open' = [p \in {Page} |-> turn']
Opens ==
    /\ screen' = screen /\ turn' = turn
    /\ \E p : /\ p \notin DOMAIN open
              /\ open' = [q \in DOMAIN open \cup {p} |-> IF q = p THEN turn ELSE open[q]]
Closing(p) == screen' = screen /\ turn' = turn + 1 /\ open' = Without(p)

PageMoves == Stays \/ Enters \/ Opens \/ \E p : Closing(p)

LEMMA FormKept ==
    ASSUME Inv, Does("closes"), follow' = follow, PageMoves, NEW form \in Nat, NEW owner,
           FormOK(form, owner)
    PROVE  /\ FormOK(form, owner)'
           /\ FormOpen(form)' => FormOpen(form)
<1>1. turn \in Nat /\ write' = write /\ follow \in Pairs
  BY TypeParts DEF Inv, PageOK, write
<1>2. CASE Stays
  BY <1>1, <1>2 DEF Stays, FormOK, FormOpen
<1>3. CASE Enters
  <2>1. form < turn'
    BY <1>1, <1>3 DEF Enters, FormOK
  <2>2. ~FormOpen(form)'
    BY <1>1, <1>3, <2>1 DEF Enters, FormOpen
  <2> QED
    BY <1>1, <1>3, <2>1, <2>2 DEF FormOK, Enters
<1>4. CASE Opens
  <2>1. PICK p : /\ p \notin DOMAIN open
                 /\ open' = [q \in DOMAIN open \cup {p} |-> IF q = p THEN turn ELSE open[q]]
    BY <1>4 DEF Opens
  <2>2. screen' = screen /\ turn' = turn
    BY <1>4 DEF Opens
  <2>3. FormOpen(form)' => FormOpen(form)
    <3>1. CASE write.on = p
      <4>1. ~FormOpen(form)
        BY <2>1, <3>1 DEF FormOpen
      <4>2. FormOpen(form)' => form = turn
        BY <1>1, <2>1, <2>2, <3>1 DEF FormOpen
      <4> QED
        BY <1>1, <4>1, <4>2 DEF FormOK
    <3>2. CASE write.on # p
      BY <1>1, <2>1, <2>2, <3>2 DEF FormOpen
    <3> QED
      BY <3>1, <3>2
  <2>4. FormOpen(form) => FormOpen(form)'
    BY <1>1, <2>1, <2>2 DEF FormOpen
  <2>5. Around(screen, write.on)' = Around(screen, write.on)
    BY <1>1, <2>2 DEF Around, PaneOf
  <2> QED
    BY <1>1, <2>1, <2>2, <2>3, <2>4, <2>5 DEF FormOK
<1>5. ASSUME NEW p, Closing(p)
      PROVE  /\ FormOK(form, owner)'
             /\ FormOpen(form)' => FormOpen(form)
  <2>1. screen' = screen /\ turn' = turn + 1 /\ open' = Without(p)
    BY <1>5 DEF Closing
  <2>2. form < turn'
    BY <1>1, <2>1 DEF FormOK
  <2>3. \A q : q \in DOMAIN open' <=> q \in DOMAIN open /\ p \notin Path[screen][q]
    BY <2>1 DEF Without
  <2>4. \A q \in DOMAIN open' : open'[q] = open[q]
    BY <2>1 DEF Without
  <2>5. FormOpen(form)' => FormOpen(form)
    BY <1>1, <2>1, <2>3, <2>4 DEF FormOpen
  <2>6. Around(screen, write.on)' = Around(screen, write.on)
    BY <1>1, <2>1 DEF Around, PaneOf
  <2>7. ASSUME FormOpen(form)'
        PROVE  /\ Around(screen, write.on) \in DOMAIN open'
               /\ open'[Around(screen, write.on)] = owner
    <3>1. /\ screen = follow.at /\ p \notin Path[screen][write.on]
          /\ Around(screen, write.on) \in DOMAIN open
          /\ open[Around(screen, write.on)] = owner
      BY <1>1, <2>1, <2>3, <2>5, <2>7 DEF FormOpen, FormOK
    <3>2. p \notin Path[screen][Around(screen, write.on)]
      BY <1>1, <3>1, WritePlace
    <3> QED
      BY <2>3, <2>4, <3>1, <3>2
  <2> QED
    BY <1>1, <2>1, <2>2, <2>5, <2>6, <2>7 DEF FormOK
<1> QED
  BY <1>2, <1>3, <1>4, <1>5 DEF PageMoves

LEMMA AfterAnswerMoves ==
    ASSUME NEW i, NEW closing, AfterAnswer(i, closing), screen' = screen
    PROVE  PageMoves
BY DEF AfterAnswer, PageMoves, Stays, Closing

LEMMA PageMovesNext == Inv /\ [Next]_vars => PageMoves
<1> SUFFICES ASSUME Inv, [Next]_vars PROVE PageMoves
  OBVIOUS
<1>1. ASSUME NEW n, Enter(n) PROVE PageMoves
  BY <1>1 DEF Enter, Rearrange, PageMoves, Enters
<1>2. ASSUME NEW p, OpenPane(p) PROVE PageMoves
  <2>1. /\ screen' = screen /\ turn' = turn /\ p \notin DOMAIN open
        /\ open' = [q \in DOMAIN open \cup {p} |-> IF q = p THEN turn ELSE open[q]]
    BY <1>2 DEF OpenPane, Rearrange
  <2> QED
    BY <2>1 DEF PageMoves, Opens
<1>3. ASSUME NEW p, ClosePane(p) PROVE PageMoves
  BY <1>3 DEF ClosePane, Rearrange, PageMoves, Closing
<1>4. CASE Press
  BY <1>4 DEF Press, Rearrange, PageMoves, Closing, Stays
<1>5. ASSUME NEW i, Succeed(i) \/ Fail(i) PROVE PageMoves
  BY <1>5, AfterAnswerMoves DEF Succeed, Fail
<1>6. ASSUME NEW i, Refuse(i) \/ Reject(i) \/ CarryOut(i) \/ RefreshLater(i) PROVE PageMoves
  BY <1>6 DEF Refuse, Reject, CarryOut, RefreshLater, PageMoves, Stays
<1>7. CASE \/ UNCHANGED vars \/ OthersChange \/ Poll \/ Focus
           \/ FetchServed \/ FetchRefused \/ FetchAnswered \/ FetchFails
  BY <1>7 DEF vars, OthersChange, Poll, Focus, FetchServed, FetchRefused, FetchAnswered,
     FetchFails, PageMoves, Stays
<1> QED
  BY <1>1, <1>2, <1>3, <1>4, <1>5, <1>6, <1>7 DEF Next, Navigate

\* An answer that closes its form does so, if the form is still open.
LEMMA AnswerCloses ==
    ASSUME Inv, Does("closes"), NEW i \in DOMAIN tasks, AfterAnswer(i, TRUE),
           UNCHANGED <<follow, screen>>, NEW form \in Nat, NEW owner,
           tasks[i].owner = owner, FormOK(form, owner)
    PROVE  ~FormOpen(form)'
<1>1. follow \in Pairs /\ write' = write /\ write # NoWrite
  BY TypeParts DEF Inv, write, Does, NoWrite, Write
<1>2. FormOpen(form)' => FormOpen(form)
  BY AfterAnswerMoves, FormKept
<1>3. CASE FormOpen(form)
  <2>1. InPlace /\ open[Around(screen, write.on)] = owner
    BY <1>1, <1>3 DEF FormOK, FormOpen, InPlace
  <2>2. open' = Without(write.on)
    BY <2>1 DEF AfterAnswer, Closes
  <2>3. write.on \in Path[screen][write.on]
    BY <1>1, <1>3, WritePlace DEF FormOpen
  <2>4. write.on \notin DOMAIN open'
    BY <2>2, <2>3 DEF Without
  <2> QED
    BY <1>1, <2>4 DEF FormOpen
<1> QED
  BY <1>2, <1>3

\* The states that an answer may leave a write in.
LEMMA AnswerShuts ==
    ASSUME Inv, NEW i \in DOMAIN tasks,
           \/ Refuse(i) \/ Reject(i) \/ CarryOut(i)
           \/ Succeed(i) \/ RefreshLater(i) \/ Fail(i)
    PROVE  /\ tasks[i].state \notin Failures
           /\ \A j \in DOMAIN tasks' :
                /\ j \in DOMAIN tasks
                /\ tasks'[j].form = tasks[j].form /\ tasks'[j].owner = tasks[j].owner
                /\ j # i => tasks'[j] = tasks[j]
           /\ \/ ~Shut(tasks'[i].state)
              \/ Shut(tasks[i].state)
              \/ Does("closes") => AfterAnswer(i, TRUE) /\ screen' = screen
<1>1. tasks \in Seq(Tasks) /\ tasks[i] \in Tasks
  <2>1. tasks \in Seq(Tasks)
    BY TypeParts DEF Inv, TasksOK
  <2> QED
    BY <2>1
<1>2. ASSUME NEW state, Becomes(i, state)
      PROVE  /\ \A j \in DOMAIN tasks' :
                  /\ j \in DOMAIN tasks
                  /\ tasks'[j].form = tasks[j].form /\ tasks'[j].owner = tasks[j].owner
                  /\ j # i => tasks'[j] = tasks[j]
             /\ tasks'[i].state = state
  BY <1>1, <1>2 DEF Becomes, Tasks
<1>3. CASE Refuse(i) \/ Reject(i)
  <2>1. PICK state \in {"refused", "rejected"} : Becomes(i, state)
    BY <1>3 DEF Refuse, Reject
  <2>2. tasks[i].state = "sent" /\ ~Shut(state)
    BY <1>3 DEF Refuse, Reject, Shut, Failures
  <2> QED
    BY <1>2, <2>1, <2>2 DEF Failures
<1>4. CASE CarryOut(i)
  <2>1. tasks' = [tasks EXCEPT ![i] = [tasks[i] EXCEPT !.state = "done", !.made = version']]
    BY <1>4 DEF CarryOut
  <2>2. tasks'[i].state = "done" /\ tasks'[i].form = tasks[i].form
        /\ tasks'[i].owner = tasks[i].owner
    BY <1>1, <2>1 DEF Tasks
  <2>3. \A j \in DOMAIN tasks' : j \in DOMAIN tasks /\ (j # i => tasks'[j] = tasks[j])
    BY <1>1, <2>1
  <2> QED
    BY <1>4, <2>2, <2>3 DEF CarryOut, Shut, Failures
<1>5. CASE Succeed(i)
  <2>1. /\ tasks[i].state = "done" /\ screen' = screen
        /\ Does("closes") => AfterAnswer(i, TRUE)
        /\ Becomes(i, "waiting") \/ Becomes(i, "ok")
    BY <1>5 DEF Succeed
  <2> QED
    BY <1>2, <2>1 DEF Failures
<1>6. CASE RefreshLater(i)
  BY <1>2, <1>6 DEF RefreshLater, Shut, Failures
<1>7. CASE Fail(i)
  <2>1. /\ tasks[i].state \in {"refused", "rejected", "done"} /\ screen' = screen
        /\ Does("settles") => AfterAnswer(i, TRUE)
    BY <1>7 DEF Fail
  <2>2. PICK state \in Failures : Becomes(i, state)
    BY <1>7 DEF Fail, Failures
  <2>3. Shut(state) => Does("settles")
    BY DEF Shut, Failures
  <2> QED
    BY <1>2, <2>1, <2>2, <2>3 DEF Failures
<1> QED
  BY <1>3, <1>4, <1>5, <1>6, <1>7

\* What a step has to establish of each write.
LEMMA FormsParts ==
    ASSUME follow' = follow,
           \A j \in DOMAIN tasks' : \E form \in Nat, owner \in Nat :
              /\ tasks'[j].form = form /\ tasks'[j].owner = owner
              /\ FormOK(form, owner)'
              /\ Shut(tasks'[j].state) => ~FormOpen(form)'
    PROVE  FormsInv'
<1>1. \A state : Shut(state)' <=> Shut(state)
  BY DEF Shut, Does, write
<1> QED
  BY <1>1 DEF FormsInv, FormOK, FormOpen, Shut, Does, write

LEMMA AgainParts ==
    ASSUME follow' = follow,
           \A i, j \in DOMAIN tasks' :
              i < j /\ Does("busy") /\ tasks'[i].form = tasks'[j].form
                => tasks'[i].state \in Failures /\ ~Does("settles")
    PROVE  AgainInv'
BY DEF AgainInv, Does, write

LEMMA FormTypes ==
    ASSUME Inv, NEW i \in DOMAIN tasks
    PROVE  tasks[i] \in Tasks /\ tasks[i].form \in Nat /\ tasks[i].owner \in Nat
<1>1. tasks[i] \in Tasks
  BY TypeParts DEF Inv, TasksOK
<1> QED
  BY <1>1 DEF Tasks

LEMMA OnceElse ==
    ASSUME Inv, Does("closes"), FormsInv, AgainInv, follow' = follow, PageMoves,
           tasks' = tasks
    PROVE  FormsInv' /\ AgainInv'
<1>1. ASSUME NEW j \in DOMAIN tasks'
      PROVE  /\ FormOK(tasks[j].form, tasks[j].owner)'
             /\ Shut(tasks[j].state) => ~FormOpen(tasks[j].form)'
  <2> DEFINE form == tasks[j].form
             owner == tasks[j].owner
  <2>1. form \in Nat /\ FormOK(form, owner) /\ (Shut(tasks[j].state) => ~FormOpen(form))
    BY FormTypes DEF FormsInv
  <2> QED
    BY <2>1, FormKept DEF FormOK, FormOpen
<1>2. FormsInv'
  BY <1>1, FormTypes, FormsParts
<1> QED
  BY <1>2, AgainParts DEF AgainInv

\* A control that is busy is pressed again only after its form's write failed.
LEMMA OncePress ==
    ASSUME Inv, Does("closes"), FormsInv, AgainInv, follow' = follow, PageMoves, Press
    PROVE  FormsInv' /\ AgainInv'
<1> DEFINE t == Task(open[write.on], open[Around(screen, write.on)])
<1>1. /\ tasks' = Append(tasks, t) /\ InPlace /\ tasks \in Seq(Tasks) /\ PageOK
      /\ Does("busy") => ~IsBusy
  BY TypeParts DEF Press, Inv, TasksOK
<1>2. /\ t.form = open[write.on] /\ t.owner = open[Around(screen, write.on)]
      /\ t.state = "sent" /\ t.form \in Nat /\ t.owner \in Nat
  BY <1>1 DEF Task, InPlace, PageOK
<1>3. FormOK(t.form, t.owner)
  <2>1. t.form <= turn /\ FormOpen(t.form)
    BY <1>1, <1>2 DEF InPlace, PageOK, FormOpen
  <2> QED
    BY <1>1, <1>2, <2>1 DEF FormOK, InPlace
<1>4. FormsInv'
  <2> SUFFICES ASSUME NEW j \in DOMAIN tasks'
               PROVE  \E form \in Nat, owner \in Nat :
                         /\ tasks'[j].form = form /\ tasks'[j].owner = owner
                         /\ FormOK(form, owner)'
                         /\ Shut(tasks'[j].state) => ~FormOpen(form)'
    BY FormsParts
  <2>1. CASE j \in DOMAIN tasks /\ tasks'[j] = tasks[j]
    <3>1. PICK form, owner : form = tasks[j].form /\ owner = tasks[j].owner
      OBVIOUS
    <3>2. /\ form \in Nat /\ owner \in Nat /\ FormOK(form, owner)
          /\ Shut(tasks[j].state) => ~FormOpen(form)
      BY <2>1, <3>1, FormTypes DEF FormsInv
    <3>3. FormOK(form, owner)' /\ (FormOpen(form)' => FormOpen(form))
      BY <3>2, FormKept
    <3> QED
      BY <2>1, <3>1, <3>2, <3>3
  <2>2. CASE tasks'[j] = t
    <3>1. PICK form, owner : form = t.form /\ owner = t.owner
      OBVIOUS
    <3>2. form \in Nat /\ owner \in Nat /\ FormOK(form, owner)'
      BY <1>2, <1>3, <3>1, FormKept
    <3>3. ~Shut(t.state)
      BY <1>2 DEF Shut, Failures
    <3> QED
      BY <2>2, <3>1, <3>2, <3>3
  <2> QED
    BY <1>1, <2>1, <2>2
<1>5. ASSUME NEW a \in DOMAIN tasks, Does("busy"), tasks[a].form = t.form
      PROVE  tasks[a].state \in Failures /\ ~Does("settles")
  <2>1. FormOpen(tasks[a].form)
    BY <1>1, <1>2, <1>5 DEF InPlace, FormOpen
  <2>2. tasks[a].owner = t.owner /\ ~Shut(tasks[a].state)
    BY <1>2, <2>1 DEF FormsInv, FormOK
  <2>3. tasks[a].state \notin Pending
    BY <1>1, <1>2, <1>5, <2>2 DEF IsBusy, Home, InPlace
  <2>4. tasks[a].state \in TaskStates
    BY FormTypes DEF Tasks
  <2> QED
    BY <2>2, <2>3, <2>4 DEF TaskStates, Pending, CarriedOut, Shut, Failures
<1>6. AgainInv'
  <2> SUFFICES ASSUME NEW a \in DOMAIN tasks', NEW b \in DOMAIN tasks', a < b, Does("busy"),
                      tasks'[a].form = tasks'[b].form
               PROVE  tasks'[a].state \in Failures /\ ~Does("settles")
    BY AgainParts
  <2>1. /\ a \in DOMAIN tasks /\ tasks'[a] = tasks[a]
        /\ (b \in DOMAIN tasks /\ tasks'[b] = tasks[b]) \/ tasks'[b] = t
    BY <1>1
  <2> QED
    BY <1>5, <2>1 DEF AgainInv
<1> QED
  BY <1>4, <1>6

LEMMA OnceAnswer ==
    ASSUME Inv, Does("closes"), FormsInv, AgainInv, follow' = follow, PageMoves,
           NEW i \in DOMAIN tasks,
           \/ Refuse(i) \/ Reject(i) \/ CarryOut(i)
           \/ Succeed(i) \/ RefreshLater(i) \/ Fail(i)
    PROVE  FormsInv' /\ AgainInv'
<1>1. /\ tasks[i].state \notin Failures
      /\ \A j \in DOMAIN tasks' :
           /\ j \in DOMAIN tasks
           /\ tasks'[j].form = tasks[j].form /\ tasks'[j].owner = tasks[j].owner
           /\ j # i => tasks'[j] = tasks[j]
      /\ \/ ~Shut(tasks'[i].state)
         \/ Shut(tasks[i].state)
         \/ AfterAnswer(i, TRUE) /\ screen' = screen
  BY AnswerShuts
<1>2. FormsInv'
  <2> SUFFICES ASSUME NEW j \in DOMAIN tasks'
               PROVE  \E form \in Nat, owner \in Nat :
                         /\ tasks'[j].form = form /\ tasks'[j].owner = owner
                         /\ FormOK(form, owner)'
                         /\ Shut(tasks'[j].state) => ~FormOpen(form)'
    BY FormsParts
  <2>1. PICK form, owner : form = tasks[j].form /\ owner = tasks[j].owner
    OBVIOUS
  <2>2. /\ form \in Nat /\ owner \in Nat /\ FormOK(form, owner)
        /\ Shut(tasks[j].state) => ~FormOpen(form)
        /\ tasks'[j].form = form /\ tasks'[j].owner = owner
    BY <1>1, <2>1, FormTypes DEF FormsInv
  <2>3. FormOK(form, owner)' /\ (FormOpen(form)' => FormOpen(form))
    BY <2>2, FormKept
  <2>4. Shut(tasks'[j].state) => ~FormOpen(form)'
    <3>1. CASE Shut(tasks[j].state)
      BY <2>2, <2>3, <3>1
    <3>2. CASE j = i /\ AfterAnswer(i, TRUE) /\ screen' = screen
      BY <2>1, <2>2, <3>2, AnswerCloses
    <3> QED
      BY <1>1, <3>1, <3>2
  <2> QED
    BY <2>2, <2>3, <2>4
<1>3. AgainInv'
  <2> SUFFICES ASSUME NEW a \in DOMAIN tasks', NEW b \in DOMAIN tasks', a < b, Does("busy"),
                      tasks'[a].form = tasks'[b].form
               PROVE  tasks'[a].state \in Failures /\ ~Does("settles")
    BY AgainParts
  <2>1. tasks[a].state \in Failures /\ ~Does("settles")
    BY <1>1 DEF AgainInv
  <2> QED
    BY <1>1, <2>1
<1> QED
  BY <1>2, <1>3

LEMMA OnceNext == Inv /\ OnceInv /\ [Next]_vars => OnceInv'
<1> SUFFICES ASSUME Inv, OnceInv, [Next]_vars, Does("closes") PROVE FormsInv' /\ AgainInv'
  BY FollowStatic DEF OnceInv, Does, write
<1>1. FormsInv /\ AgainInv /\ follow' = follow /\ PageMoves
  BY FollowStatic, PageMovesNext DEF OnceInv
<1>2. CASE tasks' = tasks
  BY <1>1, <1>2, OnceElse
<1>3. CASE Press
  BY <1>1, <1>3, OncePress
<1>4. CASE \E i \in DOMAIN tasks :
              \/ Refuse(i) \/ Reject(i) \/ CarryOut(i)
              \/ Succeed(i) \/ RefreshLater(i) \/ Fail(i)
  BY <1>1, <1>4, OnceAnswer
<1> QED
  BY <1>2, <1>3, <1>4, TasksElse DEF Next

\* Whatever the screens, and however the user walks through them: a form whose
\* control minds that its write is pending, and which its success closes, is
\* carried out once, but for a failure that leaves it open.
THEOREM FormsOnce == Spec => []OncePerForm
<1>1. Init => OnceInv
  BY DEF Init, OnceInv, FormsInv, AgainInv
<1>2. OnceInv => OncePerForm
  <2> SUFFICES ASSUME OnceInv, NEW i \in DOMAIN tasks, NEW j \in DOMAIN tasks,
                      i < j, Does("closes"), Does("busy"),
                      tasks[i].form = tasks[j].form, tasks[i].state \in CarriedOut
               PROVE  tasks[i].state \in {"lost", "unread"} /\ ~Does("settles")
    BY DEF OncePerForm
  <2>1. tasks[i].state \in Failures /\ ~Does("settles")
    BY DEF OnceInv, AgainInv
  <2> QED
    BY <2>1 DEF Failures, CarriedOut
<1> QED
  BY <1>1, <1>2, InvInit, InvNext, OnceNext, PTL DEF Spec
-----------------------------------------------------------------------------
(* The promise that is implemented                                         *)

\* The strengthening: an answer on its way is no older than the one it is to
\* replace, and neither is ahead of the server.
ViewsInv ==
    /\ entry.version <= version
    /\ fetch.phase = "read" =>
         entry.version <= fetch.version /\ fetch.version <= version

\* No answer is read or stored.
Keeps ==
    /\ entry'.version = entry.version
    /\ fetch'.phase = "read" => fetch.phase = "read" /\ fetch'.version = fetch.version

LEMMA CacheKeeps ==
    ASSUME CacheOK, Start \/ Invalidate \/ GiveUp \/ UNCHANGED cacheVars
    PROVE  Keeps
<1>1. CASE Invalidate
  BY <1>1 DEF Invalidate, Keeps, CacheOK, Entries, Fetches, Idle, Sent
<1>2. CASE Start \/ GiveUp
  BY <1>2 DEF Start, GiveUp, Keeps, CacheOK, Entries, Idle, Sent
<1> QED
  BY <1>1, <1>2 DEF Keeps

LEMMA PageKeeps == Inv /\ (Navigate \/ Press) => Keeps /\ version' = version
<1> SUFFICES ASSUME Inv, Navigate \/ Press PROVE Keeps /\ version' = version
  OBVIOUS
<1>1. CacheOK
  BY TypeParts DEF Inv
<1>2. version' = version
  BY DEF Navigate, Press, Enter, OpenPane, ClosePane
<1>3. Start \/ Invalidate \/ UNCHANGED cacheVars
  BY RearrangeCache DEF Navigate, Press, Enter, OpenPane, ClosePane
<1> QED
  BY <1>1, <1>2, <1>3, CacheKeeps

LEMMA AnswerKeeps ==
    ASSUME Inv, NEW i \in DOMAIN tasks,
           \/ Refuse(i) \/ Reject(i) \/ CarryOut(i)
           \/ Succeed(i) \/ RefreshLater(i) \/ Fail(i)
    PROVE  Keeps /\ version' \in {version, version + 1}
<1>1. CacheOK
  BY TypeParts DEF Inv
<1>2. version' \in {version, version + 1}
  BY DEF Refuse, Reject, CarryOut, Succeed, RefreshLater, Fail
<1>3. Invalidate \/ UNCHANGED cacheVars
  BY DEF Refuse, Reject, CarryOut, Succeed, RefreshLater, Fail
<1> QED
  BY <1>1, <1>2, <1>3, CacheKeeps

\* What is neither read nor stored leaves the copy as it is.
LEMMA KeepsViews ==
    ASSUME Inv, ViewsInv, Keeps, version' \in {version, version + 1}
    PROVE  ViewsInv' /\ [Views!Next]_(Views!vars)
<1>1. CacheOK /\ version \in Nat
  BY TypeParts DEF Inv, TasksOK
<1>2. entry.version \in Nat /\ fetch.version \in Nat
  BY <1>1 DEF CacheOK, Entries, Fetches
<1>3. ViewsInv'
  BY <1>1, <1>2 DEF ViewsInv, Keeps
<1>4. CASE version' = version
  BY <1>3, <1>4 DEF Keeps, Views!vars
<1>5. CASE version' = version + 1
  BY <1>3, <1>5 DEF Keeps, Views!Next, Views!Change
<1> QED
  BY <1>3, <1>4, <1>5

LEMMA ViewsNext == Inv /\ ViewsInv /\ [Next]_vars => ViewsInv' /\ [Views!Next]_(Views!vars)
<1> SUFFICES ASSUME Inv, ViewsInv, [Next]_vars
             PROVE  ViewsInv' /\ [Views!Next]_(Views!vars)
  OBVIOUS
<1>1. CacheOK /\ version \in Nat
  BY TypeParts DEF Inv, TasksOK
<1>2. CASE Navigate \/ Press
  BY <1>2, PageKeeps, KeepsViews
<1>3. CASE \E i \in DOMAIN tasks :
             \/ Refuse(i) \/ Reject(i) \/ CarryOut(i)
             \/ Succeed(i) \/ RefreshLater(i) \/ Fail(i)
  BY <1>3, AnswerKeeps, KeepsViews
<1>4. CASE OthersChange \/ Poll \/ Focus \/ FetchRefused \/ FetchFails \/ UNCHANGED vars
  <2>1. Start \/ GiveUp \/ UNCHANGED cacheVars
    BY <1>4 DEF OthersChange, Poll, Focus, FetchRefused, FetchFails, vars
  <2>2. version' \in {version, version + 1}
    BY <1>4 DEF OthersChange, Poll, Focus, FetchRefused, FetchFails, vars
  <2> QED
    BY <1>1, <2>1, <2>2, CacheKeeps, KeepsViews
<1>5. CASE FetchServed
  <2>1. /\ fetch' = [phase |-> "read", version |-> version, late |-> FALSE]
        /\ UNCHANGED <<entry, version>>
    BY <1>5 DEF FetchServed
  <2>2. fetch'.version = version
    BY <2>1
  <2> QED
    BY <1>1, <2>1, <2>2 DEF ViewsInv, Views!vars
<1>6. CASE FetchAnswered
  <2>1. /\ fetch.phase = "read" /\ fetch' = Idle /\ version' = version
        /\ entry'.version = fetch.version
    BY <1>6 DEF FetchAnswered
  <2>2. entry.version \in Nat /\ fetch.version \in Nat
    BY <1>1 DEF CacheOK, Entries, Fetches
  <2>3. ViewsInv'
    BY <1>1, <2>1 DEF ViewsInv, Idle
  <2>4. CASE fetch.version = entry.version
    BY <2>1, <2>3, <2>4 DEF Views!vars
  <2>5. CASE fetch.version # entry.version
    <3>1. fetch.version \in (entry.version + 1) .. version
      BY <1>1, <2>1, <2>2, <2>5 DEF ViewsInv
    <3> QED
      BY <2>1, <2>3, <3>1 DEF Views!Next, Views!Learn
  <2> QED
    BY <2>4, <2>5
<1> QED
  BY <1>2, <1>3, <1>4, <1>5, <1>6 DEF Next

\* Whatever the screens, and however fetches overlap with writes, failures and
\* changes by others: a screen shows what was once so, and never goes back.
THEOREM ConsoleImplementsInvalidation == Spec => ImplementsInvalidation
<1>1. Init => ViewsInv /\ Views!Init
  BY DEF Init, ViewsInv, Views!Init, NoEntry, Idle, Sent
<1> QED
  BY <1>1, InvInit, InvNext, ViewsNext, PTL
     DEF Spec, ImplementsInvalidation, Views!Spec
=============================================================================
