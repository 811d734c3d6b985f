------------------------------ MODULE Console ------------------------------
(***************************************************************************)
(* One user at the web console, and the cache of answers behind its        *)
(* screens.                                                                *)
(*                                                                         *)
(* Screens and their panes come and go.  A control starts a write, which   *)
(* the API refuses, rejects or carries out, and whose answer comes later,  *)
(* wherever the user is by then.  A success invalidates the keys the write *)
(* names: an answer that is watched is fetched again at once, another one  *)
(* when it is next watched.  Fetches are answered late as well, with what  *)
(* the server held when it read.                                           *)
(*                                                                         *)
(* Screens, keys and writes are independent but for the pairs of a write   *)
(* and a key that meet on a screen or in an invalidation: a behaviour      *)
(* follows one of these pairs through the whole console.                   *)
(***************************************************************************)
EXTENDS Screens, Naturals, Sequences

CONSTANTS
    Catalogue,   \* the screens
    Frame,       \* what is watched around every screen
    Gaps,        \* pairs of a write and a key it should refresh, but does not
    Overreach,   \* writes offered to some whom the API refuses, whatever gave
                 \* them their permissions
    CustomOverreach, \* writes offered to some whom the API refuses, but never
                 \* to the holder of a role template
    MaxPresses,  \* bound: writes started from a form that alone is followed
    MaxFollowed, \* bound: writes started of a pair with a key
    MaxTurns,    \* bound: screens and panes left
    MaxMishaps   \* bound: changes made by others and fetches that fail

ASSUME LimitAssumption ==
    /\ MaxPresses \in Nat /\ MaxFollowed \in Nat /\ MaxTurns \in Nat
    /\ MaxMishaps \in Nat

-----------------------------------------------------------------------------
(* What a behaviour follows                                                *)

Elsewhere == "elsewhere"  \* any screen that has nothing to do with the pair
NoKey == "none"
NoWrite == Write("none", "none", {}, {})

Names == {s.name : s \in Catalogue}

ScreenOf == [n \in Names |-> CHOOSE s \in Catalogue : s.name = n]

\* What is watched on a screen, as far as its panes are open.
ReadsOn ==
    [n \in Names \cup {Elsewhere} |->
        IF n = Elsewhere THEN Frame
        ELSE ScreenOf[n].reads \cup (IF ScreenOf[n].framed THEN Frame ELSE {})]

AllReads == UNION {ReadsOn[n] : n \in Names}

CallOf == [k \in {r.key : r \in AllReads} |-> CHOOSE c \in {r.call : r \in AllReads} :
              \E r \in AllReads : r.key = k /\ r.call = c]

\* The keys a write changes or refreshes, as far as its screen is concerned:
\* the counts around it are polled, and wait for no write.
KeysOf(s, w) ==
    w.refreshes \cup
    {r.key : r \in {q \in s.reads : ShowsIn(w.call, q.call)}}

\* Where a key is watched on a screen.
WindowsOf(key, n) == {r \in ReadsOn[n] : r.key = key}

\* Screens that make a difference to a key: all others are like Elsewhere.
Differing(key) == {n \in Names : WindowsOf(key, n) # WindowsOf(key, Elsewhere)}

\* Without a key, a pair follows the control and the panes around it only.
Pair(key, write, at) ==
    [key |-> key, write |-> write, at |-> at,
     windows |-> [n \in Differing(key) \cup {at, Elsewhere} |-> WindowsOf(key, n)]]

WrittenPairs ==
    UNION {UNION {{Pair(k, w, s.name) : k \in KeysOf(s, w) \cup {NoKey}} :
                   w \in s.writes} :
           s \in Catalogue}

\* A key that is only watched.
WatchedPairs == {Pair(r.key, NoWrite, Elsewhere) : r \in AllReads}

Pairs ==
    WrittenPairs \cup
    {p \in WatchedPairs : ~\E q \in WrittenPairs : q.key = p.key}

\* useCanOperate: whatever the screen is about.
CanOperate == "monitoring:operate"

\* What the screens, the control and the two calls of a pair ask for.
Asked(p) ==
    UNION ({AnyOf(ScreenOf[n].gate) : n \in DOMAIN p.windows \cap Names} \cup
           {{CanOperate}} \cup
           {AnyOf(RouteOf[c].needs) :
              c \in {p.write.call} \cap DOMAIN RouteOf} \cup
           {AnyOf(RouteOf[CallOf[k]].needs) : k \in {p.key} \ {NoKey}})

Rights(p) == {granted \cap Asked(p) : granted \in Grants}

TemplateRights(p) == {granted \cap Asked(p) : granted \in Templates}

VARIABLES
    follow,   \* the pair, and where its key is watched
    rights,   \* the user's permissions, as far as the pair asks for any
    screen,   \* the screen shown
    open,     \* its open panes, each with the turn it was opened in
    tasks,    \* the writes started so far
    version,  \* changes the server holds that show under the key
    mine,     \* the latest of them the user was answered about
    entry,    \* the cached answer
    fetch,    \* the fetch under way
    turn,     \* screens and panes left so far: what closes and opens again
              \* has a new turn
    mishaps   \* changes by others and failed fetches so far

vars == <<follow, rights, screen, open, tasks, version, mine, entry, fetch, turn, mishaps>>
pageVars == <<screen, open, turn>>
cacheVars == <<entry, fetch>>

write == follow.write
Does(manner) == manner \in write.how

-----------------------------------------------------------------------------
(* Panes                                                                   *)

PaneOf(n, p) == CHOOSE q \in ScreenOf[n].panes : q.name = p

Around(n, p) ==
    IF n \in Names /\ \E q \in ScreenOf[n].panes : q.name = p
      THEN PaneOf(n, p).inside ELSE Page

\* A pane and those it lies in; none lies deeper than this.
Path == [n \in Names \cup {Elsewhere} |->
            [p \in {q.name : q \in UNION {s.panes : s \in Catalogue}} \cup {Page, NoKey} |->
               LET a == Around(n, p)
                   b == Around(n, a)
               IN  {p, a, b, Around(n, b), Page}]]

\* Screens have names of their own, and controls lie in panes of their screen,
\* no deeper than Path goes.
ASSUME CatalogueAssumption ==
    /\ Elsewhere \notin Names
    /\ \A s, t \in Catalogue : s.name = t.name => s = t
    /\ \A s \in Catalogue : \A w \in s.writes :
          /\ w.on \in {q.name : q \in s.panes} \cup {Page}
          /\ Path[s.name][Around(s.name, w.on)] \subseteq Path[s.name][w.on]

\* Where the key is watched on a screen.
Windows(n) == follow.windows[n]

Relevant == DOMAIN follow.windows

\* The panes that matter here: those on the way to the write and the reads.
Wanted(n) ==
    (UNION {Path[n][r.on] : r \in Windows(n)}) \cup
    (IF n = follow.at /\ write # NoWrite THEN Path[n][write.on] ELSE {Page})

Watching(n, panes) == \E r \in Windows(n) : r.on \in panes

Watched == Watching(screen, DOMAIN open)

\* What is left open when a pane is closed.
Without(p) == [q \in {q \in DOMAIN open : p \notin Path[screen][q]} |-> open[q]]

-----------------------------------------------------------------------------
(* The cache                                                               *)

\* late: from before an invalidation that the fetch went on through.
NoEntry == [has |-> FALSE, version |-> 0, invalid |-> FALSE, late |-> FALSE]

Idle == [phase |-> "idle", version |-> 0, late |-> FALSE]
Sent == [Idle EXCEPT !.phase = "sent"]

Start ==
    /\ fetch' = Sent
    /\ entry' = entry

\* Faulty variant: the views that are open are fetched again, and that is all.
RefetchOpen ==
    \/ Watched /\ Start
    \/ ~Watched /\ UNCHANGED cacheVars

\* A fetch under way is given up for a new one if there is an answer to show
\* meanwhile, and goes on otherwise.
Invalidate ==
    \/ /\ Watched /\ (fetch = Idle \/ entry.has)
       /\ fetch' = Sent
       /\ entry' = [entry EXCEPT !.invalid = TRUE]
    \/ /\ ~(Watched /\ (fetch = Idle \/ entry.has))
       /\ fetch' = [fetch EXCEPT !.late = @ \/ fetch.phase = "read"]
       /\ entry' = [entry EXCEPT !.invalid = TRUE]

\* Panes are open'ed or closed: a key that was not watched before is fetched
\* if there is no answer, or not an up to date one.
Rearrange(n, panes) ==
    /\ screen' = n
    /\ open' = panes
    /\ \/ /\ ~Watched /\ Watching(n, DOMAIN panes) /\ fetch = Idle
          /\ \/ ~entry.has
             \/ entry.invalid
             \/ \E r \in Windows(n) : r.on \in DOMAIN panes /\ r.renews # "never"
          /\ Start
       \/ /\ ~Watched /\ Watching(n, DOMAIN panes) /\ fetch = Idle
          /\ entry.has /\ ~entry.invalid
          /\ UNCHANGED cacheVars
       \/ /\ Watched \/ ~Watching(n, DOMAIN panes) \/ fetch # Idle
          /\ UNCHANGED cacheVars

-----------------------------------------------------------------------------
(* Writes                                                                  *)

\* form: the opening of the pane it was started in; owner: of the one around.
\* made: the version it made, 0 if it shows nowhere or was not carried out.
Task(form, owner) == [form |-> form, owner |-> owner, state |-> "sent", made |-> 0]

Pending == {"sent", "done", "refused", "rejected"}
CarriedOut == {"done", "ok", "waiting", "unread", "lost"}
TaskStates == Pending \cup CarriedOut \cup {"failed"}

\* The pane whose component holds the mutation.
Home == IF Does("shared") THEN Around(screen, write.on) ELSE write.on

\* Faulty variant: the control stays usable.
NeverBusy == FALSE

IsBusy ==
    \E i \in DOMAIN tasks :
        /\ tasks[i].state \in Pending
        /\ Home \in DOMAIN open
        /\ open[Home] = IF Does("shared") THEN tasks[i].owner ELSE tasks[i].form

\* Faulty variant: controls are shown whatever the permissions.
OfferedToAll == TRUE

Offered == Does("operate") => Holds(rights, CanOperate)

\* The control, if there is one, is on the screen.
InPlace ==
    /\ write # NoWrite /\ screen = follow.at
    /\ {write.on, Around(screen, write.on)} \subseteq DOMAIN open

\* Its success closes a pane that is still there, whoever opened it.
Closes(i) ==
    /\ InPlace
    /\ open[Around(screen, write.on)] = tasks[i].owner

\* Whether the write shows in the answer that is followed.
Shows == follow.key # NoKey /\ ShowsIn(write.call, CallOf[follow.key])

Allowed == Routed(write.call) /\ Holds(rights, RouteOf[write.call].needs)

\* The client takes an answer without a body for an error.
HasAnswer == Routed(write.call) /\ RouteOf[write.call].body

\* The navigation shows the entries the user is meant to see.
Visible(n) == n \in Names => Holds(rights, ScreenOf[n].gate)

-----------------------------------------------------------------------------
Init ==
    /\ follow \in Pairs
    /\ rights \in Rights(follow)
    /\ Visible(follow.at)
    /\ screen = Elsewhere
    /\ open = [p \in {Page} |-> 0]
    /\ tasks = <<>>
    /\ version = 0
    /\ mine = 0
    /\ entry = NoEntry
    /\ fetch = IF Watched THEN Sent ELSE Idle
    /\ turn = 0
    /\ mishaps = 0

(* The user                                                                *)

Enter(n) ==
    /\ n # screen /\ turn < MaxTurns
    /\ Visible(n)
    /\ turn' = turn + 1
    /\ Rearrange(n, [p \in {Page} |-> turn'])
    /\ UNCHANGED <<follow, rights, tasks, version, mine, mishaps>>

OpenPane(p) ==
    /\ p \notin DOMAIN open
    /\ Around(screen, p) \in DOMAIN open
    /\ Rearrange(screen, [q \in DOMAIN open \cup {p} |->
                             IF q = p THEN turn ELSE open[q]])
    /\ UNCHANGED <<follow, rights, tasks, version, mine, turn, mishaps>>

ClosePane(p) ==
    /\ p # Page /\ turn < MaxTurns
    /\ turn' = turn + 1
    /\ \/ /\ follow.key \in PaneOf(screen, p).after
          /\ Invalidate
          /\ screen' = screen /\ open' = Without(p)
       \/ /\ follow.key \notin PaneOf(screen, p).after
          /\ Rearrange(screen, Without(p))
    /\ UNCHANGED <<follow, rights, tasks, version, mine, mishaps>>

Press ==
    /\ InPlace /\ Offered
    /\ ~(Does("busy") /\ IsBusy)
    /\ Len(tasks) < (IF follow.key = NoKey THEN MaxPresses ELSE MaxFollowed)
    /\ tasks' = Append(tasks, Task(open[write.on], open[Around(screen, write.on)]))
    /\ \/ /\ Does("leaves")
          /\ turn' = turn + 1
          /\ Rearrange(screen, Without(write.on))
       \/ /\ ~Does("leaves")
          /\ UNCHANGED <<pageVars, cacheVars>>
    /\ UNCHANGED <<follow, rights, version, mine, mishaps>>

(* The API                                                                 *)

Becomes(i, state) == tasks' = [tasks EXCEPT ![i].state = state]

Refuse(i) ==
    /\ tasks[i].state = "sent"
    /\ ~Allowed
    /\ Becomes(i, "refused")
    /\ UNCHANGED <<follow, rights, pageVars, version, mine, cacheVars, mishaps>>

\* Something is wrong with what was asked for, or with the service.
Reject(i) ==
    /\ tasks[i].state = "sent"
    /\ Becomes(i, "rejected")
    /\ UNCHANGED <<follow, rights, pageVars, version, mine, cacheVars, mishaps>>

CarryOut(i) ==
    /\ tasks[i].state = "sent"
    /\ Allowed
    /\ version' = IF Shows THEN version + 1 ELSE version
    /\ tasks' = [tasks EXCEPT ![i].state = "done", ![i].made = version']
    /\ UNCHANGED <<follow, rights, pageVars, mine, cacheVars, mishaps>>

OthersChange ==
    /\ follow.key # NoKey /\ mishaps < MaxMishaps
    /\ mishaps' = mishaps + 1
    /\ version' = version + 1
    /\ UNCHANGED <<follow, rights, pageVars, tasks, mine, cacheVars>>

(* Answers to writes                                                       *)

Refreshes == follow.key \in write.refreshes

AfterAnswer(i, closing) ==
    \/ /\ closing /\ Closes(i)
       /\ open' = Without(write.on)
       /\ turn' = turn + 1
    \/ /\ ~(closing /\ Closes(i))
       /\ UNCHANGED <<open, turn>>

\* Faulty variant: every answer is taken for news.
AlwaysNews(i) == mine' = mine + 1

Answered(i) == mine' = IF Shows /\ tasks[i].made > mine THEN tasks[i].made ELSE mine

Succeed(i) ==
    /\ tasks[i].state = "done" /\ HasAnswer
    /\ Answered(i)
    /\ Becomes(i, IF Does("later") THEN "waiting" ELSE "ok")
    /\ AfterAnswer(i, Does("closes"))
    /\ \/ Refreshes /\ ~Does("later") /\ Invalidate
       \/ ~(Refreshes /\ ~Does("later")) /\ UNCHANGED cacheVars
    /\ UNCHANGED <<follow, rights, screen, version, mishaps>>

RefreshLater(i) ==
    /\ tasks[i].state = "waiting"
    /\ Becomes(i, "ok")
    /\ \/ Refreshes /\ Invalidate
       \/ ~Refreshes /\ UNCHANGED cacheVars
    /\ UNCHANGED <<follow, rights, pageVars, version, mine, mishaps>>

\* Refused and rejected writes fail; so does one whose answer is lost, and
\* one that is answered without a body, where the client expects one.
Fail(i) ==
    /\ \/ tasks[i].state \in {"refused", "rejected"} /\ Becomes(i, "failed") /\ mine' = mine
       \/ tasks[i].state = "done" /\ Becomes(i, "lost") /\ mine' = mine
       \/ tasks[i].state = "done" /\ ~HasAnswer /\ Becomes(i, "unread") /\ Answered(i)
    /\ AfterAnswer(i, Does("settles"))
    /\ UNCHANGED <<follow, rights, screen, version, cacheVars, mishaps>>

(* Fetches                                                                 *)

\* Faulty variant: the interval ends with the first answer.
PollUntilAnswered ==
    /\ fetch = Idle /\ ~entry.has
    /\ Watched
    /\ Start
    /\ UNCHANGED <<follow, rights, pageVars, tasks, version, mine, mishaps>>

\* Its interval has passed.
Poll ==
    /\ fetch = Idle
    /\ \E r \in Windows(screen) : r.on \in DOMAIN open /\ r.renews = "polls"
    /\ Start
    /\ UNCHANGED <<follow, rights, pageVars, tasks, version, mine, mishaps>>

\* The window gets the focus.
Focus ==
    /\ fetch = Idle
    /\ \E r \in Windows(screen) :
          r.on \in DOMAIN open /\ (r.renews # "never" \/ entry.invalid \/ ~entry.has)
    /\ Start
    /\ UNCHANGED <<follow, rights, pageVars, tasks, version, mine, mishaps>>

MayRead == Holds(rights, RouteOf[CallOf[follow.key]].needs)

\* The answer holds what the server held by now, whenever it arrives.
FetchServed ==
    /\ fetch.phase = "sent" /\ MayRead
    /\ fetch' = [phase |-> "read", version |-> version, late |-> FALSE]
    /\ UNCHANGED <<follow, rights, pageVars, tasks, version, mine, entry, mishaps>>

\* Faulty variant: what could not be fetched again is no longer shown.
GiveUpAll == fetch' = Idle /\ entry' = NoEntry

\* An answer there is stays, marked as one to fetch again.
GiveUp ==
    /\ fetch' = Idle
    /\ entry' = [entry EXCEPT !.invalid = entry.has]

FetchRefused ==
    /\ fetch.phase = "sent" /\ ~MayRead
    /\ GiveUp
    /\ UNCHANGED <<follow, rights, pageVars, tasks, version, mine, mishaps>>

FetchAnswered ==
    /\ fetch.phase = "read"
    /\ entry' = [has |-> TRUE, version |-> fetch.version, invalid |-> FALSE,
                 late |-> fetch.late]
    /\ fetch' = Idle
    /\ UNCHANGED <<follow, rights, pageVars, tasks, version, mine, mishaps>>

FetchFails ==
    /\ fetch.phase \in {"sent", "read"} /\ mishaps < MaxMishaps
    /\ mishaps' = mishaps + 1
    /\ GiveUp
    /\ UNCHANGED <<follow, rights, pageVars, tasks, version, mine>>

-----------------------------------------------------------------------------
Navigate ==
    \/ \E n \in Relevant : Enter(n)
    \/ \E p \in Wanted(screen) : OpenPane(p)
    \/ \E p \in DOMAIN open : ClosePane(p)

Next ==
    \/ Navigate \/ Press
    \/ \E i \in DOMAIN tasks :
          \/ Refuse(i) \/ Reject(i) \/ CarryOut(i)
          \/ Succeed(i) \/ RefreshLater(i) \/ Fail(i)
    \/ OthersChange
    \/ Poll \/ Focus
    \/ FetchServed \/ FetchRefused \/ FetchAnswered \/ FetchFails

\* Intervals pass and fetches are answered; users need not do anything.
Fairness ==
    /\ WF_vars(Poll)
    /\ WF_vars(FetchServed)
    /\ WF_vars(FetchAnswered)

Spec == Init /\ [][Next]_vars /\ Fairness

-----------------------------------------------------------------------------
Tasks == [form : Nat, owner : Nat, state : TaskStates, made : Nat]

TypeOK ==
    /\ follow \in Pairs
    /\ rights \subseteq Permissions \cup {AdminRole, PlatformAdmin}
    /\ screen \in Names \cup {Elsewhere}
    /\ \A p \in DOMAIN open : open[p] \in 0 .. turn
    /\ tasks \in Seq(Tasks)
    /\ version \in Nat
    /\ mine \in 0 .. version
    /\ entry \in [has : BOOLEAN, version : Nat, invalid : BOOLEAN, late : BOOLEAN]
    /\ fetch \in [phase : {"idle", "sent", "read"}, version : Nat, late : BOOLEAN]
    /\ turn \in Nat
    /\ mishaps \in 0 .. MaxMishaps

-----------------------------------------------------------------------------
(* Properties                                                              *)

\* The exceptions that the catalogue lists, and those of the client.
Missing == <<write.call, follow.key>> \in Gaps \/ ~HasAnswer

\* What a catalogue has to be like: a write whose success is told refreshes
\* what it shows in, or the gap is listed.
RefreshedOrListed ==
    \A p \in Pairs :
        (/\ p.key # NoKey /\ ShowsIn(p.write.call, CallOf[p.key])
         /\ Routed(p.write.call) /\ RouteOf[p.write.call].body)
           => p.key \in p.write.refreshes \/ <<p.write.call, p.key>> \in Gaps

\* What a user has been told is done shows: an answer in the cache from
\* before it is marked to be fetched again, or a delayed refresh is due.
\* Excepted are the pairs that miss their refresh, the calls whose success
\* the client takes for an error, and the answer of a fetch that was under
\* way already and that the invalidation did not start anew.
OwnWritesShown ==
    \/ Missing
    \/ ~entry.has \/ entry.version >= mine
    \/ entry.invalid \/ entry.late
    \/ \E i \in DOMAIN tasks : tasks[i].state = "waiting"

\* A form is carried out once, however often its button is pressed, unless
\* the button ignores that it is pending, or the user is not told of the
\* success and the form stays.
OncePerForm ==
    \A i, j \in DOMAIN tasks :
        (/\ i < j /\ Does("closes") /\ Does("busy")
         /\ tasks[i].form = tasks[j].form
         /\ {tasks[i].state, tasks[j].state} \subseteq CarriedOut)
           => tasks[i].state \in {"lost", "unread"} /\ ~Does("settles")

\* A misfit that the catalogue lists.
Listed(p, r) ==
    \/ p.write.call \in Overreach
    \/ p.write.call \in CustomOverreach /\ r \notin TemplateRights(p)

\* The console shows a control that the API refuses to who sees it.
Misfit(p, r) ==
    /\ p.write # NoWrite
    /\ p.at \in Names => Holds(r, ScreenOf[p.at].gate)
    /\ "operate" \in p.write.how => Holds(r, CanOperate)
    /\ Routed(p.write.call) => ~Holds(r, RouteOf[p.write.call].needs)

\* Whatever was granted to a user: the writes of a screen whose entry and
\* whose controls are shown are allowed, or listed.
OfferedOrListed == \A p \in Pairs : \A r \in Rights(p) : Misfit(p, r) => Listed(p, r)

\* Who is offered a control may use it, but for the known exceptions: with a
\* role template fewer of them, with permissions put together for a custom
\* role or a grant more.
OfferedIsAllowed ==
    \A i \in DOMAIN tasks : tasks[i].state = "refused" => Listed(follow, rights)

Views == INSTANCE Invalidation WITH rev <- version, known <- entry.version

\* Fetches late, repeated, failed or given up implement the same promise as
\* the transport between the services: what the screens show was once so on
\* the server, and no screen goes back to something older.
ImplementsInvalidation == Views!Spec

\* A polled view that lags behind the server catches up while it is open.
Lagging ==
    /\ \E r \in Windows(screen) : r.on \in DOMAIN open /\ r.renews = "polls"
    /\ MayRead
    /\ entry.has /\ entry.version < version

PolledViewsHeal == Lagging ~> ~Lagging
=============================================================================
