------------------------------ MODULE Screens ------------------------------
(***************************************************************************)
(* What the screens of the web console are made of, as the modules that    *)
(* list them describe it:                                                  *)
(*                                                                         *)
(*   pane    a part of a screen that comes and goes: a dialog, a tab, a    *)
(*           detail view, a form being filled in.  It lies inside another  *)
(*           pane or directly on the page.                                 *)
(*   read    a query, the key its answer is cached under, and the pane     *)
(*           that must be open for it to be watched.                       *)
(*   write   a mutation, the pane with the control that starts it, the     *)
(*           keys its success invalidates, and how the control behaves.    *)
(*                                                                         *)
(* Two reads with one key share one cached answer, on whatever screen they *)
(* are.  The row of a list that a write is about, and the identifiers in a *)
(* key, are left out: one of them stands for all.                          *)
(***************************************************************************)
EXTENDS Routes

Page == "page"  \* the pane that is open as long as the screen is

Pane(name, inside) == [name |-> name, inside |-> inside, after |-> {}]

\* A pane whose way out invalidates some keys.
PaneBefore(name, inside, after) == [name |-> name, inside |-> inside, after |-> after]

Read(key, call, on, renews) ==
    [key |-> key, call |-> call, on |-> on, renews |-> renews]

\* A query that is repeated while it is watched (refetchInterval).
Polled(key, call, on) == Read(key, call, on, "polls")

\* A query whose answer is out of date after a while (staleTime), which
\* matters when it is watched anew or the window gets the focus.
Fetched(key, call, on) == Read(key, call, on, "ages")

\* A query whose answer never gets out of date by itself.
Kept(key, call, on) == Read(key, call, on, "never")

\* How the control of a write behaves:
\*   busy     it is disabled while its mutation is pending
\*   shared   the mutation is the surrounding component's: it outlives `on`
\*   closes   its success closes `on`, or empties it when `on` is a form
\*   settles  an error closes `on` too
\*   leaves   it closes `on` when it is pressed
\*   later    its success invalidates only after some seconds
\*   operate  it is only shown to those who may operate (useCanOperate)
Manners == {"busy", "shared", "closes", "settles", "leaves", "later", "operate"}

Write(call, on, refreshes, how) ==
    [call |-> call, on |-> on, refreshes |-> refreshes, how |-> how]

Part(panes, reads, writes) == [panes |-> panes, reads |-> reads, writes |-> writes]

\* The parts of a component that are shown only to those who may operate.
ForOperators(part) ==
    [part EXCEPT !.writes = {[w EXCEPT !.how = @ \cup {"operate"}] : w \in part.writes}]

\* A screen of the navigation, and the permission its entry is shown with.
Screen(name, gate, parts) ==
    [name   |-> name,
     gate   |-> gate,
     framed |-> TRUE,
     panes  |-> UNION {p.panes : p \in parts},
     reads  |-> UNION {p.reads : p \in parts},
     writes |-> UNION {p.writes : p \in parts}]

\* A screen outside the Shell, with nothing around it.
BareScreen(name, parts) == [Screen(name, Anyone, parts) EXCEPT !.framed = FALSE]
=============================================================================
