------------------------------- MODULE PaneMap -------------------------------
(***************************************************************************)
(* What the split workspace promises its user, without the tree: panes, and*)
(* what each of them shows. How the panes are arranged is forgotten, and   *)
(* that a session is never in two of them no handler looks at.             *)
(***************************************************************************)
CONSTANTS
  Pane,     \* names of panes
  Content,  \* sessions that may be shown
  Blank     \* what an empty pane shows

VARIABLES
  shows,    \* what each pane there is shows
  focus,    \* the pane in focus
  chosen,   \* the active session, or Blank
  listed    \* the sessions there are

Shown(f) == {f[p] : p \in DOMAIN f} \ {Blank}
Put(f, p, s) == [q \in DOMAIN f \cup {p} |-> IF q = p THEN s ELSE f[q]]
Exchange(f, p, q) == [f EXCEPT ![p] = f[q], ![q] = f[p]]
Only(f, S) == [q \in S |-> f[q]]

(* Some panes, what they show, and one of them in focus.                   *)
IsView(f, p) ==
  /\ DOMAIN f \subseteq Pane /\ f \in [DOMAIN f -> Content \cup {Blank}]
  /\ p \in DOMAIN f

Once(f) == \A p, q \in DOMAIN f : f[p] = f[q] /\ f[p] # Blank => p = q

-----------------------------------------------------------------------------
(* The panes are now f, p is in focus and next is chosen: one that was not *)
(* comes into focus where it is, or else in p.                             *)
Commit(f, p, next) ==
  /\ chosen' = next
  /\ \/ next \in {Blank, chosen} /\ focus' = p /\ shows' = f
     \/ /\ next \notin {Blank, chosen} /\ focus' = p /\ next \notin Shown(f)
        /\ shows' = Put(f, p, next)
     \/ /\ next \notin {Blank, chosen} /\ shows' = f
        /\ \E q \in DOMAIN f : f[q] = next /\ focus' = q

Look(p, next) ==
  /\ p = focus \/ next \in {shows[p], chosen}
  /\ Commit(shows, p, next)

(* A session not shown yet, in a new pane or instead of what was there.    *)
Place(p, s) ==
  s \notin Shown(shows) /\ Commit(Put(shows, p, s), p, s)

Divide(p) ==
  p \notin DOMAIN shows /\ Commit(Put(shows, p, Blank), p, chosen)

Swap(p, q) ==
  \/ Commit(Exchange(shows, p, q), focus, chosen)
  \/ Commit(Exchange(shows, p, q), q, shows[p])

(* The last pane makes room for an empty one.                              *)
Close(p) ==
  LET rest == DOMAIN shows \ {p}
  IN  IF rest = {} THEN \E q \in Pane : Commit(Put(Only(shows, {}), q, Blank), q, Blank)
      ELSE \E q \in rest : /\ focus \in rest => q = focus
                           /\ Commit(Only(shows, rest), q, shows[q])

(* Panes of sessions that are gone are closed; if all are, one is emptied. *)
Sweep(live, p) ==
  LET rest == {q \in DOMAIN shows : shows[q] \in live \cup {Blank}}
  IN  IF rest = {} THEN Put(Only(shows, {}), p, Blank) ELSE Only(shows, rest)

List(live, next) ==
  /\ listed' = live
  /\ \E p, q \in DOMAIN shows :
       LET f == Sweep(live, p)
       IN  /\ q \in DOMAIN f /\ (focus \in DOMAIN f => q = focus)
           /\ Commit(f, q, next)

(* What another browser arranged.                                          *)
Accept == IsView(shows', focus') /\ Once(shows') /\ UNCHANGED <<chosen, listed>>

-----------------------------------------------------------------------------
ViewInit ==
  \E p \in Pane : /\ shows = [q \in {p} |-> Blank] /\ focus = p
                  /\ chosen = Blank /\ listed = {}

Arrange ==
  \/ /\ UNCHANGED listed
     /\ \/ \E s \in Content : Look(focus, s)
        \/ /\ chosen \in listed
           /\ \/ \E p \in DOMAIN shows : Look(p, chosen) \/ Look(p, shows[p]) \/ Close(p)
              \/ \E p, q \in DOMAIN shows : Swap(p, q)
              \/ \E p \in Pane : Divide(p) \/ \E s \in listed : Place(p, s)
  \/ \E live \in SUBSET Content : \E next \in live \cup {chosen, Blank} : List(live, next)

ViewNext == Arrange \/ Accept

views == <<shows, focus, chosen, listed>>
ViewSpec == ViewInit /\ [][ViewNext]_views

(* A session is in at most one pane: two attachments would fight over the  *)
(* size of its terminal (App.tsx, onDropSession).                          *)
EachOnce == Once(shows)
=============================================================================
