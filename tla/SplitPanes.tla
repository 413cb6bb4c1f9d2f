----------------------------- MODULE SplitPanes -----------------------------
(***************************************************************************)
(* The split panes of one browser: the tree of packages/web/src/split/     *)
(* layout.ts and what App.tsx does with it. A leaf is a pane, empty or with*)
(* a session; a split holds two trees, in the order they are read. Which   *)
(* way it divides the screen, and where, decides nothing here.             *)
(*                                                                         *)
(* Every handler runs, is rendered, and has its effects before the next    *)
(* one. Sessions come and go elsewhere, and a layout may arrive that was   *)
(* made in another browser. The code renders what arrives in a later task, *)
(* so that here clicks in that window are left out (see SharedLayout for   *)
(* them); so is a session that ends while it is being dragged.             *)
(***************************************************************************)
EXTENDS Naturals, Sequences, FiniteSets, SequencesExt

CONSTANTS
  Session, Nothing,
  MaxPanes     \* bound on the panes of a layout

VARIABLES
  layout,      \* the tree, and the leaf in focus
  active,      \* the active session
  sessions     \* those the browser lists

panesVars == <<layout, active, sessions>>

-----------------------------------------------------------------------------
(* The trees of up to MaxPanes leaves are among those of that depth.       *)
PaneId == 1 .. MaxPanes + 3
LeafNode == [id : PaneId, session : Session \cup {Nothing}]

Leaf(id, s) == [id |-> id, session |-> s]
Branch(a, b) == [a |-> a, b |-> b]
IsLeaf(t) == "id" \in DOMAIN t

Trees[depth \in 0 .. MaxPanes] ==
  IF depth = 0 THEN LeafNode
  ELSE Trees[depth - 1] \cup [a : Trees[depth - 1], b : Trees[depth - 1]]

Tree == Trees[MaxPanes]

(* A layout of another browser has up to two panes.                        *)
ASSUME PanesAssumption ==
  MaxPanes \in Nat \ {0, 1} /\ Nothing \notin Session \cup Tree

Leaves[t \in Tree] == IF IsLeaf(t) THEN <<t>> ELSE Leaves[t.a] \o Leaves[t.b]

Panes(t) == ToSet(Leaves[t])
Ids(t) == {leaf.id : leaf \in Panes(t)}
Visible(t) == {leaf.session : leaf \in Panes(t)} \ {Nothing}

FindLeaf(t, id) == CHOOSE leaf \in Panes(t) : leaf.id = id

(* findLeafBySession: the first one                                        *)
FindBySession(t, s) ==
  Leaves[t][SelectInSeq(Leaves[t], LAMBDA leaf : leaf.session = s)].id

(* splitLeaf, with the new leaf on the left or above, or after it          *)
SplitLeaf(t, id, first, new) ==
  LET split[u \in Tree] ==
        IF ~IsLeaf(u) THEN Branch(split[u.a], split[u.b])
        ELSE IF u.id # id THEN u
        ELSE IF first THEN Branch(new, u) ELSE Branch(u, new)
  IN  split[t]

(* removeLeaf: its sibling takes the place of the split; Nothing if it was *)
(* the only one.                                                           *)
RemoveLeaf(t, id) ==
  LET rest[u \in Tree] ==
        IF ~IsLeaf(u)
        THEN CASE rest[u.a] = Nothing -> u.b
               [] rest[u.a] # Nothing /\ rest[u.b] = Nothing -> rest[u.a]
               [] OTHER -> Branch(rest[u.a], rest[u.b])
        ELSE IF u.id = id THEN Nothing ELSE u
  IN  rest[t]

SetSession(t, id, s) ==
  LET set[u \in Tree] ==
        IF ~IsLeaf(u) THEN Branch(set[u.a], set[u.b])
        ELSE IF u.id = id THEN Leaf(id, s) ELSE u
  IN  set[t]

MoveLeafMutant(t, src, id, first) ==   \* put in place before it is taken out
  IF src = id \/ {src, id} \notin SUBSET Ids(t) THEN t
  ELSE RemoveLeaf(SplitLeaf(t, id, first, FindLeaf(t, src)), src)

MoveLeaf(t, src, id, first) ==
  IF src = id \/ {src, id} \notin SUBSET Ids(t) THEN t
  ELSE SplitLeaf(RemoveLeaf(t, src), id, first, FindLeaf(t, src))

SwapSessions(t, a, b) ==
  IF a = b THEN t
  ELSE SetSession(SetSession(t, a, FindLeaf(t, b).session), b, FindLeaf(t, a).session)

(* normalize: panes of sessions that are gone collapse, the last one is    *)
(* emptied, and so is every pane but the first of a session.               *)
Swept(sweep, leaf, live) ==
  CASE leaf.session = Nothing -> sweep
    [] leaf.session # Nothing /\ leaf.session \notin live ->
         LET removed == RemoveLeaf(sweep.tree, leaf.id)
         IN  [sweep EXCEPT !.tree = IF removed = Nothing THEN SetSession(@, leaf.id, Nothing)
                                    ELSE removed]
    [] leaf.session \in live /\ leaf.session \in sweep.seen ->
         [sweep EXCEPT !.tree = SetSession(@, leaf.id, Nothing)]
    [] OTHER -> [sweep EXCEPT !.seen = @ \cup {leaf.session}]

Normalize(t, live) ==
  LET sweep[i \in 0 .. Len(Leaves[t])] ==
        IF i = 0 THEN [tree |-> t, seen |-> {}]
        ELSE Swept(sweep[i - 1], Leaves[t][i], live)
  IN  sweep[Len(Leaves[t])].tree

-----------------------------------------------------------------------------
(* The two effects that follow an event: the tree is kept to the sessions  *)
(* that are listed, when the list is new, and shows the active session,    *)
(* when it is another.                                                     *)
Layouts(t, focus) == [tree |-> t, focus |-> focus]

Reconciled(l, live) ==
  LET t == Normalize(l.tree, live)
  IN  Layouts(t, IF l.focus \in Ids(t) THEN l.focus ELSE Leaves[t][1].id)

Mirrored(l, s) ==
  IF s \in Visible(l.tree) THEN Layouts(l.tree, FindBySession(l.tree, s))
  ELSE Layouts(SetSession(l.tree, l.focus, s), l.focus)

Shows(l, next) == IF next \in {Nothing, active} THEN l ELSE Mirrored(l, next)

Renders(l, next) ==
  /\ layout' = Shows(l, next) /\ active' = next /\ UNCHANGED sessions

Lists(live, next) ==
  /\ layout' = Shows(Reconciled(layout, live), next) /\ active' = next /\ sessions' = live

-----------------------------------------------------------------------------
(* What the user does with the panes, which are there while the active     *)
(* session is listed.                                                      *)
tree == layout.tree
NewId(t) == CHOOSE n \in 1 .. MaxPanes + 1 : n \notin Ids(t)
Fits == Len(Leaves[tree]) < MaxPanes
SessionOf(l) == FindLeaf(l.tree, l.focus).session
Or(s, default) == IF s = Nothing THEN default ELSE s

FocusPane(id) ==
  /\ Renders(Layouts(tree, id), Or(FindLeaf(tree, id).session, active))

SplitPane(id, first) ==
  /\ Fits /\ LET new == Leaf(NewId(tree), Nothing)
             IN  Renders(Layouts(SplitLeaf(tree, id, first, new), new.id), active)

ClosePane(id) ==
  LET rest == RemoveLeaf(tree, id)
      solo == Leaf(NewId(tree), Nothing)
      l    == Layouts(rest, IF layout.focus \in Ids(rest) THEN layout.focus ELSE Leaves[rest][1].id)
  IN  /\ IF rest = Nothing THEN Renders(Layouts(solo, solo.id), Nothing) ELSE Renders(l, SessionOf(l))

(* An empty pane, or one whose session is not listed, offers the others.   *)
PickSession(id, s) ==
  /\ FindLeaf(tree, id).session \notin sessions /\ s \in sessions \ Visible(tree)
  /\ Renders(Layouts(SetSession(tree, id, s), id), s)

(* A session dropped on the centre of a pane is shown there. One that is   *)
(* shown elsewhere changes places.                                         *)
DropOnCentreMutant(id, s) == Layouts(SetSession(tree, id, s), id)

DropOnCentre(id, s) ==
  IF s \notin Visible(tree) THEN Layouts(SetSession(tree, id, s), id)
  ELSE LET old == FindBySession(tree, s)
       IN  IF old = id THEN layout ELSE Layouts(SwapSessions(tree, old, id), id)

DropOnEdge(id, first, s) ==
  IF s \notin Visible(tree)
  THEN LET new == Leaf(NewId(tree), s) IN Layouts(SplitLeaf(tree, id, first, new), new.id)
  ELSE LET old == FindBySession(tree, s) IN Layouts(MoveLeaf(tree, old, id, first), old)

DropSession(id, s) ==
  /\ s \in sessions
  /\ \/ Renders(DropOnCentre(id, s), s)
     \/ /\ Fits \/ s \in Visible(tree)
        /\ \E first \in BOOLEAN : Renders(DropOnEdge(id, first, s), s)

DropPane(id, src) ==
  /\ src # id
  /\ \/ Renders(Layouts(SwapSessions(tree, src, id), layout.focus), active)
     \/ \E first \in BOOLEAN : Renders(Layouts(MoveLeaf(tree, src, id, first), src), active)

-----------------------------------------------------------------------------
(* What happens elsewhere.                                                 *)

(* The rail, an alert, or a client of the API that asks for the focus.     *)
Activate(s) == Renders(layout, s)

(* From the wizard, or closed by mistake.                                  *)
AddSession(s) ==
  s \notin sessions /\ Lists(sessions \cup {s}, s)

(* closeSession: if it was the active one, another takes its place.        *)
CloseSession(s) ==
  /\ s \in sessions
  /\ LET rest == sessions \ {s}
     IN  \E next \in (IF s # active THEN {active} ELSE IF rest = {} THEN {Nothing} ELSE rest) :
           Lists(rest, next)

Poll(live) == Lists(live, active)

(* Layouts of another browser.                                             *)
Remote ==
  LET one(s)    == Leaf(MaxPanes + 2, s)
      two(s, u) == Branch(one(s), Leaf(MaxPanes + 3, u))
      any       == Session \cup {Nothing}
  IN  {Layouts(one(s), MaxPanes + 2) : s \in any}
      \cup {Layouts(two(p[1], p[2]), MaxPanes + 3) :
              p \in {q \in any \X any : q[1] # q[2] \/ q[1] = Nothing}}

AcceptShared == \E l \in Remote : Renders(l, active)

-----------------------------------------------------------------------------
PanesInit ==
  /\ layout = Layouts(Leaf(1, Nothing), 1) /\ active = Nothing /\ sessions = {}

PanesNext ==
  \/ /\ active \in sessions
     /\ \E id \in Ids(tree) :
          \/ FocusPane(id) \/ ClosePane(id)
          \/ \E first \in BOOLEAN : SplitPane(id, first)
          \/ \E s \in sessions : PickSession(id, s) \/ DropSession(id, s)
          \/ \E src \in Ids(tree) : DropPane(id, src)
  \/ \E s \in Session : Activate(s) \/ AddSession(s) \/ CloseSession(s)
  \/ \E live \in SUBSET Session : Poll(live)
  \/ AcceptShared

PanesSpec == PanesInit /\ [][PanesNext]_panesVars

-----------------------------------------------------------------------------
PanesSymmetry == Permutations(Session)

(* Panes can be told apart.                                                *)
Distinct(t) ==
  \A i, j \in DOMAIN Leaves[t] : Leaves[t][i].id = Leaves[t][j].id => i = j

PanesTypeOK ==
  /\ tree \in Tree /\ Distinct(tree) /\ layout.focus \in Ids(tree)
  /\ active \in Session \cup {Nothing} /\ sessions \subseteq Session

(* Properties.                                                             *)

(* In every tree that comes up: a pane that is moved lands next to its     *)
(* target, and no other pane is lost, repeated or changes its place.       *)
ReadBefore(t, x, y) ==
  \E i, j \in DOMAIN Leaves[t] : i < j /\ Leaves[t][i].id = x /\ Leaves[t][j].id = y

MovesLand ==
  \A src, id \in Ids(tree), first \in BOOLEAN : src # id =>
    LET moved  == MoveLeaf(tree, src, id, first)
        others == Ids(tree) \ {src}
    IN  /\ Panes(moved) = Panes(tree) /\ Distinct(moved)
        /\ \A x, y \in others : ReadBefore(moved, x, y) <=> ReadBefore(tree, x, y)
        /\ \A x \in others \ {id} : ReadBefore(moved, x, src) <=> ReadBefore(tree, x, id)
        /\ ReadBefore(moved, src, id) <=> first

(* When sessions go, the panes of the others stay and keep their order; an *)
(* empty pane is left only where there was one, or where nothing else is.  *)
SweepKeepsOthers ==
  \A live \in SUBSET Session :
    LET keeps == {leaf \in Panes(tree) : leaf.session \in live \cup {Nothing}}
        ids   == {leaf.id : leaf \in keeps}
        swept == Normalize(tree, live)
    IN  IF keeps # {}
        THEN /\ Panes(swept) = keeps /\ Distinct(swept)
             /\ \A x, y \in ids : ReadBefore(swept, x, y) <=> ReadBefore(tree, x, y)
        ELSE \E id \in Ids(tree) : swept = Leaf(id, Nothing)

(* Rearranging panes never loses, repeats or reorders another.             *)
OthersStay == MovesLand /\ SweepKeepsOthers

(* What the tree shows, as a map.                                          *)
ShownIn(t) ==
  LET panes == Panes(t)
  IN  [id \in {leaf.id : leaf \in panes} |-> (CHOOSE leaf \in panes : leaf.id = id).session]

Views == INSTANCE PaneMap WITH
  Pane <- PaneId, Content <- Session, Blank <- Nothing,
  shows <- ShownIn(tree), focus <- layout.focus, chosen <- active, listed <- sessions

(* Whatever is dragged, picked, selected or swept, the panes show what they*)
(* would if there were only a map from panes to sessions, which PaneMap    *)
(* says, and no session is in two of them. Only what another browser       *)
(* arranged may be anything else that shows each session once.             *)
MapsPanes == Views!ViewInit /\ [][Views!Arrange \/ (AcceptShared /\ Views!Accept)]_panesVars
=============================================================================
