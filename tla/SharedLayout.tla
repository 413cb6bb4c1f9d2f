---------------------------- MODULE SharedLayout ----------------------------
(***************************************************************************)
(* The desktop layout that all browsers of a host share. The server keeps  *)
(* one document and its revision, and takes a new one only from who names  *)
(* the current revision (command-center-store.ts, putLayout). A browser    *)
(* (packages/web/src/App.tsx) asks for it once it is ready, saves its edits*)
(* 350 ms after the last one, and asks again when the event stream         *)
(* announces a new revision.                                               *)
(*                                                                         *)
(* What a browser keeps is a record, and its effects and callbacks are     *)
(* operators on it. The panes of a layout are the subject of SplitPanes;   *)
(* here a document is the set of edits it was made with, so that one that  *)
(* lacks an edit was made without it in view. React renders an update in a *)
(* later task than the one that made it, together with what came since:    *)
(* meanwhile timers fire, and the user and answers may come.               *)
(***************************************************************************)
EXTENDS Naturals, Sequences, FiniteSets, TLC

CONSTANTS
  Browser, None,
  Faults,       \* what may go wrong, one of them, once
  MaxEdits      \* bound on edits and faults together

ASSUME BoundsAssumption ==
  MaxEdits \in Nat /\ Faults \subseteq {"fail", "leave", "drop"}

VARIABLES
  saved,      \* the document of each revision; the last one is the server's
  careless,   \* history: the revisions of blind saves, see Calls
  tab,        \* what each browser keeps
  heard,      \* the last revision its stream has announced or skipped, if it has one
  told,       \* who was announced the last one
  edits,
  faults      \* the kinds of faults there were

stream == <<heard, told>>
bounds == <<edits, faults>>
vars == <<saved, careless, tab, stream, bounds>>

Revision == Len(saved)
Documents == SUBSET (Browser \cup 1 .. MaxEdits)

Calls == [kind : {"hydrate", "seed", "save", "pull"},
          doc    : Documents,   \* what a seed or a save brings
          base   : Nat,         \* and its expectedRevision
          live   : BOOLEAN,     \* somebody waits for the answer
          blind  : BOOLEAN,     \* history: of a layout older than base, or crossed
          answer : {None} \cup [stored : BOOLEAN, rev : Nat]]

Tabs == [ready    : BOOLEAN,
         layout   : Documents,  \* as rendered
         next     : Documents,  \* with the updates that wait
         queued   : {"nothing", "edit", "layout"},  \* what waits; history: an arrival
         crossed  : BOOLEAN,    \* history, see Meanwhile
         rev      : Nat,        \* layoutRevisionRef
         hydrated : BOOLEAN,    \* layoutHydratedRef
         applying : BOOLEAN,    \* applyingRemoteLayoutRef
         timer    : BOOLEAN,    \* a save of the rendered layout is due
         calls    : SUBSET Calls]

TypeOK ==
  /\ saved \in Seq(Documents) /\ careless \subseteq 1 .. Revision
  /\ tab \in [Browser -> Tabs]
  /\ heard \in [Browser -> Nat \cup {None}]
  /\ told \subseteq Browser
  /\ edits \in 0 .. MaxEdits /\ faults \subseteq Faults

(* A browser starts with the layout its local storage has.                 *)
Init ==
  /\ saved = << >> /\ careless = {}
  /\ tab = [b \in Browser |->
              [ready |-> FALSE, layout |-> {b}, next |-> {b}, queued |-> "nothing",
               crossed |-> FALSE, rev |-> 0, hydrated |-> FALSE, applying |-> FALSE,
               timer |-> FALSE, calls |-> {}]]
  /\ heard = [b \in Browser |-> None]
  /\ told = {}
  /\ edits = 0 /\ faults = {}

-----------------------------------------------------------------------------
(* The effects of a browser.                                               *)
Call(t, kind, doc, base) ==
  [t EXCEPT !.calls = @ \cup {[kind |-> kind, doc |-> doc, base |-> base, live |-> TRUE,
                               blind |-> kind = "save" /\ (t.crossed \/ t.queued = "layout"),
                               answer |-> None]}]

(* Their clean-up: the timer is cleared and answers are no longer wanted,  *)
(* but a save that is under way may still arrive. A pull is nobody's to    *)
(* cancel.                                                                 *)
Cancelled(t) ==
  [t EXCEPT !.timer = FALSE,
            !.calls = {c \in @ : c.kind = "pull"}
                      \cup {[c EXCEPT !.live = FALSE] :
                              c \in {d \in @ : d.kind \in {"seed", "save"} /\ d.answer = None}}]

(* Run when the layout was rendered anew, or the phase has changed.        *)
Hydrates(t) == IF t.ready /\ ~t.hydrated THEN Call(t, "hydrate", {}, 0)
               ELSE IF ~t.ready THEN [t EXCEPT !.hydrated = FALSE, !.rev = 0] ELSE t

SavesMutant(t) ==   \* the flag outlives the layout it was set for
  IF ~t.ready \/ ~t.hydrated THEN t
  ELSE IF t.applying THEN t ELSE [t EXCEPT !.timer = TRUE]

Saves(t) ==
  IF ~t.ready \/ ~t.hydrated THEN t
  ELSE IF t.applying THEN [t EXCEPT !.applying = FALSE] ELSE [t EXCEPT !.timer = TRUE]

Effects(t) == Saves(Hydrates(Cancelled(t)))

Rendered(t) == Effects([t EXCEPT !.layout = t.next, !.queued = "nothing"])

(* acceptSharedLayout                                                      *)
Accepted(t, n) ==
  [t EXCEPT !.rev = n, !.applying = TRUE, !.next = saved[n], !.queued = "layout", !.crossed = FALSE]

(* setLayout, in the handlers of the user                                  *)
Edited(t, doc) == [t EXCEPT !.next = doc, !.queued = IF @ = "layout" THEN @ ELSE "edit"]

(* What is done with the answer to c, in pullSharedLayout and in the two   *)
(* effects. Nobody has saved a layout: this browser's becomes the first.   *)
NewerMutant(n, rev) == n > rev + 1

Newer(n, rev) == n > rev

Done(t, c) ==
  LET n == c.answer.rev
  IN  CASE c.kind = "pull"    -> IF Newer(n, t.rev) THEN Accepted(t, n) ELSE t
        [] c.kind = "hydrate" -> IF n > 0 THEN Accepted([t EXCEPT !.hydrated = TRUE], n)
                                 ELSE Call([t EXCEPT !.rev = 0], "seed", t.layout, 0)
        [] c.kind = "seed"    -> IF c.answer.stored THEN [t EXCEPT !.rev = n, !.hydrated = TRUE]
                                 ELSE t
        [] c.kind = "save"    -> IF c.answer.stored THEN [t EXCEPT !.rev = n, !.crossed = FALSE]
                                 ELSE Accepted(t, n)

-----------------------------------------------------------------------------
(* The server. putLayout takes a document made from the current revision.  *)
FreshMutant(base) == base <= Revision   \* a newer one is not noticed

Fresh(base) == base = Revision

Serve(b, c) ==
  /\ c \in tab[b].calls /\ c.answer = None
  /\ LET put    == c.kind \in {"seed", "save"}
         stored == put /\ Fresh(c.base)
         rest   == tab[b].calls \ {c}
         answer == [stored |-> stored, rev |-> Len(saved')]
     IN  /\ saved' = IF stored THEN Append(saved, c.doc) ELSE saved
         /\ careless' = IF stored /\ c.blind THEN careless \cup {Revision'} ELSE careless
         /\ told' = IF stored THEN {} ELSE told
         /\ tab' = [tab EXCEPT ![b].calls = IF c.live THEN rest \cup {[c EXCEPT !.answer = answer]}
                                            ELSE rest]
  /\ UNCHANGED <<heard, bounds>>

-----------------------------------------------------------------------------
(* What happens to a browser.                                              *)
Within == edits + Cardinality(faults) < MaxEdits

Fault(kind) == kind \in Faults /\ faults = {} /\ Within /\ faults' = {kind}

(* History: something of the browser's own may come between a layout's     *)
(* arrival and its rendering. The next layout to arrive ends that, or the  *)
(* next it has saved; who was told must be told anew.                      *)
Meanwhile(b, t) ==
  LET between == tab[b].queued = "layout"
  IN  /\ tab' = [tab EXCEPT ![b] = IF between THEN [t EXCEPT !.crossed = TRUE] ELSE t]
      /\ told' = IF between THEN told \ {b} ELSE told

(* A request is over: it is answered, or it fails.                         *)
Without(t, c) == [t EXCEPT !.calls = @ \ {c}]

Answer(b, c) ==
  /\ c \in tab[b].calls /\ c.answer # None
  /\ LET t == Done(Without(tab[b], c), c)
     IN  IF c.kind = "pull" THEN tab' = [tab EXCEPT ![b] = t] /\ told' = told ELSE Meanwhile(b, t)
  /\ UNCHANGED <<saved, careless, heard, bounds>>

(* The call fails, or only its answer is lost; nothing is tried again.     *)
Fail(b, c) ==
  /\ c \in tab[b].calls /\ c.live /\ Fault("fail")
  /\ tab' = [tab EXCEPT ![b] = Without(@, c)]
  /\ UNCHANGED <<saved, careless, stream, edits>>

(* The user edits the layout on his screen. Closing a pane and dragging a  *)
(* divider start from what is rendered, the other edits from what is next. *)
Edit(b) ==
  /\ tab[b].ready /\ Within /\ edits' = edits + 1
  /\ \E seen \in {tab[b].layout, tab[b].next} :
       Meanwhile(b, Edited(tab[b], seen \cup {edits'}))
  /\ UNCHANGED <<saved, careless, heard, faults>>

Render(b) ==
  /\ tab[b].queued # "nothing" /\ tab' = [tab EXCEPT ![b] = Rendered(@)]
  /\ UNCHANGED <<saved, careless, stream, bounds>>

(* The layout is the one the effect saw, the revision the one of now.      *)
Due(b) ==
  /\ tab[b].timer
  /\ tab' = [tab EXCEPT ![b] = Call([@ EXCEPT !.timer = FALSE], "save", tab[b].layout, tab[b].rev)]
  /\ UNCHANGED <<saved, careless, stream, bounds>>

Enter(b) ==
  /\ ~tab[b].ready /\ tab' = [tab EXCEPT ![b] = Rendered([@ EXCEPT !.ready = TRUE])]
  /\ UNCHANGED <<saved, careless, stream, bounds>>

(* Signed out, or the credential has expired.                              *)
Leave(b) ==
  /\ tab[b].ready /\ Fault("leave")
  /\ tab' = [tab EXCEPT ![b] = Rendered([@ EXCEPT !.ready = FALSE])]
  /\ heard' = [heard EXCEPT ![b] = None] /\ told' = told \ {b}
  /\ UNCHANGED <<saved, careless, edits>>

-----------------------------------------------------------------------------
(* The event stream, as far as it announces layouts. A new subscription    *)
(* begins with a snapshot, whose layout the browser does not use. One that *)
(* was interrupted is continued where it broke, so that it is only late, or*)
(* with another snapshot if the events that follow are no longer kept.     *)
Connect(b) ==
  /\ tab[b].ready /\ heard[b] = None /\ heard' = [heard EXCEPT ![b] = Revision]
  /\ UNCHANGED <<saved, careless, tab, told, bounds>>

Hear(b) ==
  /\ heard[b] # None /\ heard[b] < Revision /\ heard' = [heard EXCEPT ![b] = @ + 1]
  /\ told' = IF heard'[b] = Revision THEN told \cup {b} ELSE told
  /\ tab' = [tab EXCEPT ![b] = Call(@, "pull", {}, 0)]
  /\ UNCHANGED <<saved, careless, bounds>>

Drop(b) ==
  /\ heard[b] # None /\ Fault("drop") /\ heard' = [heard EXCEPT ![b] = Revision]
  /\ UNCHANGED <<saved, careless, tab, told, edits>>

-----------------------------------------------------------------------------
Step(b) ==
  \/ Edit(b) \/ Render(b) \/ Due(b) \/ Enter(b) \/ Leave(b)
  \/ Connect(b) \/ Hear(b) \/ Drop(b)
  \/ \E c \in tab[b].calls : Serve(b, c) \/ Answer(b, c) \/ Fail(b, c)

Next == \E b \in Browser : Step(b)

Spec == Init /\ [][Next]_vars

-----------------------------------------------------------------------------
Symmetry == Permutations(Browser)

(* Properties.                                                             *)

(* A layout is never saved over one its author has not seen: each revision *)
(* was made from the one before, but for those saved by a timer that fired *)
(* before a layout that had arrived was rendered, or after something came  *)
(* between.                                                                *)
SavesBuildOnEachOther ==
  \A i \in 1 .. Revision - 1 : i + 1 \notin careless => saved[i] \subseteq saved[i + 1]

(* A browser never just keeps an edit to itself: it is saved, due or on    *)
(* its way, whatever was cancelled meanwhile, as long as no call failed and*)
(* nothing came between a layout's arrival and its rendering.              *)
EditsAreSaved ==
  \A b \in Browser :
    LET t == tab[b]
    IN  t.hydrated /\ t.queued = "nothing" /\ ~t.timer /\ ~t.crossed /\ "fail" \notin faults
          => \/ t.rev \in 1 .. Revision /\ t.layout = saved[t.rev]
             \/ \E c \in t.calls : c.kind = "save" /\ c.live /\ c.doc = t.layout

(* Browsers agree in the end: one that was told of the last layout, and for*)
(* which nothing is under way or due any more, shows it, unless a call     *)
(* failed, or something came between a layout's arrival and its rendering  *)
(* since it was told.                                                      *)
AtRest(t) == t.queued = "nothing" /\ ~t.timer /\ t.calls = {}

ToldMeansShown ==
  \A b \in told :
    AtRest(tab[b]) /\ ~tab[b].crossed /\ "fail" \notin faults => tab[b].layout = saved[Revision]
=============================================================================
