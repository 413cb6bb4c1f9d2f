--------------------------- MODULE Layout_proofs ---------------------------
(***************************************************************************)
(* For any browsers and any number of edits: no layout is saved over one   *)
(* that was not seen, no edit is forgotten and whoever was told of the last*)
(* layout shows it, but for what the properties except.                    *)
(*                                                                         *)
(* The argument is about one browser (TabOK) and the history of saved      *)
(* documents S, which only grows: it has one call under way that is not a  *)
(* pull, what that call carries is what is on the screen, and the document *)
(* of its revision is contained in what it shows. When something comes     *)
(* between a layout's arrival and its rendering (crossed), that is lost:   *)
(* what remains (Loose) is what the steps need that follow.                *)
(*                                                                         *)
(* And of one browser's panes, for any number of them: no session is in    *)
(* two (PaneMap), and the tree they are kept in (SplitPanes) implements    *)
(* that map and never loses, repeats or reorders a pane it does not touch. *)
(*                                                                         *)
(* Trees are known by induction over their depth. For each operator of the *)
(* tree it is proved once what is read of the tree it makes: its panes, and*)
(* which comes before which. Everything after that forgets the tree.       *)
(***************************************************************************)
EXTENDS SharedLayout, PaneMap, SplitPanes, FiniteSetTheorems, SequenceTheorems,
        WellFoundedInduction, TLAPS

Kinds == {"hydrate", "seed", "save"}
Live(t, kinds) == {c \in t.calls : c.live /\ c.kind \in kinds}

(* What holds of a browser even when it is about to be rendered: what it   *)
(* knows of the documents S, and what its calls carry. All it knows of the *)
(* layout is lost when something comes between its arrival and rendering.  *)
Known(t, S) ==
  /\ t.rev <= Len(S)
  /\ t.hydrated => t.rev > 0
  /\ t.applying => Len(S) > 0
  /\ t.queued = "edit" => t.layout \subseteq t.next
  /\ ~t.crossed /\ t.rev > 0 => S[t.rev] \subseteq t.next
  /\ ~t.crossed /\ t.rev > 0 /\ t.queued # "layout" => S[t.rev] \subseteq t.layout
  /\ ~t.crossed /\ t.queued = "layout" => t.rev > 0 /\ t.next = S[t.rev]

Carries(c, S) ==
  /\ ~c.live => c.answer = None
  /\ c.kind \in {"pull", "hydrate"} => c.live
  /\ c.kind = "pull" => Len(S) > 0
  /\ c.kind = "seed" => c.base = 0 /\ ~c.blind
  /\ c.kind = "save" => c.base \in 1 .. Len(S) /\ (~c.blind => S[c.base] \subseteq c.doc)
  /\ c.answer # None =>
       /\ c.answer.rev <= Len(S)
       /\ c.kind # "hydrate" => c.answer.rev > 0
       /\ c.kind \in {"seed", "save"} /\ c.answer.stored => S[c.answer.rev] = c.doc

(* Which of the timer and the calls there are, by what the browser is at.  *)
Settled(t) ==
  /\ t.queued = "nothing" => t.next = t.layout
  /\ t.hydrated => t.ready
  /\ t.timer => t.hydrated /\ Live(t, Kinds) = {}
  /\ ~t.ready => Live(t, Kinds) = {}
  /\ t.hydrated => Live(t, {"hydrate", "seed"}) = {}
  /\ ~t.hydrated => Live(t, {"save"}) = {}
  /\ t.hydrated /\ t.queued # "layout" => ~t.applying
  /\ \A c, d \in Live(t, Kinds) : c = d

(* A call that somebody waits for was made by the browser as it is now.    *)
Timely(t, c) ==
  /\ c.live /\ c.kind \in {"seed", "save"} => c.doc = t.layout
  /\ c.answer # None /\ t.queued # "layout" =>
       /\ c.kind # "pull" => t.rev <= c.answer.rev
       /\ c.kind = "seed" /\ c.answer.stored => ~t.applying

(* As long as no call failed.                                              *)
Hydrating(t) ==
  t.ready /\ ~t.hydrated /\ t.queued = "nothing" /\ t.rev > 0 => Live(t, {"hydrate"}) # {}

EditKept(t, S) ==
  t.hydrated /\ t.queued = "nothing" /\ ~t.timer /\ ~t.crossed
    => \/ t.rev \in 1 .. Len(S) /\ t.layout = S[t.rev]
       \/ \E c \in t.calls : c.kind = "save" /\ c.live /\ c.doc = t.layout

Core(t, S) == t \in Tabs /\ Known(t, S) /\ \A c \in t.calls : Carries(c, S)

TabOK(t, S, F) ==
  /\ Core(t, S) /\ Settled(t)
  /\ \A c \in t.calls : Timely(t, c)
  /\ "fail" \notin F => Hydrating(t) /\ EditKept(t, S)

(* What a browser that was announced the last revision makes of it.        *)
Informed(t, S, F) ==
  /\ Len(S) > 0 /\ t.ready
  /\ "fail" \notin F =>
       \/ t.rev = Len(S)
       \/ \E c \in t.calls :
            c.kind = "pull" /\ (c.answer = None \/ c.answer.rev = Len(S))

BrowsersOK == \A b \in Browser : TabOK(tab[b], saved, faults)
StreamsOK == \A b \in Browser : heard[b] # None => tab[b].ready
ToldOK == \A b \in told : Informed(tab[b], saved, faults)

Types ==
  /\ saved \in Seq(Documents) /\ careless \subseteq 1 .. Revision
  /\ tab \in [Browser -> Tabs] /\ heard \in [Browser -> Nat \cup {None}]
  /\ told \subseteq Browser
  /\ edits \in Nat /\ edits <= MaxEdits
  /\ faults \subseteq Faults /\ IsFiniteSet(faults)

Inv == Types /\ SavesBuildOnEachOther /\ BrowsersOK /\ StreamsOK /\ ToldOK

-----------------------------------------------------------------------------
(* What the updates of a browser's record change, and what they leave.     *)
NewCall(kind, doc, base, blind) ==
  [kind |-> kind, doc |-> doc, base |-> base, live |-> TRUE, blind |-> blind, answer |-> None]

Blindly(t) == t.crossed \/ t.queued = "layout"

IsCalled(x, t, c) ==
  /\ x \in Tabs
  /\ x.ready = t.ready /\ x.layout = t.layout /\ x.next = t.next /\ x.queued = t.queued
  /\ x.crossed = t.crossed
  /\ x.rev = t.rev /\ x.hydrated = t.hydrated /\ x.applying = t.applying /\ x.timer = t.timer
  /\ x.calls = t.calls \cup {c}

IsEdited(x, t, doc) ==
  /\ x \in Tabs
  /\ x.ready = t.ready /\ x.layout = t.layout /\ x.next = doc /\ x.crossed = t.crossed
  /\ t.queued = "layout" => x.queued = "layout"
  /\ t.queued # "layout" => x.queued = "edit"
  /\ x.rev = t.rev /\ x.hydrated = t.hydrated /\ x.applying = t.applying /\ x.timer = t.timer
  /\ x.calls = t.calls

IsAccepted(x, t, n) ==
  /\ x \in Tabs
  /\ x.ready = t.ready /\ x.layout = t.layout /\ x.next = saved[n] /\ x.queued = "layout"
  /\ x.crossed = FALSE
  /\ x.rev = n /\ x.hydrated = t.hydrated /\ x.applying = TRUE /\ x.timer = t.timer
  /\ x.calls = t.calls

Abandoned(t) ==
  {[c EXCEPT !.live = FALSE] : c \in {d \in t.calls : d.kind \in {"seed", "save"} /\ d.answer = None}}

IsRendered(x, t) ==
  /\ x \in Tabs
  /\ x.ready = t.ready /\ x.layout = t.next /\ x.next = t.next /\ x.queued = "nothing"
  /\ x.crossed = t.crossed
  /\ x.rev = IF t.ready THEN t.rev ELSE 0
  /\ x.hydrated = (t.ready /\ t.hydrated)
  /\ x.applying = (t.applying /\ ~(t.ready /\ t.hydrated))
  /\ x.timer = (t.ready /\ t.hydrated /\ ~t.applying)
  /\ x.calls = {c \in t.calls : c.kind = "pull"} \cup Abandoned(t)
               \cup (IF t.ready /\ ~t.hydrated THEN {NewCall("hydrate", {}, 0, FALSE)} ELSE {})

LEMMA CallFields ==
  ASSUME NEW t \in Tabs, NEW kind \in {"hydrate", "seed", "save", "pull"},
         NEW doc \in Documents, NEW base \in Nat, NEW blind \in BOOLEAN,
         blind <=> (kind = "save" /\ Blindly(t))
  PROVE  IsCalled(Call(t, kind, doc, base), t, NewCall(kind, doc, base, blind))
<1>1. PICK c, x : c = NewCall(kind, doc, base, blind) /\ x = Call(t, kind, doc, base)
  OBVIOUS
<1>2. c \in Calls
  BY <1>1 DEF NewCall, Calls
<1>3. x = [t EXCEPT !.calls = t.calls \cup {c}]
  <2>1. blind = (kind = "save" /\ (t.crossed \/ t.queued = "layout"))
    BY DEF Blindly
  <2>2. QED
    BY <1>1, <2>1 DEF Call, NewCall
<1>4. x \in Tabs /\ x.calls = t.calls \cup {c}
  BY <1>2, <1>3 DEF Tabs
<1>5. IsCalled(x, t, c)
  BY <1>3, <1>4 DEF Tabs, IsCalled
<1>6. QED
  BY <1>1, <1>5

LEMMA EditedFields ==
  ASSUME NEW t \in Tabs, NEW doc \in Documents
  PROVE  IsEdited(Edited(t, doc), t, doc)
<1>1. PICK x, q : /\ x = Edited(t, doc)
                  /\ q = IF t.queued = "layout" THEN t.queued ELSE "edit"
  OBVIOUS
<1>2. q \in {"nothing", "edit", "layout"}
  BY <1>1
<1>3. x = [t EXCEPT !.next = doc, !.queued = q]
  BY <1>1 DEF Edited
<1>4. IsEdited(x, t, doc)
  BY <1>1, <1>2, <1>3 DEF Tabs, IsEdited
<1>5. QED
  BY <1>1, <1>4

LEMMA AcceptedFields ==
  ASSUME NEW t \in Tabs, saved \in Seq(Documents), NEW n \in 1 .. Revision
  PROVE  IsAccepted(Accepted(t, n), t, n)
<1>1. saved[n] \in Documents /\ n \in Nat
  BY DEF Revision
<1>2. PICK x, d, yes, no, q :
        /\ x = Accepted(t, n) /\ d = saved[n] /\ yes = TRUE /\ no = FALSE /\ q = "layout"
  OBVIOUS
<1>3. x = [t EXCEPT !.rev = n, !.applying = yes, !.next = d, !.queued = q, !.crossed = no]
  BY <1>2 DEF Accepted
<1>4. IsAccepted(x, t, n)
  BY <1>1, <1>2, <1>3 DEF Tabs, IsAccepted
<1>5. QED
  BY <1>2, <1>4

LEMMA CancelledFields ==
  ASSUME NEW t \in Tabs, NEW x, x = Cancelled(t)
  PROVE  /\ x \in Tabs
         /\ x.ready = t.ready /\ x.layout = t.layout /\ x.next = t.next
         /\ x.queued = t.queued /\ x.crossed = t.crossed
         /\ x.rev = t.rev /\ x.hydrated = t.hydrated /\ x.applying = t.applying
         /\ x.timer = FALSE
         /\ x.calls = {c \in t.calls : c.kind = "pull"} \cup Abandoned(t)
<1>1. \A c \in Calls : [c EXCEPT !.live = FALSE] \in Calls
  BY DEF Calls
<1>2. t.calls \subseteq Calls
  BY DEF Tabs
<1>3. {c \in t.calls : c.kind = "pull"} \cup Abandoned(t) \subseteq Calls
  BY <1>1, <1>2 DEF Abandoned
<1>4. x = [t EXCEPT !.timer = FALSE,
                    !.calls = {c \in t.calls : c.kind = "pull"} \cup Abandoned(t)]
  BY DEF Cancelled, Abandoned
<1>5. PICK s : s = {c \in t.calls : c.kind = "pull"} \cup Abandoned(t)
  OBVIOUS
<1>6. x = [t EXCEPT !.timer = FALSE, !.calls = s] /\ s \subseteq Calls
  BY <1>3, <1>4, <1>5
<1>7. x \in Tabs /\ x.calls = s
  BY <1>6 DEF Tabs
<1>8. QED
  BY <1>5, <1>6, <1>7 DEF Tabs

(* Rendering, all of it.                                                   *)
LEMMA RenderedFields ==
  ASSUME NEW t \in Tabs
  PROVE  IsRendered(Rendered(t), t)
<1>0. PICK x : x = Rendered(t)
  OBVIOUS
<1>1. PICK r : r = [t EXCEPT !.layout = t.next, !.queued = "nothing"]
  OBVIOUS
<1>2. /\ r \in Tabs /\ r.layout = t.next /\ r.queued = "nothing" /\ r.crossed = t.crossed
      /\ r.ready = t.ready /\ r.next = t.next /\ r.rev = t.rev /\ r.hydrated = t.hydrated
      /\ r.applying = t.applying /\ r.timer = t.timer /\ r.calls = t.calls
  BY <1>1 DEF Tabs
<1>3. PICK c : c = Cancelled(r)
  OBVIOUS
<1>4. /\ c \in Tabs /\ c.timer = FALSE
      /\ c.ready = t.ready /\ c.layout = t.next /\ c.next = t.next /\ c.queued = "nothing"
      /\ c.crossed = t.crossed
      /\ c.rev = t.rev /\ c.hydrated = t.hydrated /\ c.applying = t.applying
      /\ c.calls = {d \in t.calls : d.kind = "pull"} \cup Abandoned(t)
  <2>1. Abandoned(r) = Abandoned(t)
    BY <1>2 DEF Abandoned
  <2>2. /\ c \in Tabs /\ c.timer = FALSE /\ c.ready = r.ready /\ c.layout = r.layout
        /\ c.next = r.next /\ c.queued = r.queued /\ c.crossed = r.crossed /\ c.rev = r.rev
        /\ c.hydrated = r.hydrated /\ c.applying = r.applying
        /\ c.calls = {d \in r.calls : d.kind = "pull"} \cup Abandoned(r)
    BY <1>2, <1>3, CancelledFields
  <2>3. QED
    BY <1>2, <2>1, <2>2
<1>5. x = Saves(Hydrates(c))
  BY <1>0, <1>1, <1>3 DEF Rendered, Effects
<1>6. t.ready \in BOOLEAN /\ t.hydrated \in BOOLEAN /\ t.applying \in BOOLEAN
  BY DEF Tabs
<1>7. CASE t.ready /\ ~t.hydrated
  <2>1. PICK h : h = Call(c, "hydrate", {}, 0)
    OBVIOUS
  <2>2. h = Hydrates(c)
    BY <1>4, <1>7, <2>1 DEF Hydrates
  <2>3. /\ {} \in Documents /\ 0 \in Nat /\ "hydrate" \in {"hydrate", "seed", "save", "pull"}
        /\ FALSE \in BOOLEAN /\ (FALSE <=> ("hydrate" = "save" /\ Blindly(c)))
    BY DEF Documents
  <2>4. IsCalled(h, c, NewCall("hydrate", {}, 0, FALSE))
    BY <1>4, <2>1, <2>3, CallFields
  <2>5. x = h
    BY <1>4, <1>5, <1>7, <2>2, <2>4 DEF Saves, IsCalled
  <2>6. IsRendered(x, t)
    BY <1>4, <1>6, <1>7, <2>4, <2>5 DEF IsCalled, IsRendered
  <2>7. QED
    BY <1>0, <2>6
<1>8. CASE ~t.ready
  <2>1. PICK n \in Nat : n = 0
    OBVIOUS
  <2>2. PICK h : h = [c EXCEPT !.hydrated = FALSE, !.rev = n]
    OBVIOUS
  <2>3. h = Hydrates(c)
    BY <1>4, <1>8, <2>1, <2>2 DEF Hydrates
  <2>4. /\ h \in Tabs /\ h.hydrated = FALSE /\ h.rev = n
        /\ h.ready = c.ready /\ h.layout = c.layout /\ h.next = c.next
        /\ h.queued = c.queued /\ h.crossed = c.crossed
        /\ h.applying = c.applying /\ h.timer = c.timer /\ h.calls = c.calls
    <3>1. c \in Tabs
      BY <1>4
    <3>2. QED
      BY <2>1, <2>2, <3>1 DEF Tabs
  <2>5. x = h
    BY <1>4, <1>5, <1>8, <2>3, <2>4 DEF Saves
  <2>6. IsRendered(x, t)
    BY <1>4, <1>6, <1>8, <2>1, <2>4, <2>5 DEF IsRendered
  <2>7. QED
    BY <1>0, <2>6
<1>9. CASE t.ready /\ t.hydrated
  <2>1. x = IF t.applying THEN [c EXCEPT !.applying = FALSE] ELSE [c EXCEPT !.timer = TRUE]
    <3>1. Hydrates(c) = c
      BY <1>4, <1>9 DEF Hydrates
    <3>2. QED
      BY <1>4, <1>5, <1>9, <3>1 DEF Saves
  <2>2. CASE t.applying
    <3>1. /\ x \in Tabs /\ x.applying = FALSE
          /\ x.ready = c.ready /\ x.layout = c.layout /\ x.next = c.next
          /\ x.queued = c.queued /\ x.crossed = c.crossed
          /\ x.rev = c.rev /\ x.hydrated = c.hydrated /\ x.timer = c.timer /\ x.calls = c.calls
      BY <1>4, <2>1, <2>2 DEF Tabs
    <3>2. IsRendered(x, t)
      BY <1>4, <1>6, <1>9, <2>2, <3>1 DEF IsRendered
    <3>3. QED
      BY <1>0, <3>2
  <2>3. CASE ~t.applying
    <3>1. /\ x \in Tabs /\ x.timer = TRUE
          /\ x.ready = c.ready /\ x.layout = c.layout /\ x.next = c.next
          /\ x.queued = c.queued /\ x.crossed = c.crossed
          /\ x.rev = c.rev /\ x.hydrated = c.hydrated /\ x.applying = c.applying
          /\ x.calls = c.calls
      BY <1>4, <2>1, <2>3 DEF Tabs
    <3>2. IsRendered(x, t)
      BY <1>4, <1>6, <1>9, <2>3, <3>1 DEF IsRendered
    <3>3. QED
      BY <1>0, <3>2
  <2>4. QED
    BY <2>2, <2>3
<1>10. QED
  BY <1>6, <1>7, <1>8, <1>9

-----------------------------------------------------------------------------
(* The history of documents only grows, and faults are not taken back.     *)
Extends(T, S) == Len(T) >= Len(S) /\ \A i \in 1 .. Len(S) : T[i] = S[i]

LEMMA AppendExtends ==
  ASSUME NEW S \in Seq(Documents), NEW d \in Documents, NEW T, T = Append(S, d)
  PROVE  /\ T \in Seq(Documents) /\ Len(T) = Len(S) + 1
         /\ Extends(T, S) /\ T[Len(T)] = d
BY DEF Extends

LEMMA StillKnown ==
  ASSUME NEW S \in Seq(Documents), NEW T \in Seq(Documents), Extends(T, S),
         NEW t, Core(t, S)
  PROVE  Core(t, T)
<1>1. Len(S) \in Nat /\ Len(T) \in Nat /\ t.rev \in Nat
  BY DEF Core, Tabs
<1>2. Known(t, T)
  <2>1. t.rev > 0 => t.rev \in 1 .. Len(S) /\ T[t.rev] = S[t.rev]
    BY <1>1 DEF Extends, Core, Known
  <2>2. QED
    BY <1>1, <2>1 DEF Core, Known, Extends
<1>3. ASSUME NEW c \in t.calls PROVE Carries(c, T)
  <2>1. c.base \in Nat /\ (c.answer = None \/ c.answer.rev \in Nat)
    BY DEF Core, Tabs, Calls
  <2>2. Carries(c, S)
    BY DEF Core
  <2>3. c.kind = "save" => c.base \in 1 .. Len(T) /\ (~c.blind => T[c.base] \subseteq c.doc)
    <3>1. c.kind = "save" => c.base \in 1 .. Len(S) /\ (~c.blind => S[c.base] \subseteq c.doc)
      BY <2>2 DEF Carries
    <3>2. QED
      BY <1>1, <2>1, <3>1 DEF Extends
  <2>4. c.answer # None /\ c.answer.rev > 0 => T[c.answer.rev] = S[c.answer.rev]
    BY <1>1, <2>1, <2>2 DEF Carries, Extends
  <2>5. c.answer # None => c.answer.rev <= Len(T)
    BY <1>1, <2>1, <2>2 DEF Carries, Extends
  <2>6. c.kind = "pull" => Len(T) > 0
    BY <1>1, <2>2 DEF Carries, Extends
  <2>7. QED
    BY <2>2, <2>3, <2>4, <2>5, <2>6 DEF Carries
<1>4. QED
  BY <1>2, <1>3 DEF Core

LEMMA StillOK ==
  ASSUME NEW S \in Seq(Documents), NEW T \in Seq(Documents), Extends(T, S),
         NEW F, NEW G, F \subseteq G, NEW t, TabOK(t, S, F)
  PROVE  TabOK(t, T, G)
<1>1. Core(t, T)
  BY StillKnown DEF TabOK
<1>2. EditKept(t, S) => EditKept(t, T)
  BY DEF EditKept, Extends
<1>3. QED
  BY <1>1, <1>2 DEF TabOK

(* Rendering makes everything timely.                                      *)
LEMMA RenderedOK ==
  ASSUME NEW S \in Seq(Documents), NEW F, NEW t, Core(t, S),
         t.hydrated /\ t.queued # "layout" => ~t.applying,
         NEW x, x = Rendered(t)
  PROVE  /\ TabOK(x, S, F)
         /\ Informed(t, S, F) => Informed(x, S, F)
<1>0. t \in Tabs /\ Len(S) \in Nat /\ t.rev \in Nat /\ t.calls \subseteq Calls
  BY DEF Core, Tabs
<1>1. PICK h : h = NewCall("hydrate", {}, 0, FALSE)
  OBVIOUS
<1>2. h.kind = "hydrate" /\ h.live = TRUE /\ h.answer = None
  BY <1>1 DEF NewCall
<1>3. /\ x \in Tabs
      /\ x.ready = t.ready /\ x.layout = t.next /\ x.next = t.next /\ x.queued = "nothing"
      /\ x.crossed = t.crossed
      /\ x.rev = IF t.ready THEN t.rev ELSE 0
      /\ x.hydrated = (t.ready /\ t.hydrated)
      /\ x.applying = (t.applying /\ ~(t.ready /\ t.hydrated))
      /\ x.timer = (t.ready /\ t.hydrated /\ ~t.applying)
      /\ x.calls = {c \in t.calls : c.kind = "pull"} \cup Abandoned(t)
                   \cup (IF t.ready /\ ~t.hydrated THEN {h} ELSE {})
  <2>1. IsRendered(x, t)
    BY <1>0, RenderedFields
  <2>2. QED
    BY <1>1, <2>1 DEF IsRendered
<1>4. ASSUME NEW c \in Abandoned(t)
      PROVE  /\ c.live = FALSE /\ c.answer = None /\ c.kind \in {"seed", "save"}
             /\ Carries(c, S)
  <2>1. PICK d \in t.calls : /\ d.kind \in {"seed", "save"} /\ d.answer = None
                            /\ c = [d EXCEPT !.live = FALSE]
    BY DEF Abandoned
  <2>2. d \in Calls
    BY <1>0
  <2>3. /\ c.live = FALSE /\ c.answer = None /\ c.kind = d.kind /\ c.doc = d.doc
        /\ c.base = d.base
    BY <2>1, <2>2 DEF Calls
  <2>4. Carries(d, S)
    BY DEF Core
  <2>5. QED
    BY <2>1, <2>3, <2>4 DEF Carries
<1>5. ASSUME NEW c \in x.calls
      PROVE  /\ Carries(c, S) /\ Timely(x, c)
             /\ c.live /\ c.kind # "pull" => c = h /\ t.ready /\ ~t.hydrated
  <2>1. CASE c \in t.calls /\ c.kind = "pull"
    BY <2>1 DEF Core, Timely
  <2>2. CASE c \in Abandoned(t)
    BY <1>4, <2>2 DEF Timely
  <2>3. CASE c = h /\ t.ready /\ ~t.hydrated
    BY <1>2, <2>3 DEF Carries, Timely
  <2>4. QED
    BY <1>3, <2>1, <2>2, <2>3
<1>6. Known(x, S)
  <2>1. /\ Known(t, S) /\ t.applying \in BOOLEAN /\ t.hydrated \in BOOLEAN
        /\ t.ready \in BOOLEAN
    BY DEF Core, Tabs
  <2>2. CASE t.ready
    BY <1>0, <1>3, <2>1, <2>2 DEF Known
  <2>3. CASE ~t.ready
    BY <1>0, <1>3, <2>1, <2>3 DEF Known
  <2>4. QED
    BY <2>2, <2>3
<1>7. Settled(x)
  <2>1. \A c \in Live(x, Kinds) : c = h /\ t.ready /\ ~t.hydrated
    BY <1>5 DEF Live, Kinds
  <2>2. Live(x, {"save"}) = {} /\ (t.hydrated => Live(x, {"hydrate", "seed"}) = {})
    BY <1>2, <1>5 DEF Live
  <2>3. t.ready /\ t.hydrated => Live(x, Kinds) = {}
    BY <2>1
  <2>4. ~t.ready => Live(x, Kinds) = {}
    BY <2>1
  <2>5. \A c, d \in Live(x, Kinds) : c = d
    BY <2>1
  <2>6. QED
    BY <1>3, <2>2, <2>3, <2>4, <2>5 DEF Settled
<1>8. Hydrating(x)
  BY <1>2, <1>3 DEF Hydrating, Live
<1>9. EditKept(x, S)
  BY <1>0, <1>3 DEF EditKept, Core, Known
<1>10. Informed(t, S, F) => Informed(x, S, F)
  BY <1>3 DEF Informed
<1>11. QED
  BY <1>3, <1>5, <1>6, <1>7, <1>8, <1>9, <1>10 DEF TabOK, Core

(* acceptSharedLayout.                                                     *)
LEMMA AcceptedOK ==
  ASSUME saved \in Seq(Documents), NEW t, Core(t, saved), NEW n \in 1 .. Revision,
         Settled(t), \A c \in t.calls : Timely(t, c),
         NEW x, x = Accepted(t, n)
  PROVE  TabOK(x, saved, faults)
<1>1. IsAccepted(x, t, n)
  <2>1. t \in Tabs
    BY DEF Core
  <2>2. QED
    BY <2>1, AcceptedFields
<1>2. Len(saved) \in Nat /\ n \in Nat /\ n <= Len(saved) /\ n > 0
  BY DEF Revision
<1>3. Known(x, saved)
  BY <1>1, <1>2 DEF Known, IsAccepted
<1>4. \A c \in x.calls : Carries(c, saved) /\ Timely(x, c)
  BY <1>1 DEF Core, Timely, IsAccepted
<1>5. \A kinds : Live(x, kinds) = Live(t, kinds)
  BY <1>1 DEF IsAccepted, Live
<1>6. Settled(x)
  BY <1>1, <1>5 DEF Settled, IsAccepted
<1>7. Hydrating(x) /\ EditKept(x, saved)
  BY <1>1 DEF Hydrating, EditKept, IsAccepted
<1>8. QED
  BY <1>1, <1>3, <1>4, <1>6, <1>7 DEF TabOK, Core, IsAccepted

-----------------------------------------------------------------------------
(* A call is answered, or comes to nothing: what is left without it.       *)
LeftWithout(u, t, c, S) ==
  /\ Core(u, S) /\ Settled(u) /\ \A d \in u.calls : Timely(u, d)
  /\ u.ready = t.ready /\ u.layout = t.layout /\ u.next = t.next /\ u.queued = t.queued
  /\ u.crossed = t.crossed
  /\ u.rev = t.rev /\ u.hydrated = t.hydrated /\ u.applying = t.applying /\ u.timer = t.timer
  /\ u.calls = t.calls \ {c}
  /\ \A kinds : Live(u, kinds) = Live(t, kinds) \ {c}

LEMMA WithoutCall ==
  ASSUME NEW S, NEW F, NEW t, TabOK(t, S, F), NEW c, NEW u, u = Without(t, c)
  PROVE  LeftWithout(u, t, c, S)
<1>1. t \in Tabs
  BY DEF TabOK, Core
<1>2. u.calls = t.calls \ {c} /\ u \in Tabs
  BY <1>1 DEF Tabs, Without
<1>3. /\ u.ready = t.ready /\ u.layout = t.layout /\ u.next = t.next /\ u.queued = t.queued
      /\ u.crossed = t.crossed
      /\ u.rev = t.rev /\ u.hydrated = t.hydrated /\ u.applying = t.applying /\ u.timer = t.timer
  BY <1>1 DEF Tabs, Without
<1>4. \A kinds : Live(u, kinds) = Live(t, kinds) \ {c}
  BY <1>2 DEF Live
<1>5. Core(u, S)
  BY <1>2, <1>3 DEF TabOK, Core, Known
<1>6. Settled(u)
  BY <1>3, <1>4 DEF TabOK, Settled
<1>7. \A d \in u.calls : Timely(u, d)
  BY <1>2, <1>3 DEF TabOK, Timely
<1>8. QED
  BY <1>2, <1>3, <1>4, <1>5, <1>6, <1>7 DEF LeftWithout

LEMMA PullAnswered ==
  ASSUME saved \in Seq(Documents), NEW t, TabOK(t, saved, faults),
         NEW c \in t.calls, c.answer # None, c.kind = "pull",
         NEW u, u = Without(t, c), NEW x, x = Done(u, c)
  PROVE  /\ TabOK(x, saved, faults)
         /\ Informed(t, saved, faults) => Informed(x, saved, faults)
<1>0. LeftWithout(u, t, c, saved)
  BY WithoutCall, Zenon
<1>1. /\ Core(u, saved) /\ Settled(u) /\ \A d \in u.calls : Timely(u, d)
      /\ u.ready = t.ready /\ u.layout = t.layout /\ u.next = t.next /\ u.queued = t.queued
      /\ u.crossed = t.crossed
      /\ u.rev = t.rev /\ u.hydrated = t.hydrated /\ u.applying = t.applying /\ u.timer = t.timer
      /\ u.calls = t.calls \ {c}
      /\ \A kinds : Live(u, kinds) = Live(t, kinds) \ {c}
  BY <1>0 DEF LeftWithout
<1>2. PICK n : n = c.answer.rev
  OBVIOUS
<1>3. n \in 1 .. Revision /\ u.rev \in Nat /\ Len(saved) \in Nat /\ u.rev <= Len(saved)
      /\ u.rev = t.rev
  <2>1. n \in Nat /\ u.rev \in Nat /\ Len(saved) \in Nat
    BY <1>1, <1>2 DEF TabOK, Core, Tabs, Calls
  <2>2. Carries(c, saved) /\ u.rev <= Len(saved) /\ u.rev = t.rev
    BY <1>1 DEF TabOK, Core, Known
  <2>3. QED
    BY <1>2, <2>1, <2>2 DEF Carries, Revision
<1>4. CASE n > u.rev
  <2>1. x = Accepted(u, n)
    BY <1>2, <1>4 DEF Done, Newer
  <2>2. TabOK(x, saved, faults)
    BY <1>1, <1>3, <2>1, AcceptedOK, Zenon
  <2>4. x.rev = n /\ x.ready = u.ready /\ x.calls = u.calls
    <3>1. IsAccepted(x, u, n)
      BY <1>1, <1>3, <2>1, AcceptedFields DEF Core
    <3>2. QED
      BY <3>1 DEF IsAccepted
  <2>5. Informed(t, saved, faults) => Informed(x, saved, faults)
    <3>1. \A d \in t.calls : d = c \/ d \in x.calls
      BY <1>1, <2>4
    <3>2. t.rev # Len(saved)
      BY <1>3, <1>4 DEF Revision
    <3>3. n = Len(saved) => x.rev = Len(saved)
      BY <2>4
    <3>4. QED
      BY <1>1, <1>2, <2>4, <3>1, <3>2, <3>3 DEF Informed
  <2>6. QED
    BY <2>2, <2>5
<1>5. CASE ~(n > u.rev)
  <2>1. x = u
    BY <1>2, <1>5 DEF Done, Newer
  <2>2. \A kinds : "pull" \notin kinds => Live(u, kinds) = Live(t, kinds)
    BY <1>1 DEF Live
  <2>3. Hydrating(t) => Hydrating(u)
    BY <1>1, <2>2 DEF Hydrating
  <2>4. EditKept(t, saved) => EditKept(u, saved)
    BY <1>1 DEF EditKept
  <2>5. Informed(t, saved, faults) => Informed(x, saved, faults)
    <3>1. \A d \in t.calls : d = c \/ d \in x.calls
      BY <1>1, <2>1
    <3>2. n = Len(saved) => x.rev = Len(saved)
      BY <1>1, <1>3, <1>5, <2>1
    <3>3. x.rev = t.rev /\ x.ready = t.ready
      BY <1>1, <2>1
    <3>4. QED
      BY <1>2, <3>1, <3>2, <3>3 DEF Informed
  <2>6. QED
    BY <1>1, <2>1, <2>3, <2>4, <2>5 DEF TabOK
<1>6. QED
  BY <1>4, <1>5

LEMMA HydrateAnswered ==
  ASSUME saved \in Seq(Documents), NEW t, TabOK(t, saved, faults), t.queued # "layout",
         NEW c \in t.calls, c.answer # None, c.kind = "hydrate",
         NEW u, u = Without(t, c), NEW x, x = Done(u, c)
  PROVE  /\ TabOK(x, saved, faults)
         /\ Informed(t, saved, faults) => Informed(x, saved, faults)
<1>0. LeftWithout(u, t, c, saved)
  BY WithoutCall, Zenon
<1>1. /\ Core(u, saved) /\ Settled(u) /\ \A d \in u.calls : Timely(u, d)
      /\ u.ready = t.ready /\ u.layout = t.layout /\ u.next = t.next /\ u.queued = t.queued
      /\ u.crossed = t.crossed
      /\ u.rev = t.rev /\ u.hydrated = t.hydrated /\ u.applying = t.applying /\ u.timer = t.timer
      /\ u.calls = t.calls \ {c}
      /\ \A kinds : Live(u, kinds) = Live(t, kinds) \ {c}
  BY <1>0 DEF LeftWithout
<1>2. PICK n : n = c.answer.rev
  OBVIOUS
<1>3. /\ n \in Nat /\ n <= Len(saved) /\ t.rev <= n
      /\ u.rev \in Nat /\ Len(saved) \in Nat /\ u.rev = t.rev
  <2>1. n \in Nat /\ u.rev \in Nat /\ Len(saved) \in Nat
    BY <1>1, <1>2 DEF TabOK, Core, Tabs, Calls
  <2>2. Carries(c, saved) /\ Timely(t, c) /\ u.rev = t.rev
    BY <1>1 DEF TabOK, Core
  <2>3. QED
    BY <1>2, <2>1, <2>2 DEF Carries, Timely
<1>4. c \in Live(t, {"hydrate", "seed"}) /\ c \in Live(t, Kinds)
  BY DEF TabOK, Core, Carries, Live, Kinds
<1>5. ~t.hydrated /\ t.ready /\ Live(u, Kinds) = {} /\ ~t.timer
  <2>1. Settled(t)
    BY DEF TabOK
  <2>2. \A d \in Live(t, Kinds) : d = c
    BY <1>4, <2>1 DEF Settled
  <2>3. Live(u, Kinds) = {}
    BY <1>1, <2>2
  <2>4. QED
    BY <1>4, <2>1, <2>3 DEF Settled
<1>6. u \in Tabs /\ u.queued # "layout" /\ ~u.hydrated /\ u.ready
  BY <1>1, <1>5 DEF Core
<1>7. CASE n > 0
  <2>1. PICK v : v = [u EXCEPT !.hydrated = TRUE]
    OBVIOUS
  <2>2. /\ v \in Tabs /\ v.hydrated = TRUE
        /\ v.ready = u.ready /\ v.layout = u.layout /\ v.next = u.next
        /\ v.queued = u.queued /\ v.crossed = u.crossed
        /\ v.rev = u.rev /\ v.applying = u.applying /\ v.timer = u.timer /\ v.calls = u.calls
    BY <1>6, <2>1 DEF Tabs
  <2>3. x = Accepted(v, n)
    BY <1>2, <1>7, <2>1 DEF Done
  <2>4. n \in 1 .. Revision
    BY <1>3, <1>7 DEF Revision
  <2>5. IsAccepted(x, v, n)
    BY <2>2, <2>3, <2>4, AcceptedFields
  <2>8. /\ x \in Tabs /\ x.calls = u.calls /\ x.ready = t.ready /\ x.hydrated = TRUE
        /\ x.timer = t.timer /\ x.layout = t.layout
        /\ x.next = saved[n] /\ x.queued = "layout" /\ x.crossed = FALSE
        /\ x.rev = n /\ x.applying = TRUE
    BY <1>1, <2>2, <2>5 DEF IsAccepted
  <2>7. \A kinds : kinds \subseteq Kinds => Live(u, kinds) = {}
    BY <1>5 DEF Live
  <2>10. Known(x, saved)
    <3>1. saved[n] \subseteq saved[n] /\ Len(saved) > 0
      BY <1>3, <1>7
    <3>2. QED
      BY <1>3, <1>7, <2>8, <3>1 DEF Known
  <2>11. \A kinds : kinds \subseteq Kinds => Live(x, kinds) = {}
    BY <2>7, <2>8 DEF Live
  <2>12. Settled(x)
    BY <1>5, <2>8, <2>11 DEF Settled, Kinds
  <2>13. \A d \in x.calls : Carries(d, saved) /\ Timely(x, d)
    BY <1>1, <2>8 DEF Core, Timely
  <2>14. Hydrating(x) /\ EditKept(x, saved)
    BY <2>8 DEF Hydrating, EditKept
  <2>15. Informed(t, saved, faults) => Informed(x, saved, faults)
    <3>1. \A d \in t.calls : d.kind = "pull" => d \in x.calls
      BY <1>1, <2>8
    <3>2. t.rev = Len(saved) => x.rev = Len(saved)
      BY <1>3, <2>8
    <3>3. QED
      BY <2>8, <3>1, <3>2 DEF Informed
  <2>16. QED
    BY <2>8, <2>10, <2>12, <2>13, <2>14, <2>15 DEF TabOK, Core
<1>8. CASE n = 0
  <2>1. PICK v, s : /\ v = [u EXCEPT !.rev = 0]
                    /\ s = NewCall("seed", u.layout, 0, FALSE)
    OBVIOUS
  <2>2. /\ v \in Tabs /\ v.rev = 0
        /\ v.ready = u.ready /\ v.layout = u.layout /\ v.next = u.next
        /\ v.queued = u.queued /\ v.crossed = u.crossed
        /\ v.hydrated = u.hydrated /\ v.applying = u.applying /\ v.timer = u.timer
        /\ v.calls = u.calls
    <3>1. PICK z \in Nat : z = 0
      OBVIOUS
    <3>2. v = [u EXCEPT !.rev = z]
      BY <2>1, <3>1
    <3>3. v \in Tabs /\ v.rev = z
      BY <1>6, <3>1, <3>2 DEF Tabs
    <3>4. QED
      BY <1>6, <3>1, <3>2, <3>3 DEF Tabs
  <2>3. x = Call(v, "seed", u.layout, 0)
    BY <1>2, <1>8, <2>1 DEF Done
  <2>4. u.layout \in Documents
    BY <1>6 DEF Tabs
  <2>5. IsCalled(x, v, s)
    <3>1. /\ 0 \in Nat /\ "seed" \in {"hydrate", "seed", "save", "pull"}
          /\ FALSE \in BOOLEAN /\ (FALSE <=> ("seed" = "save" /\ Blindly(v)))
      OBVIOUS
    <3>2. QED
      BY <2>1, <2>2, <2>3, <2>4, <3>1, CallFields
  <2>6. /\ x \in Tabs
        /\ x.ready = t.ready /\ x.layout = t.layout /\ x.next = t.next
        /\ x.queued = t.queued /\ x.crossed = t.crossed
        /\ x.rev = 0 /\ x.hydrated = t.hydrated /\ x.applying = t.applying /\ x.timer = t.timer
        /\ x.calls = u.calls \cup {s}
    BY <1>1, <2>2, <2>5 DEF IsCalled
  <2>7. /\ s.kind = "seed" /\ s.live = TRUE /\ s.doc = t.layout /\ s.base = 0
        /\ s.answer = None /\ s.blind = FALSE
    BY <1>1, <2>1 DEF NewCall
  <2>8. Known(x, saved)
    BY <1>1, <1>3, <1>5, <1>6, <2>6 DEF Core, Known
  <2>9. Live(x, Kinds) = {s} /\ Live(x, {"save"}) = {}
    BY <1>5, <2>6, <2>7 DEF Live, Kinds
  <2>10. Settled(x)
    BY <1>1, <1>5, <2>6, <2>9 DEF Settled
  <2>11. \A d \in x.calls : Carries(d, saved)
    BY <1>1, <2>6, <2>7 DEF Core, Carries
  <2>12. \A d \in x.calls : Timely(x, d)
    <3>1. ASSUME NEW d \in u.calls PROVE Timely(x, d)
      <4>1. d.answer # None => d.answer.rev \in Nat
        BY <1>6 DEF Tabs, Calls
      <4>2. QED
        BY <1>1, <2>6, <4>1 DEF Timely
    <3>2. Timely(x, s)
      BY <2>6, <2>7 DEF Timely
    <3>3. QED
      BY <2>6, <3>1, <3>2
  <2>13. Hydrating(x) /\ EditKept(x, saved)
    BY <1>5, <2>6 DEF Hydrating, EditKept
  <2>14. Informed(t, saved, faults) => Informed(x, saved, faults)
    <3>1. \A d \in t.calls : d.kind = "pull" => d \in x.calls
      BY <1>1, <2>6
    <3>2. Len(saved) > 0 => t.rev # Len(saved)
      BY <1>3, <1>8
    <3>3. QED
      BY <2>6, <3>1, <3>2 DEF Informed
  <2>15. QED
    BY <2>6, <2>8, <2>10, <2>11, <2>12, <2>13, <2>14 DEF TabOK, Core
<1>9. QED
  BY <1>3, <1>7, <1>8

LEMMA SeedAnswered ==
  ASSUME saved \in Seq(Documents), NEW t, TabOK(t, saved, faults), t.queued # "layout",
         NEW c \in t.calls, c.answer # None, c.kind = "seed",
         NEW u, u = Without(t, c), NEW x, x = Done(u, c)
  PROVE  /\ TabOK(x, saved, faults)
         /\ Informed(t, saved, faults) => Informed(x, saved, faults)
<1>0. LeftWithout(u, t, c, saved)
  BY WithoutCall, Zenon
<1>1. /\ Core(u, saved) /\ Settled(u) /\ \A d \in u.calls : Timely(u, d)
      /\ u.ready = t.ready /\ u.layout = t.layout /\ u.next = t.next /\ u.queued = t.queued
      /\ u.crossed = t.crossed
      /\ u.rev = t.rev /\ u.hydrated = t.hydrated /\ u.applying = t.applying /\ u.timer = t.timer
      /\ u.calls = t.calls \ {c}
      /\ \A kinds : Live(u, kinds) = Live(t, kinds) \ {c}
  BY <1>0 DEF LeftWithout
<1>2. PICK n : n = c.answer.rev
  OBVIOUS
<1>3. /\ n \in Nat /\ n <= Len(saved) /\ n > 0 /\ t.rev <= n
      /\ u.rev \in Nat /\ Len(saved) \in Nat /\ u.rev = t.rev
      /\ c.live /\ c.doc = t.layout /\ c.answer.stored \in BOOLEAN
      /\ c.answer.stored => saved[n] = c.doc
  <2>1. n \in Nat /\ u.rev \in Nat /\ Len(saved) \in Nat /\ c.answer.stored \in BOOLEAN
    BY <1>1, <1>2 DEF TabOK, Core, Tabs, Calls
  <2>2. Carries(c, saved) /\ Timely(t, c) /\ u.rev = t.rev
    BY <1>1 DEF TabOK, Core
  <2>3. QED
    BY <1>2, <2>1, <2>2 DEF Carries, Timely
<1>4. c \in Live(t, Kinds) /\ Live(u, Kinds) = {}
  <2>1. c \in Live(t, Kinds)
    BY <1>3 DEF Live, Kinds
  <2>2. \A d \in Live(t, Kinds) : d = c
    BY <2>1 DEF TabOK, Settled
  <2>3. QED
    BY <1>1, <2>1, <2>2
<1>5. u \in Tabs /\ u.queued # "layout" /\ t.ready /\ ~t.timer /\ t.layout \subseteq t.next
  <2>1. u \in Tabs /\ u.queued # "layout" /\ t.ready /\ ~t.timer
    BY <1>1, <1>4 DEF Core, TabOK, Settled
  <2>2. t.queued \in {"nothing", "edit"}
    BY DEF TabOK, Core, Tabs
  <2>3. t.layout \subseteq t.next
    BY <2>2 DEF TabOK, Core, Settled, Known
  <2>4. QED
    BY <2>1, <2>3
<1>6. \A d \in t.calls : d.kind = "pull" => d \in u.calls
  BY <1>1
<1>7. ~t.hydrated
  <2>1. c \in Live(t, {"hydrate", "seed"})
    BY <1>3 DEF Live
  <2>2. QED
    BY <2>1 DEF TabOK, Settled
<1>8. CASE c.answer.stored
  <2>1. x = [u EXCEPT !.rev = n, !.hydrated = TRUE]
    BY <1>2, <1>8 DEF Done
  <2>2. /\ x \in Tabs /\ x.rev = n /\ x.hydrated = TRUE
        /\ x.ready = u.ready /\ x.layout = u.layout /\ x.next = u.next
        /\ x.queued = u.queued /\ x.crossed = u.crossed
        /\ x.applying = u.applying /\ x.timer = u.timer /\ x.calls = u.calls
    BY <1>3, <1>5, <2>1 DEF Tabs
  <2>3. ~t.applying
    BY <1>8 DEF TabOK, Timely
  <2>4. Known(x, saved)
    <3>1. saved[n] = t.layout /\ saved[n] \subseteq t.next
      BY <1>3, <1>5, <1>8
    <3>2. QED
      BY <1>1, <1>3, <2>2, <2>3, <3>1 DEF Known
  <2>5. \A kinds : kinds \subseteq Kinds => Live(x, kinds) = {}
    BY <1>4, <2>2 DEF Live
  <2>6. Settled(x)
    BY <1>1, <1>5, <2>2, <2>3, <2>5 DEF Settled, Kinds
  <2>7. \A d \in x.calls : Carries(d, saved) /\ Timely(x, d)
    <3>1. ASSUME NEW d \in u.calls PROVE Carries(d, saved) /\ Timely(x, d)
      <4>1. d.answer # None => d.kind = "pull"
        <5>1. Carries(d, saved) /\ d.kind \in {"hydrate", "seed", "save", "pull"}
          BY <1>1 DEF Core, Tabs, Calls
        <5>2. ~d.live \/ d.kind = "pull"
          BY <1>4, <5>1 DEF Live, Kinds
        <5>3. QED
          BY <5>1, <5>2 DEF Carries
      <4>2. QED
        BY <1>1, <2>2, <4>1 DEF Core, Timely
    <3>2. QED
      BY <2>2, <3>1
  <2>8. Hydrating(x)
    BY <2>2 DEF Hydrating
  <2>9. EditKept(x, saved)
    BY <1>1, <1>3, <1>8, <2>2 DEF EditKept
  <2>10. Informed(t, saved, faults) => Informed(x, saved, faults)
    <3>1. t.rev = Len(saved) => x.rev = Len(saved)
      BY <1>3, <2>2
    <3>2. QED
      BY <1>1, <1>6, <2>2, <3>1 DEF Informed
  <2>11. QED
    BY <2>2, <2>4, <2>6, <2>7, <2>8, <2>9, <2>10 DEF TabOK, Core
<1>9. CASE ~c.answer.stored
  <2>1. x = u
    BY <1>9 DEF Done
  <2>2. Hydrating(t) /\ t.queued = "nothing" => t.rev = 0
    <3>1. Live(t, {"hydrate"}) = {}
      BY <1>1, <1>4 DEF Live, Kinds
    <3>2. QED
      BY <1>3, <1>5, <1>7, <3>1 DEF Hydrating
  <2>3. Hydrating(t) => Hydrating(u)
    BY <1>1, <2>2 DEF Hydrating
  <2>4. EditKept(u, saved)
    BY <1>1, <1>7 DEF EditKept
  <2>5. Informed(t, saved, faults) => Informed(u, saved, faults)
    BY <1>1, <1>6 DEF Informed
  <2>6. QED
    BY <1>1, <2>1, <2>3, <2>4, <2>5 DEF TabOK
<1>10. QED
  BY <1>3, <1>8, <1>9

LEMMA SaveAnswered ==
  ASSUME saved \in Seq(Documents), NEW t, TabOK(t, saved, faults), t.queued # "layout",
         NEW c \in t.calls, c.answer # None, c.kind = "save",
         NEW u, u = Without(t, c), NEW x, x = Done(u, c)
  PROVE  /\ TabOK(x, saved, faults)
         /\ Informed(t, saved, faults) => Informed(x, saved, faults)
<1>0. LeftWithout(u, t, c, saved)
  BY WithoutCall, Zenon
<1>1. /\ Core(u, saved) /\ Settled(u) /\ \A d \in u.calls : Timely(u, d)
      /\ u.ready = t.ready /\ u.layout = t.layout /\ u.next = t.next /\ u.queued = t.queued
      /\ u.crossed = t.crossed
      /\ u.rev = t.rev /\ u.hydrated = t.hydrated /\ u.applying = t.applying /\ u.timer = t.timer
      /\ u.calls = t.calls \ {c}
      /\ \A kinds : Live(u, kinds) = Live(t, kinds) \ {c}
  BY <1>0 DEF LeftWithout
<1>2. PICK n : n = c.answer.rev
  OBVIOUS
<1>3. /\ n \in Nat /\ n <= Len(saved) /\ n > 0 /\ t.rev <= n
      /\ u.rev \in Nat /\ Len(saved) \in Nat /\ u.rev = t.rev
      /\ c.live /\ c.doc = t.layout /\ c.answer.stored \in BOOLEAN
      /\ c.answer.stored => saved[n] = c.doc
  <2>1. n \in Nat /\ u.rev \in Nat /\ Len(saved) \in Nat /\ c.answer.stored \in BOOLEAN
    BY <1>1, <1>2 DEF TabOK, Core, Tabs, Calls
  <2>2. Carries(c, saved) /\ Timely(t, c) /\ u.rev = t.rev
    BY <1>1 DEF TabOK, Core
  <2>3. QED
    BY <1>2, <2>1, <2>2 DEF Carries, Timely
<1>4. c \in Live(t, Kinds) /\ Live(u, Kinds) = {}
  <2>1. c \in Live(t, Kinds)
    BY <1>3 DEF Live, Kinds
  <2>2. \A d \in Live(t, Kinds) : d = c
    BY <2>1 DEF TabOK, Settled
  <2>3. QED
    BY <1>1, <2>1, <2>2
<1>5. u \in Tabs /\ u.queued # "layout" /\ t.ready /\ ~t.timer /\ t.layout \subseteq t.next
  <2>1. u \in Tabs /\ u.queued # "layout" /\ t.ready /\ ~t.timer
    BY <1>1, <1>4 DEF Core, TabOK, Settled
  <2>2. t.queued \in {"nothing", "edit"}
    BY DEF TabOK, Core, Tabs
  <2>3. t.layout \subseteq t.next
    BY <2>2 DEF TabOK, Core, Settled, Known
  <2>4. QED
    BY <2>1, <2>3
<1>6. \A d \in t.calls : d.kind = "pull" => d \in u.calls
  BY <1>1
<1>7. t.hydrated /\ ~t.applying
  <2>1. c \in Live(t, {"save"})
    BY <1>3 DEF Live
  <2>2. QED
    BY <2>1 DEF TabOK, Settled
<1>8. CASE c.answer.stored
  <2>1. x = [u EXCEPT !.rev = n, !.crossed = FALSE]
    BY <1>2, <1>8 DEF Done
  <2>2. /\ x \in Tabs /\ x.rev = n /\ x.hydrated = u.hydrated
        /\ x.ready = u.ready /\ x.layout = u.layout /\ x.next = u.next /\ x.queued = u.queued
        /\ x.crossed = FALSE
        /\ x.applying = u.applying /\ x.timer = u.timer /\ x.calls = u.calls
    BY <1>3, <1>5, <2>1 DEF Tabs
  <2>3. Known(x, saved)
    <3>1. saved[n] = t.layout /\ saved[n] \subseteq t.next
      BY <1>3, <1>5, <1>8
    <3>2. QED
      BY <1>1, <1>3, <1>7, <2>2, <3>1 DEF Known
  <2>4. \A kinds : Live(x, kinds) = Live(u, kinds)
    BY <2>2 DEF Live
  <2>5. Settled(x)
    BY <1>1, <2>2, <2>4 DEF Settled
  <2>6. \A d \in x.calls : Carries(d, saved) /\ Timely(x, d)
    <3>1. ASSUME NEW d \in u.calls PROVE Carries(d, saved) /\ Timely(x, d)
      <4>1. d.answer # None => d.kind = "pull"
        <5>1. Carries(d, saved) /\ d.kind \in {"hydrate", "seed", "save", "pull"}
          BY <1>1 DEF Core, Tabs, Calls
        <5>2. ~d.live \/ d.kind = "pull"
          BY <1>4, <5>1 DEF Live, Kinds
        <5>3. QED
          BY <5>1, <5>2 DEF Carries
      <4>2. QED
        BY <1>1, <2>2, <4>1 DEF Core, Timely
    <3>2. QED
      BY <2>2, <3>1
  <2>7. Hydrating(x)
    BY <1>1, <1>7, <2>2 DEF Hydrating
  <2>8. EditKept(x, saved)
    BY <1>1, <1>3, <1>8, <2>2 DEF EditKept
  <2>9. Informed(t, saved, faults) => Informed(x, saved, faults)
    <3>1. t.rev = Len(saved) => x.rev = Len(saved)
      BY <1>3, <2>2
    <3>2. QED
      BY <1>1, <1>6, <2>2, <3>1 DEF Informed
  <2>10. QED
    BY <2>2, <2>3, <2>5, <2>6, <2>7, <2>8, <2>9 DEF TabOK, Core
<1>9. CASE ~c.answer.stored
  <2>1. x = Accepted(u, n)
    BY <1>2, <1>9 DEF Done
  <2>2. n \in 1 .. Revision
    BY <1>3 DEF Revision
  <2>3. TabOK(x, saved, faults)
    BY <1>1, <2>1, <2>2, AcceptedOK, Zenon
  <2>4. IsAccepted(x, u, n)
    BY <1>5, <2>1, <2>2, AcceptedFields
  <2>5. x.rev = n /\ x.ready = t.ready /\ x.calls = u.calls
    BY <1>1, <2>4 DEF IsAccepted
  <2>6. Informed(t, saved, faults) => Informed(x, saved, faults)
    <3>1. t.rev = Len(saved) => x.rev = Len(saved)
      BY <1>3, <2>5
    <3>2. QED
      BY <1>1, <1>6, <2>5, <3>1 DEF Informed
  <2>7. QED
    BY <2>3, <2>6
<1>10. QED
  BY <1>3, <1>8, <1>9

-----------------------------------------------------------------------------
(* Something comes between a layout's arrival and its rendering. What has  *)
(* to hold of the browser then, and does with each update.                 *)
Loose(y, S) ==
  /\ y \in Tabs /\ y.queued = "layout"
  /\ y.rev <= Len(S) /\ (y.hydrated => y.rev > 0) /\ (y.applying => Len(S) > 0)
  /\ Settled(y)
  /\ \A c \in y.calls : Carries(c, S) /\ (c.live /\ c.kind \in {"seed", "save"} => c.doc = y.layout)

LEMMA LooseTab ==
  ASSUME NEW S, NEW F, NEW y, TabOK(y, S, F), y.queued = "layout"
  PROVE  Loose(y, S)
BY DEF TabOK, Core, Known, Timely, Loose

LEMMA CrossedOK ==
  ASSUME NEW S, NEW F, NEW y, Loose(y, S), NEW x, x = [y EXCEPT !.crossed = TRUE]
  PROVE  TabOK(x, S, F) /\ x.ready = y.ready
<1>1. y \in Tabs /\ y.queued = "layout"
  BY DEF Loose
<1>2. /\ x \in Tabs /\ x.crossed = TRUE /\ x.queued = "layout"
      /\ x.ready = y.ready /\ x.layout = y.layout /\ x.next = y.next
      /\ x.rev = y.rev /\ x.hydrated = y.hydrated /\ x.applying = y.applying
      /\ x.timer = y.timer /\ x.calls = y.calls
  BY <1>1 DEF Tabs
<1>3. Known(x, S) /\ \A c \in x.calls : Carries(c, S) /\ Timely(x, c)
  BY <1>2 DEF Loose, Known, Timely
<1>4. \A kinds : Live(x, kinds) = Live(y, kinds)
  BY <1>2 DEF Live
<1>5. Settled(x)
  BY <1>2, <1>4 DEF Loose, Settled
<1>6. Hydrating(x) /\ EditKept(x, S)
  BY <1>2 DEF Hydrating, EditKept
<1>7. QED
  BY <1>2, <1>3, <1>5, <1>6 DEF TabOK, Core

(* An answer does.                                                         *)
LEMMA LooseAnswered ==
  ASSUME saved \in Seq(Documents), NEW t, TabOK(t, saved, faults), t.queued = "layout",
         NEW c \in t.calls, c.answer # None, c.kind # "pull",
         NEW u, u = Without(t, c), NEW y, y = Done(u, c)
  PROVE  Loose(y, saved)
<1>0. LeftWithout(u, t, c, saved)
  BY WithoutCall, Zenon
<1>1. /\ Core(u, saved) /\ Settled(u) /\ \A d \in u.calls : Timely(u, d)
      /\ u.ready = t.ready /\ u.layout = t.layout /\ u.next = t.next /\ u.queued = t.queued
      /\ u.rev = t.rev /\ u.hydrated = t.hydrated /\ u.applying = t.applying /\ u.timer = t.timer
      /\ u.calls = t.calls \ {c}
      /\ \A kinds : Live(u, kinds) = Live(t, kinds) \ {c}
  BY <1>0 DEF LeftWithout
<1>2. PICK n : n = c.answer.rev
  OBVIOUS
<1>3. /\ n \in Nat /\ n <= Len(saved) /\ u.rev \in Nat /\ Len(saved) \in Nat
      /\ (c.kind # "hydrate" => n > 0)
      /\ c.kind \in {"hydrate", "seed", "save"} /\ c.live /\ u \in Tabs
  <2>1. /\ n \in Nat /\ u.rev \in Nat /\ Len(saved) \in Nat
        /\ c.kind \in {"hydrate", "seed", "save"} /\ u \in Tabs
    BY <1>1, <1>2 DEF TabOK, Core, Tabs, Calls
  <2>2. Carries(c, saved)
    BY DEF TabOK, Core
  <2>3. QED
    BY <1>2, <2>1, <2>2 DEF Carries
<1>4. c \in Live(t, Kinds) /\ Live(u, Kinds) = {} /\ t.ready /\ ~t.timer
  <2>1. c \in Live(t, Kinds)
    BY <1>3 DEF Live, Kinds
  <2>2. \A d \in Live(t, Kinds) : d = c
    BY <2>1 DEF TabOK, Settled
  <2>3. QED
    BY <1>1, <2>1, <2>2 DEF TabOK, Settled
<1>5. \A kinds : kinds \subseteq Kinds => Live(u, kinds) = {}
  BY <1>4 DEF Live
<1>6. \A d \in u.calls : Carries(d, saved) /\ (d.live => d.kind = "pull")
  <2>1. ASSUME NEW d \in u.calls, d.live PROVE d.kind = "pull"
    <3>1. d.kind \in Kinds \cup {"pull"}
      BY <1>3 DEF Tabs, Calls, Kinds
    <3>2. QED
      BY <1>4, <2>1, <3>1 DEF Live
  <2>2. QED
    BY <1>1, <2>1 DEF Core
<1>7. ASSUME NEW v, NEW hydrated \in BOOLEAN, n > 0, v = [u EXCEPT !.hydrated = hydrated],
             y = Accepted(v, n)
      PROVE  Loose(y, saved)
  <2>1. v \in Tabs /\ v.ready = u.ready /\ v.calls = u.calls /\ v.timer = u.timer
    BY <1>3, <1>7 DEF Tabs
  <2>2. n \in 1 .. Revision
    BY <1>3, <1>7 DEF Revision
  <2>3. IsAccepted(y, v, n)
    BY <1>7, <2>1, <2>2, AcceptedFields
  <2>4. /\ y \in Tabs /\ y.queued = "layout" /\ y.rev = n /\ y.calls = u.calls
        /\ y.ready = t.ready /\ y.timer = t.timer
    BY <1>1, <2>1, <2>3 DEF IsAccepted
  <2>5. \A kinds : Live(y, kinds) = Live(u, kinds)
    BY <2>4 DEF Live
  <2>6. Live(y, Kinds) = {} /\ Live(y, {"hydrate", "seed"}) = {} /\ Live(y, {"save"}) = {}
    BY <1>5, <2>5 DEF Kinds
  <2>7. Settled(y)
    BY <1>4, <2>4, <2>6 DEF Settled
  <2>8. \A d \in y.calls :
          Carries(d, saved) /\ (d.live /\ d.kind \in {"seed", "save"} => d.doc = y.layout)
    BY <1>6, <2>4
  <2>9. QED
    BY <1>3, <1>7, <2>4, <2>7, <2>8 DEF Loose
<1>8. ASSUME n > 0, y = Accepted(u, n) PROVE Loose(y, saved)
  <2>1. PICK hydrated \in BOOLEAN : hydrated = u.hydrated
    BY <1>3 DEF Tabs
  <2>2. u = [u EXCEPT !.hydrated = hydrated]
    BY <1>3, <2>1 DEF Tabs
  <2>3. QED
    BY <1>7, <1>8, <2>2
<1>9. ASSUME NEW hydrated \in BOOLEAN, NEW crossed \in BOOLEAN, n > 0,
             y = [u EXCEPT !.rev = n, !.hydrated = hydrated, !.crossed = crossed]
      PROVE  Loose(y, saved)
  <2>0. y \in Tabs
    BY <1>3, <1>9 DEF Tabs
  <2>1. /\ y.rev = n /\ y.calls = u.calls /\ y.queued = "layout" /\ y.layout = t.layout
        /\ y.ready = t.ready /\ y.timer = t.timer /\ y.applying = t.applying
    <3>1. /\ y.rev = n /\ y.calls = u.calls /\ y.queued = u.queued /\ y.layout = u.layout
          /\ y.ready = u.ready /\ y.timer = u.timer /\ y.applying = u.applying
      BY <1>3, <1>9 DEF Tabs
    <3>2. QED
      BY <1>1, <3>1
  <2>2. \A kinds : Live(y, kinds) = Live(u, kinds)
    BY <2>1 DEF Live
  <2>3. Live(y, Kinds) = {} /\ Live(y, {"hydrate", "seed"}) = {} /\ Live(y, {"save"}) = {}
    BY <1>5, <2>2 DEF Kinds
  <2>4. Settled(y)
    BY <1>4, <2>1, <2>3 DEF Settled
  <2>5. \A d \in y.calls :
          Carries(d, saved) /\ (d.live /\ d.kind \in {"seed", "save"} => d.doc = y.layout)
    BY <1>6, <2>1
  <2>6. t.applying => Len(saved) > 0
    BY DEF TabOK, Core, Known
  <2>7. QED
    BY <1>3, <1>9, <2>0, <2>1, <2>4, <2>5, <2>6 DEF Loose
<1>10. PICK now, yes, no : now \in BOOLEAN /\ now = u.hydrated /\ yes = TRUE /\ no = FALSE
  BY <1>3 DEF Tabs
<1>11. CASE c.kind = "hydrate" /\ n > 0
  <2>1. PICK v : v = [u EXCEPT !.hydrated = yes]
    OBVIOUS
  <2>2. y = Accepted(v, n)
    BY <1>2, <1>10, <1>11, <2>1 DEF Done
  <2>3. QED
    BY <1>7, <1>10, <1>11, <2>1, <2>2
<1>12. CASE c.kind = "hydrate" /\ n = 0
  <2>1. PICK v, s, z : /\ z \in Nat /\ z = 0 /\ v = [u EXCEPT !.rev = z]
                       /\ s = NewCall("seed", u.layout, 0, FALSE)
    OBVIOUS
  <2>2. /\ v \in Tabs /\ v.rev = 0 /\ v.ready = u.ready /\ v.layout = u.layout
        /\ v.queued = u.queued /\ v.hydrated = u.hydrated /\ v.applying = u.applying
        /\ v.timer = u.timer /\ v.calls = u.calls
    BY <1>3, <2>1 DEF Tabs
  <2>3. y = Call(v, "seed", u.layout, 0)
    BY <1>2, <1>12, <2>1 DEF Done
  <2>4. /\ u.layout \in Documents /\ 0 \in Nat /\ FALSE \in BOOLEAN
        /\ "seed" \in {"hydrate", "seed", "save", "pull"}
        /\ (FALSE <=> ("seed" = "save" /\ Blindly(v)))
    BY <1>3 DEF Tabs
  <2>5. IsCalled(y, v, s)
    BY <2>1, <2>2, <2>3, <2>4, CallFields
  <2>6. /\ y \in Tabs /\ y.rev = 0 /\ y.ready = t.ready /\ y.layout = t.layout
        /\ y.queued = "layout" /\ y.hydrated = t.hydrated /\ y.applying = t.applying
        /\ y.timer = t.timer /\ y.calls = u.calls \cup {s}
    BY <1>1, <2>2, <2>5 DEF IsCalled
  <2>7. /\ s.kind = "seed" /\ s.live = TRUE /\ s.doc = t.layout /\ s.base = 0
        /\ s.answer = None /\ s.blind = FALSE
    BY <1>1, <2>1 DEF NewCall
  <2>8. Live(y, Kinds) = {s} /\ Live(y, {"save"}) = {}
    BY <1>4, <2>6, <2>7 DEF Live, Kinds
  <2>9. ~t.hydrated
    <3>1. c \in Live(t, {"hydrate", "seed"})
      BY <1>3, <1>12 DEF Live
    <3>2. QED
      BY <3>1 DEF TabOK, Settled
  <2>10. Settled(y)
    BY <1>4, <2>6, <2>8, <2>9 DEF Settled
  <2>11. \A d \in y.calls :
           Carries(d, saved) /\ (d.live /\ d.kind \in {"seed", "save"} => d.doc = y.layout)
    <3>1. Carries(s, saved)
      BY <2>7 DEF Carries
    <3>2. QED
      BY <1>6, <2>6, <2>7, <3>1
  <2>12. t.applying => Len(saved) > 0
    BY DEF TabOK, Core, Known
  <2>13. QED
    BY <1>3, <2>6, <2>9, <2>10, <2>11, <2>12 DEF Loose
<1>13. CASE c.kind = "seed" /\ c.answer.stored
  <2>1. y = [u EXCEPT !.rev = n, !.hydrated = TRUE]
    BY <1>2, <1>13 DEF Done
  <2>2. PICK crossed \in BOOLEAN : crossed = u.crossed
    BY <1>3 DEF Tabs
  <2>3. y = [u EXCEPT !.rev = n, !.hydrated = yes, !.crossed = crossed]
    BY <1>3, <1>10, <2>1, <2>2 DEF Tabs
  <2>4. QED
    BY <1>3, <1>9, <1>10, <1>13, <2>3
<1>14. CASE c.kind = "seed" /\ ~c.answer.stored
  <2>1. y = u
    BY <1>14 DEF Done
  <2>2. QED
    BY <1>1, <1>6, <2>1 DEF Core, Known, Loose
<1>15. CASE c.kind = "save" /\ c.answer.stored
  <2>1. y = [u EXCEPT !.rev = n, !.crossed = FALSE]
    BY <1>2, <1>15 DEF Done
  <2>2. y = [u EXCEPT !.rev = n, !.hydrated = now, !.crossed = no]
    BY <1>3, <1>10, <2>1 DEF Tabs
  <2>3. QED
    BY <1>3, <1>9, <1>10, <1>15, <2>2
<1>16. CASE c.kind = "save" /\ ~c.answer.stored
  <2>1. y = Accepted(u, n)
    BY <1>2, <1>16 DEF Done
  <2>2. QED
    BY <1>3, <1>8, <1>16, <2>1
<1>17. QED
  BY <1>3, <1>11, <1>12, <1>13, <1>14, <1>15, <1>16

(* So does an edit, of whatever it is made.                                *)
LEMMA LooseEdited ==
  ASSUME NEW S, NEW F, NEW t, TabOK(t, S, F), t.queued = "layout",
         NEW doc \in Documents, NEW y, y = Edited(t, doc)
  PROVE  Loose(y, S)
<1>1. t \in Tabs
  BY DEF TabOK, Core
<1>2. IsEdited(y, t, doc)
  BY <1>1, EditedFields
<1>3. /\ y \in Tabs /\ y.queued = "layout" /\ y.ready = t.ready /\ y.layout = t.layout
      /\ y.rev = t.rev /\ y.hydrated = t.hydrated /\ y.applying = t.applying
      /\ y.timer = t.timer /\ y.calls = t.calls
  BY <1>2 DEF IsEdited
<1>4. \A kinds : Live(y, kinds) = Live(t, kinds)
  BY <1>3 DEF Live
<1>5. Settled(y)
  BY <1>3, <1>4 DEF TabOK, Settled
<1>6. QED
  BY <1>3, <1>5 DEF TabOK, Core, Known, Timely, Loose

-----------------------------------------------------------------------------
(* The save of the rendered layout is made. It is blind if the browser has *)
(* lost track, or has a layout to render that it does not save.            *)
LEMMA DueOK ==
  ASSUME saved \in Seq(Documents), NEW t, TabOK(t, saved, faults), t.timer,
         NEW x, x = Call([t EXCEPT !.timer = FALSE], "save", t.layout, t.rev)
  PROVE  /\ TabOK(x, saved, faults) /\ x.ready = t.ready
         /\ Informed(t, saved, faults) => Informed(x, saved, faults)
<1>1. /\ t \in Tabs /\ t.rev \in Nat /\ t.layout \in Documents /\ Len(saved) \in Nat
      /\ t.hydrated /\ t.rev > 0 /\ t.rev <= Len(saved)
      /\ (~Blindly(t) => saved[t.rev] \subseteq t.layout)
      /\ Live(t, Kinds) = {} /\ t.ready
  BY DEF TabOK, Core, Known, Settled, Tabs, Blindly
<1>2. PICK u, blind, s : /\ u = [t EXCEPT !.timer = FALSE] /\ blind = Blindly(t)
                         /\ s = NewCall("save", t.layout, t.rev, blind)
  OBVIOUS
<1>3. /\ u \in Tabs /\ u.timer = FALSE
      /\ u.ready = t.ready /\ u.layout = t.layout /\ u.next = t.next /\ u.queued = t.queued
      /\ u.crossed = t.crossed
      /\ u.rev = t.rev /\ u.hydrated = t.hydrated /\ u.applying = t.applying /\ u.calls = t.calls
  BY <1>1, <1>2 DEF Tabs
<1>4. blind \in BOOLEAN /\ (blind <=> ("save" = "save" /\ Blindly(u)))
  BY <1>1, <1>2, <1>3 DEF Blindly, Tabs
<1>5. IsCalled(x, u, s)
  <2>1. "save" \in {"hydrate", "seed", "save", "pull"}
    OBVIOUS
  <2>2. QED
    BY <1>1, <1>2, <1>3, <1>4, <2>1, CallFields
<1>6. /\ x \in Tabs /\ x.timer = FALSE
      /\ x.ready = t.ready /\ x.layout = t.layout /\ x.next = t.next /\ x.queued = t.queued
      /\ x.crossed = t.crossed
      /\ x.rev = t.rev /\ x.hydrated = t.hydrated /\ x.applying = t.applying
      /\ x.calls = t.calls \cup {s}
  BY <1>3, <1>5 DEF IsCalled
<1>7. /\ s.kind = "save" /\ s.live = TRUE /\ s.doc = t.layout /\ s.base = t.rev
      /\ s.answer = None /\ s.blind = blind
  BY <1>2 DEF NewCall
<1>8. Known(x, saved)
  BY <1>6 DEF TabOK, Core, Known
<1>9. Live(x, Kinds) = {s} /\ Live(x, {"hydrate", "seed"}) = {}
  BY <1>1, <1>6, <1>7 DEF Live, Kinds
<1>10. Settled(x)
  BY <1>1, <1>6, <1>9 DEF TabOK, Settled
<1>11. \A d \in x.calls : Carries(d, saved)
  <2>1. \A d \in t.calls : Carries(d, saved)
    BY DEF TabOK, Core
  <2>2. Carries(s, saved)
    BY <1>1, <1>2, <1>7 DEF Carries
  <2>3. QED
    BY <1>6, <2>1, <2>2
<1>12. \A d \in x.calls : Timely(x, d)
  BY <1>6, <1>7 DEF TabOK, Timely
<1>13. Hydrating(x) /\ EditKept(x, saved)
  BY <1>1, <1>6, <1>7 DEF Hydrating, EditKept
<1>14. Informed(t, saved, faults) => Informed(x, saved, faults)
  BY <1>6 DEF Informed
<1>15. QED
  BY <1>6, <1>8, <1>10, <1>11, <1>12, <1>13, <1>14 DEF TabOK, Core

(* The user edits what he sees, or what comes of it.                       *)
LEMMA EditOK ==
  ASSUME saved \in Seq(Documents), NEW t, TabOK(t, saved, faults), t.queued # "layout",
         NEW seen \in {t.layout, t.next}, NEW e, seen \cup {e} \in Documents,
         NEW x, x = Edited(t, seen \cup {e})
  PROVE  /\ TabOK(x, saved, faults) /\ x.ready = t.ready
         /\ Informed(t, saved, faults) => Informed(x, saved, faults)
<1>1. /\ t \in Tabs /\ t.rev \in Nat /\ t.queued \in {"nothing", "edit"}
  BY DEF TabOK, Core, Tabs
<1>2. PICK doc \in Documents : doc = seen \cup {e}
  OBVIOUS
<1>3. t.layout \subseteq doc
  BY <1>1, <1>2 DEF TabOK, Core, Known, Settled
<1>4. IsEdited(x, t, doc)
  BY <1>1, <1>2, EditedFields
<1>5. /\ x \in Tabs /\ x.next = doc /\ x.queued = "edit" /\ x.crossed = t.crossed
      /\ x.ready = t.ready /\ x.layout = t.layout /\ x.rev = t.rev /\ x.hydrated = t.hydrated
      /\ x.applying = t.applying /\ x.timer = t.timer /\ x.calls = t.calls
  BY <1>4 DEF IsEdited
<1>6. Known(x, saved)
  BY <1>1, <1>3, <1>5 DEF TabOK, Core, Known
<1>7. \A kinds : Live(x, kinds) = Live(t, kinds)
  BY <1>5 DEF Live
<1>8. Settled(x)
  BY <1>5, <1>7 DEF TabOK, Settled
<1>9. \A d \in x.calls : Carries(d, saved) /\ Timely(x, d)
  BY <1>5 DEF TabOK, Core, Timely
<1>10. Hydrating(x) /\ EditKept(x, saved)
  BY <1>5 DEF Hydrating, EditKept
<1>11. Informed(t, saved, faults) => Informed(x, saved, faults)
  BY <1>5 DEF Informed
<1>12. QED
  BY <1>5, <1>6, <1>8, <1>9, <1>10, <1>11 DEF TabOK, Core

(* A revision is announced: the browser pulls it.                          *)
LEMMA PullOK ==
  ASSUME NEW S \in Seq(Documents), Len(S) > 0, NEW F,
         NEW t, TabOK(t, S, F), NEW x, x = Call(t, "pull", {}, 0)
  PROVE  /\ TabOK(x, S, F)
         /\ t.ready => Informed(x, S, F)
<1>1. PICK s : s = NewCall("pull", {}, 0, FALSE)
  OBVIOUS
<1>2. IsCalled(x, t, s)
  <2>1. /\ {} \in Documents /\ 0 \in Nat /\ "pull" \in {"hydrate", "seed", "save", "pull"}
        /\ FALSE \in BOOLEAN /\ (FALSE <=> ("pull" = "save" /\ Blindly(t)))
    BY DEF Documents
  <2>2. t \in Tabs
    BY DEF TabOK, Core
  <2>3. QED
    BY <1>1, <2>1, <2>2, CallFields
<1>3. /\ x \in Tabs /\ x.timer = t.timer
      /\ x.ready = t.ready /\ x.layout = t.layout /\ x.next = t.next /\ x.queued = t.queued
      /\ x.crossed = t.crossed
      /\ x.rev = t.rev /\ x.hydrated = t.hydrated /\ x.applying = t.applying
      /\ x.calls = t.calls \cup {s}
  BY <1>2 DEF IsCalled
<1>4. s.kind = "pull" /\ s.live = TRUE /\ s.answer = None
  BY <1>1 DEF NewCall
<1>5. Known(x, S)
  BY <1>3 DEF TabOK, Core, Known
<1>6. /\ Live(x, Kinds) = Live(t, Kinds)
      /\ Live(x, {"hydrate", "seed"}) = Live(t, {"hydrate", "seed"})
      /\ Live(x, {"hydrate"}) = Live(t, {"hydrate"}) /\ Live(x, {"save"}) = Live(t, {"save"})
  BY <1>3, <1>4 DEF Live, Kinds
<1>7. Settled(x)
  BY <1>3, <1>6 DEF TabOK, Settled
<1>8. \A d \in x.calls : Carries(d, S) /\ Timely(x, d)
  <2>1. Carries(s, S) /\ Timely(x, s)
    BY <1>4 DEF Carries, Timely
  <2>2. \A d \in t.calls : Carries(d, S) /\ Timely(x, d)
    BY <1>3 DEF TabOK, Core, Timely
  <2>3. QED
    BY <1>3, <2>1, <2>2
<1>9. (Hydrating(t) => Hydrating(x)) /\ (EditKept(t, S) => EditKept(x, S))
  BY <1>3, <1>6 DEF Hydrating, EditKept
<1>10. t.ready => Informed(x, S, F)
  BY <1>3, <1>4 DEF Informed
<1>11. QED
  BY <1>3, <1>5, <1>7, <1>8, <1>9, <1>10 DEF TabOK, Core

(* Signing in or out, with the effects that follow.                        *)
LEMMA PhaseOK ==
  ASSUME NEW S \in Seq(Documents), NEW F, NEW G, NEW t, TabOK(t, S, F),
         NEW v \in BOOLEAN, v => ~t.ready,
         NEW x, x = Rendered([t EXCEPT !.ready = v])
  PROVE  TabOK(x, S, G) /\ x.ready = v
<1>1. PICK u : u = [t EXCEPT !.ready = v]
  OBVIOUS
<1>2. t \in Tabs
  BY DEF TabOK, Core
<1>3. /\ u \in Tabs /\ u.ready = v /\ u.next = t.next /\ u.rev = t.rev
      /\ u.layout = t.layout /\ u.queued = t.queued /\ u.crossed = t.crossed
      /\ u.hydrated = t.hydrated /\ u.applying = t.applying /\ u.calls = t.calls
  BY <1>1, <1>2 DEF Tabs
<1>4. ~(v /\ t.hydrated)
  BY DEF TabOK, Settled
<1>5. Known(u, S)
  BY <1>3, <1>4 DEF TabOK, Core, Known
<1>6. Core(u, S)
  BY <1>3, <1>5 DEF TabOK, Core
<1>7. x = Rendered(u)
  BY <1>1
<1>8. TabOK(x, S, G)
  <2>1. u.hydrated /\ u.queued # "layout" => ~u.applying
    BY <1>3 DEF TabOK, Settled
  <2>2. QED
    BY <1>6, <1>7, <2>1, RenderedOK
<1>9. IsRendered(x, u)
  BY <1>3, <1>7, RenderedFields
<1>10. QED
  BY <1>3, <1>8, <1>9 DEF IsRendered

(* A call fails. What an edit's author or a browser that was told of the   *)
(* last layout waits for may be lost with it.                              *)
LEMMA FailOK ==
  ASSUME NEW S, NEW F, NEW G, "fail" \in G, NEW t, TabOK(t, S, F),
         NEW c, NEW x, x = Without(t, c)
  PROVE  /\ TabOK(x, S, G)
         /\ Informed(t, S, F) => Informed(x, S, G)
<1>1. LeftWithout(x, t, c, S)
  BY WithoutCall, Zenon
<1>2. QED
  BY <1>1 DEF LeftWithout, TabOK, Informed

-----------------------------------------------------------------------------
(* The server answers a call; the answer waits to be taken, if anybody     *)
(* still wants it.                                                         *)
Answered(t, c, a) ==
  [t EXCEPT !.calls = IF c.live THEN (@ \ {c}) \cup {[c EXCEPT !.answer = a]} ELSE @ \ {c}]

Stores(stored, c, S) == stored <=> (c.kind \in {"seed", "save"} /\ c.base = Len(S))

LEMMA ServeOK ==
  ASSUME NEW S \in Seq(Documents), NEW T \in Seq(Documents), NEW F,
         NEW t, TabOK(t, S, F), NEW c \in t.calls, c.answer = None,
         NEW stored \in BOOLEAN, Stores(stored, c, S), T = IF stored THEN Append(S, c.doc) ELSE S,
         NEW x, x = Answered(t, c, [stored |-> stored, rev |-> Len(T)])
  PROVE  TabOK(x, T, F) /\ (~stored /\ Informed(t, S, F) => Informed(x, T, F))
<1>0. stored <=> (c.kind \in {"seed", "save"} /\ c.base = Len(S))
  BY DEF Stores
<1>1. t \in Tabs /\ t.calls \subseteq Calls /\ c \in Calls /\ Len(S) \in Nat /\ Len(T) \in Nat
  BY DEF TabOK, Core, Tabs
<1>2. Extends(T, S) /\ (stored => Len(T) = Len(S) + 1 /\ T[Len(T)] = c.doc) /\ (~stored => T = S)
  <2>1. c.doc \in Documents
    BY <1>1 DEF Calls
  <2>2. CASE stored
    <3>1. T = Append(S, c.doc)
      BY <2>2
    <3>2. QED
      BY <1>1, <2>1, <2>2, <3>1 DEF Extends
  <2>3. CASE ~stored
    BY <1>1, <2>3 DEF Extends
  <2>4. QED
    BY <2>2, <2>3
<1>3. PICK r, a : r = [stored |-> stored, rev |-> Len(T)] /\ a = [c EXCEPT !.answer = r]
  OBVIOUS
<1>4. /\ a \in Calls /\ a.kind = c.kind /\ a.doc = c.doc /\ a.base = c.base /\ a.live = c.live
      /\ a.blind = c.blind
      /\ a.answer = r /\ r.stored = stored /\ r.rev = Len(T)
  BY <1>1, <1>3 DEF Calls
<1>5. PICK s : s = IF c.live THEN (t.calls \ {c}) \cup {a} ELSE t.calls \ {c}
  OBVIOUS
<1>6. x = [t EXCEPT !.calls = s] /\ s \subseteq Calls
  BY <1>1, <1>3, <1>4, <1>5 DEF Answered
<1>7. /\ x \in Tabs
      /\ x.ready = t.ready /\ x.layout = t.layout /\ x.next = t.next /\ x.queued = t.queued
      /\ x.crossed = t.crossed
      /\ x.rev = t.rev /\ x.hydrated = t.hydrated /\ x.applying = t.applying /\ x.timer = t.timer
      /\ x.calls = s
  BY <1>1, <1>6 DEF Tabs
<1>8. Core(t, T)
  BY <1>2, StillKnown DEF TabOK
<1>9. Known(x, T)
  BY <1>7, <1>8 DEF Core, Known
<1>10. Carries(c, S) /\ Carries(c, T) /\ Timely(t, c)
  BY <1>8 DEF TabOK, Core
<1>11. c.live => Carries(a, T)
  <2>1. c.kind = "hydrate" \/ Len(T) > 0
    <3>1. c.kind \in {"hydrate", "seed", "save", "pull"} /\ c.base \in Nat
      BY <1>1 DEF Calls
    <3>2. CASE c.kind = "seed"
      <4>1. c.base = 0
        BY <1>10, <3>2 DEF Carries
      <4>2. stored \/ Len(S) > 0
        BY <1>0, <1>1, <3>2, <4>1
      <4>3. QED
        BY <1>1, <1>2, <4>2
    <3>3. CASE c.kind \in {"save", "pull"}
      BY <1>1, <1>10, <3>3 DEF Carries
    <3>4. QED
      BY <3>1, <3>2, <3>3
  <2>2. stored => T[Len(T)] = c.doc
    BY <1>2
  <2>3. QED
    BY <1>1, <1>4, <1>10, <2>1, <2>2 DEF Carries
<1>12. \A d \in x.calls : Carries(d, T)
  BY <1>5, <1>7, <1>8, <1>11 DEF Core
<1>13. \A d \in x.calls : Timely(x, d)
  <2>1. \A d \in t.calls : Timely(x, d)
    BY <1>7 DEF TabOK, Timely
  <2>2. Timely(x, a)
    <3>1. t.rev <= Len(T)
      BY <1>8 DEF Core, Known
    <3>2. c.kind = "seed" /\ stored => ~t.applying
      <4>1. c.kind = "seed" /\ stored => ~(Len(S) > 0)
        BY <1>0, <1>1, <1>10 DEF Carries
      <4>2. t.applying => Len(S) > 0
        BY DEF TabOK, Core, Known
      <4>3. QED
        BY <4>1, <4>2
    <3>3. QED
      BY <1>4, <1>7, <1>10, <3>1, <3>2 DEF Timely
  <2>3. QED
    BY <1>5, <1>7, <2>1, <2>2
<1>14. ASSUME NEW kinds
       PROVE  /\ Live(x, kinds) = {} <=> Live(t, kinds) = {}
              /\ (\A d, e \in Live(t, kinds) : d = e) => \A d, e \in Live(x, kinds) : d = e
  <2>1. CASE c \in Live(t, kinds)
    <3>1. Live(x, kinds) = (Live(t, kinds) \ {c}) \cup {a}
      BY <1>4, <1>5, <1>7, <2>1 DEF Live
    <3>2. QED
      BY <2>1, <3>1
  <2>2. CASE c \notin Live(t, kinds)
    <3>1. Live(x, kinds) = Live(t, kinds)
      BY <1>4, <1>5, <1>7, <2>2 DEF Live
    <3>2. QED
      BY <3>1
  <2>3. QED
    BY <2>1, <2>2
<1>15. Settled(x)
  BY <1>7, <1>14 DEF TabOK, Settled
<1>16. Hydrating(t) => Hydrating(x)
  BY <1>7, <1>14 DEF Hydrating
<1>17. EditKept(t, S) => EditKept(x, T)
  <2>1. t.rev \in 1 .. Len(S) => t.rev \in 1 .. Len(T) /\ T[t.rev] = S[t.rev]
    BY <1>1, <1>2 DEF Extends
  <2>2. \A d \in t.calls : d.live => d \in x.calls \/ (d = c /\ a \in x.calls)
    BY <1>5, <1>7
  <2>3. QED
    BY <1>4, <1>7, <2>1, <2>2 DEF EditKept
<1>18. ~stored /\ Informed(t, S, F) => Informed(x, T, F)
  <2>1. \A d \in t.calls : d.kind = "pull" => d \in x.calls \/ (d = c /\ a \in x.calls)
    <3>1. c.kind = "pull" => c.live
      BY <1>10 DEF Carries
    <3>2. QED
      BY <1>5, <1>7, <3>1
  <2>2. SUFFICES ASSUME ~stored, Informed(t, S, F) PROVE Informed(x, S, F)
    BY <1>2
  <2>3. a.kind = c.kind /\ a.answer.rev = Len(S)
    BY <1>2, <1>4, <2>2
  <2>4. x.ready = t.ready /\ x.rev = t.rev
    BY <1>7
  <2>5. QED
    BY <2>1, <2>2, <2>3, <2>4 DEF Informed
<1>19. QED
  BY <1>7, <1>9, <1>12, <1>13, <1>15, <1>16, <1>17, <1>18 DEF TabOK, Core

-----------------------------------------------------------------------------
(* A step of one browser, and of the server with it.                       *)
LEMMA OneBrowser ==
  ASSUME Inv, NEW b \in Browser, NEW x,
         tab' = [tab EXCEPT ![b] = x], TabOK(x, saved', faults'),
         saved' \in Seq(Documents), Extends(saved', saved), SavesBuildOnEachOther',
         careless' \subseteq 1 .. Revision', saved' = saved \/ told' = {},
         told' \subseteq told \cup {b}, b \in told' => Informed(x, saved', faults'),
         heard' \in [Browser -> Nat \cup {None}],
         \A d \in Browser \ {b} : heard'[d] = heard[d], heard'[b] # None => x.ready,
         edits' \in Nat, edits' <= MaxEdits,
         faults \subseteq faults', faults' \subseteq Faults, IsFiniteSet(faults')
  PROVE  Inv'
<1>1. x \in Tabs
  BY DEF TabOK, Core
<1>2. tab \in [Browser -> Tabs] /\ told \subseteq Browser
  BY DEF Inv, Types
<1>3. tab'[b] = x /\ \A d \in Browser \ {b} : tab'[d] = tab[d]
  BY <1>2
<1>4. Types'
  BY <1>1, <1>2 DEF Types
<1>5. BrowsersOK'
  <2>1. \A d \in Browser \ {b} : TabOK(tab[d], saved', faults')
    <3>1. ASSUME NEW d \in Browser \ {b} PROVE TabOK(tab[d], saved', faults')
      <4>1. TabOK(tab[d], saved, faults) /\ saved \in Seq(Documents)
        BY DEF Inv, BrowsersOK, Types
      <4>2. QED
        BY <4>1, StillOK
    <3>2. QED
      BY <3>1
  <2>2. QED
    BY <1>3, <2>1 DEF BrowsersOK
<1>6. StreamsOK'
  BY <1>3 DEF Inv, StreamsOK
<1>7. ToldOK'
  <2>1. ASSUME NEW d \in told', d # b PROVE Informed(tab[d], saved', faults')
    <3>1. d \in told /\ saved' = saved
      BY <2>1
    <3>2. Informed(tab[d], saved, faults)
      BY <3>1 DEF Inv, ToldOK
    <3>3. QED
      BY <3>1, <3>2 DEF Informed
  <2>2. QED
    BY <1>2, <1>3, <2>1 DEF ToldOK
<1>8. QED
  BY <1>4, <1>5, <1>6, <1>7 DEF Inv

(* Most steps leave the documents alone.                                   *)
LEMMA SameDocuments ==
  ASSUME Inv, saved' = saved, careless' = careless
  PROVE  /\ saved' \in Seq(Documents) /\ Extends(saved', saved) /\ SavesBuildOnEachOther'
         /\ careless' \subseteq 1 .. Revision'
<1>1. saved \in Seq(Documents) /\ Len(saved) \in Nat
  BY DEF Inv, Types
<1>2. SavesBuildOnEachOther' /\ careless' \subseteq 1 .. Revision'
  BY DEF Inv, Types, SavesBuildOnEachOther, Revision
<1>3. QED
  BY <1>1, <1>2 DEF Extends

LEMMA FaultSet ==
  ASSUME NEW kind, Fault(kind), faults \subseteq Faults
  PROVE  /\ faults' = {kind} /\ faults \subseteq faults'
         /\ faults' \subseteq Faults /\ IsFiniteSet(faults')
BY FS_Singleton DEF Fault

LEMMA WithinBound ==
  ASSUME Inv, Within, MaxEdits \in Nat
  PROVE  edits \in Nat /\ edits + 1 \in 1 .. MaxEdits
<1>1. Cardinality(faults) \in Nat
  BY FS_CardinalityType DEF Inv, Types
<1>2. QED
  BY <1>1 DEF Inv, Types, Within

(* One lemma for each action.                                              *)
LEMMA RenderInv ==
  ASSUME Inv, NEW b \in Browser, Render(b)
  PROVE  Inv'
<1>1. PICK x : x = Rendered(tab[b])
  OBVIOUS
<1>2. Core(tab[b], saved) /\ saved \in Seq(Documents)
  BY DEF Inv, BrowsersOK, Types, TabOK
<1>3. TabOK(x, saved, faults) /\ (Informed(tab[b], saved, faults) => Informed(x, saved, faults))
  <2>1. tab[b].hydrated /\ tab[b].queued # "layout" => ~tab[b].applying
    BY DEF Inv, BrowsersOK, TabOK, Settled
  <2>2. QED
    BY <1>1, <1>2, <2>1, RenderedOK
<1>4. IsRendered(x, tab[b])
  <2>1. tab[b] \in Tabs
    BY <1>2 DEF Core
  <2>2. QED
    BY <1>1, <2>1, RenderedFields
<1>5. /\ saved' \in Seq(Documents) /\ Extends(saved', saved) /\ SavesBuildOnEachOther'
      /\ careless' \subseteq 1 .. Revision'
  BY SameDocuments DEF Render
<1>6. x.ready = tab[b].ready
  BY <1>4 DEF IsRendered
<1>7. b \in told => Informed(x, saved, faults)
  BY <1>3 DEF Inv, ToldOK
<1>8. heard[b] # None => x.ready
  BY <1>6 DEF Inv, StreamsOK
<1>9. /\ tab' = [tab EXCEPT ![b] = x] /\ saved' = saved
      /\ told' = told /\ heard' = heard /\ edits' = edits /\ faults' = faults
  BY <1>1 DEF Render, stream, bounds
<1>10. QED
  BY <1>3, <1>5, <1>7, <1>8, <1>9, OneBrowser DEF Inv, Types

LEMMA EditInv ==
  ASSUME Inv, BoundsAssumption, NEW b \in Browser, Edit(b)
  PROVE  Inv'
<1>1. edits' = edits + 1 /\ edits + 1 \in 1 .. MaxEdits /\ edits' \in Nat
  BY WithinBound DEF Edit, BoundsAssumption
<1>2. PICK t : t = tab[b]
  OBVIOUS
<1>3. /\ TabOK(t, saved, faults) /\ saved \in Seq(Documents) /\ t \in Tabs
      /\ t.layout \in Documents /\ t.next \in Documents
  BY <1>2 DEF Inv, BrowsersOK, Types, TabOK, Core, Tabs
<1>4. PICK seen \in {t.layout, t.next} : Meanwhile(b, Edited(t, seen \cup {edits'}))
  BY <1>2 DEF Edit
<1>5. PICK doc \in Documents : doc = seen \cup {edits'}
  BY <1>1, <1>3 DEF Documents
<1>6. PICK y : y = Edited(t, doc)
  OBVIOUS
<1>7. PICK x : /\ tab' = [tab EXCEPT ![b] = x] /\ told' \subseteq told
               /\ TabOK(x, saved, faults) /\ x.ready = t.ready
               /\ b \in told' => (Informed(t, saved, faults) => Informed(x, saved, faults))
  <2>1. CASE t.queued = "layout"
    <3>1. PICK x : x = [y EXCEPT !.crossed = TRUE]
      OBVIOUS
    <3>2. Loose(y, saved)
      BY <1>3, <1>6, <2>1, LooseEdited
    <3>3. TabOK(x, saved, faults) /\ x.ready = y.ready
      BY <3>1, <3>2, CrossedOK
    <3>4. IsEdited(y, t, doc)
      BY <1>3, <1>6, EditedFields
    <3>5. y.ready = t.ready
      BY <3>4 DEF IsEdited
    <3>6. tab' = [tab EXCEPT ![b] = x] /\ told' = told \ {b}
      BY <1>2, <1>4, <1>5, <1>6, <2>1, <3>1 DEF Meanwhile
    <3>7. QED
      BY <3>3, <3>5, <3>6
  <2>2. CASE t.queued # "layout"
    <3>1. y = Edited(t, seen \cup {edits'}) /\ seen \cup {edits'} \in Documents
      BY <1>5, <1>6
    <3>2. /\ TabOK(y, saved, faults) /\ y.ready = t.ready
          /\ Informed(t, saved, faults) => Informed(y, saved, faults)
      BY <1>3, <2>2, <3>1, EditOK
    <3>3. tab' = [tab EXCEPT ![b] = y] /\ told' = told
      BY <1>2, <1>4, <1>5, <1>6, <2>2 DEF Meanwhile
    <3>4. QED
      BY <3>2, <3>3
  <2>3. QED
    BY <2>1, <2>2
<1>8. /\ saved' \in Seq(Documents) /\ Extends(saved', saved) /\ SavesBuildOnEachOther'
      /\ careless' \subseteq 1 .. Revision'
  BY SameDocuments DEF Edit
<1>9. b \in told' => Informed(x, saved, faults)
  BY <1>2, <1>7 DEF Inv, ToldOK
<1>10. heard[b] # None => x.ready
  BY <1>2, <1>7 DEF Inv, StreamsOK
<1>11. saved' = saved /\ heard' = heard /\ faults' = faults
  BY DEF Edit
<1>12. edits' \in Nat /\ edits' <= MaxEdits
  BY <1>1
<1>13. QED
  BY <1>7, <1>8, <1>9, <1>10, <1>11, <1>12, OneBrowser DEF Inv, Types

LEMMA DueInv ==
  ASSUME Inv, NEW b \in Browser, Due(b)
  PROVE  Inv'
<1>1. PICK x : x = Call([tab[b] EXCEPT !.timer = FALSE], "save", tab[b].layout, tab[b].rev)
  OBVIOUS
<1>2. TabOK(tab[b], saved, faults) /\ saved \in Seq(Documents) /\ tab[b].timer
  BY DEF Inv, BrowsersOK, Types, Due
<1>3. /\ TabOK(x, saved, faults) /\ x.ready = tab[b].ready
      /\ Informed(tab[b], saved, faults) => Informed(x, saved, faults)
  BY <1>1, <1>2, DueOK
<1>4. /\ saved' \in Seq(Documents) /\ Extends(saved', saved) /\ SavesBuildOnEachOther'
      /\ careless' \subseteq 1 .. Revision'
  BY SameDocuments DEF Due
<1>5. b \in told => Informed(x, saved, faults)
  BY <1>3 DEF Inv, ToldOK
<1>6. heard[b] # None => x.ready
  BY <1>3 DEF Inv, StreamsOK
<1>7. /\ tab' = [tab EXCEPT ![b] = x] /\ saved' = saved
      /\ told' = told /\ heard' = heard /\ edits' = edits /\ faults' = faults
  BY <1>1 DEF Due, stream, bounds
<1>8. QED
  BY <1>3, <1>4, <1>5, <1>6, <1>7, OneBrowser DEF Inv, Types

LEMMA EnterInv ==
  ASSUME Inv, NEW b \in Browser, Enter(b)
  PROVE  Inv'
<1>1. PICK x, t : t = tab[b] /\ x = Rendered([t EXCEPT !.ready = TRUE])
  OBVIOUS
<1>2. TabOK(t, saved, faults) /\ saved \in Seq(Documents) /\ ~t.ready
  BY <1>1 DEF Inv, BrowsersOK, Types, Enter
<1>3. TabOK(x, saved, faults)
  <2>1. PICK v \in BOOLEAN : v = TRUE
    OBVIOUS
  <2>2. x = Rendered([t EXCEPT !.ready = v]) /\ (v => ~t.ready)
    BY <1>1, <1>2, <2>1
  <2>3. QED
    BY <1>2, <2>2, PhaseOK
<1>4. /\ saved' \in Seq(Documents) /\ Extends(saved', saved) /\ SavesBuildOnEachOther'
      /\ careless' \subseteq 1 .. Revision'
  BY SameDocuments DEF Enter
<1>5. b \notin told /\ heard[b] = None
  BY <1>1, <1>2 DEF Inv, ToldOK, Informed, StreamsOK
<1>6. /\ tab' = [tab EXCEPT ![b] = x] /\ saved' = saved
      /\ told' = told /\ heard' = heard /\ edits' = edits /\ faults' = faults
  BY <1>1 DEF Enter, stream, bounds
<1>7. QED
  BY <1>3, <1>4, <1>5, <1>6, OneBrowser DEF Inv, Types

LEMMA LeaveInv ==
  ASSUME Inv, NEW b \in Browser, Leave(b)
  PROVE  Inv'
<1>1. PICK x : x = Rendered([tab[b] EXCEPT !.ready = FALSE])
  OBVIOUS
<1>2. TabOK(tab[b], saved, faults) /\ saved \in Seq(Documents)
  BY DEF Inv, BrowsersOK, Types
<1>3. TabOK(x, saved, faults')
  BY <1>1, <1>2, PhaseOK
<1>4. /\ saved' \in Seq(Documents) /\ Extends(saved', saved) /\ SavesBuildOnEachOther'
      /\ careless' \subseteq 1 .. Revision'
  BY SameDocuments DEF Leave
<1>5. faults \subseteq faults' /\ faults' \subseteq Faults /\ IsFiniteSet(faults')
  BY FaultSet DEF Leave, Inv, Types
<1>6. /\ tab' = [tab EXCEPT ![b] = x] /\ saved' = saved /\ told' = told \ {b} /\ edits' = edits
      /\ heard' = [heard EXCEPT ![b] = None]
  BY <1>1 DEF Leave
<1>7. /\ heard' \in [Browser -> Nat \cup {None}] /\ heard'[b] = None
      /\ \A d \in Browser \ {b} : heard'[d] = heard[d]
  BY <1>6 DEF Inv, Types
<1>8. QED
  BY <1>3, <1>4, <1>5, <1>6, <1>7, OneBrowser DEF Inv, Types

LEMMA ConnectInv ==
  ASSUME Inv, NEW b \in Browser, Connect(b)
  PROVE  Inv'
<1>1. /\ TabOK(tab[b], saved, faults) /\ saved \in Seq(Documents) /\ tab \in [Browser -> Tabs]
      /\ heard \in [Browser -> Nat \cup {None}] /\ Revision \in Nat
  BY DEF Inv, BrowsersOK, Types, Revision
<1>2. /\ saved' \in Seq(Documents) /\ Extends(saved', saved) /\ SavesBuildOnEachOther'
      /\ careless' \subseteq 1 .. Revision'
  BY SameDocuments DEF Connect
<1>3. tab' = [tab EXCEPT ![b] = tab[b]]
  BY <1>1 DEF Connect
<1>4. /\ saved' = saved /\ told' = told /\ edits' = edits /\ faults' = faults /\ tab[b].ready
      /\ heard' = [heard EXCEPT ![b] = Revision]
  BY DEF Connect, bounds
<1>5. /\ heard' \in [Browser -> Nat \cup {None}]
      /\ \A d \in Browser \ {b} : heard'[d] = heard[d]
  BY <1>1, <1>4
<1>6. b \in told => Informed(tab[b], saved, faults)
  BY DEF Inv, ToldOK
<1>7. QED
  BY <1>1, <1>2, <1>3, <1>4, <1>5, <1>6, OneBrowser DEF Inv, Types

LEMMA HearInv ==
  ASSUME Inv, NEW b \in Browser, Hear(b)
  PROVE  Inv'
<1>1. PICK x : x = Call(tab[b], "pull", {}, 0)
  OBVIOUS
<1>2. /\ TabOK(tab[b], saved, faults) /\ saved \in Seq(Documents) /\ tab \in [Browser -> Tabs]
      /\ heard \in [Browser -> Nat \cup {None}] /\ heard[b] \in Nat /\ tab[b].ready
      /\ Len(saved) \in Nat
  BY DEF Inv, BrowsersOK, StreamsOK, Types, Hear
<1>3. Len(saved) > 0
  BY <1>2 DEF Hear, Revision
<1>4. TabOK(x, saved, faults) /\ Informed(x, saved, faults)
  BY <1>1, <1>2, <1>3, PullOK
<1>5. /\ saved' \in Seq(Documents) /\ Extends(saved', saved) /\ SavesBuildOnEachOther'
      /\ careless' \subseteq 1 .. Revision'
  BY SameDocuments DEF Hear
<1>6. /\ tab' = [tab EXCEPT ![b] = x] /\ saved' = saved /\ told' \subseteq told \cup {b}
      /\ heard' = [heard EXCEPT ![b] = @ + 1]
      /\ edits' = edits /\ faults' = faults
  BY <1>1 DEF Hear, bounds
<1>7. /\ heard' \in [Browser -> Nat \cup {None}]
      /\ \A d \in Browser \ {b} : heard'[d] = heard[d]
  BY <1>2, <1>6
<1>8. x.ready
  BY <1>4 DEF Informed
<1>9. QED
  BY <1>4, <1>5, <1>6, <1>7, <1>8, OneBrowser DEF Inv, Types

LEMMA DropInv ==
  ASSUME Inv, NEW b \in Browser, Drop(b)
  PROVE  Inv'
<1>1. /\ TabOK(tab[b], saved, faults) /\ saved \in Seq(Documents) /\ tab \in [Browser -> Tabs]
      /\ heard \in [Browser -> Nat \cup {None}] /\ Revision \in Nat
  BY DEF Inv, BrowsersOK, Types, Revision
<1>2. /\ saved' \in Seq(Documents) /\ Extends(saved', saved) /\ SavesBuildOnEachOther'
      /\ careless' \subseteq 1 .. Revision'
  BY SameDocuments DEF Drop
<1>3. faults \subseteq faults' /\ faults' \subseteq Faults /\ IsFiniteSet(faults')
      /\ ("fail" \in faults' <=> "fail" \in faults)
  <2>1. Fault("drop") /\ faults = {} /\ faults' = {"drop"}
    BY DEF Drop, Fault
  <2>2. QED
    BY <2>1, FaultSet
<1>4. tab' = [tab EXCEPT ![b] = tab[b]]
  BY <1>1 DEF Drop
<1>5. /\ saved' = saved /\ told' = told /\ edits' = edits
      /\ heard' = [heard EXCEPT ![b] = Revision] /\ heard[b] # None
  BY DEF Drop
<1>6. TabOK(tab[b], saved, faults')
  BY <1>1, <1>3 DEF TabOK
<1>7. b \in told => Informed(tab[b], saved, faults')
  BY <1>3 DEF Inv, ToldOK, Informed
<1>8. /\ heard' \in [Browser -> Nat \cup {None}] /\ tab[b].ready
      /\ \A d \in Browser \ {b} : heard'[d] = heard[d]
  BY <1>1, <1>5 DEF Inv, StreamsOK
<1>9. QED
  BY <1>2, <1>3, <1>4, <1>5, <1>6, <1>7, <1>8, OneBrowser DEF Inv, Types

LEMMA FailInv ==
  ASSUME Inv, NEW b \in Browser, NEW c, Fail(b, c)
  PROVE  Inv'
<1>1. PICK x : x = Without(tab[b], c)
  OBVIOUS
<1>2. /\ TabOK(tab[b], saved, faults) /\ saved \in Seq(Documents) /\ tab \in [Browser -> Tabs]
  BY DEF Inv, BrowsersOK, Types
<1>3. /\ faults \subseteq faults' /\ faults' \subseteq Faults /\ IsFiniteSet(faults')
      /\ "fail" \in faults'
  BY FaultSet DEF Fail, Inv, Types
<1>4. TabOK(x, saved, faults') /\ (Informed(tab[b], saved, faults) => Informed(x, saved, faults'))
  BY <1>1, <1>2, <1>3, FailOK
<1>5. /\ saved' \in Seq(Documents) /\ Extends(saved', saved) /\ SavesBuildOnEachOther'
      /\ careless' \subseteq 1 .. Revision'
  BY SameDocuments DEF Fail
<1>6. tab' = [tab EXCEPT ![b] = x]
  BY <1>1 DEF Fail
<1>7. saved' = saved /\ told' = told /\ edits' = edits /\ heard' = heard
  BY DEF Fail, stream
<1>8. x.ready = tab[b].ready
  BY <1>1, <1>2, WithoutCall DEF LeftWithout
<1>9. b \in told => Informed(x, saved, faults')
  BY <1>4 DEF Inv, ToldOK
<1>10. heard[b] # None => x.ready
  BY <1>8 DEF Inv, StreamsOK
<1>11. QED
  BY <1>3, <1>4, <1>5, <1>6, <1>7, <1>9, <1>10, OneBrowser DEF Inv, Types

(* What an answer leaves as it is.                                         *)
LEMMA DoneReady ==
  ASSUME saved \in Seq(Documents), NEW u \in Tabs, NEW c \in Calls, c.answer # None,
         Carries(c, saved), NEW x, x = Done(u, c)
  PROVE  x.ready = u.ready
<1>1. PICK n : n = c.answer.rev
  OBVIOUS
<1>2. /\ n \in Nat /\ n <= Len(saved) /\ (c.kind # "hydrate" => n > 0) /\ Len(saved) \in Nat
      /\ c.kind \in Kinds \cup {"pull"}
  BY <1>1 DEF Calls, Carries, Kinds
<1>3. ASSUME NEW v \in Tabs, v.ready = u.ready, n > 0, NEW y, y = Accepted(v, n)
      PROVE  y.ready = u.ready
  <2>1. n \in 1 .. Revision
    BY <1>2, <1>3 DEF Revision
  <2>2. IsAccepted(y, v, n)
    BY <1>3, <2>1, AcceptedFields
  <2>3. QED
    BY <1>3, <2>2 DEF IsAccepted
<1>4. CASE c.kind = "pull"
  <2>1. x = u \/ x = Accepted(u, n)
    BY <1>1, <1>4 DEF Done
  <2>2. QED
    BY <1>2, <1>3, <1>4, <2>1
<1>5. CASE c.kind = "hydrate" /\ n > 0
  <2>1. PICK v : v = [u EXCEPT !.hydrated = TRUE]
    OBVIOUS
  <2>2. v \in Tabs /\ v.ready = u.ready
    BY <2>1 DEF Tabs
  <2>3. x = Accepted(v, n)
    BY <1>1, <1>5, <2>1 DEF Done
  <2>4. QED
    BY <1>3, <1>5, <2>2, <2>3
<1>6. CASE c.kind = "hydrate" /\ ~(n > 0)
  <2>1. PICK v : v = [u EXCEPT !.rev = 0]
    OBVIOUS
  <2>2. x = [v EXCEPT !.calls = @ \cup {NewCall("seed", u.layout, 0, FALSE)}]
    BY <1>1, <1>6, <2>1 DEF Done, Call, NewCall
  <2>3. DOMAIN u = DOMAIN v /\ v.ready = u.ready
    BY <2>1 DEF Tabs
  <2>4. QED
    BY <2>2, <2>3 DEF Tabs
<1>7. CASE c.kind = "seed"
  <2>1. x = u \/ x = [u EXCEPT !.rev = n, !.hydrated = TRUE]
    BY <1>1, <1>7 DEF Done
  <2>2. QED
    BY <2>1 DEF Tabs
<1>8. CASE c.kind = "save"
  <2>1. x = [u EXCEPT !.rev = n, !.crossed = FALSE] \/ x = Accepted(u, n)
    BY <1>1, <1>8 DEF Done
  <2>2. CASE x = [u EXCEPT !.rev = n, !.crossed = FALSE]
    BY <2>2 DEF Tabs
  <2>3. CASE x = Accepted(u, n)
    BY <1>2, <1>3, <1>8, <2>3
  <2>4. QED
    BY <2>1, <2>2, <2>3
<1>9. QED
  BY <1>2, <1>4, <1>5, <1>6, <1>7, <1>8 DEF Kinds

LEMMA AnswerInv ==
  ASSUME Inv, NEW b \in Browser, NEW c, Answer(b, c)
  PROVE  Inv'
<1>1. PICK t, u, y : t = tab[b] /\ u = Without(t, c) /\ y = Done(u, c)
  OBVIOUS
<1>2. /\ TabOK(t, saved, faults) /\ saved \in Seq(Documents)
      /\ c \in t.calls /\ c.answer # None
      /\ IF c.kind = "pull" THEN tab' = [tab EXCEPT ![b] = y] /\ told' = told ELSE Meanwhile(b, y)
  BY <1>1 DEF Inv, BrowsersOK, Types, Answer
<1>3. c \in Calls /\ c.kind \in {"hydrate", "seed", "save", "pull"}
  <2>1. t \in Tabs
    BY <1>2 DEF TabOK, Core
  <2>2. QED
    BY <1>2, <2>1 DEF Tabs, Calls
<1>4. y.ready = t.ready
  <2>1. u \in Tabs /\ u.ready = t.ready
    BY <1>1, <1>2, WithoutCall DEF LeftWithout, Core
  <2>2. Carries(c, saved)
    BY <1>2 DEF TabOK, Core
  <2>3. QED
    BY <1>1, <1>2, <1>3, <2>1, <2>2, DoneReady
<1>5. PICK x : /\ tab' = [tab EXCEPT ![b] = x] /\ told' \subseteq told
               /\ TabOK(x, saved, faults) /\ x.ready = t.ready
               /\ b \in told' => (Informed(t, saved, faults) => Informed(x, saved, faults))
  <2>1. CASE c.kind # "pull" /\ t.queued = "layout"
    <3>1. PICK x : x = [y EXCEPT !.crossed = TRUE]
      OBVIOUS
    <3>2. Loose(y, saved)
      BY <1>1, <1>2, <2>1, LooseAnswered
    <3>3. TabOK(x, saved, faults) /\ x.ready = y.ready
      BY <3>1, <3>2, CrossedOK
    <3>4. tab' = [tab EXCEPT ![b] = x] /\ told' = told \ {b}
      BY <1>1, <1>2, <2>1, <3>1 DEF Meanwhile
    <3>5. QED
      BY <1>4, <3>3, <3>4
  <2>2. CASE c.kind = "pull" \/ t.queued # "layout"
    <3>1. tab' = [tab EXCEPT ![b] = y] /\ told' = told
      BY <1>1, <1>2, <2>2 DEF Meanwhile
    <3>2. /\ TabOK(y, saved, faults)
          /\ Informed(t, saved, faults) => Informed(y, saved, faults)
      <4>1. CASE c.kind = "pull"
        BY <1>1, <1>2, <4>1, PullAnswered
      <4>2. CASE c.kind = "hydrate"
        BY <1>1, <1>2, <2>2, <4>2, HydrateAnswered
      <4>3. CASE c.kind = "seed"
        BY <1>1, <1>2, <2>2, <4>3, SeedAnswered
      <4>4. CASE c.kind = "save"
        BY <1>1, <1>2, <2>2, <4>4, SaveAnswered
      <4>5. QED
        BY <1>3, <4>1, <4>2, <4>3, <4>4
    <3>3. QED
      BY <1>4, <3>1, <3>2
  <2>3. QED
    BY <2>1, <2>2
<1>6. /\ saved' \in Seq(Documents) /\ Extends(saved', saved) /\ SavesBuildOnEachOther'
      /\ careless' \subseteq 1 .. Revision'
  BY SameDocuments DEF Answer
<1>7. b \in told' => Informed(x, saved, faults)
  BY <1>1, <1>5 DEF Inv, ToldOK
<1>8. heard[b] # None => x.ready
  BY <1>1, <1>5 DEF Inv, StreamsOK
<1>9. saved' = saved /\ heard' = heard /\ edits' = edits /\ faults' = faults
  BY DEF Answer, bounds
<1>10. QED
  BY <1>5, <1>6, <1>7, <1>8, <1>9, OneBrowser DEF Inv, Types

(* putLayout: only what contains the last document is stored.              *)
LEMMA ServeInv ==
  ASSUME Inv, NEW b \in Browser, NEW c, Serve(b, c)
  PROVE  Inv'
<1>1. PICK stored \in BOOLEAN : Stores(stored, c, saved)
  BY DEF Stores
<1>2. PICK x : x = Answered(tab[b], c, [stored |-> stored, rev |-> Len(saved')])
  OBVIOUS
<1>3. /\ TabOK(tab[b], saved, faults) /\ saved \in Seq(Documents) /\ tab \in [Browser -> Tabs]
      /\ c \in tab[b].calls /\ c.answer = None /\ Len(saved) \in Nat
  BY DEF Inv, BrowsersOK, Types, Serve
<1>4. stored = (c.kind \in {"seed", "save"} /\ Fresh(c.base))
  BY <1>1 DEF Stores, Fresh, Revision
<1>5. /\ saved' = (IF stored THEN Append(saved, c.doc) ELSE saved)
      /\ careless' = (IF stored /\ c.blind THEN careless \cup {Revision'} ELSE careless)
      /\ told' = (IF stored THEN {} ELSE told)
      /\ tab' = [tab EXCEPT ![b] = x]
      /\ heard' = heard /\ edits' = edits /\ faults' = faults
  BY <1>2, <1>4 DEF Serve, Answered, bounds
<1>6. c \in Calls /\ c.doc \in Documents /\ Carries(c, saved)
  BY <1>3 DEF TabOK, Core, Tabs, Calls
<1>7. saved' \in Seq(Documents)
  BY <1>3, <1>5, <1>6
<1>8. Extends(saved', saved)
  BY <1>3, <1>5 DEF Extends
<1>9. TabOK(x, saved', faults) /\ (~stored /\ Informed(tab[b], saved, faults)
                                    => Informed(x, saved', faults))
  <2>1. PICK T : T = saved'
    OBVIOUS
  <2>2. T \in Seq(Documents) /\ T = IF stored THEN Append(saved, c.doc) ELSE saved
    BY <1>5, <1>7, <2>1
  <2>3. x = Answered(tab[b], c, [stored |-> stored, rev |-> Len(T)])
    BY <1>2, <2>1
  <2>4. PICK t : t = tab[b]
    OBVIOUS
  <2>5. /\ TabOK(t, saved, faults) /\ saved \in Seq(Documents) /\ c \in t.calls /\ c.answer = None
        /\ x = Answered(t, c, [stored |-> stored, rev |-> Len(T)])
    BY <1>3, <2>3, <2>4
  <2>6. TabOK(x, T, faults)
    BY <1>1, <2>2, <2>5, ServeOK
  <2>8. ~stored /\ Informed(t, saved, faults) => Informed(x, T, faults)
    BY <1>1, <2>2, <2>5, ServeOK
  <2>7. QED
    BY <2>1, <2>4, <2>6, <2>8
<1>10. SavesBuildOnEachOther' /\ careless' \subseteq 1 .. Revision'
  <2>0. careless \subseteq 1 .. Len(saved) /\ Len(saved') \in Nat /\ Revision' = Len(saved')
    BY <1>7 DEF Inv, Types, Revision
  <2>1. CASE ~stored
    BY <1>5, <2>1 DEF Inv, Types, SavesBuildOnEachOther, Revision
  <2>2. CASE stored
    <3>1. Len(saved) > 0 /\ ~c.blind => saved[Len(saved)] \subseteq c.doc
      BY <1>1, <1>3, <1>6, <2>2 DEF Carries, Stores
    <3>2. \A i \in 1 .. Len(saved) - 1 : i + 1 \notin careless => saved[i] \subseteq saved[i + 1]
      BY DEF Inv, SavesBuildOnEachOther, Revision
    <3>3. saved' = Append(saved, c.doc) /\ Len(saved') = Len(saved) + 1
      BY <1>3, <1>5, <1>6, <2>2
    <3>4. /\ careless \subseteq careless' /\ careless' \subseteq careless \cup {Len(saved) + 1}
          /\ (c.blind => Len(saved) + 1 \in careless')
      <4>1. CASE c.blind
        BY <1>5, <2>0, <2>2, <3>3, <4>1
      <4>2. CASE ~c.blind
        BY <1>5, <2>2, <4>2
      <4>3. QED
        BY <4>1, <4>2
    <3>5. ASSUME NEW i \in 1 .. Len(saved') - 1, i + 1 \notin careless'
          PROVE  saved'[i] \subseteq saved'[i + 1]
      <4>1. i \in 1 .. Len(saved)
        BY <1>3, <3>3, <3>5
      <4>2. CASE i = Len(saved)
        <5>1. ~c.blind
          BY <3>4, <3>5, <4>2
        <5>2. QED
          BY <1>3, <1>6, <3>1, <3>3, <4>1, <4>2, <5>1
      <4>3. CASE i < Len(saved)
        <5>1. i \in 1 .. Len(saved) - 1 /\ i + 1 \notin careless
          BY <1>3, <3>4, <3>5, <4>1, <4>3
        <5>2. QED
          BY <1>3, <1>6, <3>2, <3>3, <4>1, <4>3, <5>1
      <4>4. QED
        BY <1>3, <4>1, <4>2, <4>3
    <3>6. SavesBuildOnEachOther'
      BY <3>5 DEF SavesBuildOnEachOther, Revision
    <3>7. careless' \subseteq 1 .. Revision'
      BY <1>3, <2>0, <3>3, <3>4
    <3>8. QED
      BY <3>6, <3>7
  <2>3. QED
    BY <2>1, <2>2
<1>11. x.ready = tab[b].ready
  <2>1. tab[b] \in Tabs
    BY <1>3
  <2>2. QED
    BY <1>2, <2>1 DEF Answered, Tabs
<1>12. b \in told' => Informed(x, saved', faults)
  BY <1>5, <1>9 DEF Inv, ToldOK
<1>13. heard[b] # None => x.ready
  BY <1>11 DEF Inv, StreamsOK
<1>14. (saved' = saved \/ told' = {}) /\ told' \subseteq told \cup {b}
  BY <1>5
<1>15. QED
  BY <1>5, <1>7, <1>8, <1>9, <1>10, <1>12, <1>13, <1>14, OneBrowser DEF Inv, Types

-----------------------------------------------------------------------------
LEMMA InitInv == BoundsAssumption /\ Init => Inv
<1> SUFFICES ASSUME BoundsAssumption, Init PROVE Inv
  OBVIOUS
<1>1. PICK n \in Nat : n = 0
  OBVIOUS
<1>2. ASSUME NEW b \in Browser
      PROVE  TabOK(tab[b], saved, faults) /\ tab[b] \in Tabs
  <2>1. {b} \in Documents
    BY DEF Documents
  <2>2. PICK t : t = [ready |-> FALSE, layout |-> {b}, next |-> {b}, queued |-> "nothing",
                      crossed |-> FALSE, rev |-> n, hydrated |-> FALSE, applying |-> FALSE,
                      timer |-> FALSE, calls |-> {}]
    OBVIOUS
  <2>3. tab[b] = t
    BY <1>1, <2>2 DEF Init
  <2>4. /\ t \in Tabs /\ t.rev = 0 /\ t.calls = {} /\ ~t.ready /\ ~t.hydrated /\ ~t.applying
        /\ ~t.timer /\ t.next = t.layout /\ t.queued = "nothing"
    BY <1>1, <2>1, <2>2 DEF Tabs
  <2>5. Known(t, saved)
    BY <2>4 DEF Init, Known
  <2>6. \A kinds : Live(t, kinds) = {}
    BY <2>4 DEF Live
  <2>7. Settled(t)
    BY <2>4, <2>6 DEF Settled
  <2>8. Hydrating(t) /\ EditKept(t, saved)
    BY <2>4 DEF Hydrating, EditKept
  <2>9. QED
    BY <2>3, <2>4, <2>5, <2>7, <2>8 DEF TabOK, Core
<1>3. tab \in [Browser -> Tabs]
  BY <1>2 DEF Init
<1>4. saved \in Seq(Documents) /\ IsFiniteSet(faults)
  BY FS_EmptySet DEF Init
<1>5. Types
  BY <1>3, <1>4 DEF Init, Types, BoundsAssumption
<1>6. SavesBuildOnEachOther /\ StreamsOK /\ ToldOK
  BY DEF Init, SavesBuildOnEachOther, Revision, StreamsOK, ToldOK
<1>7. QED
  BY <1>2, <1>5, <1>6 DEF Inv, BrowsersOK

LEMMA NextInv == BoundsAssumption /\ Inv /\ [Next]_vars => Inv'
<1> SUFFICES ASSUME BoundsAssumption, Inv, [Next]_vars PROVE Inv'
  OBVIOUS
<1>1. ASSUME NEW b \in Browser, Step(b) PROVE Inv'
  <2>1. CASE Edit(b)
    BY <2>1, EditInv
  <2>2. CASE Render(b)
    BY <2>2, RenderInv
  <2>3. CASE Due(b)
    BY <2>3, DueInv
  <2>4. CASE Enter(b)
    BY <2>4, EnterInv
  <2>5. CASE Leave(b)
    BY <2>5, LeaveInv
  <2>6. CASE Connect(b)
    BY <2>6, ConnectInv
  <2>7. CASE Hear(b)
    BY <2>7, HearInv
  <2>8. CASE Drop(b)
    BY <2>8, DropInv
  <2>9. ASSUME NEW c \in tab[b].calls, Serve(b, c) PROVE Inv'
    BY <2>9, ServeInv
  <2>10. ASSUME NEW c \in tab[b].calls, Answer(b, c) PROVE Inv'
    BY <2>10, AnswerInv
  <2>11. ASSUME NEW c \in tab[b].calls, Fail(b, c) PROVE Inv'
    BY <2>11, FailInv
  <2>12. QED
    BY <1>1, <2>1, <2>2, <2>3, <2>4, <2>5, <2>6, <2>7, <2>8, <2>9, <2>10, <2>11 DEF Step
<1>2. CASE UNCHANGED vars
  <2>1. /\ saved' = saved /\ careless' = careless /\ tab' = tab /\ heard' = heard
        /\ told' = told /\ edits' = edits /\ faults' = faults
    BY <1>2 DEF vars, stream, bounds
  <2>2. Types' /\ SavesBuildOnEachOther'
    BY <2>1 DEF Inv, Types, SavesBuildOnEachOther, Revision
  <2>3. BrowsersOK' /\ StreamsOK' /\ ToldOK'
    BY <2>1 DEF Inv, BrowsersOK, StreamsOK, ToldOK
  <2>4. QED
    BY <2>2, <2>3 DEF Inv
<1>3. QED
  BY <1>1, <1>2 DEF Next

(* The inductive invariant holds.                                          *)
THEOREM LayoutInvariant == Spec => []Inv
<1>1. BoundsAssumption
  BY BoundsAssumption
<1>2. Init => Inv
  BY <1>1, InitInv
<1>3. Inv /\ [Next]_vars => Inv'
  BY <1>1, NextInv
<1>4. QED
  BY <1>2, <1>3, PTL DEF Spec

(* A layout is never saved over one that its author has not seen: putLayout*)
(* takes only what was made from the current revision, and the browser puts*)
(* its revision ahead of what it shows only until a layout is rendered, or *)
(* when it has lost track of one, which makes the save blind.              *)
THEOREM SavesBuildSafe == Spec => []SavesBuildOnEachOther
<1>1. Inv => SavesBuildOnEachOther
  BY DEF Inv
<1>2. QED
  BY <1>1, LayoutInvariant, PTL

(* A browser's edit is saved, due or under way, as long as no call failed  *)
(* and nothing came between a layout's arrival and its rendering: what the *)
(* effects cancel, the run that cancels it starts again.                   *)
THEOREM EditsSafe == Spec => []EditsAreSaved
<1>1. Inv => EditsAreSaved
  BY DEF Inv, BrowsersOK, TabOK, EditKept, EditsAreSaved, Revision
<1>2. QED
  BY <1>1, LayoutInvariant, PTL

(* A browser that was told of the last layout, and has nothing under way,  *)
(* shows it, as long as no call failed and nothing has come between the    *)
(* layout's arrival and its rendering.                                     *)
THEOREM ToldSafe == Spec => []ToldMeansShown
<1>1. Inv => ToldMeansShown
  <2> SUFFICES ASSUME Inv, NEW b \in told, AtRest(tab[b]), ~tab[b].crossed,
                      "fail" \notin faults
               PROVE  tab[b].layout = saved[Revision]
    BY DEF ToldMeansShown
  <2>1. PICK t : t = tab[b]
    OBVIOUS
  <2>2. TabOK(t, saved, faults) /\ Informed(t, saved, faults) /\ Len(saved) \in Nat
    BY <2>1 DEF Inv, BrowsersOK, ToldOK, Types
  <2>3. t.queued = "nothing" /\ ~t.timer /\ t.calls = {} /\ ~t.crossed
    BY <2>1 DEF AtRest
  <2>4. t.rev = Len(saved) /\ t.rev > 0 /\ t.ready
    BY <2>2, <2>3 DEF Informed
  <2>5. t.hydrated
    BY <2>2, <2>3, <2>4 DEF TabOK, Hydrating, Live
  <2>6. t.layout = saved[t.rev]
    BY <2>2, <2>3, <2>5 DEF TabOK, EditKept
  <2>7. QED
    BY <2>1, <2>4, <2>6 DEF Revision
<1>2. QED
  BY <1>1, LayoutInvariant, PTL

-----------------------------------------------------------------------------
(* What may be shown: some panes, one of them in focus, and no session in  *)
(* two of them.                                                            *)
ViewOK(f, p) == IsView(f, p) /\ Once(f)

ViewInv ==
  ViewOK(shows, focus) /\ chosen \in Content \cup {Blank} /\ listed \subseteq Content

(* A pane is added, or shows something else, that is not shown already.    *)
LEMMA PutOK ==
  ASSUME NEW f, NEW r, ViewOK(f, r), NEW p \in Pane,
         NEW s \in Content \cup {Blank}, s \notin Shown(f)
  PROVE  ViewOK(Put(f, p, s), p) /\ s \notin Shown(f)
<1>1. PICK g : g = Put(f, p, s)
  OBVIOUS
<1>2. DOMAIN g = DOMAIN f \cup {p} /\ \A q \in DOMAIN g : g[q] = IF q = p THEN s ELSE f[q]
  BY <1>1 DEF Put
<1>3. g = [q \in DOMAIN f \cup {p} |-> g[q]]
  BY <1>1 DEF Put
<1>4. IsView(g, p)
  BY <1>2, <1>3 DEF ViewOK, IsView
<1>5. Once(g)
  <2>1. SUFFICES ASSUME NEW a \in DOMAIN g, NEW b \in DOMAIN g, g[a] = g[b], g[a] # Blank
                 PROVE  a = b
    BY DEF Once
  <2>2. CASE a = p \/ b = p
    BY <1>2, <2>1, <2>2 DEF Shown
  <2>3. CASE a # p /\ b # p
    BY <1>2, <2>1, <2>3 DEF ViewOK, Once
  <2>4. QED
    BY <2>2, <2>3
<1>6. QED
  BY <1>1, <1>4, <1>5 DEF ViewOK

(* What is committed may be shown.                                         *)
LEMMA CommitOK ==
  ASSUME NEW f, NEW p, ViewOK(f, p), NEW next \in Content \cup {Blank}, Commit(f, p, next)
  PROVE  ViewOK(shows', focus') /\ chosen' = next
<1>1. chosen' = next
  BY DEF Commit
<1>2. CASE focus' = p /\ shows' = f
  BY <1>1, <1>2
<1>3. CASE next \notin Shown(f) /\ focus' = p /\ shows' = Put(f, p, next)
  <2>1. p \in Pane
    BY DEF ViewOK, IsView
  <2>2. QED
    BY <1>1, <1>3, <2>1, PutOK
<1>4. CASE shows' = f /\ \E q \in DOMAIN f : f[q] = next /\ focus' = q
  BY <1>1, <1>4 DEF ViewOK, IsView
<1>5. QED
  BY <1>2, <1>3, <1>4 DEF Commit

(* Some of the panes, or the contents of two exchanged.                    *)
LEMMA OnlyOK ==
  ASSUME NEW f, NEW r, ViewOK(f, r), NEW S \in SUBSET DOMAIN f, NEW p \in S
  PROVE  ViewOK(Only(f, S), p)
<1>1. PICK g : g = Only(f, S)
  OBVIOUS
<1>2. DOMAIN g = S /\ g = [q \in S |-> g[q]] /\ \A q \in S : g[q] = f[q]
  BY <1>1 DEF Only
<1>3. IsView(g, p)
  BY <1>2 DEF ViewOK, IsView
<1>4. Once(g)
  BY <1>2 DEF ViewOK, Once
<1>5. QED
  BY <1>1, <1>3, <1>4 DEF ViewOK

LEMMA BlankOK ==
  ASSUME NEW f, NEW p \in Pane
  PROVE  ViewOK(Put(Only(f, {}), p, Blank), p)
<1>1. PICK g : g = Put(Only(f, {}), p, Blank)
  OBVIOUS
<1>2. g = [q \in {p} |-> Blank]
  BY <1>1 DEF Put, Only
<1>3. IsView(g, p) /\ Once(g)
  BY <1>2 DEF IsView, Once
<1>4. QED
  BY <1>1, <1>3 DEF ViewOK

LEMMA ExchangeOK ==
  ASSUME NEW f, NEW r, ViewOK(f, r), NEW p \in DOMAIN f, NEW q \in DOMAIN f, NEW t \in DOMAIN f
  PROVE  ViewOK(Exchange(f, p, q), t)
<1>1. PICK g : g = Exchange(f, p, q)
  OBVIOUS
<1>2. /\ DOMAIN g = DOMAIN f /\ g = [u \in DOMAIN f |-> g[u]]
      /\ \A u \in DOMAIN f : g[u] = IF u = q THEN f[p] ELSE IF u = p THEN f[q] ELSE f[u]
  BY <1>1 DEF Exchange
<1>3. IsView(g, t)
  BY <1>2 DEF ViewOK, IsView
<1>4. Once(g)
  <2>1. SUFFICES ASSUME NEW a \in DOMAIN g, NEW b \in DOMAIN g, g[a] = g[b], g[a] # Blank
                 PROVE  a = b
    BY DEF Once
  <2>2. \A u, v \in DOMAIN f : f[u] = f[v] /\ f[u] # Blank => u = v
    BY DEF ViewOK, Once
  <2>3. QED
    BY <1>2, <2>1, <2>2
<1>5. QED
  BY <1>1, <1>3, <1>4 DEF ViewOK

-----------------------------------------------------------------------------
LEMMA ViewInitOK == ViewInit => ViewInv
<1>1. SUFFICES ASSUME NEW p \in Pane, shows = [q \in {p} |-> Blank], focus = p,
                      chosen = Blank, listed = {}
               PROVE  ViewInv
  BY DEF ViewInit
<1>2. IsView(shows, focus) /\ Once(shows)
  BY <1>1 DEF IsView, Once
<1>3. QED
  BY <1>1, <1>2 DEF ViewInv, ViewOK

LEMMA ListOK ==
  ASSUME ViewInv, NEW live \in SUBSET Content,
         NEW next \in live \cup {chosen, Blank}, List(live, next)
  PROVE  ViewInv'
<1>1. PICK p, q \in DOMAIN shows :
        /\ q \in DOMAIN Sweep(live, p) /\ Commit(Sweep(live, p), q, next)
  BY DEF List
<1>2. PICK rest : rest = {u \in DOMAIN shows : shows[u] \in live \cup {Blank}}
  OBVIOUS
<1>3. PICK f : f = Sweep(live, p)
  OBVIOUS
<1>4. ViewOK(f, q)
  <2>1. CASE rest = {}
    <3>1. f = Put(Only(shows, {}), p, Blank)
      BY <1>2, <1>3, <2>1 DEF Sweep
    <3>2. q = p /\ p \in Pane
      BY <1>1, <1>3, <3>1 DEF Put, Only, ViewInv, ViewOK, IsView
    <3>3. QED
      BY <3>1, <3>2, BlankOK
  <2>2. CASE rest # {}
    <3>1. f = Only(shows, rest) /\ rest \in SUBSET DOMAIN shows
      BY <1>2, <1>3, <2>2 DEF Sweep
    <3>2. q \in rest
      BY <1>1, <1>3, <3>1 DEF Only
    <3>3. QED
      BY <3>1, <3>2, OnlyOK DEF ViewInv
  <2>3. QED
    BY <2>1, <2>2
<1>5. next \in Content \cup {Blank} /\ Commit(f, q, next)
  BY <1>1, <1>3 DEF ViewInv
<1>6. ViewOK(shows', focus') /\ chosen' = next
  BY <1>4, <1>5, CommitOK
<1>7. QED
  BY <1>5, <1>6 DEF ViewInv, List

LEMMA CloseOK ==
  ASSUME ViewInv, NEW p \in DOMAIN shows, Close(p)
  PROVE  ViewOK(shows', focus') /\ chosen' \in Content \cup {Blank}
<1>1. PICK rest : rest = DOMAIN shows \ {p}
  OBVIOUS
<1>2. CASE rest = {}
  <2>1. PICK q \in Pane : Commit(Put(Only(shows, {}), q, Blank), q, Blank)
    BY <1>1, <1>2 DEF Close
  <2>2. ViewOK(Put(Only(shows, {}), q, Blank), q)
    BY BlankOK
  <2>3. QED
    BY <2>1, <2>2, CommitOK
<1>3. CASE rest # {}
  <2>1. PICK q \in rest : Commit(Only(shows, rest), q, shows[q])
    BY <1>1, <1>3 DEF Close
  <2>2. ViewOK(Only(shows, rest), q) /\ shows[q] \in Content \cup {Blank}
    BY <1>1, OnlyOK DEF ViewInv, ViewOK, IsView
  <2>3. QED
    BY <2>1, <2>2, CommitOK
<1>4. QED
  BY <1>2, <1>3

LEMMA ArrangeOK == ViewInv /\ [ViewNext]_views => ViewInv'
<1>1. SUFFICES ASSUME ViewInv, [ViewNext]_views PROVE ViewInv'
  OBVIOUS
<1> DEFINE Goal == ViewOK(shows', focus') /\ chosen' \in Content \cup {Blank}
<1>2. ViewOK(shows, focus) /\ chosen \in Content \cup {Blank} /\ listed \subseteq Content
  BY <1>1 DEF ViewInv
<1>3. /\ DOMAIN shows \subseteq Pane /\ focus \in DOMAIN shows
      /\ \A p \in DOMAIN shows : shows[p] \in Content \cup {Blank}
  BY <1>2 DEF ViewOK, IsView
<1>4. \A p \in DOMAIN shows : ViewOK(shows, p)
  BY <1>2 DEF ViewOK, IsView
<1>5. ASSUME NEW p \in DOMAIN shows, NEW next \in Content \cup {Blank}, Look(p, next)
      PROVE  Goal
  BY <1>4, <1>5, CommitOK DEF Look
<1>6. ASSUME NEW p \in Pane, NEW s \in listed, Place(p, s)
      PROVE  Goal
  <2>1. s \in Content \cup {Blank} /\ s \notin Shown(shows) /\ Commit(Put(shows, p, s), p, s)
    BY <1>2, <1>6 DEF Place
  <2>2. ViewOK(Put(shows, p, s), p)
    BY <1>2, <2>1, PutOK
  <2>3. QED
    BY <2>1, <2>2, CommitOK
<1>7. ASSUME NEW p \in Pane, Divide(p)
      PROVE  Goal
  <2>1. Blank \in Content \cup {Blank} /\ Blank \notin Shown(shows)
    BY DEF Shown
  <2>2. ViewOK(Put(shows, p, Blank), p)
    BY <1>2, <2>1, PutOK
  <2>3. QED
    BY <1>2, <1>7, <2>2, CommitOK DEF Divide
<1>8. ASSUME NEW p \in DOMAIN shows, NEW q \in DOMAIN shows, Swap(p, q)
      PROVE  Goal
  <2>1. ViewOK(Exchange(shows, p, q), focus) /\ ViewOK(Exchange(shows, p, q), q)
    BY <1>2, <1>3, ExchangeOK
  <2>2. QED
    BY <1>2, <1>3, <1>8, <2>1, CommitOK DEF Swap
<1>9. CASE Arrange /\ UNCHANGED listed
  <2>1. SUFFICES Goal
    BY <1>2, <1>9 DEF ViewInv
  <2>2. ASSUME NEW live \in SUBSET Content, NEW next \in live \cup {chosen, Blank}, List(live, next)
        PROVE  Goal
    BY <1>1, <2>2, ListOK DEF ViewInv
  <2>3. QED
    BY <1>1, <1>2, <1>3, <1>5, <1>6, <1>7, <1>8, <1>9, <2>2, CloseOK DEF Arrange
<1>10. CASE \E live \in SUBSET Content : \E next \in live \cup {chosen, Blank} : List(live, next)
  BY <1>1, <1>10, ListOK
<1>11. CASE Accept
  BY <1>2, <1>11 DEF Accept, ViewInv, ViewOK
<1>12. CASE UNCHANGED views
  BY <1>2, <1>12 DEF views, ViewInv, ViewOK, IsView, Once
<1>13. QED
  BY <1>1, <1>9, <1>10, <1>11, <1>12 DEF ViewNext, Arrange

(* Whatever is split, dragged, closed, selected, ended or received, what   *)
(* the workspace shows can be shown, and ViewInv holds.                    *)
THEOREM ViewInvariant == ViewSpec => []ViewInv
BY ViewInitOK, ArrangeOK, PTL DEF ViewSpec

(* A session is in at most one pane, however many there are and however it *)
(* got there (App.tsx, onDropSession and the effects on its state).        *)
THEOREM EachSessionOnce == ViewSpec => []EachOnce
<1>1. ViewInv => EachOnce
  BY DEF ViewInv, ViewOK, EachOnce
<1>2. QED
  BY <1>1, ViewInvariant, PTL

-----------------------------------------------------------------------------
(* A set of numbers has a least one.                                       *)
LEMMA LeastNumber ==
  ASSUME NEW S \in SUBSET Nat, S # {}
  PROVE  \E n \in S : \A m \in S : n <= m
<1>1. PICK n \in S : \A m \in S : <<m, n>> \notin OpToRel(<, Nat)
  BY WFMin, NatLessThanWellFounded, Zenon
<1>2. \A m \in S : ~(m < n)
  BY <1>1, Zenon DEF OpToRel
<1>3. \A m \in S : n <= m
  BY <1>2
<1>4. QED
  BY <1>3

(* What holds of depth 0, and of a depth when it does of the one before,   *)
(* holds of every depth up to m.                                           *)
LEMMA DepthInduction ==
  ASSUME NEW m \in Nat, NEW S, 0 \in S,
         \A n \in 1 .. m : n - 1 \in S => n \in S
  PROVE  0 .. m \subseteq S
<1> DEFINE Bad == {n \in 0 .. m : n \notin S}
<1>1. SUFFICES ASSUME Bad # {} PROVE FALSE
  OBVIOUS
<1>2. PICK n \in Bad : \A k \in Bad : n <= k
  <2>1. Bad \in SUBSET Nat
    OBVIOUS
  <2>2. QED
    BY <1>1, <2>1, LeastNumber
<1>3. n \in 1 .. m /\ n - 1 \in 0 .. m /\ ~(n <= n - 1)
  BY <1>2
<1>4. QED
  BY <1>2, <1>3

-----------------------------------------------------------------------------
(* Trees.                                                                  *)
Splits(T) == [a : T, b : T]
AreTrees(f, m) ==
  /\ f = [n \in 0 .. m |-> f[n]] /\ f[0] = LeafNode
  /\ \A n \in 1 .. m : f[n] = f[n - 1] \cup Splits(f[n - 1])

LEMMA TreesExist ==
  \A m \in 0 .. MaxPanes : \E f : AreTrees(f, m)
<1> DEFINE S == {m \in 0 .. MaxPanes : \E f : AreTrees(f, m)}
<1>1. MaxPanes \in Nat
  BY PanesAssumption
<1>2. 0 \in S
  <2>1. PICK z : z \in Nat /\ z = 0
    OBVIOUS
  <2>2. PICK f : f = [n \in 0 .. z |-> LeafNode]
    OBVIOUS
  <2>3. AreTrees(f, 0)
    BY <2>1, <2>2 DEF AreTrees
  <2>4. QED
    BY <1>1, <2>3
<1>3. ASSUME NEW m \in 1 .. MaxPanes, m - 1 \in S PROVE m \in S
  <2>1. PICK f : AreTrees(f, m - 1)
    BY <1>3
  <2>2. PICK X : X = f[m - 1] \cup Splits(f[m - 1])
    OBVIOUS
  <2>3. PICK g : g = [n \in 0 .. m |-> IF n = m THEN X ELSE f[n]]
    OBVIOUS
  <2>4. g = [n \in 0 .. m |-> g[n]] /\ g[0] = LeafNode
    BY <1>1, <2>1, <2>3 DEF AreTrees
  <2>5. ASSUME NEW n \in 1 .. m PROVE g[n] = g[n - 1] \cup Splits(g[n - 1])
    <3>1. n - 1 \in 0 .. m /\ n - 1 # m
      BY <1>1
    <3>2. g[n - 1] = f[n - 1]
      BY <2>3, <3>1
    <3>3. CASE n = m
      BY <2>2, <2>3, <3>2, <3>3
    <3>4. CASE n # m
      <4>1. n \in 1 .. m - 1
        BY <1>1, <3>4
      <4>2. f[n] = f[n - 1] \cup Splits(f[n - 1])
        BY <2>1, <4>1 DEF AreTrees
      <4>3. QED
        BY <2>3, <3>2, <3>4, <4>2
    <3>5. QED
      BY <3>3, <3>4
  <2>6. QED
    BY <1>1, <2>4, <2>5 DEF AreTrees
<1>4. 0 .. MaxPanes \subseteq S
  <2> HIDE DEF S
  <2>1. QED
    BY <1>1, <1>2, <1>3, DepthInduction
<1>5. QED
  BY <1>4

(* What the definition by recursion says.                                  *)
LEMMA TreesAre == AreTrees(Trees, MaxPanes)
<1> DEFINE Rec(f) == f = [depth \in 0 .. MaxPanes |->
              IF depth = 0 THEN LeafNode
              ELSE f[depth - 1] \cup [a : f[depth - 1], b : f[depth - 1]]]
<1>1. MaxPanes \in Nat
  BY PanesAssumption
<1>2. ASSUME NEW f, AreTrees(f, MaxPanes) PROVE Rec(f)
  <2>1. f = [depth \in 0 .. MaxPanes |-> f[depth]]
    BY <1>2 DEF AreTrees
  <2>2. \A depth \in 0 .. MaxPanes : f[depth] = IF depth = 0 THEN LeafNode
           ELSE f[depth - 1] \cup [a : f[depth - 1], b : f[depth - 1]]
    BY <1>2 DEF AreTrees, Splits
  <2>3. QED
    BY <2>1, <2>2
<1>3. PICK f : f = CHOOSE g : Rec(g)
  OBVIOUS
<1>4. Rec(f)
  <2>1. PICK g : AreTrees(g, MaxPanes)
    BY <1>1, TreesExist
  <2>2. Rec(g)
    BY <1>2, <2>1
  <2> HIDE DEF Rec
  <2>3. QED
    BY <1>3, <2>2
<1>5. Trees = f
  BY <1>3, Zenon DEF Trees
<1>6. f = [n \in 0 .. MaxPanes |-> f[n]] /\ f[0] = LeafNode
  BY <1>1, <1>4
<1>7. \A n \in 1 .. MaxPanes : f[n] = f[n - 1] \cup Splits(f[n - 1])
  <2>1. TAKE n \in 1 .. MaxPanes
  <2>2. n \in 0 .. MaxPanes /\ n # 0
    BY <1>1
  <2>3. QED
    BY <1>4, <2>2 DEF Splits
<1>8. QED
  BY <1>5, <1>6, <1>7 DEF AreTrees

LEMMA Shapes ==
  /\ \A l \in LeafNode : /\ IsLeaf(l) /\ l.id \in PaneId /\ l.session \in Session \cup {Nothing}
                         /\ l = Leaf(l.id, l.session)
  /\ \A id \in PaneId, s \in Session \cup {Nothing} : Leaf(id, s) \in LeafNode
  /\ \A id, s : IsLeaf(Leaf(id, s)) /\ Leaf(id, s).id = id /\ Leaf(id, s).session = s
  /\ \A a, b : ~IsLeaf(Branch(a, b)) /\ Branch(a, b).a = a /\ Branch(a, b).b = b
<1>1. \A l \in LeafNode : /\ l.id \in PaneId /\ l.session \in Session \cup {Nothing}
                          /\ l = Leaf(l.id, l.session) /\ DOMAIN l = {"id", "session"}
  BY DEF LeafNode, Leaf
<1>2. \A l \in LeafNode : IsLeaf(l)
  BY <1>1 DEF IsLeaf
<1>3. \A id \in PaneId, s \in Session \cup {Nothing} : Leaf(id, s) \in LeafNode
  BY DEF LeafNode, Leaf
<1>4. \A id, s : IsLeaf(Leaf(id, s)) /\ Leaf(id, s).id = id /\ Leaf(id, s).session = s
  BY DEF IsLeaf, Leaf
<1>5. \A a, b : ~IsLeaf(Branch(a, b)) /\ Branch(a, b).a = a /\ Branch(a, b).b = b
  BY DEF IsLeaf, Branch
<1>6. QED
  BY <1>1, <1>2, <1>3, <1>4, <1>5

(* Trees of a depth are leaves, or split into trees of the depth before.   *)
Grows(T, U) ==
  /\ LeafNode \subseteq T /\ T \subseteq U
  /\ \A t \in U : \/ t \in LeafNode
                  \/ /\ ~IsLeaf(t) /\ t.a \in T /\ t.b \in T /\ t = Branch(t.a, t.b)
  /\ \A a, b \in T : Branch(a, b) \in U

LEMMA TreesGrow ==
  /\ Trees[0] = LeafNode
  /\ \A n \in 1 .. MaxPanes : Grows(Trees[n - 1], Trees[n])
<1> DEFINE S == {n \in 0 .. MaxPanes : n # 0 => Grows(Trees[n - 1], Trees[n])}
<1>1. MaxPanes \in Nat
  BY PanesAssumption
<1>2. Trees[0] = LeafNode
  BY TreesAre DEF AreTrees
<1>3. ASSUME NEW n \in 1 .. MaxPanes, n - 1 \in S PROVE n \in S
  <2>1. PICK T : T = Trees[n - 1]
    OBVIOUS
  <2>2. Trees[n] = T \cup Splits(T)
    BY <2>1, TreesAre DEF AreTrees
  <2>3. \A t \in Splits(T) : ~IsLeaf(t) /\ t.a \in T /\ t.b \in T /\ t = Branch(t.a, t.b)
    <3>1. \A t \in Splits(T) : t.a \in T /\ t.b \in T /\ t = Branch(t.a, t.b)
      BY DEF Splits, Branch
    <3>2. QED
      BY <3>1, Shapes
  <2>4. \A a, b \in T : Branch(a, b) \in Splits(T)
    BY DEF Splits, Branch
  <2>5. /\ LeafNode \subseteq T
        /\ \A t \in T : \/ t \in LeafNode
                        \/ ~IsLeaf(t) /\ t.a \in T /\ t.b \in T /\ t = Branch(t.a, t.b)
    <3>1. CASE n = 1
      BY <1>2, <2>1, <3>1
    <3>2. CASE n # 1
      <4>1. Grows(Trees[n - 1 - 1], T)
        BY <1>1, <1>3, <2>1, <3>2
      <4>2. QED
        BY <4>1 DEF Grows
    <3>3. QED
      BY <3>1, <3>2
  <2>6. Grows(T, Trees[n])
    BY <2>2, <2>3, <2>4, <2>5 DEF Grows
  <2>7. QED
    BY <1>1, <2>1, <2>6
<1>4. 0 .. MaxPanes \subseteq S
  <2>1. 0 \in S
    BY <1>1
  <2> HIDE DEF S
  <2>2. QED
    BY <1>1, <1>3, <2>1, DepthInduction
<1>5. QED
  BY <1>1, <1>2, <1>4

(* The trees of one depth are among those of a greater one, and those      *)
(* there are.                                                              *)
LEMMA TreesNest ==
  /\ \A n \in 0 .. MaxPanes : LeafNode \subseteq Trees[n] /\ Trees[n] \subseteq Tree
  /\ \A m, n \in 0 .. MaxPanes : m <= n => Trees[m] \subseteq Trees[n]
<1>1. MaxPanes \in Nat
  BY PanesAssumption
<1>2. ASSUME NEW m \in 0 .. MaxPanes
      PROVE  \A n \in 0 .. MaxPanes : m <= n => Trees[m] \subseteq Trees[n]
  <2> DEFINE S == {n \in 0 .. MaxPanes : m <= n => Trees[m] \subseteq Trees[n]}
  <2>1. 0 \in S
    BY <1>1
  <2>2. ASSUME NEW n \in 1 .. MaxPanes, n - 1 \in S PROVE n \in S
    <3>1. Trees[n - 1] \subseteq Trees[n]
      BY TreesGrow DEF Grows
    <3>2. m <= n => m <= n - 1 \/ m = n
      BY <1>1
    <3>3. QED
      BY <1>1, <2>2, <3>1, <3>2
  <2>3. 0 .. MaxPanes \subseteq S
    <3> HIDE DEF S
    <3>1. QED
      BY <1>1, <2>1, <2>2, DepthInduction
  <2>4. QED
    BY <2>3
<1>3. \A n \in 0 .. MaxPanes : LeafNode \subseteq Trees[n]
  BY <1>1, <1>2, TreesGrow
<1>4. \A n \in 0 .. MaxPanes : Trees[n] \subseteq Tree
  BY <1>1, <1>2 DEF Tree
<1>5. QED
  BY <1>2, <1>3, <1>4

(* A tree is a leaf, or a split of two trees.                              *)
LEMMA TreeCases ==
  ASSUME NEW t \in Tree
  PROVE  \/ t \in LeafNode
         \/ ~IsLeaf(t) /\ t.a \in Tree /\ t.b \in Tree /\ t = Branch(t.a, t.b)
<1>1. MaxPanes \in 1 .. MaxPanes /\ MaxPanes - 1 \in 0 .. MaxPanes
  BY PanesAssumption
<1>2. Grows(Trees[MaxPanes - 1], Tree)
  BY <1>1, TreesGrow DEF Tree
<1>3. Trees[MaxPanes - 1] \subseteq Tree
  BY <1>1, TreesNest
<1>4. QED
  BY <1>2, <1>3 DEF Grows

(* What holds of the leaves, and of a split when it does of its two trees, *)
(* holds of every tree.                                                    *)
LEMMA TreeInduction ==
  ASSUME NEW S, LeafNode \subseteq S,
         \A a, b \in Tree : a \in S /\ b \in S /\ Branch(a, b) \in Tree => Branch(a, b) \in S
  PROVE  Tree \subseteq S
<1> DEFINE D == {n \in 0 .. MaxPanes : Trees[n] \subseteq S}
<1>1. MaxPanes \in Nat
  BY PanesAssumption
<1>2. 0 \in D
  BY <1>1, TreesGrow
<1>3. ASSUME NEW n \in 1 .. MaxPanes, n - 1 \in D PROVE n \in D
  <2>1. Grows(Trees[n - 1], Trees[n]) /\ n - 1 \in 0 .. MaxPanes /\ n \in 0 .. MaxPanes
    BY <1>1, TreesGrow
  <2>2. Trees[n - 1] \subseteq S /\ Trees[n - 1] \subseteq Tree /\ Trees[n] \subseteq Tree
    BY <1>3, <2>1, TreesNest
  <2>3. ASSUME NEW t \in Trees[n] PROVE t \in S
    BY <2>1, <2>2 DEF Grows
  <2>4. QED
    BY <2>1, <2>3
<1>4. 0 .. MaxPanes \subseteq D
  <2> HIDE DEF D
  <2>1. QED
    BY <1>1, <1>2, <1>3, DepthInduction
<1>5. QED
  BY <1>1, <1>4 DEF Tree

(* A split that is a tree has trees as its parts.                          *)
LEMMA Parts ==
  ASSUME NEW a, NEW b, Branch(a, b) \in Tree
  PROVE  a \in Tree /\ b \in Tree
<1>1. PICK t \in Tree : t = Branch(a, b)
  OBVIOUS
<1>2. ~IsLeaf(t) /\ t.a = a /\ t.b = b
  BY <1>1, Shapes
<1>3. QED
  BY <1>2, TreeCases, Shapes

-----------------------------------------------------------------------------
(* The operators on trees are defined by recursion: what each makes of a   *)
(* leaf u, and of a split u when it has made v and w of its parts.         *)
AtLeaf(op, id, x, first, u) ==
  CASE op = "leaves" -> <<u>>
    [] op = "split" -> IF u.id # id THEN u ELSE IF first THEN Branch(x, u) ELSE Branch(u, x)
    [] op = "rest" -> IF u.id = id THEN Nothing ELSE u
    [] op = "set" -> IF u.id = id THEN Leaf(id, x) ELSE u

AtSplit(op, u, v, w) ==
  CASE op = "leaves" -> v \o w
    [] op \in {"split", "set"} -> Branch(v, w)
    [] op = "rest" -> CASE v = Nothing -> u.b
                        [] v # Nothing /\ w = Nothing -> v
                        [] OTHER -> Branch(v, w)

IsRecursion(f, T, op, id, x, first) ==
  f = [u \in T |-> IF IsLeaf(u) THEN AtLeaf(op, id, x, first, u)
                   ELSE AtSplit(op, u, f[u.a], f[u.b])]

LEMMA RecursionExists ==
  ASSUME NEW op, NEW id, NEW x, NEW first
  PROVE  \E f : IsRecursion(f, Tree, op, id, x, first)
<1> DEFINE Rec(f, T) == IsRecursion(f, T, op, id, x, first)
           S == {n \in 0 .. MaxPanes : \E f : Rec(f, Trees[n])}
<1>1. MaxPanes \in Nat
  BY PanesAssumption
<1>2. 0 \in S
  <2>1. PICK f : f = [u \in Trees[0] |-> AtLeaf(op, id, x, first, u)]
    OBVIOUS
  <2>2. \A u \in Trees[0] : IsLeaf(u)
    BY TreesGrow, Shapes
  <2>3. f = [u \in Trees[0] |-> IF IsLeaf(u) THEN AtLeaf(op, id, x, first, u)
                                ELSE AtSplit(op, u, f[u.a], f[u.b])]
    BY <2>1, <2>2
  <2>4. QED
    BY <1>1, <2>3 DEF IsRecursion
<1>3. ASSUME NEW n \in 1 .. MaxPanes, n - 1 \in S PROVE n \in S
  <2>1. PICK T, U : T = Trees[n - 1] /\ U = Trees[n]
    OBVIOUS
  <2>2. PICK f : Rec(f, T)
    BY <1>3, <2>1
  <2>3. PICK g : g = [u \in U |-> IF IsLeaf(u) THEN AtLeaf(op, id, x, first, u)
                                  ELSE AtSplit(op, u, f[u.a], f[u.b])]
    OBVIOUS
  <2>4. T \subseteq U /\ \A u \in U : ~IsLeaf(u) => u.a \in T /\ u.b \in T
    BY <2>1, TreesGrow, Shapes DEF Grows
  <2>5. \A u \in T : g[u] = f[u]
    BY <2>2, <2>3, <2>4 DEF IsRecursion
  <2>6. \A u \in U : ~IsLeaf(u) => AtSplit(op, u, f[u.a], f[u.b]) = AtSplit(op, u, g[u.a], g[u.b])
    BY <2>4, <2>5
  <2>7. g = [u \in U |-> IF IsLeaf(u) THEN AtLeaf(op, id, x, first, u)
                         ELSE AtSplit(op, u, g[u.a], g[u.b])]
    BY <2>3, <2>6
  <2>8. QED
    BY <1>1, <2>1, <2>7 DEF IsRecursion
<1>4. 0 .. MaxPanes \subseteq S
  <2> HIDE DEF S
  <2>1. QED
    BY <1>1, <1>2, <1>3, DepthInduction
<1>5. QED
  BY <1>1, <1>4 DEF Tree

LEMMA RecursionIs ==
  ASSUME NEW op, NEW id, NEW x, NEW first, NEW f, IsRecursion(f, Tree, op, id, x, first)
  PROVE  /\ \A l \in LeafNode : f[l] = AtLeaf(op, id, x, first, l)
         /\ \A a, b : Branch(a, b) \in Tree => f[Branch(a, b)] = AtSplit(op, Branch(a, b), f[a], f[b])
<1>1. \A u \in Tree : f[u] = IF IsLeaf(u) THEN AtLeaf(op, id, x, first, u)
                             ELSE AtSplit(op, u, f[u.a], f[u.b])
  BY DEF IsRecursion
<1>2. LeafNode \subseteq Tree
  BY TreesNest, PanesAssumption
<1>3. \A l \in LeafNode : f[l] = AtLeaf(op, id, x, first, l)
  BY <1>1, <1>2, Shapes
<1>4. \A a, b : Branch(a, b) \in Tree => f[Branch(a, b)] = AtSplit(op, Branch(a, b), f[a], f[b])
  BY <1>1, Shapes
<1>5. QED
  BY <1>3, <1>4

LEMMA SetSessionIs ==
  ASSUME NEW id, NEW s
  PROVE  /\ \A l \in LeafNode : SetSession(l, id, s) = IF l.id = id THEN Leaf(id, s) ELSE l
         /\ \A a, b : Branch(a, b) \in Tree =>
              SetSession(Branch(a, b), id, s) = Branch(SetSession(a, id, s), SetSession(b, id, s))
<1> DEFINE Rec(f) == f = [u \in Tree |-> IF ~IsLeaf(u) THEN Branch(f[u.a], f[u.b])
                                         ELSE IF u.id = id THEN Leaf(id, s) ELSE u]
<1>1. PICK f : f = CHOOSE g : Rec(g)
  OBVIOUS
<1>2. \A t : SetSession(t, id, s) = f[t]
  BY <1>1, Zenon DEF SetSession
<1>3. PICK op, first : op = "set" /\ first = TRUE
  OBVIOUS
<1>4. \A u, v, w : /\ AtLeaf(op, id, s, first, u) = IF u.id = id THEN Leaf(id, s) ELSE u
                   /\ AtSplit(op, u, v, w) = Branch(v, w)
  BY <1>3 DEF AtLeaf, AtSplit
<1>5. \A g : Rec(g) <=> IsRecursion(g, Tree, op, id, s, first)
  BY <1>4 DEF IsRecursion
<1>6. IsRecursion(f, Tree, op, id, s, first)
  <2> HIDE DEF Rec
  <2>1. QED
    BY <1>1, <1>5, RecursionExists
<1>7. QED
  BY <1>2, <1>4, <1>6, RecursionIs

LEMMA SplitLeafIs ==
  ASSUME NEW id, NEW new, NEW first
  PROVE  /\ \A l \in LeafNode :
              SplitLeaf(l, id, first, new)
                = IF l.id # id THEN l ELSE IF first THEN Branch(new, l) ELSE Branch(l, new)
         /\ \A a, b : Branch(a, b) \in Tree =>
              SplitLeaf(Branch(a, b), id, first, new)
                = Branch(SplitLeaf(a, id, first, new), SplitLeaf(b, id, first, new))
<1> DEFINE Rec(f) == f = [u \in Tree |-> IF ~IsLeaf(u) THEN Branch(f[u.a], f[u.b])
                                         ELSE IF u.id # id THEN u
                                         ELSE IF first THEN Branch(new, u) ELSE Branch(u, new)]
<1>1. PICK f : f = CHOOSE g : Rec(g)
  OBVIOUS
<1>2. \A t : SplitLeaf(t, id, first, new) = f[t]
  BY <1>1, Zenon DEF SplitLeaf
<1>3. PICK op : op = "split"
  OBVIOUS
<1>4. \A u, v, w :
        /\ AtLeaf(op, id, new, first, u)
             = IF u.id # id THEN u ELSE IF first THEN Branch(new, u) ELSE Branch(u, new)
        /\ AtSplit(op, u, v, w) = Branch(v, w)
  BY <1>3 DEF AtLeaf, AtSplit
<1>5. \A g : Rec(g) <=> IsRecursion(g, Tree, op, id, new, first)
  BY <1>4 DEF IsRecursion
<1>6. IsRecursion(f, Tree, op, id, new, first)
  <2> HIDE DEF Rec
  <2>1. QED
    BY <1>1, <1>5, RecursionExists
<1>7. QED
  BY <1>2, <1>4, <1>6, RecursionIs

LEMMA RemoveLeafIs ==
  ASSUME NEW id
  PROVE  /\ \A l \in LeafNode : RemoveLeaf(l, id) = IF l.id = id THEN Nothing ELSE l
         /\ \A a, b : Branch(a, b) \in Tree =>
              RemoveLeaf(Branch(a, b), id)
                = CASE RemoveLeaf(a, id) = Nothing -> b
                    [] RemoveLeaf(a, id) # Nothing /\ RemoveLeaf(b, id) = Nothing -> RemoveLeaf(a, id)
                    [] OTHER -> Branch(RemoveLeaf(a, id), RemoveLeaf(b, id))
<1> DEFINE Rec(f) == f = [u \in Tree |->
                       IF ~IsLeaf(u)
                       THEN CASE f[u.a] = Nothing -> u.b
                              [] f[u.a] # Nothing /\ f[u.b] = Nothing -> f[u.a]
                              [] OTHER -> Branch(f[u.a], f[u.b])
                       ELSE IF u.id = id THEN Nothing ELSE u]
<1>1. PICK f : f = CHOOSE g : Rec(g)
  OBVIOUS
<1>2. \A t : RemoveLeaf(t, id) = f[t]
  BY <1>1, Zenon DEF RemoveLeaf
<1>3. PICK op, first, x : op = "rest" /\ first = TRUE /\ x = Nothing
  OBVIOUS
<1>4. \A u, v, w : /\ AtLeaf(op, id, x, first, u) = IF u.id = id THEN Nothing ELSE u
                   /\ AtSplit(op, u, v, w) = CASE v = Nothing -> u.b
                                               [] v # Nothing /\ w = Nothing -> v
                                               [] OTHER -> Branch(v, w)
  BY <1>3 DEF AtLeaf, AtSplit
<1>5. \A g : Rec(g) <=> IsRecursion(g, Tree, op, id, x, first)
  BY <1>4 DEF IsRecursion
<1>6. IsRecursion(f, Tree, op, id, x, first)
  <2> HIDE DEF Rec
  <2>1. QED
    BY <1>1, <1>5, RecursionExists
<1>7. QED
  BY <1>2, <1>4, <1>6, RecursionIs, Shapes

LEMMA LeavesAre ==
  /\ \A l \in LeafNode : Leaves[l] = <<l>>
  /\ \A a, b : Branch(a, b) \in Tree => Leaves[Branch(a, b)] = Leaves[a] \o Leaves[b]
<1> DEFINE Rec(f) == f = [t \in Tree |-> IF IsLeaf(t) THEN <<t>> ELSE f[t.a] \o f[t.b]]
<1>1. PICK f : f = CHOOSE g : Rec(g)
  OBVIOUS
<1>2. Leaves = f
  BY <1>1, Zenon DEF Leaves
<1>3. PICK op, id, first, x : op = "leaves" /\ first = TRUE /\ x = Nothing
  OBVIOUS
<1>4. \A u, v, w : AtLeaf(op, id, x, first, u) = <<u>> /\ AtSplit(op, u, v, w) = v \o w
  BY <1>3 DEF AtLeaf, AtSplit
<1>5. \A g : Rec(g) <=> IsRecursion(g, Tree, op, id, x, first)
  <2>1. TAKE g
  <2>2. PICK F, G : /\ F = [t \in Tree |-> IF IsLeaf(t) THEN <<t>> ELSE g[t.a] \o g[t.b]]
                    /\ G = [t \in Tree |-> IF IsLeaf(t) THEN AtLeaf(op, id, x, first, t)
                                           ELSE AtSplit(op, t, g[t.a], g[t.b])]
    OBVIOUS
  <2>3. ASSUME NEW t \in Tree PROVE F[t] = G[t]
    <3>1. PICK v, w : v = g[t.a] /\ w = g[t.b]
      OBVIOUS
    <3>2. AtLeaf(op, id, x, first, t) = <<t>> /\ AtSplit(op, t, v, w) = v \o w
      BY <1>4, Zenon
    <3>3. F[t] = IF IsLeaf(t) THEN <<t>> ELSE v \o w
      BY <2>2, <3>1, Zenon
    <3>4. G[t] = IF IsLeaf(t) THEN AtLeaf(op, id, x, first, t) ELSE AtSplit(op, t, v, w)
      BY <2>2, <3>1, Zenon
    <3>5. CASE IsLeaf(t)
      BY <3>2, <3>3, <3>4, <3>5, Zenon
    <3>6. CASE ~IsLeaf(t)
      BY <3>2, <3>3, <3>4, <3>6, Zenon
    <3>7. QED
      BY <3>5, <3>6
  <2>4. F = G
    <3>1. F = [t \in Tree |-> F[t]] /\ G = [t \in Tree |-> G[t]]
      BY <2>2, Zenon
    <3>2. QED
      BY <2>3, <3>1
  <2>5. QED
    BY <2>2, <2>4, Zenon DEF IsRecursion
<1>6. IsRecursion(f, Tree, op, id, x, first)
  <2> HIDE DEF Rec
  <2>1. QED
    BY <1>1, <1>5, RecursionExists
<1>7. /\ \A l \in LeafNode : f[l] = AtLeaf(op, id, x, first, l)
      /\ \A a, b : Branch(a, b) \in Tree => f[Branch(a, b)] = AtSplit(op, Branch(a, b), f[a], f[b])
  BY <1>6, RecursionIs
<1>8. \A l \in LeafNode : f[l] = <<l>>
  BY <1>4, <1>7, Zenon
<1>9. \A a, b : Branch(a, b) \in Tree => f[Branch(a, b)] = f[a] \o f[b]
  <2>1. TAKE a, b
  <2>2. HAVE Branch(a, b) \in Tree
  <2>3. f[Branch(a, b)] = AtSplit(op, Branch(a, b), f[a], f[b])
    BY <1>7, <2>2, Zenon
  <2>4. AtSplit(op, Branch(a, b), f[a], f[b]) = f[a] \o f[b]
    BY <1>4, Zenon
  <2>5. QED
    BY <2>3, <2>4, Zenon
<1>10. QED
  BY <1>2, <1>8, <1>9, Zenon

LEMMA LeavesType ==
  ASSUME NEW t \in Tree
  PROVE  Leaves[t] \in Seq(LeafNode) /\ Len(Leaves[t]) \in Nat \ {0}
<1> DEFINE S == {u \in Tree : Leaves[u] \in Seq(LeafNode) /\ Len(Leaves[u]) \in Nat \ {0}}
<1>1. LeafNode \subseteq S
  <2>1. LeafNode \subseteq Tree
    BY TreesNest, PanesAssumption
  <2>2. \A l \in LeafNode : <<l>> \in Seq(LeafNode) /\ Len(<<l>>) = 1
    OBVIOUS
  <2>3. \A l \in LeafNode : Leaves[l] \in Seq(LeafNode) /\ Len(Leaves[l]) = 1
    BY <2>2, LeavesAre, Zenon
  <2>4. QED
    BY <2>1, <2>3
<1>2. ASSUME NEW a \in Tree, NEW b \in Tree, a \in S, b \in S, Branch(a, b) \in Tree
      PROVE  Branch(a, b) \in S
  <2>1. PICK p, q : p = Leaves[a] /\ q = Leaves[b]
    OBVIOUS
  <2>2. p \in Seq(LeafNode) /\ q \in Seq(LeafNode) /\ Len(p) \in Nat \ {0} /\ Len(q) \in Nat \ {0}
    BY <1>2, <2>1
  <2>3. p \o q \in Seq(LeafNode) /\ Len(p \o q) = Len(p) + Len(q)
    BY <2>2
  <2>4. Leaves[Branch(a, b)] = p \o q
    BY <1>2, <2>1, LeavesAre, Zenon
  <2>5. PICK r : r = p \o q
    OBVIOUS
  <2>6. Len(r) \in Nat \ {0}
    BY <2>2, <2>3, <2>5
  <2>7. QED
    BY <1>2, <2>3, <2>4, <2>5, <2>6, Zenon
<1>3. Tree \subseteq S
  <2> HIDE DEF S
  <2>1. QED
    BY <1>1, <1>2, TreeInduction
<1>4. QED
  BY <1>3

-----------------------------------------------------------------------------
(* What is read of a tree, by what is read of its parts.                   *)
LEMMA PanesOfLeaf ==
  ASSUME NEW l \in LeafNode
  PROVE  /\ l \in Tree /\ Panes(l) = {l} /\ Ids(l) = {l.id} /\ Len(Leaves[l]) = 1
         /\ \A x, y : ~ReadBefore(l, x, y)
<1>1. l \in Tree
  BY TreesNest, PanesAssumption
<1>2. PICK q : q = Leaves[l]
  OBVIOUS
<1>3. Len(q) = 1 /\ DOMAIN q = {1} /\ q[1] = l
  <2>1. q = <<l>>
    BY <1>2, LeavesAre, Zenon
  <2>2. QED
    BY <2>1
<1>4. Panes(l) = {l}
  BY <1>2, <1>3 DEF Panes, ToSet
<1>5. Ids(l) = {l.id}
  BY <1>4 DEF Ids
<1>6. \A x, y : ~ReadBefore(l, x, y)
  BY <1>2, <1>3 DEF ReadBefore
<1>7. QED
  BY <1>1, <1>2, <1>3, <1>4, <1>5, <1>6

LEMMA PanesOfSplit ==
  ASSUME NEW a, NEW b, Branch(a, b) \in Tree
  PROVE  /\ Panes(Branch(a, b)) = Panes(a) \cup Panes(b)
         /\ Ids(Branch(a, b)) = Ids(a) \cup Ids(b)
         /\ Len(Leaves[Branch(a, b)]) = Len(Leaves[a]) + Len(Leaves[b])
         /\ \A x, y : ReadBefore(Branch(a, b), x, y)
                        <=> \/ ReadBefore(a, x, y) \/ ReadBefore(b, x, y)
                            \/ x \in Ids(a) /\ y \in Ids(b)
<1>1. a \in Tree /\ b \in Tree
  BY Parts
<1>2. PICK p, q, r : p = Leaves[a] /\ q = Leaves[b] /\ r = Leaves[Branch(a, b)]
  OBVIOUS
<1>3. /\ p \in Seq(LeafNode) /\ q \in Seq(LeafNode) /\ r = p \o q
      /\ Len(p) \in Nat /\ Len(q) \in Nat
  BY <1>1, <1>2, LeavesType, LeavesAre
<1>4. PICK m, n : m = Len(p) /\ n = Len(q)
  OBVIOUS
<1>5. /\ DOMAIN p = 1 .. m /\ DOMAIN q = 1 .. n /\ DOMAIN r = 1 .. m + n
      /\ m \in Nat /\ n \in Nat /\ Len(r) = m + n
      /\ \A i \in 1 .. m : r[i] = p[i]
      /\ \A i \in 1 .. n : r[m + i] = q[i]
  BY <1>3, <1>4
<1>6. \A i \in 1 .. m + n : i \in 1 .. m \/ (i - m \in 1 .. n /\ i = m + (i - m))
  BY <1>5
<1>7. Panes(Branch(a, b)) = Panes(a) \cup Panes(b)
  <2>1. \A i \in 1 .. m : i \in 1 .. m + n
    BY <1>5
  <2>2. \A i \in 1 .. n : m + i \in 1 .. m + n
    BY <1>5
  <2>3. \A i \in 1 .. m + n : r[i] \in {p[j] : j \in 1 .. m} \cup {q[j] : j \in 1 .. n}
    BY <1>5, <1>6
  <2>4. {p[j] : j \in 1 .. m} \cup {q[j] : j \in 1 .. n} \subseteq {r[i] : i \in 1 .. m + n}
    BY <1>5, <2>1, <2>2
  <2>5. {r[i] : i \in 1 .. m + n} = {p[j] : j \in 1 .. m} \cup {q[j] : j \in 1 .. n}
    BY <2>3, <2>4
  <2>6. /\ Panes(Branch(a, b)) = {r[i] : i \in DOMAIN r}
        /\ Panes(a) = {p[i] : i \in DOMAIN p} /\ Panes(b) = {q[i] : i \in DOMAIN q}
    BY <1>2, Zenon DEF Panes, ToSet
  <2>7. QED
    BY <1>5, <2>5, <2>6
<1>8. Ids(Branch(a, b)) = Ids(a) \cup Ids(b)
  BY <1>7 DEF Ids
<1>9. ASSUME NEW x, NEW y
      PROVE  ReadBefore(Branch(a, b), x, y)
               <=> \/ ReadBefore(a, x, y) \/ ReadBefore(b, x, y)
                   \/ x \in Ids(a) /\ y \in Ids(b)
  <2>1. Ids(a) = {p[i].id : i \in 1 .. m} /\ Ids(b) = {q[i].id : i \in 1 .. n}
    <3>1. /\ Panes(a) = {p[i] : i \in 1 .. m} /\ Panes(b) = {q[i] : i \in 1 .. n}
      BY <1>2, <1>5, Zenon DEF Panes, ToSet
    <3>2. QED
      BY <3>1 DEF Ids
  <2>2. ReadBefore(a, x, y) => ReadBefore(Branch(a, b), x, y)
    <3>1. SUFFICES ASSUME NEW i \in 1 .. m, NEW j \in 1 .. m, i < j, p[i].id = x, p[j].id = y
                   PROVE  ReadBefore(Branch(a, b), x, y)
      BY <1>2, <1>5 DEF ReadBefore
    <3>2. i \in 1 .. m + n /\ j \in 1 .. m + n
      BY <1>5
    <3>3. QED
      BY <1>2, <1>5, <3>1, <3>2 DEF ReadBefore
  <2>3. ReadBefore(b, x, y) => ReadBefore(Branch(a, b), x, y)
    <3>1. SUFFICES ASSUME NEW i \in 1 .. n, NEW j \in 1 .. n, i < j, q[i].id = x, q[j].id = y
                   PROVE  ReadBefore(Branch(a, b), x, y)
      BY <1>2, <1>5 DEF ReadBefore
    <3>2. m + i \in 1 .. m + n /\ m + j \in 1 .. m + n /\ m + i < m + j
      BY <1>5, <3>1
    <3>3. QED
      BY <1>2, <1>5, <3>1, <3>2 DEF ReadBefore
  <2>4. x \in Ids(a) /\ y \in Ids(b) => ReadBefore(Branch(a, b), x, y)
    <3>1. SUFFICES ASSUME NEW i \in 1 .. m, NEW j \in 1 .. n, p[i].id = x, q[j].id = y
                   PROVE  ReadBefore(Branch(a, b), x, y)
      BY <2>1
    <3>2. i \in 1 .. m + n /\ m + j \in 1 .. m + n /\ i < m + j
      BY <1>5
    <3>3. QED
      BY <1>2, <1>5, <3>1, <3>2 DEF ReadBefore
  <2>5. ASSUME ReadBefore(Branch(a, b), x, y)
        PROVE  \/ ReadBefore(a, x, y) \/ ReadBefore(b, x, y)
               \/ x \in Ids(a) /\ y \in Ids(b)
    <3>1. PICK i, j \in 1 .. m + n : i < j /\ r[i].id = x /\ r[j].id = y
      BY <1>2, <1>5, <2>5 DEF ReadBefore
    <3>2. CASE i \in 1 .. m /\ j \in 1 .. m
      BY <1>2, <1>5, <3>1, <3>2 DEF ReadBefore
    <3>3. CASE i \in 1 .. m /\ j - m \in 1 .. n
      BY <1>5, <1>6, <2>1, <3>1, <3>3
    <3>4. CASE i - m \in 1 .. n /\ j - m \in 1 .. n
      <4>1. PICK k, l \in 1 .. n : k = i - m /\ l = j - m
        BY <3>4
      <4>2. k < l /\ r[i] = q[k] /\ r[j] = q[l]
        BY <1>5, <3>1, <4>1
      <4>3. QED
        BY <1>2, <1>5, <3>1, <4>2 DEF ReadBefore
    <3>5. QED
      BY <1>5, <3>1, <3>2, <3>3, <3>4
  <2>6. QED
    BY <2>2, <2>3, <2>4, <2>5
<1>10. QED
  BY <1>2, <1>4, <1>5, <1>7, <1>8, <1>9

LEMMA PartsOf ==
  ASSUME NEW n \in 0 .. MaxPanes, NEW a, NEW b
  PROVE  Branch(a, b) \in Trees[n]
           <=> n \in 1 .. MaxPanes /\ a \in Trees[n - 1] /\ b \in Trees[n - 1]
<1>1. MaxPanes \in Nat
  BY PanesAssumption
<1>2. Branch(a, b) \notin LeafNode
  BY Shapes
<1>3. CASE n = 0
  BY <1>1, <1>2, <1>3, TreesGrow
<1>4. CASE n # 0
  <2>1. n \in 1 .. MaxPanes
    BY <1>1, <1>4
  <2>2. Grows(Trees[n - 1], Trees[n])
    BY <2>1, TreesGrow
  <2>3. ASSUME NEW t \in Trees[n], t = Branch(a, b)
        PROVE  a \in Trees[n - 1] /\ b \in Trees[n - 1]
    <3>1. t.a = a /\ t.b = b
      BY <2>3, Shapes
    <3>2. QED
      BY <1>2, <2>2, <2>3, <3>1 DEF Grows
  <2>4. a \in Trees[n - 1] /\ b \in Trees[n - 1] => Branch(a, b) \in Trees[n]
    BY <2>2 DEF Grows
  <2>5. QED
    BY <2>1, <2>3, <2>4
<1>5. QED
  BY <1>3, <1>4

LEMMA LeafInTree ==
  LeafNode \subseteq Tree /\ MaxPanes \in Nat /\ MaxPanes \in 0 .. MaxPanes /\ Tree = Trees[MaxPanes]
BY TreesNest, PanesAssumption DEF Tree

LEMMA ReadsItsPanes ==
  ASSUME NEW t \in Tree
  PROVE  /\ Panes(t) \subseteq LeafNode /\ Panes(t) # {} /\ Ids(t) # {} /\ Ids(t) \subseteq PaneId
         /\ \A x, y : ReadBefore(t, x, y) => x \in Ids(t) /\ y \in Ids(t)
         /\ Distinct(t) <=> \A x : ~ReadBefore(t, x, x)
         /\ Distinct(t) => \A p, q \in Panes(t) : p.id = q.id => p = q
<1>1. PICK q : q = Leaves[t]
  OBVIOUS
<1>2. PICK n : n = Len(q)
  OBVIOUS
<1>3. q \in Seq(LeafNode) /\ n \in Nat \ {0} /\ DOMAIN q = 1 .. n /\ 1 \in 1 .. n
  BY <1>1, <1>2, LeavesType
<1>4. \A i \in 1 .. n : q[i] \in LeafNode
  BY <1>2, <1>3
<1>5. Panes(t) = {q[i] : i \in 1 .. n}
  BY <1>1, <1>3, Zenon DEF Panes, ToSet
<1>6. Panes(t) \subseteq LeafNode /\ Panes(t) # {}
  BY <1>3, <1>4, <1>5
<1>7. Ids(t) # {} /\ Ids(t) \subseteq PaneId
  BY <1>6, Shapes DEF Ids
<1>8. \A x, y : ReadBefore(t, x, y) => x \in Ids(t) /\ y \in Ids(t)
  BY <1>1, <1>3, <1>5 DEF ReadBefore, Ids
<1>9. Distinct(t) <=> \A i, j \in 1 .. n : q[i].id = q[j].id => i = j
  BY <1>1, <1>3 DEF Distinct
<1>10. \A x, y : ReadBefore(t, x, y) <=> \E i, j \in 1 .. n : i < j /\ q[i].id = x /\ q[j].id = y
  BY <1>1, <1>3 DEF ReadBefore
<1>11. Distinct(t) <=> \A x : ~ReadBefore(t, x, x)
  BY <1>3, <1>9, <1>10
<1>12. Distinct(t) => \A p, r \in Panes(t) : p.id = r.id => p = r
  BY <1>5, <1>9
<1>13. QED
  BY <1>6, <1>7, <1>8, <1>11, <1>12

LEMMA DistinctSplit ==
  ASSUME NEW a, NEW b, Branch(a, b) \in Tree
  PROVE  Distinct(Branch(a, b)) <=> Distinct(a) /\ Distinct(b) /\ Ids(a) \cap Ids(b) = {}
<1>1. a \in Tree /\ b \in Tree
  BY Parts
<1>2. \A x : ReadBefore(Branch(a, b), x, x)
               <=> \/ ReadBefore(a, x, x) \/ ReadBefore(b, x, x)
                   \/ x \in Ids(a) /\ x \in Ids(b)
  BY PanesOfSplit
<1>3. /\ Distinct(a) <=> \A x : ~ReadBefore(a, x, x)
      /\ Distinct(b) <=> \A x : ~ReadBefore(b, x, x)
      /\ Distinct(Branch(a, b)) <=> \A x : ~ReadBefore(Branch(a, b), x, x)
  BY <1>1, ReadsItsPanes
<1>4. QED
  BY <1>2, <1>3

(* There are as many leaves as panes, if these can be told apart.          *)
Counted(t) == Distinct(t) => IsFiniteSet(Ids(t)) /\ Cardinality(Ids(t)) = Len(Leaves[t])

LEMMA CountsPanes ==
  ASSUME NEW t \in Tree
  PROVE  Counted(t)
<1> DEFINE S == {u \in Tree : Counted(u)}
<1>1. LeafNode \subseteq S
  <2>1. ASSUME NEW l \in LeafNode PROVE Counted(l)
    BY PanesOfLeaf, FS_Singleton DEF Counted
  <2>2. QED
    BY <2>1, LeafInTree
<1>2. ASSUME NEW a \in Tree, NEW b \in Tree, a \in S, b \in S, Branch(a, b) \in Tree
      PROVE  Branch(a, b) \in S
  <2>1. ASSUME Distinct(Branch(a, b))
        PROVE  /\ IsFiniteSet(Ids(Branch(a, b)))
               /\ Cardinality(Ids(Branch(a, b))) = Len(Leaves[Branch(a, b)])
    <3>1. Distinct(a) /\ Distinct(b) /\ Ids(a) \cap Ids(b) = {}
      BY <1>2, <2>1, DistinctSplit
    <3>2. PICK A, B : A = Ids(a) /\ B = Ids(b)
      OBVIOUS
    <3>3. IsFiniteSet(A) /\ IsFiniteSet(B) /\ Cardinality(A) = Len(Leaves[a]) /\ Cardinality(B) = Len(Leaves[b])
      BY <1>2, <3>1, <3>2 DEF Counted
    <3>4. A \cap B = {}
      BY <3>1, <3>2
    <3>5. Cardinality(A \cap B) = 0
      BY <3>4, FS_EmptySet, Zenon
    <3>6. IsFiniteSet(A \cup B) /\ Cardinality(A \cup B) = Cardinality(A) + Cardinality(B) - Cardinality(A \cap B)
      BY <3>3, FS_Union, Zenon
    <3>7. Cardinality(A) \in Nat /\ Cardinality(B) \in Nat
      BY <3>3, FS_CardinalityType
    <3>8. Cardinality(A \cup B) = Cardinality(A) + Cardinality(B)
      <4>1. PICK c, d, e, f : /\ c = Cardinality(A \cup B) /\ d = Cardinality(A)
                              /\ e = Cardinality(B) /\ f = Cardinality(A \cap B)
        OBVIOUS
      <4>2. f = 0 /\ d \in Nat /\ e \in Nat /\ c = d + e - f
        BY <3>5, <3>6, <3>7, <4>1, Zenon
      <4>3. c = d + e
        BY ONLY <4>2
      <4>4. QED
        BY <4>1, <4>3
    <3>9. Ids(Branch(a, b)) = A \cup B /\ Len(Leaves[Branch(a, b)]) = Len(Leaves[a]) + Len(Leaves[b])
      BY <1>2, <3>2, PanesOfSplit
    <3>10. QED
      BY <3>3, <3>6, <3>8, <3>9, Zenon
  <2>2. QED
    BY <1>2, <2>1 DEF Counted
<1>3. Tree \subseteq S
  <2> HIDE DEF S
  <2>1. QED
    BY <1>1, <1>2, TreeInduction
<1>4. QED
  BY <1>3

(* A tree is less deep than it has leaves.                                 *)
LEMMA Shallow ==
  ASSUME NEW t \in Tree, NEW n \in 1 .. MaxPanes, Len(Leaves[t]) <= n
  PROVE  t \in Trees[n - 1]
<1> DEFINE S == {u \in Tree : \A m \in 1 .. MaxPanes : Len(Leaves[u]) <= m => u \in Trees[m - 1]}
<1>1. LeafNode \subseteq S
  <2>1. ASSUME NEW l \in LeafNode, NEW m \in 1 .. MaxPanes PROVE l \in Trees[m - 1]
    <3>1. m - 1 \in 0 .. MaxPanes
      BY LeafInTree
    <3>2. QED
      BY <3>1, TreesNest
  <2>2. QED
    BY <2>1, LeafInTree
<1>2. ASSUME NEW a \in Tree, NEW b \in Tree, a \in S, b \in S, Branch(a, b) \in Tree
      PROVE  Branch(a, b) \in S
  <2>1. ASSUME NEW m \in 1 .. MaxPanes, Len(Leaves[Branch(a, b)]) <= m
        PROVE  Branch(a, b) \in Trees[m - 1]
    <3>1. PICK k, l : k = Len(Leaves[a]) /\ l = Len(Leaves[b])
      OBVIOUS
    <3>2. k \in Nat \ {0} /\ l \in Nat \ {0}
      BY <3>1, LeavesType
    <3>3. k + l <= m
      BY <1>2, <2>1, <3>1, PanesOfSplit
    <3>4. m - 1 \in 1 .. MaxPanes /\ m - 1 \in 0 .. MaxPanes /\ k <= m - 1 /\ l <= m - 1
      BY <3>2, <3>3, LeafInTree
    <3>5. a \in Trees[m - 1 - 1] /\ b \in Trees[m - 1 - 1]
      BY <1>2, <3>1, <3>4
    <3>6. QED
      BY <3>4, <3>5, PartsOf
  <2>2. QED
    BY <1>2, <2>1
<1>3. Tree \subseteq S
  <2> HIDE DEF S
  <2>1. QED
    BY <1>1, <1>2, TreeInduction
<1>4. QED
  BY <1>3

-----------------------------------------------------------------------------
(* What each operator does to the panes and to the order they are read in, *)
(* whether or not they can be told apart.                                  *)
SetReads(t, u, id, s) ==
  /\ \A n \in 0 .. MaxPanes : t \in Trees[n] => u \in Trees[n]
  /\ Ids(u) = Ids(t)
  /\ Panes(u) = {IF p.id = id THEN Leaf(id, s) ELSE p : p \in Panes(t)}
  /\ \A x, y : ReadBefore(u, x, y) <=> ReadBefore(t, x, y)

LEMMA SetSessionReads ==
  ASSUME NEW t \in Tree, NEW id \in PaneId, NEW s \in Session \cup {Nothing}
  PROVE  SetReads(t, SetSession(t, id, s), id, s)
<1> DEFINE S == {u \in Tree : SetReads(u, SetSession(u, id, s), id, s)}
<1>1. LeafNode \subseteq S
  <2>1. ASSUME NEW l \in LeafNode PROVE SetReads(l, SetSession(l, id, s), id, s)
    <3>1. PICK u : u = SetSession(l, id, s)
      OBVIOUS
    <3>2. u = (IF l.id = id THEN Leaf(id, s) ELSE l)
      BY <3>1, SetSessionIs
    <3>3. u \in LeafNode /\ u.id = l.id
      BY <3>2, Shapes
    <3>4. \A n \in 0 .. MaxPanes : u \in Trees[n]
      BY <3>3, TreesNest
    <3>5. Panes(l) = {l} /\ Panes(u) = {u} /\ Ids(u) = Ids(l)
      BY <3>3, PanesOfLeaf
    <3>6. \A x, y : ReadBefore(u, x, y) <=> ReadBefore(l, x, y)
      BY <3>3, PanesOfLeaf
    <3>7. Panes(u) = {IF p.id = id THEN Leaf(id, s) ELSE p : p \in Panes(l)}
      BY <3>2, <3>5
    <3>8. QED
      BY <3>1, <3>4, <3>5, <3>6, <3>7 DEF SetReads
  <2>2. QED
    BY <2>1, LeafInTree
<1>2. ASSUME NEW a \in Tree, NEW b \in Tree, a \in S, b \in S, Branch(a, b) \in Tree
      PROVE  Branch(a, b) \in S
  <2>1. PICK c, d : c = SetSession(a, id, s) /\ d = SetSession(b, id, s)
    OBVIOUS
  <2>2. SetReads(a, c, id, s) /\ SetReads(b, d, id, s)
    BY <1>2, <2>1
  <2>3. SetSession(Branch(a, b), id, s) = Branch(c, d)
    <3>1. SetSession(Branch(a, b), id, s) = Branch(SetSession(a, id, s), SetSession(b, id, s))
      BY <1>2, SetSessionIs
    <3>2. QED
      BY <2>1, <3>1
  <2>4. ASSUME NEW n \in 0 .. MaxPanes, Branch(a, b) \in Trees[n] PROVE Branch(c, d) \in Trees[n]
    <3>1. n \in 1 .. MaxPanes /\ a \in Trees[n - 1] /\ b \in Trees[n - 1]
      BY <2>4, PartsOf
    <3>2. n - 1 \in 0 .. MaxPanes
      BY <3>1, LeafInTree
    <3>3. c \in Trees[n - 1] /\ d \in Trees[n - 1]
      BY <2>2, <3>1, <3>2 DEF SetReads
    <3>4. QED
      BY <3>1, <3>3, PartsOf
  <2>5. Branch(c, d) \in Tree
    BY <1>2, <2>4, LeafInTree
  <2>6. PICK A, B, C, D : A = Panes(a) /\ B = Panes(b) /\ C = Panes(c) /\ D = Panes(d)
    OBVIOUS
  <2>7. /\ C = {IF p.id = id THEN Leaf(id, s) ELSE p : p \in A}
        /\ D = {IF p.id = id THEN Leaf(id, s) ELSE p : p \in B}
    BY <2>2, <2>6 DEF SetReads
  <2>8. C \cup D = {IF p.id = id THEN Leaf(id, s) ELSE p : p \in A \cup B}
    BY <2>7
  <2>9. Panes(Branch(a, b)) = A \cup B /\ Panes(Branch(c, d)) = C \cup D
    BY <1>2, <2>5, <2>6, PanesOfSplit
  <2>10. Ids(a) = Ids(c) /\ Ids(b) = Ids(d)
    BY <2>2 DEF SetReads
  <2>11. Ids(Branch(c, d)) = Ids(Branch(a, b))
    <3>1. Ids(Branch(a, b)) = Ids(a) \cup Ids(b)
      BY <1>2, PanesOfSplit
    <3>2. Ids(Branch(c, d)) = Ids(c) \cup Ids(d)
      BY <2>5, PanesOfSplit
    <3>3. QED
      BY <2>10, <3>1, <3>2
  <2>12. \A x, y : ReadBefore(Branch(c, d), x, y) <=> ReadBefore(Branch(a, b), x, y)
    <3>1. TAKE x, y
    <3>2. ReadBefore(Branch(a, b), x, y) <=> \/ ReadBefore(a, x, y) \/ ReadBefore(b, x, y)
                                             \/ x \in Ids(a) /\ y \in Ids(b)
      BY <1>2, PanesOfSplit
    <3>3. ReadBefore(Branch(c, d), x, y) <=> \/ ReadBefore(c, x, y) \/ ReadBefore(d, x, y)
                                             \/ x \in Ids(c) /\ y \in Ids(d)
      BY <2>5, PanesOfSplit
    <3>4. (ReadBefore(a, x, y) <=> ReadBefore(c, x, y)) /\ (ReadBefore(b, x, y) <=> ReadBefore(d, x, y))
      BY <2>2 DEF SetReads
    <3>5. QED
      BY <2>10, <3>2, <3>3, <3>4
  <2>13. Panes(Branch(c, d)) = {IF p.id = id THEN Leaf(id, s) ELSE p : p \in Panes(Branch(a, b))}
    BY <2>8, <2>9
  <2>14. SetReads(Branch(a, b), Branch(c, d), id, s)
    BY <2>4, <2>11, <2>12, <2>13 DEF SetReads
  <2>15. QED
    BY <1>2, <2>3, <2>14
<1>3. Tree \subseteq S
  <2> HIDE DEF S
  <2>1. QED
    BY <1>1, <1>2, TreeInduction
<1>4. QED
  BY <1>3

(* Where the pane new now is, id was.                                      *)
Was(x, id, new) == IF x = new.id THEN id ELSE x
Beside(x, y, id, first, new) == IF first THEN x = new.id /\ y = id ELSE x = id /\ y = new.id

SplitReads(t, u, id, first, new) ==
  /\ \A n \in 1 .. MaxPanes : t \in Trees[n - 1] => u \in Trees[n]
  /\ u \in Tree => /\ Panes(u) = Panes(t) \cup (IF id \in Ids(t) THEN {new} ELSE {})
                   /\ \A x, y : ReadBefore(u, x, y)
                        <=> \/ ReadBefore(t, Was(x, id, new), Was(y, id, new))
                            \/ id \in Ids(t) /\ Beside(x, y, id, first, new)

LEMMA SplitLeafReads ==
  ASSUME NEW t \in Tree, NEW id, NEW first, NEW new \in LeafNode, new.id \notin Ids(t)
  PROVE  SplitReads(t, SplitLeaf(t, id, first, new), id, first, new)
<1> DEFINE S == {u \in Tree : new.id \notin Ids(u) =>
                                SplitReads(u, SplitLeaf(u, id, first, new), id, first, new)}
<1>1. LeafNode \subseteq S
  <2>1. ASSUME NEW l \in LeafNode, new.id \notin Ids(l)
        PROVE  SplitReads(l, SplitLeaf(l, id, first, new), id, first, new)
    <3>1. PICK u : u = SplitLeaf(l, id, first, new)
      OBVIOUS
    <3>2. l \in Tree /\ Panes(l) = {l} /\ Ids(l) = {l.id} /\ \A x, y : ~ReadBefore(l, x, y)
      BY PanesOfLeaf
    <3>3. CASE l.id # id
      <4>1. u = l
        <5>1. u = IF l.id # id THEN l ELSE IF first THEN Branch(new, l) ELSE Branch(l, new)
          BY <3>1, SplitLeafIs
        <5>2. QED
          BY <3>3, <5>1
      <4>2. \A n \in 1 .. MaxPanes : l \in Trees[n]
        BY TreesNest, LeafInTree
      <4>3. \A x, y : ~ReadBefore(l, Was(x, id, new), Was(y, id, new))
        BY <3>2
      <4>4. QED
        BY <3>1, <3>2, <3>3, <4>1, <4>2, <4>3 DEF SplitReads
    <3>4. CASE l.id = id
      <4>1. PICK c, d : c = (IF first THEN new ELSE l) /\ d = (IF first THEN l ELSE new)
        OBVIOUS
      <4>2. u = Branch(c, d)
        <5>1. u = IF l.id # id THEN l ELSE IF first THEN Branch(new, l) ELSE Branch(l, new)
          BY <3>1, SplitLeafIs
        <5>2. QED
          BY <3>4, <4>1, <5>1
      <4>3. c \in LeafNode /\ d \in LeafNode
        BY <4>1
      <4>4. \A n \in 1 .. MaxPanes : u \in Trees[n]
        <5>1. TAKE n \in 1 .. MaxPanes
        <5>2. n \in 0 .. MaxPanes /\ n - 1 \in 0 .. MaxPanes
          BY LeafInTree
        <5>3. c \in Trees[n - 1] /\ d \in Trees[n - 1]
          BY <4>3, <5>2, TreesNest
        <5>4. QED
          BY <4>2, <5>2, <5>3, PartsOf
      <4>5. /\ Panes(c) = {c} /\ Ids(c) = {c.id} /\ \A x, y : ~ReadBefore(c, x, y)
            /\ Panes(d) = {d} /\ Ids(d) = {d.id} /\ \A x, y : ~ReadBefore(d, x, y)
        BY <4>3, PanesOfLeaf
      <4>6. ASSUME u \in Tree
            PROVE  /\ Panes(u) = {l, new}
                   /\ \A x, y : ReadBefore(u, x, y) <=> Beside(x, y, id, first, new)
        <5>1. Panes(u) = {c, d}
          <6>1. Panes(Branch(c, d)) = Panes(c) \cup Panes(d)
            BY <4>2, <4>6, PanesOfSplit
          <6>2. QED
            BY <4>2, <4>5, <6>1
        <5>2. \A x, y : ReadBefore(u, x, y) <=> x = c.id /\ y = d.id
          <6>1. TAKE x, y
          <6>2. ReadBefore(Branch(c, d), x, y) <=> \/ ReadBefore(c, x, y) \/ ReadBefore(d, x, y)
                                                   \/ x \in Ids(c) /\ y \in Ids(d)
            BY <4>2, <4>6, PanesOfSplit
          <6>3. QED
            BY <4>2, <4>5, <6>2
        <5>3. \A x, y : x = c.id /\ y = d.id <=> Beside(x, y, id, first, new)
          BY <3>4, <4>1 DEF Beside
        <5>4. QED
          BY <4>1, <5>1, <5>2, <5>3
      <4>7. id \in Ids(l)
        BY <3>2, <3>4
      <4>8. \A x, y : ~ReadBefore(l, Was(x, id, new), Was(y, id, new))
        BY <3>2
      <4>9. QED
        BY <3>1, <3>2, <4>4, <4>6, <4>7, <4>8 DEF SplitReads
    <3>5. QED
      BY <3>3, <3>4
  <2>2. QED
    BY <2>1, LeafInTree
<1>2. ASSUME NEW a \in Tree, NEW b \in Tree, a \in S, b \in S, Branch(a, b) \in Tree
      PROVE  Branch(a, b) \in S
  <2>1. SUFFICES ASSUME new.id \notin Ids(Branch(a, b))
                 PROVE  SplitReads(Branch(a, b), SplitLeaf(Branch(a, b), id, first, new), id, first, new)
    BY <1>2
  <2>2. PICK c, d, t2, u : /\ c = SplitLeaf(a, id, first, new) /\ d = SplitLeaf(b, id, first, new)
                           /\ t2 = Branch(a, b) /\ u = Branch(c, d)
    OBVIOUS
  <2>3. SplitLeaf(Branch(a, b), id, first, new) = u
    <3>1. SplitLeaf(Branch(a, b), id, first, new)
            = Branch(SplitLeaf(a, id, first, new), SplitLeaf(b, id, first, new))
      BY <1>2, SplitLeafIs
    <3>2. QED
      BY <2>2, <3>1
  <2>4. Ids(t2) = Ids(a) \cup Ids(b) /\ Panes(t2) = Panes(a) \cup Panes(b)
    BY <1>2, <2>2, PanesOfSplit
  <2>5. new.id \notin Ids(a) /\ new.id \notin Ids(b)
    BY <2>1, <2>2, <2>4
  <2>6. SplitReads(a, c, id, first, new) /\ SplitReads(b, d, id, first, new)
    BY <1>2, <2>2, <2>5
  <2>7. ASSUME NEW n \in 1 .. MaxPanes, t2 \in Trees[n - 1] PROVE u \in Trees[n]
    <3>1. n - 1 \in 0 .. MaxPanes /\ n \in 0 .. MaxPanes
      BY LeafInTree
    <3>2. n - 1 \in 1 .. MaxPanes /\ a \in Trees[n - 1 - 1] /\ b \in Trees[n - 1 - 1]
      BY <2>2, <2>7, <3>1, PartsOf
    <3>3. c \in Trees[n - 1] /\ d \in Trees[n - 1]
      BY <2>6, <3>2 DEF SplitReads
    <3>4. QED
      BY <2>2, <3>1, <3>3, PartsOf
  <2>8. ASSUME u \in Tree
        PROVE  /\ Panes(u) = Panes(t2) \cup (IF id \in Ids(t2) THEN {new} ELSE {})
               /\ \A x, y : ReadBefore(u, x, y)
                    <=> \/ ReadBefore(t2, Was(x, id, new), Was(y, id, new))
                        \/ id \in Ids(t2) /\ Beside(x, y, id, first, new)
    <3>1. c \in Tree /\ d \in Tree
      BY <2>2, <2>8, Parts
    <3>2. /\ Panes(c) = Panes(a) \cup (IF id \in Ids(a) THEN {new} ELSE {})
          /\ Panes(d) = Panes(b) \cup (IF id \in Ids(b) THEN {new} ELSE {})
      BY <2>6, <3>1 DEF SplitReads
    <3>3. Panes(u) = Panes(c) \cup Panes(d)
      BY <2>2, <2>8, PanesOfSplit
    <3>4. Panes(u) = Panes(t2) \cup (IF id \in Ids(t2) THEN {new} ELSE {})
      BY <2>4, <3>2, <3>3
    <3>5. /\ Ids(c) = Ids(a) \cup (IF id \in Ids(a) THEN {new.id} ELSE {})
          /\ Ids(d) = Ids(b) \cup (IF id \in Ids(b) THEN {new.id} ELSE {})
      BY <3>2 DEF Ids
    <3>6. \A x : /\ x \in Ids(c) <=> Was(x, id, new) \in Ids(a)
                 /\ x \in Ids(d) <=> Was(x, id, new) \in Ids(b)
      BY <2>5, <3>5 DEF Was
    <3>7. ASSUME NEW x, NEW y
          PROVE  ReadBefore(u, x, y)
                    <=> \/ ReadBefore(t2, Was(x, id, new), Was(y, id, new))
                        \/ id \in Ids(t2) /\ Beside(x, y, id, first, new)
      <4>1. PICK p, q : p = Was(x, id, new) /\ q = Was(y, id, new)
        OBVIOUS
      <4>2. ReadBefore(u, x, y) <=> \/ ReadBefore(c, x, y) \/ ReadBefore(d, x, y)
                                    \/ x \in Ids(c) /\ y \in Ids(d)
        BY <2>2, <2>8, PanesOfSplit
      <4>3. ReadBefore(t2, p, q) <=> \/ ReadBefore(a, p, q) \/ ReadBefore(b, p, q)
                                     \/ p \in Ids(a) /\ q \in Ids(b)
        BY <1>2, <2>2, PanesOfSplit
      <4>4. /\ ReadBefore(c, x, y) <=> \/ ReadBefore(a, p, q)
                                       \/ id \in Ids(a) /\ Beside(x, y, id, first, new)
            /\ ReadBefore(d, x, y) <=> \/ ReadBefore(b, p, q)
                                       \/ id \in Ids(b) /\ Beside(x, y, id, first, new)
        BY <2>6, <3>1, <4>1 DEF SplitReads
      <4>5. (x \in Ids(c) <=> p \in Ids(a)) /\ (y \in Ids(d) <=> q \in Ids(b))
        BY <3>6, <4>1
      <4>6. QED
        BY <2>4, <4>1, <4>2, <4>3, <4>4, <4>5
    <3>8. QED
      BY <3>4, <3>7
  <2>9. SplitReads(t2, u, id, first, new)
    BY <2>7, <2>8 DEF SplitReads
  <2>10. QED
    BY <2>2, <2>3, <2>9
<1>3. Tree \subseteq S
  <2> HIDE DEF S
  <2>1. QED
    BY <1>1, <1>2, TreeInduction
<1>4. QED
  BY <1>3

RestReads(t, u, id) ==
  /\ u = Nothing <=> Ids(t) = {id}
  /\ u # Nothing => /\ \A n \in 0 .. MaxPanes : t \in Trees[n] => u \in Trees[n]
                    /\ Panes(u) = {p \in Panes(t) : p.id # id}
                    /\ \A x, y : ReadBefore(u, x, y) <=> ReadBefore(t, x, y) /\ x # id /\ y # id

LEMMA RemoveLeafReads ==
  ASSUME NEW t \in Tree, Distinct(t), NEW id
  PROVE  RestReads(t, RemoveLeaf(t, id), id)
<1> DEFINE S == {u \in Tree : Distinct(u) => RestReads(u, RemoveLeaf(u, id), id)}
<1>1. LeafNode \subseteq S
  <2>1. ASSUME NEW l \in LeafNode PROVE RestReads(l, RemoveLeaf(l, id), id)
    <3>1. l \in Tree /\ l # Nothing
      BY LeafInTree, PanesAssumption
    <3>2. RemoveLeaf(l, id) = IF l.id = id THEN Nothing ELSE l
      BY RemoveLeafIs
    <3>3. Panes(l) = {l} /\ Ids(l) = {l.id} /\ \A x, y : ~ReadBefore(l, x, y)
      BY PanesOfLeaf
    <3>4. QED
      BY <3>1, <3>2, <3>3 DEF RestReads
  <2>2. QED
    BY <2>1, LeafInTree
<1>2. ASSUME NEW a \in Tree, NEW b \in Tree, a \in S, b \in S, Branch(a, b) \in Tree
      PROVE  Branch(a, b) \in S
  <2>1. SUFFICES ASSUME Distinct(Branch(a, b))
                 PROVE  RestReads(Branch(a, b), RemoveLeaf(Branch(a, b), id), id)
    BY <1>2
  <2>2. PICK c, d, r, u : /\ c = RemoveLeaf(a, id) /\ d = RemoveLeaf(b, id)
                          /\ r = Branch(a, b) /\ u = RemoveLeaf(r, id)
    OBVIOUS
  <2>3. Distinct(a) /\ Distinct(b) /\ Ids(a) \cap Ids(b) = {}
    BY <1>2, <2>1, DistinctSplit
  <2>4. RestReads(a, c, id) /\ RestReads(b, d, id)
    BY <1>2, <2>2, <2>3
  <2>5. u = CASE c = Nothing -> b
              [] c # Nothing /\ d = Nothing -> c
              [] OTHER -> Branch(c, d)
    <3>1. RemoveLeaf(Branch(a, b), id)
            = CASE RemoveLeaf(a, id) = Nothing -> b
                [] RemoveLeaf(a, id) # Nothing /\ RemoveLeaf(b, id) = Nothing -> RemoveLeaf(a, id)
                [] OTHER -> Branch(RemoveLeaf(a, id), RemoveLeaf(b, id))
      BY <1>2, RemoveLeafIs
    <3>2. QED
      BY <2>2, <3>1
  <2>6. Panes(r) = Panes(a) \cup Panes(b) /\ Ids(r) = Ids(a) \cup Ids(b)
    BY <1>2, <2>2, PanesOfSplit
  <2>7. \A x, y : ReadBefore(r, x, y) <=> \/ ReadBefore(a, x, y) \/ ReadBefore(b, x, y)
                                          \/ x \in Ids(a) /\ y \in Ids(b)
    BY <1>2, <2>2, PanesOfSplit
  <2>8. /\ Ids(a) # {} /\ \A x, y : ReadBefore(a, x, y) => x \in Ids(a) /\ y \in Ids(a)
        /\ Ids(b) # {} /\ \A x, y : ReadBefore(b, x, y) => x \in Ids(b) /\ y \in Ids(b)
    BY ReadsItsPanes
  <2>9. Ids(a) = {p.id : p \in Panes(a)} /\ Ids(b) = {p.id : p \in Panes(b)}
    BY DEF Ids
  <2>10. a # Nothing /\ b # Nothing /\ Nothing \notin Tree
    BY PanesAssumption
  <2>11. \A n \in 0 .. MaxPanes : r \in Trees[n] =>
           /\ n \in 1 .. MaxPanes /\ n - 1 \in 0 .. MaxPanes
           /\ a \in Trees[n - 1] /\ b \in Trees[n - 1] /\ Trees[n - 1] \subseteq Trees[n]
    <3>1. TAKE n \in 0 .. MaxPanes
    <3>2. HAVE r \in Trees[n]
    <3>3. n \in 1 .. MaxPanes /\ a \in Trees[n - 1] /\ b \in Trees[n - 1]
      BY <2>2, <3>2, PartsOf
    <3>4. n - 1 \in 0 .. MaxPanes /\ n - 1 <= n
      BY <3>3, LeafInTree
    <3>5. QED
      BY <3>3, <3>4, TreesNest
  <2>12. CASE c = Nothing
    <3>1. u = b /\ Ids(a) = {id} /\ id \notin Ids(b)
      BY <2>3, <2>4, <2>5, <2>12 DEF RestReads
    <3>2. Ids(r) # {id}
      BY <2>6, <2>8, <3>1
    <3>3. Panes(b) = {p \in Panes(r) : p.id # id}
      BY <2>6, <2>9, <3>1
    <3>4. \A x, y : ReadBefore(b, x, y) <=> ReadBefore(r, x, y) /\ x # id /\ y # id
      BY <2>7, <2>8, <3>1
    <3>5. \A n \in 0 .. MaxPanes : r \in Trees[n] => b \in Trees[n]
      BY <2>11
    <3>6. QED
      BY <2>2, <2>10, <3>1, <3>2, <3>3, <3>4, <3>5 DEF RestReads
  <2>13. CASE c # Nothing /\ d = Nothing
    <3>1. u = c /\ Ids(b) = {id} /\ id \notin Ids(a)
      BY <2>3, <2>4, <2>5, <2>13 DEF RestReads
    <3>2. Ids(r) # {id}
      BY <2>6, <2>8, <3>1
    <3>3. /\ \A n \in 0 .. MaxPanes : a \in Trees[n] => c \in Trees[n]
          /\ Panes(c) = {p \in Panes(a) : p.id # id}
          /\ \A x, y : ReadBefore(c, x, y) <=> ReadBefore(a, x, y) /\ x # id /\ y # id
      BY <2>4, <2>13 DEF RestReads
    <3>4. Panes(c) = {p \in Panes(r) : p.id # id}
      BY <2>6, <2>9, <3>1, <3>3
    <3>5. \A x, y : ReadBefore(c, x, y) <=> ReadBefore(r, x, y) /\ x # id /\ y # id
      BY <2>7, <2>8, <3>1, <3>3
    <3>6. \A n \in 0 .. MaxPanes : r \in Trees[n] => c \in Trees[n]
      BY <2>11, <3>3
    <3>7. QED
      BY <2>2, <2>13, <3>1, <3>2, <3>4, <3>5, <3>6 DEF RestReads
  <2>14. CASE c # Nothing /\ d # Nothing
    <3>1. u = Branch(c, d) /\ Ids(a) # {id} /\ Ids(b) # {id}
      BY <2>4, <2>5, <2>14 DEF RestReads
    <3>2. Ids(r) # {id}
      BY <2>6, <2>8, <3>1
    <3>3. /\ \A n \in 0 .. MaxPanes : a \in Trees[n] => c \in Trees[n]
          /\ Panes(c) = {p \in Panes(a) : p.id # id}
          /\ \A x, y : ReadBefore(c, x, y) <=> ReadBefore(a, x, y) /\ x # id /\ y # id
      BY <2>4, <2>14 DEF RestReads
    <3>4. /\ \A n \in 0 .. MaxPanes : b \in Trees[n] => d \in Trees[n]
          /\ Panes(d) = {p \in Panes(b) : p.id # id}
          /\ \A x, y : ReadBefore(d, x, y) <=> ReadBefore(b, x, y) /\ x # id /\ y # id
      BY <2>4, <2>14 DEF RestReads
    <3>5. \A n \in 0 .. MaxPanes : r \in Trees[n] => u \in Trees[n]
      <4>1. TAKE n \in 0 .. MaxPanes
      <4>2. HAVE r \in Trees[n]
      <4>3. /\ n \in 1 .. MaxPanes /\ n - 1 \in 0 .. MaxPanes
            /\ a \in Trees[n - 1] /\ b \in Trees[n - 1]
        BY <2>11, <4>2
      <4>4. c \in Trees[n - 1] /\ d \in Trees[n - 1]
        BY <3>3, <3>4, <4>3
      <4>5. QED
        BY <3>1, <4>3, <4>4, PartsOf
    <3>6. u \in Tree
      BY <1>2, <2>2, <3>5, LeafInTree
    <3>7. u # Nothing
      BY <2>10, <3>6
    <3>8. Panes(u) = Panes(c) \cup Panes(d)
      BY <3>1, <3>6, PanesOfSplit
    <3>9. Panes(u) = {p \in Panes(r) : p.id # id}
      BY <2>6, <3>3, <3>4, <3>8
    <3>10. \A x : (x \in Ids(c) <=> x \in Ids(a) /\ x # id) /\ (x \in Ids(d) <=> x \in Ids(b) /\ x # id)
      BY <3>3, <3>4 DEF Ids
    <3>11. \A x, y : ReadBefore(u, x, y) <=> ReadBefore(r, x, y) /\ x # id /\ y # id
      <4>1. TAKE x, y
      <4>2. ReadBefore(u, x, y) <=> \/ ReadBefore(c, x, y) \/ ReadBefore(d, x, y)
                                    \/ x \in Ids(c) /\ y \in Ids(d)
        BY <3>1, <3>6, PanesOfSplit
      <4>3. QED
        BY <2>7, <3>3, <3>4, <3>10, <4>2
    <3>12. QED
      BY <2>2, <3>2, <3>5, <3>7, <3>9, <3>11 DEF RestReads
  <2>15. QED
    BY <2>2, <2>12, <2>13, <2>14
<1>3. Tree \subseteq S
  <2> HIDE DEF S
  <2>1. QED
    BY <1>1, <1>2, TreeInduction
<1>4. QED
  BY <1>3

(* A tree with one pane is that pane.                                      *)
LEMMA OnePane ==
  ASSUME NEW t \in Tree, Distinct(t), NEW id, Ids(t) = {id}
  PROVE  t \in LeafNode /\ t.id = id
<1>1. CASE t \in LeafNode
  BY <1>1, PanesOfLeaf
<1>2. CASE t \notin LeafNode
  <2>1. t = Branch(t.a, t.b) /\ t.a \in Tree /\ t.b \in Tree
    BY <1>2, TreeCases
  <2>2. PICK a, b : a = t.a /\ b = t.b
    OBVIOUS
  <2>3. t = Branch(a, b) /\ a \in Tree /\ b \in Tree /\ Branch(a, b) \in Tree /\ Distinct(Branch(a, b))
    BY <2>1, <2>2
  <2>4. Ids(t) = Ids(a) \cup Ids(b) /\ Ids(a) \cap Ids(b) = {}
    BY <2>3, PanesOfSplit, DistinctSplit
  <2>5. Ids(a) # {} /\ Ids(b) # {}
    BY <2>3, ReadsItsPanes
  <2>6. QED
    BY <2>4, <2>5
<1>3. QED
  BY <1>1, <1>2

-----------------------------------------------------------------------------
(* The trees a browser has: panes that can be told apart, and no more than *)
(* MaxPanes of them.                                                       *)
Sound(t) == t \in Tree /\ Distinct(t) /\ Cardinality(Ids(t)) <= MaxPanes

LEMMA SoundTree ==
  ASSUME NEW t, Sound(t)
  PROVE  /\ t \in Tree /\ t \in Trees[MaxPanes - 1] /\ t # Nothing
         /\ MaxPanes \in 1 .. MaxPanes /\ MaxPanes - 1 \in 0 .. MaxPanes
         /\ Panes(t) \subseteq LeafNode /\ Ids(t) # {} /\ Ids(t) \subseteq PaneId
         /\ IsFiniteSet(Ids(t)) /\ Cardinality(Ids(t)) = Len(Leaves[t])
         /\ \A p, q \in Panes(t) : p.id = q.id => p = q
         /\ \A x : ~ReadBefore(t, x, x)
         /\ \A x, y : ReadBefore(t, x, y) => x \in Ids(t) /\ y \in Ids(t)
<1>1. t \in Tree /\ Distinct(t) /\ Cardinality(Ids(t)) <= MaxPanes
  BY DEF Sound
<1>2. MaxPanes \in 1 .. MaxPanes /\ MaxPanes - 1 \in 0 .. MaxPanes
  BY PanesAssumption
<1>3. IsFiniteSet(Ids(t)) /\ Cardinality(Ids(t)) = Len(Leaves[t])
  BY <1>1, CountsPanes DEF Counted
<1>4. t \in Trees[MaxPanes - 1]
  BY <1>1, <1>2, <1>3, Shallow
<1>5. t # Nothing
  BY <1>1, PanesAssumption
<1>6. QED
  BY <1>1, <1>2, <1>3, <1>4, <1>5, ReadsItsPanes

LEMMA FoundLeaf ==
  ASSUME NEW t, NEW id \in Ids(t)
  PROVE  FindLeaf(t, id) \in Panes(t) /\ FindLeaf(t, id).id = id
BY DEF FindLeaf, Ids

(* A tree with the panes of another, or with fewer, if it is read as one   *)
(* that can be.                                                            *)
LEMMA StaysSound ==
  ASSUME NEW t, Sound(t), NEW u \in Tree, Ids(u) \subseteq Ids(t), \A x : ~ReadBefore(u, x, x)
  PROVE  Sound(u)
<1>1. Distinct(u)
  BY ReadsItsPanes
<1>2. Cardinality(Ids(u)) <= Cardinality(Ids(t))
  BY SoundTree, FS_Subset
<1>3. IsFiniteSet(Ids(u)) /\ IsFiniteSet(Ids(t))
  BY SoundTree, FS_Subset
<1>4. Cardinality(Ids(u)) \in Nat /\ Cardinality(Ids(t)) \in Nat
  BY <1>3, FS_CardinalityType
<1>5. QED
  BY <1>1, <1>2, <1>4, LeafInTree DEF Sound

(* The conjuncts of MovesLand, for one pane and one target.                *)
Moves(t, m, src, id, first) ==
  /\ m \in Tree /\ Panes(m) = Panes(t) /\ Distinct(m)
  /\ \A x, y \in Ids(t) \ {src} : ReadBefore(m, x, y) <=> ReadBefore(t, x, y)
  /\ \A x \in (Ids(t) \ {src}) \ {id} : ReadBefore(m, x, src) <=> ReadBefore(t, x, id)
  /\ ReadBefore(m, src, id) <=> first

LEMMA MoveLeafLands ==
  ASSUME NEW t, Sound(t), NEW src \in Ids(t), NEW id \in Ids(t), src # id, NEW first \in BOOLEAN
  PROVE  Moves(t, MoveLeaf(t, src, id, first), src, id, first)
<1>1. /\ t \in Tree /\ Distinct(t) /\ t \in Trees[MaxPanes - 1] /\ MaxPanes - 1 \in 0 .. MaxPanes
      /\ MaxPanes \in 1 .. MaxPanes /\ Panes(t) \subseteq LeafNode
      /\ \A p, q \in Panes(t) : p.id = q.id => p = q
      /\ \A x : ~ReadBefore(t, x, x)
  BY SoundTree DEF Sound
<1>2. PICK r, l, m : /\ r = RemoveLeaf(t, src) /\ l = FindLeaf(t, src)
                     /\ m = SplitLeaf(r, id, first, l)
  OBVIOUS
<1>3. MoveLeaf(t, src, id, first) = m
  BY <1>2 DEF MoveLeaf
<1>4. l \in Panes(t) /\ l.id = src /\ l \in LeafNode
  BY <1>1, <1>2, FoundLeaf
<1>5. RestReads(t, r, src)
  BY <1>1, <1>2, RemoveLeafReads
<1>6. r # Nothing
  BY <1>5 DEF RestReads
<1>7. /\ r \in Trees[MaxPanes - 1] /\ Panes(r) = {p \in Panes(t) : p.id # src}
      /\ \A x, y : ReadBefore(r, x, y) <=> ReadBefore(t, x, y) /\ x # src /\ y # src
  BY <1>1, <1>5, <1>6 DEF RestReads
<1>8. r \in Tree
  BY <1>1, <1>7, TreesNest
<1>9. src \notin Ids(r) /\ id \in Ids(r)
  BY <1>7 DEF Ids
<1>10. SplitReads(r, m, id, first, l)
  BY <1>2, <1>4, <1>8, <1>9, SplitLeafReads
<1>11. m \in Tree
  BY <1>1, <1>7, <1>10, LeafInTree DEF SplitReads
<1>12. Panes(m) = Panes(t)
  <2>1. Panes(m) = Panes(r) \cup {l}
    BY <1>9, <1>10, <1>11 DEF SplitReads
  <2>2. QED
    BY <1>1, <1>4, <1>7, <2>1
<1>13. \A x, y : ReadBefore(m, x, y)
          <=> \/ ReadBefore(r, Was(x, id, l), Was(y, id, l))
              \/ Beside(x, y, id, first, l)
  BY <1>9, <1>10, <1>11 DEF SplitReads
<1>14. Distinct(m)
  <2>1. ASSUME NEW x PROVE ~ReadBefore(m, x, x)
    <3>1. ~ReadBefore(r, Was(x, id, l), Was(x, id, l))
      BY <1>1, <1>7
    <3>2. ~Beside(x, x, id, first, l)
      BY <1>4 DEF Beside
    <3>3. QED
      BY <1>13, <3>1, <3>2
  <2>2. QED
    BY <1>11, <2>1, ReadsItsPanes
<1>15. \A x, y \in Ids(t) \ {src} : ReadBefore(m, x, y) <=> ReadBefore(t, x, y)
  BY <1>4, <1>7, <1>13 DEF Was, Beside
<1>16. \A x \in (Ids(t) \ {src}) \ {id} : ReadBefore(m, x, src) <=> ReadBefore(t, x, id)
  BY <1>4, <1>7, <1>13 DEF Was, Beside
<1>17. ReadBefore(m, src, id) <=> first
  BY <1>1, <1>4, <1>7, <1>13 DEF Was, Beside
<1>18. QED
  BY <1>3, <1>11, <1>12, <1>14, <1>15, <1>16, <1>17 DEF Moves

(* Two panes change what they show.                                        *)
SwapReads(t, u, a, b, r, s) ==
  /\ u \in Tree /\ Ids(u) = Ids(t)
  /\ Panes(u) = {IF p.id = b THEN Leaf(b, r) ELSE IF p.id = a THEN Leaf(a, s) ELSE p : p \in Panes(t)}
  /\ \A x, y : ReadBefore(u, x, y) <=> ReadBefore(t, x, y)

LEMMA SwapSessionsReads ==
  ASSUME NEW t, Sound(t), NEW a \in Ids(t), NEW b \in Ids(t), a # b
  PROVE  SwapReads(t, SwapSessions(t, a, b), a, b, FindLeaf(t, a).session, FindLeaf(t, b).session)
<1>1. PICK r, s, v, u : /\ r = FindLeaf(t, a).session /\ s = FindLeaf(t, b).session
                        /\ v = SetSession(t, a, s) /\ u = SetSession(v, b, r)
  OBVIOUS
<1>2. SwapSessions(t, a, b) = u
  BY <1>1 DEF SwapSessions
<1>3. t \in Tree /\ a \in PaneId /\ b \in PaneId
  BY SoundTree
<1>4. r \in Session \cup {Nothing} /\ s \in Session \cup {Nothing}
  BY <1>1, SoundTree, FoundLeaf, Shapes
<1>5. SetReads(t, v, a, s)
  BY <1>1, <1>3, <1>4, SetSessionReads
<1>6. v \in Tree
  BY <1>3, <1>5, LeafInTree DEF SetReads
<1>7. SetReads(v, u, b, r)
  BY <1>1, <1>3, <1>4, <1>6, SetSessionReads
<1>8. u \in Tree /\ Ids(u) = Ids(t) /\ \A x, y : ReadBefore(u, x, y) <=> ReadBefore(t, x, y)
  BY <1>5, <1>6, <1>7, LeafInTree DEF SetReads
<1>9. /\ Panes(v) = {IF p.id = a THEN Leaf(a, s) ELSE p : p \in Panes(t)}
      /\ Panes(u) = {IF p.id = b THEN Leaf(b, r) ELSE p : p \in Panes(v)}
  BY <1>5, <1>7 DEF SetReads
<1>10. \A p : (IF p.id = a THEN Leaf(a, s) ELSE p).id = p.id
  BY Shapes
<1>11. \A p : LET q == IF p.id = a THEN Leaf(a, s) ELSE p
              IN  (IF q.id = b THEN Leaf(b, r) ELSE q)
                    = IF p.id = b THEN Leaf(b, r) ELSE IF p.id = a THEN Leaf(a, s) ELSE p
  BY <1>10
<1>12. Panes(u) = {IF p.id = b THEN Leaf(b, r) ELSE IF p.id = a THEN Leaf(a, s) ELSE p : p \in Panes(t)}
  BY <1>9, <1>11
<1>13. QED
  BY <1>1, <1>2, <1>8, <1>12 DEF SwapReads

-----------------------------------------------------------------------------
(* The sweep of the sessions that are gone goes from leaf to leaf.         *)
Sweeping(tr, seen) == [tree |-> tr, seen |-> seen]

SweepOf(w, v, seen) == w = Sweeping(v, seen)

LEMMA SweptIs ==
  ASSUME NEW u, NEW seen, NEW l, NEW live, Nothing \notin live, NEW w, SweepOf(w, u, seen)
  PROVE  /\ l.session = Nothing => SweepOf(Swept(w, l, live), u, seen)
         /\ \A v : /\ l.session # Nothing /\ l.session \notin live
                   /\ v = (IF RemoveLeaf(u, l.id) = Nothing THEN SetSession(u, l.id, Nothing)
                           ELSE RemoveLeaf(u, l.id))
                   => SweepOf(Swept(w, l, live), v, seen)
         /\ l.session # Nothing /\ l.session \in live /\ l.session \notin seen =>
              SweepOf(Swept(w, l, live), u, seen \cup {l.session})
<1>1. w = Sweeping(u, seen)
  BY DEF SweepOf
<1>2. w = [tree |-> u, seen |-> seen] /\ w.tree = u /\ w.seen = seen
  BY <1>1 DEF Sweeping
<1>3. /\ \A x : [w EXCEPT !.tree = x] = Sweeping(x, seen)
      /\ \A x : [w EXCEPT !.seen = x] = Sweeping(u, x)
  BY <1>2 DEF Sweeping
<1>4. ASSUME l.session = Nothing PROVE Swept(w, l, live) = w
  BY <1>4 DEF Swept
<1>5. ASSUME l.session # Nothing, l.session \notin live,
             NEW v, v = (IF RemoveLeaf(u, l.id) = Nothing THEN SetSession(u, l.id, Nothing)
                         ELSE RemoveLeaf(u, l.id))
      PROVE  Swept(w, l, live) = Sweeping(v, seen)
  <2>1. Swept(w, l, live)
          = [w EXCEPT !.tree = IF RemoveLeaf(w.tree, l.id) = Nothing THEN SetSession(w.tree, l.id, Nothing)
                               ELSE RemoveLeaf(w.tree, l.id)]
    BY <1>5 DEF Swept
  <2>2. QED
    BY <1>2, <1>3, <1>5, <2>1
<1>6. ASSUME l.session # Nothing, l.session \in live, l.session \notin seen
      PROVE  Swept(w, l, live) = Sweeping(u, seen \cup {l.session})
  <2>1. Swept(w, l, live) = [w EXCEPT !.seen = w.seen \cup {l.session}]
    BY <1>2, <1>6 DEF Swept
  <2>2. QED
    BY <1>2, <1>3, <2>1
<1>7. QED
  BY <1>1, <1>4, <1>5, <1>6 DEF SweepOf

IsSweep(f, n, t, live) ==
  f = [i \in 0 .. n |-> IF i = 0 THEN [tree |-> t, seen |-> {}]
                        ELSE Swept(f[i - 1], Leaves[t][i], live)]

LEMMA SweepExists ==
  ASSUME NEW t \in Tree, NEW live
  PROVE  \E f : IsSweep(f, Len(Leaves[t]), t, live)
<1> DEFINE S == {n \in 0 .. Len(Leaves[t]) : \E f : IsSweep(f, n, t, live)}
<1>1. Len(Leaves[t]) \in Nat
  BY LeavesType
<1>2. 0 \in S
  <2>1. PICK z : z \in Nat /\ z = 0
    OBVIOUS
  <2>2. PICK x : x = [tree |-> t, seen |-> {}]
    OBVIOUS
  <2>3. PICK f : f = [i \in 0 .. z |-> x]
    OBVIOUS
  <2>4. \A i \in 0 .. z : f[i] = IF i = 0 THEN [tree |-> t, seen |-> {}]
                                 ELSE Swept(f[i - 1], Leaves[t][i], live)
    BY <2>1, <2>2, <2>3
  <2>5. f = [i \in 0 .. z |-> f[i]]
    BY <2>3
  <2>6. IsSweep(f, z, t, live)
    BY <2>4, <2>5 DEF IsSweep
  <2>7. QED
    BY <1>1, <2>1, <2>6
<1>3. ASSUME NEW n \in 1 .. Len(Leaves[t]), n - 1 \in S PROVE n \in S
  <2>1. PICK f : IsSweep(f, n - 1, t, live)
    BY <1>3
  <2>2. PICK x : x = Swept(f[n - 1], Leaves[t][n], live)
    OBVIOUS
  <2>3. PICK g : g = [i \in 0 .. n |-> IF i = n THEN x ELSE f[i]]
    OBVIOUS
  <2>4. \A i \in 0 .. n - 1 : f[i] = IF i = 0 THEN [tree |-> t, seen |-> {}]
                                     ELSE Swept(f[i - 1], Leaves[t][i], live)
    BY <2>1 DEF IsSweep
  <2>5. \A i \in 0 .. n : i \in 0 .. n - 1 \/ i = n
    BY <1>1
  <2>6. \A i \in 0 .. n - 1 : g[i] = f[i]
    BY <1>1, <2>3
  <2>7. \A i \in 1 .. n : i - 1 \in 0 .. n - 1
    BY <1>1
  <2>8. \A i \in 0 .. n : g[i] = IF i = 0 THEN [tree |-> t, seen |-> {}]
                                 ELSE Swept(g[i - 1], Leaves[t][i], live)
    <3>1. TAKE i \in 0 .. n
    <3>2. CASE i = n
      <4>1. g[i] = x /\ i # 0 /\ g[i - 1] = f[n - 1]
        BY <1>1, <2>3, <2>6, <2>7, <3>2
      <4>2. QED
        BY <2>2, <3>2, <4>1
    <3>3. CASE i # n
      <4>1. i \in 0 .. n - 1 /\ g[i] = f[i]
        BY <2>5, <2>6, <3>3
      <4>2. i # 0 => g[i - 1] = f[i - 1]
        BY <1>1, <2>6, <4>1
      <4>3. QED
        BY <2>4, <4>1, <4>2
    <3>4. QED
      BY <3>2, <3>3
  <2>9. g = [i \in 0 .. n |-> g[i]]
    BY <2>3
  <2>10. IsSweep(g, n, t, live)
    BY <2>8, <2>9 DEF IsSweep
  <2>11. QED
    BY <1>1, <2>10
<1>4. 0 .. Len(Leaves[t]) \subseteq S
  <2> HIDE DEF S
  <2>1. QED
    BY <1>1, <1>2, <1>3, DepthInduction
<1>5. QED
  BY <1>1, <1>4

LEMMA NormalizeIs ==
  ASSUME NEW t \in Tree, NEW live
  PROVE  \E f : IsSweep(f, Len(Leaves[t]), t, live) /\ Normalize(t, live) = f[Len(Leaves[t])].tree
<1> DEFINE Rec(f) == f = [i \in 0 .. Len(Leaves[t]) |->
                            IF i = 0 THEN [tree |-> t, seen |-> {}]
                            ELSE Swept(f[i - 1], Leaves[t][i], live)]
<1>1. PICK f : f = CHOOSE g : Rec(g)
  OBVIOUS
<1>2. Normalize(t, live) = f[Len(Leaves[t])].tree
  BY <1>1, Zenon DEF Normalize
<1>3. \A g : Rec(g) <=> IsSweep(g, Len(Leaves[t]), t, live)
  BY Zenon DEF IsSweep
<1> HIDE DEF Rec
<1>4. IsSweep(f, Len(Leaves[t]), t, live)
  BY <1>1, <1>3, SweepExists
<1>5. QED
  BY <1>2, <1>4

(* No session is shown twice.                                              *)
OnceShown(t) == \A p, q \in Panes(t) : p.session = q.session /\ p.session # Nothing => p = q

(* The panes of the first i leaves that the sweep closes, and what it has  *)
(* made of the tree by then.                                               *)
Gone(t, live, i) == {p.id : p \in {Leaves[t][j] : j \in 1 .. i} \ [id : PaneId, session : live \cup {Nothing}]}

Remains(t, gone, u) ==
  IF Ids(t) \subseteq gone THEN \E id \in Ids(t) : u = Leaf(id, Nothing)
  ELSE /\ u \in Tree
       /\ Panes(u) = {p \in Panes(t) : p.id \notin gone}
       /\ \A x, y : ReadBefore(u, x, y) <=> ReadBefore(t, x, y) /\ x \notin gone /\ y \notin gone

SweptTo(t, live, i, w) ==
  \E u, seen : /\ w = Sweeping(u, seen) /\ Remains(t, Gone(t, live, i), u)
               /\ seen \subseteq {Leaves[t][j].session : j \in 1 .. i}

LEMMA NextGone ==
  ASSUME NEW t, Sound(t), NEW live, NEW i \in 1 .. Len(Leaves[t])
  PROVE  /\ Leaves[t][i] \in Panes(t)
         /\ Leaves[t][i].id \notin Gone(t, live, i - 1)
         /\ Gone(t, live, i) = Gone(t, live, i - 1) \cup
              (IF Leaves[t][i].session \in live \cup {Nothing} THEN {} ELSE {Leaves[t][i].id})
<1>1. PICK q, n : q = Leaves[t] /\ n = Len(q)
  OBVIOUS
<1>2. t \in Tree /\ Distinct(t)
  BY DEF Sound
<1>3. q \in Seq(LeafNode) /\ DOMAIN q = 1 .. n /\ n \in Nat
  BY <1>1, <1>2, LeavesType
<1>4. \A j \in 1 .. n : q[j] \in LeafNode
  BY <1>1, <1>3
<1>5. q[i] \in Panes(t)
  BY <1>1, <1>3 DEF Panes, ToSet
<1>6. \A j \in 1 .. n : q[j].id = q[i].id => j = i
  BY <1>1, <1>2, <1>3 DEF Distinct
<1>7. \A j \in 1 .. n : q[j] \in [id : PaneId, session : live \cup {Nothing}]
                          <=> q[j].session \in live \cup {Nothing}
  BY <1>4 DEF LeafNode
<1>8. \A k \in 0 .. n : Gone(t, live, k)
        = {x \in PaneId : \E j \in 1 .. k : q[j].id = x /\ q[j].session \notin live \cup {Nothing}}
  <2>1. TAKE k \in 0 .. n
  <2>2. \A j \in 1 .. k : j \in 1 .. n
    BY <1>3
  <2>3. \A j \in 1 .. k : q[j].id \in PaneId
    BY <1>4, <2>2, Shapes
  <2>4. \A x : x \in Gone(t, live, k)
                 <=> \E j \in 1 .. k : x = q[j].id /\ q[j] \notin [id : PaneId, session : live \cup {Nothing}]
    BY <1>1 DEF Gone
  <2>5. QED
    BY <1>7, <2>2, <2>3, <2>4
<1>9. i \in 0 .. n /\ i - 1 \in 0 .. n /\ i \in 1 .. n
  BY <1>1, <1>3
<1>10. \A j \in 1 .. i - 1 : j \in 1 .. n /\ j # i
  BY <1>3, <1>9
<1>11. q[i].id \notin Gone(t, live, i - 1)
  BY <1>6, <1>8, <1>9, <1>10
<1>12. \A j \in 1 .. i : j \in 1 .. i - 1 \/ j = i
  BY <1>9
<1>13. \A j \in 1 .. i - 1 : j \in 1 .. i
  BY <1>9
<1>14. i \in 1 .. i
  BY <1>9
<1>15. q[i].id \in PaneId
  BY <1>4, <1>9, Shapes
<1>16. Gone(t, live, i) = Gone(t, live, i - 1) \cup
              (IF q[i].session \in live \cup {Nothing} THEN {} ELSE {q[i].id})
  <2>1. ASSUME NEW x \in PaneId
        PROVE (\E j \in 1 .. i : q[j].id = x /\ q[j].session \notin live \cup {Nothing})
                <=> \/ \E j \in 1 .. i - 1 : q[j].id = x /\ q[j].session \notin live \cup {Nothing}
                    \/ q[i].id = x /\ q[i].session \notin live \cup {Nothing}
    BY <1>12, <1>13, <1>14
  <2>2. QED
    BY <1>8, <1>9, <1>15, <2>1
<1>17. QED
  BY <1>1, <1>5, <1>11, <1>16

LEMMA SweepStep ==
  ASSUME NEW t, Sound(t), OnceShown(t), NEW live, Nothing \notin live,
         NEW i \in 1 .. Len(Leaves[t]), NEW w, SweptTo(t, live, i - 1, w)
  PROVE  SweptTo(t, live, i, Swept(w, Leaves[t][i], live))
<1>1. PICK l : l = Leaves[t][i]
  OBVIOUS
<1>2. PICK u, seen : /\ w = Sweeping(u, seen) /\ Remains(t, Gone(t, live, i - 1), u)
                     /\ seen \subseteq {Leaves[t][j].session : j \in 1 .. i - 1}
  BY DEF SweptTo
<1>3. PICK gone, next : gone = Gone(t, live, i - 1) /\ next = Gone(t, live, i)
  OBVIOUS
<1>4. /\ l \in Panes(t) /\ l.id \notin gone
      /\ next = gone \cup (IF l.session \in live \cup {Nothing} THEN {} ELSE {l.id})
  BY <1>1, <1>3, NextGone
<1>5. l.id \in Ids(t)
  BY <1>4 DEF Ids
<1>6. /\ u \in Tree /\ Panes(u) = {p \in Panes(t) : p.id \notin gone}
      /\ \A x, y : ReadBefore(u, x, y) <=> ReadBefore(t, x, y) /\ x \notin gone /\ y \notin gone
  BY <1>2, <1>3, <1>4, <1>5 DEF Remains
<1>7. Ids(u) = Ids(t) \ gone /\ l.id \in Ids(u)
  BY <1>4, <1>5, <1>6 DEF Ids
<1>8. Distinct(u)
  BY <1>6, SoundTree, ReadsItsPanes
<1>9. seen \subseteq {Leaves[t][j].session : j \in 1 .. i}
  <2>1. \A j \in 1 .. i - 1 : j \in 1 .. i
    BY SoundTree, LeavesType
  <2>2. QED
    BY <1>2, <2>1
<1>10. CASE l.session = Nothing
  <2>1. Swept(w, l, live) = Sweeping(u, seen)
    <3>1. SweepOf(w, u, seen)
      BY <1>2 DEF SweepOf
    <3>2. SweepOf(Swept(w, l, live), u, seen)
      BY <1>10, <3>1, SweptIs
    <3>3. QED
      BY <3>2 DEF SweepOf
  <2>2. next = gone
    BY <1>4, <1>10
  <2>3. QED
    BY <1>1, <1>2, <1>3, <1>9, <2>1, <2>2 DEF SweptTo
<1>11. CASE l.session # Nothing /\ l.session \notin live
  <2>1. PICK r : r = RemoveLeaf(u, l.id)
    OBVIOUS
  <2>2. PICK v : v = (IF r = Nothing THEN SetSession(u, l.id, Nothing) ELSE r)
    OBVIOUS
  <2>3. Swept(w, l, live) = Sweeping(v, seen)
    <3>1. SweepOf(w, u, seen)
      BY <1>2 DEF SweepOf
    <3>2. SweepOf(Swept(w, l, live), v, seen)
      BY <1>11, <2>1, <2>2, <3>1, SweptIs
    <3>3. QED
      BY <3>2 DEF SweepOf
  <2>4. next = gone \cup {l.id}
    BY <1>4, <1>11
  <2>5. RestReads(u, r, l.id)
    BY <1>6, <1>8, <2>1, RemoveLeafReads
  <2>6. Remains(t, next, v)
    <3>1. CASE r = Nothing
      <4>1. Ids(u) = {l.id}
        BY <2>5, <3>1 DEF RestReads
      <4>2. Ids(t) \subseteq next
        BY <1>7, <2>4, <4>1
      <4>3. u \in LeafNode /\ u.id = l.id
        BY <1>6, <1>8, <4>1, OnePane
      <4>4. v = Leaf(l.id, Nothing)
        BY <2>2, <3>1, <4>3, SetSessionIs
      <4>5. QED
        BY <1>5, <4>2, <4>4 DEF Remains
    <3>2. CASE r # Nothing
      <4>1. /\ \A n \in 0 .. MaxPanes : u \in Trees[n] => r \in Trees[n]
            /\ Panes(r) = {p \in Panes(u) : p.id # l.id}
            /\ \A x, y : ReadBefore(r, x, y) <=> ReadBefore(u, x, y) /\ x # l.id /\ y # l.id
        BY <2>5, <3>2 DEF RestReads
      <4>2. r \in Tree
        BY <1>6, <4>1, LeafInTree
      <4>3. ~(Ids(t) \subseteq next)
        <5>1. Ids(u) # {l.id}
          BY <2>5, <3>2 DEF RestReads
        <5>2. QED
          BY <1>7, <2>4, <5>1
      <4>4. Panes(r) = {p \in Panes(t) : p.id \notin next}
        BY <1>6, <2>4, <4>1
      <4>5. \A x, y : ReadBefore(r, x, y) <=> ReadBefore(t, x, y) /\ x \notin next /\ y \notin next
        BY <1>6, <2>4, <4>1
      <4>6. QED
        BY <2>2, <3>2, <4>2, <4>3, <4>4, <4>5 DEF Remains
    <3>3. QED
      BY <3>1, <3>2
  <2>7. QED
    BY <1>1, <1>3, <1>9, <2>3, <2>6 DEF SweptTo
<1>12. CASE l.session # Nothing /\ l.session \in live
  <2>1. l.session \notin seen
    <3>1. SUFFICES ASSUME NEW j \in 1 .. i - 1, Leaves[t][j].session = l.session PROVE FALSE
      BY <1>2
    <3>2. Len(Leaves[t]) \in Nat /\ t \in Tree /\ Distinct(t)
      BY SoundTree, LeavesType DEF Sound
    <3>3. j \in 1 .. Len(Leaves[t]) /\ j # i
      BY <3>2
    <3>4. Leaves[t][j] \in Panes(t)
      BY <3>3, NextGone
    <3>5. Leaves[t][j] = l
      BY <1>4, <1>12, <3>1, <3>4 DEF OnceShown
    <3>6. DOMAIN Leaves[t] = 1 .. Len(Leaves[t])
      BY <3>2, LeavesType
    <3>7. QED
      BY <1>1, <3>2, <3>3, <3>5, <3>6 DEF Distinct
  <2>2. Swept(w, l, live) = Sweeping(u, seen \cup {l.session})
    <3>1. SweepOf(w, u, seen)
      BY <1>2 DEF SweepOf
    <3>2. SweepOf(Swept(w, l, live), u, seen \cup {l.session})
      BY <1>12, <2>1, <3>1, SweptIs
    <3>3. QED
      BY <3>2 DEF SweepOf
  <2>3. next = gone
    BY <1>4, <1>12
  <2>4. seen \cup {l.session} \subseteq {Leaves[t][j].session : j \in 1 .. i}
    <3>1. i \in 1 .. i
      BY SoundTree, LeavesType
    <3>2. QED
      BY <1>1, <1>9, <3>1
  <2>5. QED
    BY <1>1, <1>2, <1>3, <2>2, <2>3, <2>4 DEF SweptTo
<1>13. QED
  BY <1>1, <1>10, <1>11, <1>12

(* What is left are the panes of the sessions that are listed, and the     *)
(* empty ones; if there are none, one pane that is emptied.                *)
Keeps(t, live) == {p \in Panes(t) : p.session \in live \cup {Nothing}}

NormalReads(t, u, live) ==
  IF Keeps(t, live) = {} THEN \E id \in Ids(t) : u = Leaf(id, Nothing)
  ELSE /\ u \in Tree /\ Panes(u) = Keeps(t, live) /\ Distinct(u)
       /\ \A x, y \in Ids(u) : ReadBefore(u, x, y) <=> ReadBefore(t, x, y)

LEMMA NormalizeReads ==
  ASSUME NEW t, Sound(t), OnceShown(t), NEW live, Nothing \notin live
  PROVE  NormalReads(t, Normalize(t, live), live)
<1>1. t \in Tree /\ Distinct(t) /\ Ids(t) # {}
  BY SoundTree DEF Sound
<1>2. PICK n : n = Len(Leaves[t])
  OBVIOUS
<1>3. n \in Nat
  BY <1>1, <1>2, LeavesType
<1>4. PICK f : IsSweep(f, n, t, live) /\ Normalize(t, live) = f[n].tree
  BY <1>1, <1>2, NormalizeIs
<1>5. \A i \in 0 .. n : f[i] = IF i = 0 THEN [tree |-> t, seen |-> {}]
                               ELSE Swept(f[i - 1], Leaves[t][i], live)
  BY <1>4 DEF IsSweep
<1> DEFINE S == {i \in 0 .. n : SweptTo(t, live, i, f[i])}
<1>6. 0 \in S
  <2>1. 0 \in 0 .. n
    BY <1>3
  <2>2. f[0] = Sweeping(t, {})
    BY <1>5, <2>1 DEF Sweeping
  <2>3. \A j : j \notin 1 .. 0
    OBVIOUS
  <2>4. Gone(t, live, 0) = {}
    BY <2>3 DEF Gone
  <2>5. Remains(t, {}, t)
    BY <1>1 DEF Remains
  <2>6. SweptTo(t, live, 0, f[0])
    BY <2>2, <2>4, <2>5, Zenon DEF SweptTo
  <2>7. QED
    BY <2>1, <2>6
<1>7. ASSUME NEW i \in 1 .. n, i - 1 \in S PROVE i \in S
  <2>1. i \in 0 .. n /\ i # 0
    BY <1>3
  <2>2. f[i] = Swept(f[i - 1], Leaves[t][i], live)
    BY <1>5, <2>1
  <2>3. SweptTo(t, live, i - 1, f[i - 1])
    BY <1>7
  <2>4. SweptTo(t, live, i, f[i])
    BY <1>2, <2>2, <2>3, SweepStep
  <2>5. QED
    BY <2>1, <2>4
<1>8. SweptTo(t, live, n, f[n])
  <2>1. 0 .. n \subseteq S
    <3> HIDE DEF S
    <3>1. QED
      BY <1>3, <1>6, <1>7, DepthInduction
  <2>2. QED
    BY <1>3, <2>1
<1>9. PICK u, seen : f[n] = Sweeping(u, seen) /\ Remains(t, Gone(t, live, n), u)
  BY <1>8 DEF SweptTo
<1>10. Normalize(t, live) = u
  BY <1>4, <1>9 DEF Sweeping
<1>11. PICK gone : gone = Gone(t, live, n)
  OBVIOUS
<1>12. \A p \in Panes(t) : p.id \in gone <=> p \notin Keeps(t, live)
  <2>1. DOMAIN Leaves[t] = 1 .. n
    BY <1>1, <1>2, LeavesType
  <2>2. Panes(t) = {Leaves[t][j] : j \in 1 .. n}
    BY <2>1, Zenon DEF Panes, ToSet
  <2>3. gone = {p.id : p \in Panes(t) \ [id : PaneId, session : live \cup {Nothing}]}
    BY <1>11, <2>2, Zenon DEF Gone
  <2>4. Panes(t) \subseteq LeafNode /\ \A p, q \in Panes(t) : p.id = q.id => p = q
    BY SoundTree
  <2>5. \A p \in Panes(t) : p \in [id : PaneId, session : live \cup {Nothing}]
                              <=> p.session \in live \cup {Nothing}
    BY <2>4 DEF LeafNode
  <2>6. QED
    BY <2>3, <2>4, <2>5 DEF Keeps
<1>13. Ids(t) \subseteq gone <=> Keeps(t, live) = {}
  BY <1>12 DEF Ids, Keeps
<1>14. CASE Keeps(t, live) = {}
  BY <1>9, <1>10, <1>11, <1>13, <1>14 DEF Remains, NormalReads
<1>15. CASE Keeps(t, live) # {}
  <2>1. /\ u \in Tree /\ Panes(u) = {p \in Panes(t) : p.id \notin gone}
        /\ \A x, y : ReadBefore(u, x, y) <=> ReadBefore(t, x, y) /\ x \notin gone /\ y \notin gone
    BY <1>9, <1>11, <1>13, <1>15 DEF Remains
  <2>2. Panes(u) = Keeps(t, live)
    BY <1>12, <2>1 DEF Keeps
  <2>3. \A x \in Ids(u) : x \notin gone
    BY <2>1 DEF Ids
  <2>4. Distinct(u)
    BY <2>1, SoundTree, ReadsItsPanes
  <2>5. QED
    BY <1>10, <1>15, <2>1, <2>2, <2>3, <2>4 DEF NormalReads
<1>16. QED
  BY <1>14, <1>15

-----------------------------------------------------------------------------
(* What a tree shows, as a map.                                            *)
LEMMA ShownIs ==
  ASSUME NEW t, Sound(t)
  PROVE  /\ ShownIn(t) = [id \in Ids(t) |-> ShownIn(t)[id]]
         /\ \A p \in Panes(t) : ShownIn(t)[p.id] = p.session
         /\ \A id \in Ids(t) : ShownIn(t)[id] \in Session \cup {Nothing}
         /\ \A s : s \in Visible(t) <=> s # Nothing /\ \E id \in Ids(t) : ShownIn(t)[id] = s
<1>1. PICK P, I, f : P = Panes(t) /\ I = Ids(t) /\ f = ShownIn(t)
  OBVIOUS
<1>2. I = {p.id : p \in P} /\ P \subseteq LeafNode /\ \A p, q \in P : p.id = q.id => p = q
  BY <1>1, SoundTree DEF Ids
<1>3. f = [id \in I |-> (CHOOSE p \in P : p.id = id).session]
  <2>1. ShownIn(t) = [id \in {leaf.id : leaf \in Panes(t)} |->
                        (CHOOSE leaf \in Panes(t) : leaf.id = id).session]
    BY DEF ShownIn
  <2>2. I = {leaf.id : leaf \in Panes(t)}
    BY <1>1 DEF Ids
  <2>3. QED
    BY <1>1, <2>1, <2>2
<1>4. ASSUME NEW p \in P PROVE f[p.id] = p.session
  <2>1. p.id \in I /\ (CHOOSE q \in P : q.id = p.id) = p
    BY <1>2
  <2>2. QED
    BY <1>3, <2>1
<1>5. f = [id \in I |-> f[id]]
  BY <1>3
<1>6. \A id \in I : \E p \in P : p.id = id /\ f[id] = p.session /\ p.session \in Session \cup {Nothing}
  BY <1>2, <1>4, Shapes
<1>7. \A s : s \in Visible(t) <=> s # Nothing /\ \E p \in P : p.session = s
  BY <1>1 DEF Visible
<1>8. \A s : (\E p \in P : p.session = s) <=> \E id \in I : f[id] = s
  BY <1>2, <1>4, <1>6
<1>9. \A s : s \in Visible(t) <=> s # Nothing /\ \E id \in I : f[id] = s
  BY <1>7, <1>8
<1>10. \A id \in I : f[id] \in Session \cup {Nothing}
  BY <1>6
<1>11. QED
  BY <1>1, <1>4, <1>5, <1>9, <1>10

(* A map that says of every pane what it shows is that one.                *)
LEMMA ShownBy ==
  ASSUME NEW t, Sound(t), NEW f, f = [id \in Ids(t) |-> f[id]],
         \A p \in Panes(t) : f[p.id] = p.session
  PROVE  ShownIn(t) = f
<1>1. PICK P, I, g : P = Panes(t) /\ I = Ids(t) /\ g = ShownIn(t)
  OBVIOUS
<1>2. I = {p.id : p \in P}
  BY <1>1 DEF Ids
<1>3. g = [id \in I |-> g[id]] /\ \A p \in P : g[p.id] = p.session
  BY <1>1, ShownIs
<1>4. \A id \in I : f[id] = g[id]
  BY <1>1, <1>2, <1>3
<1>5. QED
  BY <1>1, <1>3, <1>4

(* What a rearranged tree is: as good as the one before, and showing what  *)
(* the map f says.                                                         *)
Good(t) == Sound(t) /\ OnceShown(t)
IsNow(u, f) == Good(u) /\ ShownIn(u) = f

LEMMA AfterSet ==
  ASSUME NEW t, Good(t), NEW id \in Ids(t), NEW s \in Session \cup {Nothing}, s \notin Visible(t)
  PROVE  IsNow(SetSession(t, id, s), Views!Put(ShownIn(t), id, s))
<1>1. PICK u, f, I : u = SetSession(t, id, s) /\ f = ShownIn(t) /\ I = Ids(t)
  OBVIOUS
<1>2. t \in Tree /\ id \in PaneId /\ Sound(t) /\ \A x : ~ReadBefore(t, x, x)
  BY SoundTree DEF Good
<1>3. SetReads(t, u, id, s)
  BY <1>1, <1>2, SetSessionReads
<1>4. /\ u \in Tree /\ Ids(u) = I /\ \A x : ~ReadBefore(u, x, x)
      /\ Panes(u) = {IF p.id = id THEN Leaf(id, s) ELSE p : p \in Panes(t)}
  BY <1>1, <1>2, <1>3, LeafInTree DEF SetReads
<1>5. Sound(u)
  BY <1>1, <1>2, <1>4, StaysSound
<1>6. OnceShown(u)
  <2>1. Leaf(id, s).session = s
    BY Shapes
  <2>2. \A p \in Panes(t) : p.session = s => s = Nothing
    BY DEF Visible
  <2>3. QED
    BY <1>4, <2>1, <2>2 DEF Good, OnceShown
<1>7. PICK g : g = Views!Put(f, id, s)
  OBVIOUS
<1>8. f = [x \in I |-> f[x]] /\ \A p \in Panes(t) : p.id \in I /\ f[p.id] = p.session
  BY <1>1, <1>2, ShownIs DEF Ids
<1>9. g = [q \in I |-> IF q = id THEN s ELSE f[q]]
  <2>1. DOMAIN f = I /\ I \cup {id} = I
    BY <1>1, <1>8
  <2>2. QED
    BY <1>7, <2>1 DEF Views!Put
<1>10. \A p \in Panes(u) : g[p.id] = p.session
  <2>1. Leaf(id, s).id = id /\ Leaf(id, s).session = s
    BY Shapes
  <2>2. QED
    BY <1>1, <1>4, <1>8, <1>9, <2>1
<1>11. g = [q \in Ids(u) |-> g[q]]
  BY <1>4, <1>9
<1>12. ShownIn(u) = g
  BY <1>5, <1>10, <1>11, ShownBy
<1>13. QED
  BY <1>1, <1>5, <1>6, <1>7, <1>12 DEF IsNow, Good

LEMMA AfterSplit ==
  ASSUME NEW t, Good(t), Len(Leaves[t]) < MaxPanes, NEW id \in Ids(t), NEW first \in BOOLEAN,
         NEW new \in LeafNode, new.id \notin Ids(t), new.session \notin Visible(t)
  PROVE  IsNow(SplitLeaf(t, id, first, new), Views!Put(ShownIn(t), new.id, new.session))
<1>1. PICK u, f, I, n, s : /\ u = SplitLeaf(t, id, first, new) /\ f = ShownIn(t) /\ I = Ids(t)
                           /\ n = new.id /\ s = new.session
  OBVIOUS
<1>2. /\ t \in Tree /\ t \in Trees[MaxPanes - 1] /\ MaxPanes \in 1 .. MaxPanes /\ Sound(t)
      /\ IsFiniteSet(I) /\ Cardinality(I) = Len(Leaves[t]) /\ \A x : ~ReadBefore(t, x, x)
  BY <1>1, SoundTree DEF Good
<1>3. SplitReads(t, u, id, first, new)
  BY <1>1, <1>2, SplitLeafReads
<1>4. u \in Tree
  BY <1>2, <1>3, LeafInTree DEF SplitReads
<1>5. /\ Panes(u) = Panes(t) \cup {new}
      /\ \A x, y : ReadBefore(u, x, y)
              <=> \/ ReadBefore(t, Was(x, id, new), Was(y, id, new))
                  \/ Beside(x, y, id, first, new)
  BY <1>1, <1>3, <1>4 DEF SplitReads
<1>6. Ids(u) = I \cup {n} /\ n \notin I
  BY <1>1, <1>5 DEF Ids
<1>7. Sound(u)
  <2>1. \A x : ~Beside(x, x, id, first, new)
    BY <1>1, <1>6 DEF Beside
  <2>2. \A x : ~ReadBefore(u, x, x)
    BY <1>2, <1>5, <2>1
  <2>3. Distinct(u)
    BY <1>4, <2>2, ReadsItsPanes
  <2>4. Cardinality(I \cup {n}) = Cardinality(I) + 1
    BY <1>2, <1>6, FS_AddElement
  <2>5. Cardinality(I) \in Nat
    BY <1>2, FS_CardinalityType
  <2>6. Cardinality(Ids(u)) <= MaxPanes
    BY <1>2, <1>6, <2>4, <2>5, LeafInTree
  <2>7. QED
    BY <1>4, <2>3, <2>6 DEF Sound
<1>8. OnceShown(u)
  <2>1. \A p \in Panes(t) : p.session = s => s = Nothing
    BY <1>1 DEF Visible
  <2>2. QED
    BY <1>1, <1>5, <2>1 DEF Good, OnceShown
<1>9. PICK g : g = Views!Put(f, n, s)
  OBVIOUS
<1>10. f = [x \in I |-> f[x]] /\ \A p \in Panes(t) : p.id \in I /\ f[p.id] = p.session
  BY <1>1, <1>2, ShownIs DEF Ids
<1>11. g = [q \in I \cup {n} |-> IF q = n THEN s ELSE f[q]]
  <2>1. DOMAIN f = I
    BY <1>10
  <2>2. QED
    BY <1>9, <2>1 DEF Views!Put
<1>12. \A p \in Panes(u) : g[p.id] = p.session
  BY <1>1, <1>5, <1>6, <1>10, <1>11
<1>13. g = [q \in Ids(u) |-> g[q]]
  BY <1>6, <1>11
<1>14. ShownIn(u) = g
  BY <1>7, <1>12, <1>13, ShownBy
<1>15. QED
  BY <1>1, <1>7, <1>8, <1>9, <1>14 DEF IsNow, Good

(* Some of the panes, as they were.                                        *)
LEMMA AfterClosing ==
  ASSUME NEW t, Good(t), NEW u \in Tree, Distinct(u), Panes(u) \subseteq Panes(t)
  PROVE  IsNow(u, Views!Only(ShownIn(t), Ids(u)))
<1>1. PICK f, I : f = ShownIn(t) /\ I = Ids(t)
  OBVIOUS
<1>2. Sound(t) /\ Ids(u) \subseteq Ids(t)
  BY DEF Good, Ids
<1>3. Sound(u)
  BY <1>2, StaysSound, ReadsItsPanes
<1>4. OnceShown(u)
  BY DEF Good, OnceShown
<1>5. \A p \in Panes(t) : f[p.id] = p.session
  BY <1>1, <1>2, ShownIs
<1>6. PICK g : g = Views!Only(f, Ids(u))
  OBVIOUS
<1>7. g = [q \in Ids(u) |-> f[q]]
  BY <1>6 DEF Views!Only
<1>8. \A p \in Panes(u) : g[p.id] = p.session
  BY <1>5, <1>7 DEF Ids
<1>9. ShownIn(u) = g
  BY <1>3, <1>7, <1>8, ShownBy
<1>10. QED
  BY <1>1, <1>3, <1>4, <1>6, <1>9 DEF IsNow, Good

LEMMA AfterMove ==
  ASSUME NEW t, Good(t), NEW src \in Ids(t), NEW id \in Ids(t), NEW first \in BOOLEAN
  PROVE  IsNow(MoveLeaf(t, src, id, first), ShownIn(t))
<1>1. CASE src = id
  BY <1>1 DEF MoveLeaf, IsNow
<1>2. CASE src # id
  <2>1. PICK m, f : m = MoveLeaf(t, src, id, first) /\ f = ShownIn(t)
    OBVIOUS
  <2>2. m \in Tree /\ Panes(m) = Panes(t) /\ Distinct(m)
    BY <1>2, <2>1, MoveLeafLands DEF Moves, Good
  <2>3. Ids(m) = Ids(t)
    BY <2>2 DEF Ids
  <2>4. IsNow(m, Views!Only(f, Ids(m)))
    BY <2>1, <2>2, AfterClosing
  <2>5. Views!Only(f, Ids(m)) = f
    <3>1. f = [x \in Ids(t) |-> f[x]]
      BY <2>1, ShownIs DEF Good
    <3>2. Views!Only(f, Ids(m)) = [x \in Ids(t) |-> f[x]]
      BY <2>3, Zenon DEF Views!Only
    <3>3. QED
      BY <3>1, <3>2, Zenon
  <2>6. QED
    BY <2>1, <2>4, <2>5
<1>3. QED
  BY <1>1, <1>2

LEMMA AfterSwap ==
  ASSUME NEW t, Good(t), NEW a \in Ids(t), NEW b \in Ids(t), a # b
  PROVE  IsNow(SwapSessions(t, a, b), Views!Exchange(ShownIn(t), a, b))
<1>1. PICK u, f, I, r, s : /\ u = SwapSessions(t, a, b) /\ f = ShownIn(t) /\ I = Ids(t)
                           /\ r = FindLeaf(t, a).session /\ s = FindLeaf(t, b).session
  OBVIOUS
<1>2. Sound(t) /\ \A x : ~ReadBefore(t, x, x)
  BY SoundTree DEF Good
<1>3. SwapReads(t, u, a, b, r, s)
  BY <1>1, <1>2, SwapSessionsReads
<1>4. /\ u \in Tree /\ Ids(u) = I /\ \A x : ~ReadBefore(u, x, x)
      /\ Panes(u) = {IF p.id = b THEN Leaf(b, r) ELSE IF p.id = a THEN Leaf(a, s) ELSE p : p \in Panes(t)}
  BY <1>1, <1>2, <1>3 DEF SwapReads
<1>5. Sound(u)
  BY <1>1, <1>2, <1>4, StaysSound
<1>6. PICK p \in Panes(t), q \in Panes(t) : p.id = a /\ q.id = b /\ p.session = r /\ q.session = s
  BY <1>1, FoundLeaf
<1>7. \A x, y \in Panes(t) : x.id = y.id => x = y
  BY <1>2, SoundTree
<1>8. /\ Leaf(b, r).session = r /\ Leaf(a, s).session = s
      /\ Leaf(b, r).id = b /\ Leaf(a, s).id = a
  BY Shapes
<1>9. OnceShown(u)
  <2>1. \A x, y \in Panes(t) : x.session = y.session /\ x.session # Nothing => x = y
    BY DEF Good, OnceShown
  <2>2. QED
    BY <1>4, <1>6, <1>7, <1>8, <2>1 DEF OnceShown
<1>10. f = [x \in I |-> f[x]] /\ \A x \in Panes(t) : x.id \in I /\ f[x.id] = x.session
  BY <1>1, <1>2, ShownIs DEF Ids
<1>11. PICK g : g = Views!Exchange(f, a, b)
  OBVIOUS
<1>12. f[a] = r /\ f[b] = s
  BY <1>6, <1>10
<1>13. g = [x \in I |-> IF x = b THEN r ELSE IF x = a THEN s ELSE f[x]]
  <2>1. g = [f EXCEPT ![a] = f[b], ![b] = f[a]]
    BY <1>11, Zenon DEF Views!Exchange
  <2>2. QED
    BY <1>1, <1>10, <1>12, <2>1
<1>14. \A x \in Panes(u) : g[x.id] = x.session
  BY <1>1, <1>4, <1>8, <1>10, <1>13
<1>15. g = [x \in Ids(u) |-> g[x]]
  BY <1>4, <1>13
<1>16. ShownIn(u) = g
  BY <1>5, <1>14, <1>15, ShownBy
<1>17. QED
  BY <1>1, <1>5, <1>9, <1>11, <1>16 DEF IsNow, Good

LEMMA AfterEmptying ==
  ASSUME NEW id \in PaneId, NEW s \in Session \cup {Nothing}
  PROVE  IsNow(Leaf(id, s), [q \in {id} |-> s])
<1>1. PICK l, f : l = Leaf(id, s) /\ f = [q \in {id} |-> s]
  OBVIOUS
<1>2. l \in LeafNode /\ l.id = id /\ l.session = s
  BY <1>1, Shapes
<1>3. l \in Tree /\ Panes(l) = {l} /\ Ids(l) = {id} /\ \A x, y : ~ReadBefore(l, x, y)
  BY <1>2, PanesOfLeaf
<1>4. Distinct(l)
  BY <1>3, ReadsItsPanes
<1>5. Cardinality(Ids(l)) <= MaxPanes
  <2>1. Cardinality({id}) = 1
    BY FS_Singleton, Zenon
  <2>2. QED
    BY <1>3, <2>1, PanesAssumption
<1>6. Good(l)
  BY <1>3, <1>4, <1>5 DEF Good, Sound, OnceShown
<1>7. f = [q \in Ids(l) |-> f[q]]
  BY <1>1, <1>3
<1>8. \A p \in Panes(l) : f[p.id] = p.session
  BY <1>1, <1>2, <1>3
<1>9. ShownIn(l) = f
  BY <1>6, <1>7, <1>8, ShownBy DEF Good
<1>10. QED
  BY <1>1, <1>6, <1>9 DEF IsNow

SweepOfMap(f, live, p) ==
  LET rest == {q \in DOMAIN f : f[q] \in live \cup {Nothing}}
  IN  IF rest = {} THEN Views!Put(Views!Only(f, {}), p, Nothing) ELSE Views!Only(f, rest)

LEMMA AfterNormalize ==
  ASSUME NEW t, Good(t), NEW live \in SUBSET Session
  PROVE  \E id \in Ids(t) : IsNow(Normalize(t, live), SweepOfMap(ShownIn(t), live, id))
<1>1. PICK u, f, K, R : /\ u = Normalize(t, live) /\ f = ShownIn(t) /\ K = Keeps(t, live)
                        /\ R = {q \in DOMAIN f : f[q] \in live \cup {Nothing}}
  OBVIOUS
<1>2. Sound(t) /\ OnceShown(t) /\ Nothing \notin live /\ Ids(t) \subseteq PaneId
  BY PanesAssumption, SoundTree DEF Good
<1>3. NormalReads(t, u, live)
  BY <1>1, <1>2, NormalizeReads
<1>4. f = [x \in Ids(t) |-> f[x]] /\ \A p \in Panes(t) : f[p.id] = p.session
  BY <1>1, <1>2, ShownIs
<1>5. R = {p.id : p \in K}
  <2>1. DOMAIN f = Ids(t)
    BY <1>4
  <2>2. QED
    BY <1>1, <1>4, <2>1 DEF Keeps, Ids
<1>6. \A id : SweepOfMap(f, live, id) = IF R = {} THEN Views!Put(Views!Only(f, {}), id, Nothing)
                                        ELSE Views!Only(f, R)
  BY <1>1 DEF SweepOfMap
<1>7. CASE K = {}
  <2>1. PICK id \in Ids(t) : u = Leaf(id, Nothing)
    BY <1>1, <1>3, <1>7 DEF NormalReads
  <2>2. IsNow(u, [q \in {id} |-> Nothing])
    BY <1>2, <2>1, AfterEmptying
  <2>3. Views!Put(Views!Only(f, {}), id, Nothing) = [q \in {id} |-> Nothing]
    <3>1. DOMAIN Views!Only(f, {}) \cup {id} = {id}
      BY DEF Views!Only
    <3>2. QED
      BY <3>1 DEF Views!Put
  <2>4. SweepOfMap(f, live, id) = [q \in {id} |-> Nothing]
    BY <1>5, <1>6, <1>7, <2>3
  <2>5. QED
    BY <1>1, <2>2, <2>4
<1>8. CASE K # {}
  <2>1. u \in Tree /\ Panes(u) = K /\ Distinct(u)
    BY <1>1, <1>3, <1>8 DEF NormalReads
  <2>2. K \subseteq Panes(t) /\ Ids(u) = R
    BY <1>1, <1>5, <2>1 DEF Keeps, Ids
  <2>3. IsNow(u, Views!Only(f, R))
    BY <1>1, <2>1, <2>2, AfterClosing
  <2>4. R # {}
    BY <1>5, <1>8
  <2>5. \A id : SweepOfMap(f, live, id) = Views!Only(f, R)
    BY <1>6, <2>4
  <2>6. Ids(t) # {}
    BY <1>2, SoundTree
  <2>7. QED
    BY <1>1, <2>3, <2>5, <2>6
<1>9. QED
  BY <1>7, <1>8

LEMMA FirstLeaf ==
  ASSUME NEW t, Sound(t)
  PROVE  Leaves[t][1].id \in Ids(t)
<1>1. Leaves[t] \in Seq(LeafNode) /\ Len(Leaves[t]) \in Nat \ {0}
  BY SoundTree, LeavesType
<1>2. 1 \in DOMAIN Leaves[t]
  BY <1>1
<1>3. Leaves[t][1] \in Panes(t)
  BY <1>2, Zenon DEF Panes, ToSet
<1>4. QED
  BY <1>3 DEF Ids

LEMMA FoundBySession ==
  ASSUME NEW t, Sound(t), NEW s \in Visible(t)
  PROVE  /\ FindBySession(t, s) \in Ids(t) /\ s # Nothing /\ s \in Session
         /\ ShownIn(t)[FindBySession(t, s)] = s
<1>1. PICK q, n : q = Leaves[t] /\ n = Len(q)
  OBVIOUS
<1>2. q \in Seq(LeafNode) /\ n \in Nat /\ DOMAIN q = 1 .. n
  BY <1>1, SoundTree, LeavesType
<1>3. Panes(t) = {q[i] : i \in 1 .. n}
  BY <1>1, <1>2, Zenon DEF Panes, ToSet
<1>4. PICK I : I = {i \in 1 .. n : q[i].session = s}
  OBVIOUS
<1>5. I # {} /\ s # Nothing
  BY <1>3, <1>4 DEF Visible
<1>6. \E i \in I : \A j \in I : i <= j
  <2>1. I \in SUBSET Nat
    BY <1>2, <1>4
  <2>2. QED
    BY <1>5, <2>1, LeastNumber
<1>7. SelectInSeq(q, LAMBDA leaf : leaf.session = s) = Min(I)
  BY <1>1, <1>4, <1>5 DEF SelectInSeq
<1>8. Min(I) \in I
  BY <1>6 DEF Min
<1>9. PICK i \in 1 .. n : FindBySession(t, s) = q[i].id /\ q[i].session = s
  BY <1>1, <1>4, <1>7, <1>8 DEF FindBySession
<1>10. q[i] \in Panes(t)
  BY <1>3
<1>11. s \in Session
  BY <1>5, <1>9, <1>10, SoundTree, Shapes
<1>12. \A p \in Panes(t) : ShownIn(t)[p.id] = p.session /\ p.id \in Ids(t)
  BY ShownIs DEF Ids
<1>13. ShownIn(t)[q[i].id] = s /\ q[i].id \in Ids(t)
  BY <1>9, <1>10, <1>12
<1>14. QED
  BY <1>5, <1>9, <1>11, <1>13

-----------------------------------------------------------------------------
(* What follows an event, in terms of the map: p is the pane in focus in t *)
(* and q the one in u, which is what is rendered.                          *)
CommitTo(t, p, u, q, next) ==
  \/ next \in {Nothing, active} /\ u = t /\ q = p
  \/ /\ next \notin {Nothing, active} /\ q = p /\ next \notin Visible(t)
     /\ ShownIn(u) = Views!Put(ShownIn(t), p, next)
  \/ /\ next \notin {Nothing, active} /\ u = t
     /\ q \in Ids(t) /\ ShownIn(t)[q] = next

LEMMA LayoutsAre == \A t, p : Layouts(t, p).tree = t /\ Layouts(t, p).focus = p
BY DEF Layouts

LEMMA ShowsCommits ==
  ASSUME NEW t, Good(t), NEW p \in Ids(t), NEW next \in Session \cup {Nothing},
         NEW k, k.tree = t, k.focus = p, NEW l, l = Shows(k, next)
  PROVE  Good(l.tree) /\ l.focus \in Ids(l.tree) /\ CommitTo(t, p, l.tree, l.focus, next)
<1>1. \A u, q : Layouts(u, q).tree = u /\ Layouts(u, q).focus = q
  BY LayoutsAre
<1>2. CASE next \in {Nothing, active}
  <2>1. l = k
    BY <1>2 DEF Shows
  <2>2. QED
    BY <1>1, <1>2, <2>1 DEF CommitTo
<1>3. CASE next \notin {Nothing, active} /\ next \in Visible(t)
  <2>1. PICK q : q = FindBySession(t, next)
    OBVIOUS
  <2>2. l = Layouts(t, q)
    BY <1>1, <1>3, <2>1 DEF Shows, Mirrored
  <2>3. q \in Ids(t) /\ ShownIn(t)[q] = next
    BY <1>3, <2>1, FoundBySession DEF Good
  <2>4. QED
    BY <1>1, <1>3, <2>2, <2>3 DEF CommitTo
<1>4. CASE next \notin {Nothing, active} /\ next \notin Visible(t)
  <2>1. PICK u : u = SetSession(t, p, next)
    OBVIOUS
  <2>2. l = Layouts(u, p)
    BY <1>1, <1>4, <2>1 DEF Shows, Mirrored
  <2>3. IsNow(u, Views!Put(ShownIn(t), p, next))
    BY <1>4, <2>1, AfterSet
  <2>4. Good(u) /\ ShownIn(u) = Views!Put(ShownIn(t), p, next)
    BY <2>3 DEF IsNow
  <2>5. p \in Ids(u)
    <3>1. SetReads(t, u, p, next)
      BY <2>1, SoundTree, SetSessionReads DEF Good
    <3>2. QED
      BY <3>1 DEF SetReads
  <2>6. QED
    BY <1>1, <1>4, <2>2, <2>4, <2>5 DEF CommitTo
<1>5. QED
  BY <1>2, <1>3, <1>4

-----------------------------------------------------------------------------
(* What holds of a browser's panes, whatever happened to them.             *)
PanesInv ==
  /\ Good(tree) /\ layout.focus \in Ids(tree)
  /\ active \in Session \cup {Nothing} /\ sessions \subseteq Session

(* An event that is rendered is committed to the map.                      *)
LEMMA RendersCommits ==
  ASSUME NEW t, Good(t), NEW p \in Ids(t), NEW next \in Session \cup {Nothing},
         NEW k, k.tree = t, k.focus = p, layout' = Shows(k, next), active' = next
  PROVE  /\ Good(tree)' /\ (layout.focus \in Ids(tree))' /\ (active \in Session \cup {Nothing})'
         /\ Views!Commit(ShownIn(t), p, next)
<1>1. PICK l : l = layout'
  OBVIOUS
<1>2. Good(l.tree) /\ l.focus \in Ids(l.tree) /\ CommitTo(t, p, l.tree, l.focus, next)
  BY <1>1, ShowsCommits
<1>3. (Good(tree))' /\ (layout.focus \in Ids(tree))' /\ (active \in Session \cup {Nothing})'
  BY <1>1, <1>2 DEF tree
<1>4. tree' = l.tree /\ layout.focus' = l.focus
  BY <1>1 DEF tree
<1>5. Views!Shown(ShownIn(t)) = Visible(t)
  <2>1. PICK f : f = ShownIn(t)
    OBVIOUS
  <2>2. DOMAIN f = Ids(t) /\ \A s : s \in Visible(t) <=> s # Nothing /\ \E id \in Ids(t) : f[id] = s
    BY <2>1, ShownIs DEF Good
  <2>3. Views!Shown(f) = Visible(t)
    BY <2>2 DEF Views!Shown
  <2>4. QED
    BY <2>1, <2>3
<1>6. DOMAIN ShownIn(t) = Ids(t)
  BY ShownIs DEF Good
<1>7. ShownIn(tree)' = ShownIn(l.tree)
  BY <1>4
<1>8. Views!Commit(ShownIn(t), p, next)
  BY <1>2, <1>4, <1>5, <1>6, <1>7 DEF Views!Commit, CommitTo
<1>9. QED
  BY <1>3, <1>8

(* The operations of PaneMap, as they are met below.                       *)
LEMMA IsArranged ==
  ASSUME PanesInv, UNCHANGED sessions
  PROVE  /\ \A s \in Session : Views!Commit(ShownIn(tree), layout.focus, s) => Views!Arrange
         /\ active \in sessions =>
              /\ \A p \in Ids(tree) :
                   /\ Views!Commit(ShownIn(tree), p, active) => Views!Arrange
                   /\ Views!Commit(ShownIn(tree), p, ShownIn(tree)[p]) => Views!Arrange
                   /\ Views!Close(p) => Views!Arrange
              /\ \A p, q \in Ids(tree) : Views!Swap(p, q) => Views!Arrange
              /\ \A p \in PaneId : Views!Divide(p) => Views!Arrange
              /\ \A p \in PaneId, s \in sessions : Views!Place(p, s) => Views!Arrange
<1>1. DOMAIN ShownIn(tree) = Ids(tree)
  BY ShownIs DEF PanesInv, Good
<1>2. \A s \in Session : Views!Commit(ShownIn(tree), layout.focus, s) => Views!Arrange
  <2>1. \A s : Views!Commit(ShownIn(tree), layout.focus, s) => Views!Look(layout.focus, s)
    BY DEF Views!Look
  <2>2. QED
    BY <2>1 DEF Views!Arrange
<1>3. ASSUME active \in sessions, NEW p \in Ids(tree)
      PROVE  /\ Views!Commit(ShownIn(tree), p, active) => Views!Arrange
             /\ Views!Commit(ShownIn(tree), p, ShownIn(tree)[p]) => Views!Arrange
             /\ Views!Close(p) => Views!Arrange
  <2>1. Views!Commit(ShownIn(tree), p, active) => Views!Look(p, active)
    BY DEF Views!Look
  <2>2. Views!Commit(ShownIn(tree), p, ShownIn(tree)[p]) => Views!Look(p, ShownIn(tree)[p])
    BY DEF Views!Look
  <2>3. QED
    BY <1>1, <1>3, <2>1, <2>2 DEF Views!Arrange
<1>4. active \in sessions => \A p, q \in Ids(tree) : Views!Swap(p, q) => Views!Arrange
  BY <1>1 DEF Views!Arrange
<1>5. active \in sessions => /\ \A p \in PaneId : Views!Divide(p) => Views!Arrange
                             /\ \A p \in PaneId, s \in sessions : Views!Place(p, s) => Views!Arrange
  BY DEF Views!Arrange
<1>6. QED
  BY <1>2, <1>3, <1>4, <1>5

(* What every step of PanesNext keeps, and what it is to PaneMap.          *)
Kept == PanesInv' /\ Views!Arrange

(* A pane, a session, a name for a new pane.                               *)
LEMMA SessionOfPane ==
  ASSUME NEW t, Sound(t), NEW id \in Ids(t)
  PROVE  FindLeaf(t, id).session = ShownIn(t)[id] /\ FindLeaf(t, id).session \in Session \cup {Nothing}
BY FoundLeaf, ShownIs

LEMMA NewIdIsNew ==
  ASSUME NEW t, Sound(t)
  PROVE  NewId(t) \in PaneId /\ NewId(t) \notin Ids(t)
<1>1. PICK I, N : I = Ids(t) /\ N = 1 .. MaxPanes + 1
  OBVIOUS
<1>2. IsFiniteSet(I) /\ Cardinality(I) <= MaxPanes /\ MaxPanes \in Nat
  BY <1>1, SoundTree, LeafInTree DEF Sound
<1>3. \E n \in N : n \notin I
  <2>1. SUFFICES ASSUME N \subseteq I PROVE FALSE
    OBVIOUS
  <2>2. Cardinality(N) <= Cardinality(I)
    BY <1>2, <2>1, FS_Subset
  <2>3. Cardinality(1 .. MaxPanes + 1) = MaxPanes + 1
    BY <1>2, FS_Interval
  <2>4. Cardinality(I) \in Nat
    BY <1>2, FS_CardinalityType
  <2>5. QED
    BY <1>1, <1>2, <2>2, <2>3, <2>4
<1>4. NewId(t) = CHOOSE n \in N : n \notin I
  BY <1>1 DEF NewId
<1>5. NewId(t) \in N /\ NewId(t) \notin I
  BY <1>3, <1>4
<1>6. \A n \in N : n \in PaneId
  BY <1>1, <1>2 DEF PaneId
<1>7. QED
  BY <1>1, <1>5, <1>6

LEMMA FocusPaneKeeps ==
  ASSUME PanesInv, active \in sessions, NEW id \in Ids(tree), FocusPane(id)
  PROVE  Kept
<1>1. PICK s : s = FindLeaf(tree, id).session
  OBVIOUS
<1>2. s = ShownIn(tree)[id] /\ s \in Session \cup {Nothing} /\ Good(tree)
  BY <1>1, SessionOfPane DEF PanesInv, Good
<1>3. PICK next : next = Or(s, active)
  OBVIOUS
<1>4. next \in {s, active} /\ next \in Session \cup {Nothing}
  BY <1>2, <1>3 DEF Or, PanesInv
<1>5. layout' = Shows(Layouts(tree, id), next) /\ active' = next /\ UNCHANGED sessions
  BY <1>1, <1>3 DEF FocusPane, Renders
<1>6. /\ Good(tree)' /\ (layout.focus \in Ids(tree))' /\ (active \in Session \cup {Nothing})'
      /\ Views!Commit(ShownIn(tree), id, next)
  BY <1>2, <1>4, <1>5, LayoutsAre, RendersCommits
<1>7. PanesInv'
  BY <1>5, <1>6 DEF PanesInv
<1>8. Views!Arrange
  BY <1>2, <1>4, <1>5, <1>6, IsArranged
<1>9. QED
  BY <1>7, <1>8 DEF Kept

(* A session that is chosen is looked at where it is, or in the pane in    *)
(* focus.                                                                  *)
LEMMA LooksHere ==
  ASSUME PanesInv, NEW s \in Session, Renders(layout, s)
  PROVE  Kept
<1>1. layout' = Shows(layout, s) /\ active' = s /\ UNCHANGED sessions /\ layout.tree = tree
  BY DEF Renders, tree
<1>2. Good(tree) /\ layout.focus \in Ids(tree) /\ s \in Session \cup {Nothing}
  BY DEF PanesInv
<1>3. /\ Good(tree)' /\ (layout.focus \in Ids(tree))' /\ (active \in Session \cup {Nothing})'
      /\ Views!Commit(ShownIn(tree), layout.focus, s)
  BY <1>1, <1>2, RendersCommits
<1>4. PanesInv'
  BY <1>1, <1>3 DEF PanesInv
<1>5. QED
  BY <1>1, <1>3, <1>4, IsArranged DEF Kept

(* A rearranged tree that is rendered: the shape every handler has.        *)
LEMMA RendersKeeps ==
  ASSUME PanesInv, NEW u, NEW f, IsNow(u, f), NEW p \in Ids(u), NEW next \in Session \cup {Nothing},
         Renders(Layouts(u, p), next)
  PROVE  PanesInv' /\ UNCHANGED sessions /\ Views!Commit(f, p, next)
<1>1. Good(u) /\ ShownIn(u) = f
  BY DEF IsNow
<1>2. layout' = Shows(Layouts(u, p), next) /\ active' = next /\ UNCHANGED sessions
  BY DEF Renders
<1>3. /\ Good(tree)' /\ (layout.focus \in Ids(tree))' /\ (active \in Session \cup {Nothing})'
      /\ Views!Commit(ShownIn(u), p, next)
  BY <1>1, <1>2, LayoutsAre, RendersCommits
<1>4. PanesInv'
  BY <1>2, <1>3 DEF PanesInv
<1>5. QED
  BY <1>1, <1>2, <1>3, <1>4

(* The panes of a map that is put together anew.                           *)
LEMMA IdsOf ==
  ASSUME NEW u, NEW f, IsNow(u, f)
  PROVE  Ids(u) = DOMAIN f
BY ShownIs DEF IsNow, Good

LEMMA SplitPaneKeeps ==
  ASSUME PanesInv, active \in sessions, NEW id \in Ids(tree), NEW first \in BOOLEAN,
         SplitPane(id, first)
  PROVE  Kept
<1>1. PICK n, new, u, f : /\ n = NewId(tree) /\ new = Leaf(n, Nothing)
                          /\ u = SplitLeaf(tree, id, first, new) /\ f = Views!Put(ShownIn(tree), n, Nothing)
  OBVIOUS
<1>2. n \in PaneId /\ n \notin Ids(tree) /\ Good(tree)
  BY <1>1, NewIdIsNew DEF PanesInv, Good
<1>3. new \in LeafNode /\ new.id = n /\ new.session = Nothing
  BY <1>1, <1>2, Shapes
<1>4. Len(Leaves[tree]) < MaxPanes /\ Renders(Layouts(u, n), active)
  BY <1>1, <1>3 DEF SplitPane, Fits
<1>5. new.session \notin Visible(tree)
  BY <1>3 DEF Visible
<1>6. IsNow(u, f)
  BY <1>1, <1>2, <1>3, <1>4, <1>5, AfterSplit
<1>7. n \in Ids(u)
  BY <1>1, <1>6, IdsOf DEF Views!Put
<1>8. PanesInv' /\ UNCHANGED sessions /\ Views!Commit(f, n, active)
  BY <1>4, <1>6, <1>7, RendersKeeps DEF PanesInv
<1>9. DOMAIN ShownIn(tree) = Ids(tree)
  BY <1>2, ShownIs DEF Good
<1>10. Views!Divide(n)
  BY <1>1, <1>2, <1>8, <1>9 DEF Views!Divide
<1>11. QED
  BY <1>2, <1>8, <1>10, IsArranged DEF Kept

(* A session that is shown nowhere, in a pane or in a new one.             *)
LEMMA PlacedIs ==
  ASSUME PanesInv, active \in sessions, NEW s \in sessions, s \notin Visible(tree),
         NEW p \in PaneId, NEW u, IsNow(u, Views!Put(ShownIn(tree), p, s)), Renders(Layouts(u, p), s)
  PROVE  Kept
<1>1. PICK f : f = Views!Put(ShownIn(tree), p, s)
  OBVIOUS
<1>2. IsNow(u, f) /\ s \in Session
  BY <1>1 DEF PanesInv
<1>3. p \in Ids(u)
  BY <1>1, <1>2, IdsOf DEF Views!Put
<1>4. PanesInv' /\ UNCHANGED sessions /\ Views!Commit(f, p, s)
  BY <1>2, <1>3, RendersKeeps
<1>5. s \notin Views!Shown(ShownIn(tree))
  <2>1. PICK g : g = ShownIn(tree)
    OBVIOUS
  <2>2. DOMAIN g = Ids(tree) /\ ~ \E id \in Ids(tree) : g[id] = s /\ s # Nothing
    BY <2>1, ShownIs DEF PanesInv, Good
  <2>3. s # Nothing
    BY <1>2, PanesAssumption
  <2>4. s \notin Views!Shown(g)
    BY <2>2, <2>3 DEF Views!Shown
  <2>5. QED
    BY <2>1, <2>4
<1>6. Views!Place(p, s)
  BY <1>1, <1>4, <1>5 DEF Views!Place
<1>7. QED
  BY <1>4, <1>6, IsArranged DEF Kept

LEMMA PickSessionKeeps ==
  ASSUME PanesInv, active \in sessions, NEW id \in Ids(tree), NEW s \in sessions, PickSession(id, s)
  PROVE  Kept
<1>1. PICK u : u = SetSession(tree, id, s)
  OBVIOUS
<1>2. s \notin Visible(tree) /\ Renders(Layouts(u, id), s)
  BY <1>1 DEF PickSession
<1>3. Good(tree) /\ s \in Session \cup {Nothing} /\ id \in PaneId
  BY SoundTree DEF PanesInv, Good
<1>4. IsNow(u, Views!Put(ShownIn(tree), id, s))
  BY <1>1, <1>2, <1>3, AfterSet
<1>5. QED
  BY <1>2, <1>3, <1>4, PlacedIs

(* A pane that is looked at where it now is.                               *)
LEMMA LookedAt ==
  ASSUME PanesInv, active \in sessions, NEW u, IsNow(u, ShownIn(tree)), NEW p \in Ids(tree),
         NEW next \in {active, ShownIn(tree)[p]}, Renders(Layouts(u, p), next)
  PROVE  Kept
<1>1. PICK f : f = ShownIn(tree)
  OBVIOUS
<1>2. IsNow(u, f) /\ f[p] \in Session \cup {Nothing} /\ DOMAIN f = Ids(tree)
  BY <1>1, ShownIs DEF PanesInv, Good
<1>3. p \in Ids(u)
  BY <1>2, IdsOf
<1>4. next \in Session \cup {Nothing}
  BY <1>1, <1>2 DEF PanesInv
<1>5. PanesInv' /\ UNCHANGED sessions /\ Views!Commit(f, p, next)
  BY <1>2, <1>3, <1>4, RendersKeeps
<1>6. QED
  BY <1>1, <1>5, IsArranged DEF Kept

(* Two panes that have changed what they show.                             *)
LEMMA SwappedIs ==
  ASSUME PanesInv, active \in sessions, NEW a \in Ids(tree), NEW b \in Ids(tree), a # b,
         NEW p, NEW next,
         \/ p = layout.focus /\ next = active
         \/ p = b /\ next = ShownIn(tree)[a],
         Renders(Layouts(SwapSessions(tree, a, b), p), next)
  PROVE  Kept
<1>1. PICK u, g, f : /\ u = SwapSessions(tree, a, b) /\ g = ShownIn(tree)
                     /\ f = Views!Exchange(g, a, b)
  OBVIOUS
<1>2. IsNow(u, f)
  BY <1>1, AfterSwap DEF PanesInv
<1>3. DOMAIN g = Ids(tree) /\ \A x \in Ids(tree) : g[x] \in Session \cup {Nothing}
  BY <1>1, ShownIs DEF PanesInv, Good
<1>4. DOMAIN f = DOMAIN g
  BY <1>1 DEF Views!Exchange
<1>5. p \in Ids(u)
  BY <1>2, <1>3, <1>4, IdsOf DEF PanesInv
<1>6. next \in Session \cup {Nothing}
  BY <1>1, <1>3 DEF PanesInv
<1>7. PanesInv' /\ UNCHANGED sessions /\ Views!Commit(f, p, next)
  BY <1>1, <1>2, <1>5, <1>6, RendersKeeps
<1>8. Views!Swap(a, b)
  BY <1>1, <1>7 DEF Views!Swap
<1>9. QED
  BY <1>7, <1>8, IsArranged DEF Kept

LEMMA DropSessionKeeps ==
  ASSUME PanesInv, active \in sessions, NEW id \in Ids(tree), NEW s \in sessions, DropSession(id, s)
  PROVE  Kept
<1>1. Good(tree) /\ Sound(tree) /\ s \in Session \cup {Nothing} /\ id \in PaneId
  BY SoundTree DEF PanesInv, Good
<1>2. CASE s \notin Visible(tree) /\ Renders(DropOnCentre(id, s), s)
  <2>1. PICK u : u = SetSession(tree, id, s)
    OBVIOUS
  <2>2. Renders(Layouts(u, id), s)
    BY <1>2, <2>1 DEF DropOnCentre
  <2>3. IsNow(u, Views!Put(ShownIn(tree), id, s))
    BY <1>1, <1>2, <2>1, AfterSet
  <2>4. QED
    BY <1>1, <1>2, <2>2, <2>3, PlacedIs
<1>3. CASE s \in Visible(tree) /\ Renders(DropOnCentre(id, s), s)
  <2>1. PICK old : old = FindBySession(tree, s)
    OBVIOUS
  <2>2. old \in Ids(tree) /\ ShownIn(tree)[old] = s /\ s \in Session
    BY <1>1, <1>3, <2>1, FoundBySession
  <2>3. CASE old = id
    <3>1. Renders(layout, s)
      BY <1>3, <2>1, <2>3 DEF DropOnCentre
    <3>2. QED
      BY <2>2, <3>1, LooksHere
  <2>4. CASE old # id
    <3>1. Renders(Layouts(SwapSessions(tree, old, id), id), s)
      BY <1>3, <2>1, <2>4 DEF DropOnCentre
    <3>2. QED
      BY <2>2, <2>4, <3>1, SwappedIs
  <2>5. QED
    BY <2>3, <2>4
<1>4. ASSUME Fits \/ s \in Visible(tree), NEW first \in BOOLEAN, Renders(DropOnEdge(id, first, s), s)
      PROVE  Kept
  <2>1. CASE s \notin Visible(tree)
    <3>1. PICK n, new, u : /\ n = NewId(tree) /\ new = Leaf(n, s)
                           /\ u = SplitLeaf(tree, id, first, new)
      OBVIOUS
    <3>2. n \in PaneId /\ n \notin Ids(tree)
      BY <1>1, <3>1, NewIdIsNew
    <3>3. new \in LeafNode /\ new.id = n /\ new.session = s
      BY <1>1, <3>1, <3>2, Shapes
    <3>4. Len(Leaves[tree]) < MaxPanes /\ Renders(Layouts(u, n), s)
      BY <1>4, <2>1, <3>1, <3>3 DEF DropOnEdge, Fits
    <3>5. IsNow(u, Views!Put(ShownIn(tree), n, s))
      BY <1>1, <2>1, <3>1, <3>2, <3>3, <3>4, AfterSplit
    <3>6. QED
      BY <2>1, <3>2, <3>4, <3>5, PlacedIs
  <2>2. CASE s \in Visible(tree)
    <3>1. PICK old, u : old = FindBySession(tree, s) /\ u = MoveLeaf(tree, old, id, first)
      OBVIOUS
    <3>2. old \in Ids(tree) /\ ShownIn(tree)[old] = s
      BY <1>1, <2>2, <3>1, FoundBySession
    <3>3. Renders(Layouts(u, old), s)
      BY <1>4, <2>2, <3>1 DEF DropOnEdge
    <3>4. IsNow(u, ShownIn(tree))
      BY <1>1, <3>1, <3>2, AfterMove
    <3>5. QED
      BY <3>2, <3>3, <3>4, LookedAt
  <2>3. QED
    BY <2>1, <2>2
<1>5. QED
  BY <1>2, <1>3, <1>4 DEF DropSession

LEMMA DropPaneKeeps ==
  ASSUME PanesInv, active \in sessions, NEW id \in Ids(tree), NEW src \in Ids(tree), DropPane(id, src)
  PROVE  Kept
<1>1. CASE Renders(Layouts(SwapSessions(tree, src, id), layout.focus), active)
  BY <1>1, SwappedIs DEF DropPane
<1>2. ASSUME NEW first \in BOOLEAN, Renders(Layouts(MoveLeaf(tree, src, id, first), src), active)
      PROVE  Kept
  <2>1. IsNow(MoveLeaf(tree, src, id, first), ShownIn(tree))
    BY AfterMove DEF PanesInv
  <2>2. QED
    BY <1>2, <2>1, LookedAt
<1>3. QED
  BY <1>1, <1>2 DEF DropPane

LEMMA ClosePaneKeeps ==
  ASSUME PanesInv, active \in sessions, NEW id \in Ids(tree), ClosePane(id)
  PROVE  Kept
<1>1. PICK g, r, n, solo : /\ g = ShownIn(tree) /\ r = RemoveLeaf(tree, id)
                           /\ n = NewId(tree) /\ solo = Leaf(n, Nothing)
  OBVIOUS
<1>2. Good(tree) /\ Sound(tree) /\ tree \in Tree /\ Distinct(tree)
  BY DEF PanesInv, Good, Sound
<1>3. RestReads(tree, r, id)
  BY <1>1, <1>2, RemoveLeafReads
<1>4. DOMAIN g = Ids(tree)
  BY <1>1, <1>2, ShownIs
<1>5. CASE r = Nothing
  <2>1. n \in PaneId
    BY <1>1, <1>2, NewIdIsNew
  <2>2. solo.id = n /\ IsNow(solo, [q \in {n} |-> Nothing])
    BY <1>1, <2>1, AfterEmptying, Shapes
  <2>3. Views!Put(Views!Only(g, {}), n, Nothing) = [q \in {n} |-> Nothing]
    <3>1. DOMAIN Views!Only(g, {}) \cup {n} = {n}
      BY DEF Views!Only
    <3>2. QED
      BY <3>1 DEF Views!Put
  <2>4. PICK f : f = [q \in {n} |-> Nothing]
    OBVIOUS
  <2>5. IsNow(solo, f) /\ n \in Ids(solo)
    BY <2>2, <2>4, IdsOf
  <2>6. Renders(Layouts(solo, n), Nothing)
    BY <1>1, <1>5, <2>2 DEF ClosePane
  <2>7. PanesInv' /\ UNCHANGED sessions /\ Views!Commit(f, n, Nothing)
    BY <2>5, <2>6, RendersKeeps
  <2>8. Ids(tree) \ {id} = {}
    BY <1>3, <1>5 DEF RestReads
  <2>9. Views!Close(id)
    <3>1. DOMAIN ShownIn(tree) \ {id} = {}
      BY <1>1, <1>4, <2>8
    <3>2. Views!Commit(Views!Put(Views!Only(ShownIn(tree), {}), n, Nothing), n, Nothing)
      BY <1>1, <2>3, <2>4, <2>7
    <3>3. QED
      BY <2>1, <3>1, <3>2 DEF Views!Close
  <2>10. QED
    BY <2>7, <2>9, IsArranged DEF Kept
<1>6. CASE r # Nothing
  <2>1. /\ r \in Tree /\ Panes(r) = {p \in Panes(tree) : p.id # id}
        /\ \A x, y : ReadBefore(r, x, y) <=> ReadBefore(tree, x, y) /\ x # id /\ y # id
    BY <1>2, <1>3, <1>6, LeafInTree DEF RestReads
  <2>2. Ids(r) = Ids(tree) \ {id}
    BY <2>1 DEF Ids
  <2>3. Distinct(r)
    BY <1>2, <2>1, SoundTree, ReadsItsPanes
  <2>4. PICK f : f = Views!Only(g, Ids(r))
    OBVIOUS
  <2>5. IsNow(r, f)
    BY <1>1, <1>2, <2>1, <2>3, <2>4, AfterClosing
  <2>6. Sound(r) /\ f = ShownIn(r)
    BY <2>5 DEF IsNow, Good
  <2>7. PICK q : q = (IF layout.focus \in Ids(r) THEN layout.focus ELSE Leaves[r][1].id)
    OBVIOUS
  <2>8. q \in Ids(r) /\ (layout.focus \in Ids(r) => q = layout.focus)
    BY <2>6, <2>7, FirstLeaf
  <2>9. PICK next : next = FindLeaf(r, q).session
    OBVIOUS
  <2>10. next = g[q] /\ next \in Session \cup {Nothing}
    <3>1. next = f[q] /\ next \in Session \cup {Nothing}
      BY <2>6, <2>8, <2>9, SessionOfPane
    <3>2. f[q] = g[q]
      BY <2>4, <2>8 DEF Views!Only
    <3>3. QED
      BY <3>1, <3>2
  <2>11. Renders(Layouts(r, q), next)
    BY <1>1, <1>6, <2>7, <2>9, LayoutsAre DEF ClosePane, SessionOf
  <2>12. PanesInv' /\ UNCHANGED sessions /\ Views!Commit(f, q, next)
    BY <2>5, <2>8, <2>10, <2>11, RendersKeeps
  <2>13. Views!Close(id)
    <3>1. DOMAIN ShownIn(tree) \ {id} = Ids(r)
      BY <1>1, <1>4, <2>2
    <3>2. /\ Views!Commit(Views!Only(ShownIn(tree), Ids(r)), q, ShownIn(tree)[q])
          /\ Ids(r) # {} /\ q \in Ids(r) /\ (layout.focus \in Ids(r) => q = layout.focus)
      BY <1>1, <2>4, <2>8, <2>10, <2>12
    <3>3. QED
      BY <3>1, <3>2 DEF Views!Close
  <2>14. QED
    BY <2>12, <2>13, IsArranged DEF Kept
<1>7. QED
  BY <1>5, <1>6

(* Sessions that come or go.                                               *)
LEMMA ListsKeeps ==
  ASSUME PanesInv, NEW live \in SUBSET Session, NEW next \in live \cup {active, Nothing},
         Lists(live, next)
  PROVE  Kept
<1>1. PICK u, q, k : /\ u = Normalize(tree, live)
                     /\ q = (IF layout.focus \in Ids(u) THEN layout.focus ELSE Leaves[u][1].id)
                     /\ k = Layouts(u, q)
  OBVIOUS
<1>2. Good(tree) /\ Sound(tree) /\ next \in Session \cup {Nothing}
  BY DEF PanesInv, Good
<1>3. PICK p \in Ids(tree) : IsNow(u, SweepOfMap(ShownIn(tree), live, p))
  BY <1>1, <1>2, AfterNormalize
<1>4. PICK f : f = SweepOfMap(ShownIn(tree), live, p)
  OBVIOUS
<1>5. Good(u) /\ Sound(u) /\ ShownIn(u) = f /\ DOMAIN f = Ids(u)
  BY <1>3, <1>4, IdsOf DEF IsNow, Good
<1>6. q \in Ids(u) /\ (layout.focus \in Ids(u) => q = layout.focus)
  BY <1>1, <1>5, FirstLeaf
<1>7. layout' = Shows(k, next) /\ active' = next /\ sessions' = live /\ k.tree = u /\ k.focus = q
  BY <1>1, LayoutsAre DEF Lists, Reconciled, tree
<1>8. /\ Good(tree)' /\ (layout.focus \in Ids(tree))' /\ (active \in Session \cup {Nothing})'
      /\ Views!Commit(ShownIn(u), q, next)
  BY <1>2, <1>5, <1>6, <1>7, RendersCommits
<1>9. PanesInv'
  BY <1>7, <1>8 DEF PanesInv
<1>10. Views!Sweep(live, p) = f
  BY <1>4, Zenon DEF Views!Sweep, SweepOfMap
<1>11. DOMAIN ShownIn(tree) = Ids(tree)
  BY <1>2, ShownIs
<1>12. Views!List(live, next)
  <2>1. /\ q \in DOMAIN ShownIn(tree)
        /\ q \in DOMAIN f /\ (layout.focus \in DOMAIN f => q = layout.focus)
        /\ Views!Commit(f, q, next)
    <3>1. Ids(u) \subseteq Ids(tree)
      <4>1. DOMAIN SweepOfMap(ShownIn(tree), live, p) \subseteq Ids(tree)
        BY <1>11 DEF SweepOfMap, Views!Put, Views!Only
      <4>2. QED
        BY <1>4, <1>5, <4>1
    <3>2. QED
      BY <1>5, <1>6, <1>8, <1>11, <3>1
  <2>2. QED
    BY <1>7, <1>10, <1>11, <2>1 DEF Views!List
<1>13. Views!Arrange
  BY <1>12 DEF Views!Arrange
<1>14. QED
  BY <1>9, <1>13 DEF Kept

(* A layout of another browser.                                            *)
LEMMA TwoPanes ==
  ASSUME NEW i \in PaneId, NEW j \in PaneId, i # j,
         NEW r \in Session \cup {Nothing}, NEW s \in Session \cup {Nothing}, r # s \/ r = Nothing
  PROVE  Good(Branch(Leaf(i, r), Leaf(j, s))) /\ Ids(Branch(Leaf(i, r), Leaf(j, s))) = {i, j}
<1>1. PICK a, b, t : a = Leaf(i, r) /\ b = Leaf(j, s) /\ t = Branch(a, b)
  OBVIOUS
<1>2. /\ a \in LeafNode /\ a.id = i /\ a.session = r
      /\ b \in LeafNode /\ b.id = j /\ b.session = s
  BY <1>1, Shapes
<1>3. t \in Tree
  <2>1. PICK n \in 1 .. MaxPanes : n = MaxPanes
    BY PanesAssumption
  <2>2. n \in 0 .. MaxPanes /\ n - 1 \in 0 .. MaxPanes
    BY LeafInTree
  <2>3. a \in Trees[n - 1] /\ b \in Trees[n - 1]
    BY <1>2, <2>2, TreesNest
  <2>4. t \in Trees[n]
    BY <1>1, <2>2, <2>3, PartsOf
  <2>5. QED
    BY <2>2, <2>4, TreesNest
<1>4. /\ Panes(a) = {a} /\ Ids(a) = {i} /\ (\A x, y : ~ReadBefore(a, x, y)) /\ a \in Tree
      /\ Panes(b) = {b} /\ Ids(b) = {j} /\ (\A x, y : ~ReadBefore(b, x, y)) /\ b \in Tree
  BY <1>2, PanesOfLeaf
<1>5. Distinct(a) /\ Distinct(b)
  BY <1>4, ReadsItsPanes
<1>6. Distinct(t)
  BY <1>1, <1>3, <1>4, <1>5, DistinctSplit
<1>7. Panes(t) = {a, b} /\ Ids(t) = {i, j}
  <2>1. Panes(t) = Panes(a) \cup Panes(b) /\ Ids(t) = Ids(a) \cup Ids(b)
    BY <1>1, <1>3, PanesOfSplit
  <2>2. QED
    BY <1>4, <2>1
<1>8. Cardinality({i, j}) <= MaxPanes
  <2>1. IsFiniteSet({i}) /\ Cardinality({i}) = 1
    BY FS_Singleton, Zenon
  <2>2. Cardinality({i} \cup {j}) = 1 + 1
    BY <2>1, FS_AddElement
  <2>3. {i} \cup {j} = {i, j}
    OBVIOUS
  <2>4. QED
    BY <2>2, <2>3, PanesAssumption
<1>9. OnceShown(t)
  BY <1>2, <1>7 DEF OnceShown
<1>10. QED
  BY <1>1, <1>3, <1>6, <1>7, <1>8, <1>9 DEF Good, Sound

LEMMA AcceptSharedKeeps ==
  ASSUME PanesInv, AcceptShared
  PROVE  PanesInv' /\ Views!Accept
<1>1. PICK l \in Remote : Renders(l, active)
  BY DEF AcceptShared
<1>2. layout' = l /\ active' = active /\ UNCHANGED sessions
  BY <1>1 DEF Renders, Shows
<1>3. PICK i, j \in PaneId : i = MaxPanes + 2 /\ j = MaxPanes + 3 /\ i # j
  BY LeafInTree DEF PaneId
<1>4. Good(l.tree) /\ l.focus \in Ids(l.tree)
  <2>1. CASE \E s \in Session \cup {Nothing} : l = Layouts(Leaf(i, s), i)
    <3>1. PICK s \in Session \cup {Nothing} : l = Layouts(Leaf(i, s), i)
      BY <2>1
    <3>2. IsNow(Leaf(i, s), [q \in {i} |-> s])
      BY AfterEmptying
    <3>3. i \in Ids(Leaf(i, s))
      BY <3>2, IdsOf
    <3>4. QED
      BY <3>1, <3>2, <3>3, LayoutsAre DEF IsNow
  <2>2. CASE \E r, s \in Session \cup {Nothing} :
               (r # s \/ r = Nothing) /\ l = Layouts(Branch(Leaf(i, r), Leaf(j, s)), j)
    BY <1>3, <2>2, TwoPanes, LayoutsAre
  <2>3. \/ \E s \in Session \cup {Nothing} : l = Layouts(Leaf(i, s), i)
        \/ \E r, s \in Session \cup {Nothing} :
               (r # s \/ r = Nothing) /\ l = Layouts(Branch(Leaf(i, r), Leaf(j, s)), j)
    BY <1>3 DEF Remote
  <2>4. QED
    BY <2>1, <2>2, <2>3
<1>5. PICK t, f : t = l.tree /\ f = ShownIn(t)
  OBVIOUS
<1>6. tree' = t /\ ShownIn(tree)' = f /\ layout.focus' = l.focus
  BY <1>2, <1>5 DEF tree
<1>7. PanesInv'
  BY <1>2, <1>4 DEF PanesInv, tree
<1>8. /\ f = [id \in Ids(t) |-> f[id]] /\ \A p \in Panes(t) : f[p.id] = p.session
      /\ \A id \in Ids(t) : f[id] \in Session \cup {Nothing}
  BY <1>4, <1>5, ShownIs DEF Good
<1>9. DOMAIN f = Ids(t) /\ Ids(t) \subseteq PaneId /\ l.focus \in Ids(t)
  BY <1>4, <1>5, <1>8, SoundTree DEF Good
<1>10. Views!IsView(f, l.focus)
  BY <1>8, <1>9 DEF Views!IsView
<1>11. Views!Once(f)
  <2>1. \A p, q \in Panes(t) : p.session = q.session /\ p.session # Nothing => p = q
    BY <1>4, <1>5 DEF Good, OnceShown
  <2>2. \A p, q \in Ids(t) : f[p] = f[q] /\ f[p] # Nothing => p = q
    BY <1>8, <2>1 DEF Ids
  <2>3. QED
    BY <1>9, <2>2 DEF Views!Once
<1>12. Views!Accept
  BY <1>2, <1>6, <1>10, <1>11 DEF Views!Accept
<1>13. QED
  BY <1>7, <1>12

-----------------------------------------------------------------------------
LEMMA PanesStart ==
  ASSUME PanesInit
  PROVE  PanesInv /\ Views!ViewInit
<1>1. PICK i \in PaneId : i = 1
  BY LeafInTree DEF PaneId
<1>2. PICK l, f : l = Leaf(i, Nothing) /\ f = [q \in {i} |-> Nothing]
  OBVIOUS
<1>3. tree = l /\ layout.focus = i /\ active = Nothing /\ sessions = {}
  BY <1>1, <1>2, LayoutsAre DEF PanesInit, tree
<1>4. IsNow(l, f)
  BY <1>2, AfterEmptying
<1>5. Good(l) /\ ShownIn(l) = f /\ i \in Ids(l)
  BY <1>2, <1>4, IdsOf DEF IsNow
<1>6. PanesInv
  BY <1>3, <1>5 DEF PanesInv
<1>7. Views!ViewInit
  BY <1>2, <1>3, <1>5 DEF Views!ViewInit
<1>8. QED
  BY <1>6, <1>7

LEMMA PanesStep ==
  ASSUME PanesInv, [PanesNext]_panesVars
  PROVE  /\ PanesInv'
         /\ [Views!Arrange \/ (AcceptShared /\ Views!Accept)]_panesVars
<1>1. CASE UNCHANGED panesVars
  BY <1>1 DEF PanesInv, panesVars, tree
<1>2. ASSUME active \in sessions, NEW id \in Ids(tree),
             \/ FocusPane(id) \/ ClosePane(id)
             \/ \E first \in BOOLEAN : SplitPane(id, first)
             \/ \E s \in sessions : PickSession(id, s) \/ DropSession(id, s)
             \/ \E src \in Ids(tree) : DropPane(id, src)
      PROVE  Kept
  BY <1>2, FocusPaneKeeps, ClosePaneKeeps, SplitPaneKeeps, PickSessionKeeps, DropSessionKeeps,
     DropPaneKeeps
<1>3. ASSUME NEW s \in Session, Activate(s) PROVE Kept
  BY <1>3, LooksHere DEF Activate
<1>4. ASSUME NEW s \in Session, AddSession(s) PROVE Kept
  <2>1. sessions \cup {s} \in SUBSET Session /\ s \in (sessions \cup {s}) \cup {active, Nothing}
    BY DEF PanesInv
  <2>2. QED
    BY <1>4, <2>1, ListsKeeps DEF AddSession
<1>5. ASSUME NEW s \in Session, CloseSession(s) PROVE Kept
  <2>1. PICK rest : rest = sessions \ {s}
    OBVIOUS
  <2>2. PICK next : next \in rest \cup {active, Nothing} /\ Lists(rest, next)
    BY <1>5, <2>1 DEF CloseSession
  <2>3. rest \in SUBSET Session
    BY <2>1 DEF PanesInv
  <2>4. QED
    BY <2>2, <2>3, ListsKeeps
<1>6. ASSUME NEW live \in SUBSET Session, Poll(live) PROVE Kept
  BY <1>6, ListsKeeps DEF Poll
<1>7. AcceptShared => PanesInv' /\ Views!Accept
  BY AcceptSharedKeeps
<1>8. CASE PanesNext
  BY <1>2, <1>3, <1>4, <1>5, <1>6, <1>7, <1>8 DEF PanesNext, Kept
<1>9. QED
  BY <1>1, <1>8

(* What every handler of the workspace (App.tsx, 1546-1616) and every      *)
(* effect keeps: panes can be told apart, there are never more than fit,   *)
(* the focus is on one of them, and each session is in at most one.        *)
THEOREM PanesInvariant == PanesSpec => []PanesInv
<1>1. PanesInit => PanesInv
  BY PanesStart
<1>2. PanesInv /\ [PanesNext]_panesVars => PanesInv'
  BY PanesStep
<1>3. QED
  BY <1>1, <1>2, PTL DEF PanesSpec

(* The tree implements the map: every handler of App.tsx, with the effects *)
(* that follow it, does to what the panes of the tree show what PaneMap    *)
(* says. So no session is in two panes of the tree (EachSessionOnce).      *)
THEOREM TreeIsMap == PanesSpec => MapsPanes
<1>1. PanesInit => Views!ViewInit
  BY PanesStart
<1>2. PanesInv /\ [PanesNext]_panesVars => [Views!Arrange \/ (AcceptShared /\ Views!Accept)]_panesVars
  BY PanesStep
<1>3. QED
  BY <1>1, <1>2, PanesInvariant, PTL DEF PanesSpec, MapsPanes

(* The tree is one of those that operations and effects are defined on.    *)
THEOREM PanesTypes == PanesSpec => []PanesTypeOK
<1>1. PanesInv => PanesTypeOK
  BY DEF PanesInv, PanesTypeOK, Good, Sound
<1>2. QED
  BY <1>1, PanesInvariant, PTL

(* Moving a pane (moveLeaf of layout.ts) puts it next to its target, on the*)
(* side asked for, and sweeping those of sessions that ended (normalize)   *)
(* keeps the rest; neither loses, repeats or reorders another pane.        *)
THEOREM PanesStay == PanesSpec => []OthersStay
<1>1. PanesInv => MovesLand
  <2>1. SUFFICES ASSUME PanesInv PROVE MovesLand
    OBVIOUS
  <2>2. Sound(tree)
    BY <2>1 DEF PanesInv, Good
  <2>3. ASSUME NEW src \in Ids(tree), NEW id \in Ids(tree), NEW first \in BOOLEAN, src # id
        PROVE  Moves(tree, MoveLeaf(tree, src, id, first), src, id, first)
    BY <2>2, <2>3, MoveLeafLands
  <2>4. QED
    BY <2>3 DEF MovesLand, Moves
<1>2. PanesInv => SweepKeepsOthers
  <2>1. SUFFICES ASSUME PanesInv, NEW live \in SUBSET Session, NEW u, u = Normalize(tree, live)
                 PROVE  LET keeps == {leaf \in Panes(tree) : leaf.session \in live \cup {Nothing}}
                            ids   == {leaf.id : leaf \in keeps}
                        IN  IF keeps # {}
                            THEN /\ Panes(u) = keeps /\ Distinct(u)
                                 /\ \A x, y \in ids : ReadBefore(u, x, y) <=> ReadBefore(tree, x, y)
                            ELSE \E id \in Ids(tree) : u = Leaf(id, Nothing)
    BY Zenon DEF SweepKeepsOthers
  <2>2. NormalReads(tree, u, live)
    BY <2>1, NormalizeReads, PanesAssumption DEF PanesInv, Good
  <2>3. QED
    BY <2>2 DEF NormalReads, Keeps, Ids
<1>3. PanesInv => OthersStay
  BY <1>1, <1>2 DEF OthersStay
<1>4. QED
  BY <1>3, PanesInvariant, PTL
=============================================================================
