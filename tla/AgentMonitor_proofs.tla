-------------------------- MODULE AgentMonitor_proofs --------------------------
(***************************************************************************)
(* For any browsers and agents: the safety of AgentMonitor, and what a     *)
(* step may never do with an item or an alert.                             *)
(*                                                                         *)
(* UnseenBlockerAlerts needs to know that the alert of a blocker stays     *)
(* until a file's takes its place, also while the session has ended        *)
(* (Alerted), and that nobody can leave a session that has ended without a *)
(* word, because nobody is there (Attached).                               *)
(***************************************************************************)
EXTENDS AgentMonitor, TLAPS

Paired == awaiting = (activity = "blocked")

Kin == (Managed => agent = "own") /\ (~Managed => native = "none")

Attached == listed /\ subs # {} => proc /\ status = "running"

Alerted == Unseen => banner \in {"awaiting", "file"}

Itemised ==
  Managed /\ listed =>
    /\ activity = "blocked" => "blocked" \in items
    /\ Viewed(viewing) => "done" \notin items

Inv == TypeOK /\ Paired /\ Kin /\ Attached /\ Alerted /\ Itemised /\ NativeOutranksScreen

(* What may be done with items and alerts in one step.                     *)
ItemStep ==
  Managed /\ listed' =>
    /\ activity' = "blocked" => "blocked" \in items'
    /\ activity = "blocked" /\ activity' # "blocked" /\ (proc \/ status' = "running")
         => "blocked" \notin items'

AlertStep ==
  Managed /\ listed' =>
    /\ "done" \in items \ items' => banner' # "finished"
    /\ "blocked" \in items \ items' /\ activity = "blocked" => banner' # "awaiting"

NoticeStep == Unseen' => banner' = "awaiting" \/ (Unseen /\ banner' = "file")

(* The two small sets are always needed with their members.                *)
USE DEF Topics, Alerts

-----------------------------------------------------------------------------
(* The transport's callbacks.                                              *)
Tolds == [items : SUBSET Topics, banner : Alerts]

LEMMA ToldTyped == ASSUME TypeOK PROVE Told \in Tolds
BY DEF TypeOK, Told, Tolds

LEMMA HelpersTyped ==
  ASSUME NEW T \in Tolds, NEW item \in Topics, NEW who
  PROVE  /\ Sync(T, who) \in Tolds /\ Record(T, item, who) \in Tolds
         /\ ResolveAndDismiss(T, item) \in Tolds
         /\ \A b \in Alerts : Push(T, b) \in Tolds
BY DEF Sync, Record, ResolveAndDismiss, Dismiss, Push, Tolds

(* The change of an activity, case by case.                                *)
LEMMA NoChange ==
  ASSUME NEW T, NEW a, NEW v, NEW who PROVE OnActivityChanged(T, a, a, v, who) = T
BY DEF OnActivityChanged

LEMMA Blocks ==
  ASSUME NEW T \in Tolds, NEW a, a # "blocked", NEW v, NEW who
  PROVE  OnActivityChanged(T, a, "blocked", v, who) = Record(T, "blocked", who)
BY DEF OnActivityChanged

Unblocked(T) == ResolveAndDismiss(T, "blocked")

Resumed(T, b, who) ==
  IF b = "working" THEN ResolveAndDismiss(Sync(Unblocked(T), who), "done")
  ELSE Sync(Unblocked(T), who)

Seen(S) == [S EXCEPT !.items = @ \ {"done"}]

LEMMA Unblocks ==
  ASSUME NEW T \in Tolds, NEW a, NEW b, a # b, b # "blocked", NEW v \in BOOLEAN, NEW who
  PROVE  OnActivityChanged(T, a, b, v, who) =
           IF b = "idle" /\ ~v THEN Push(Record(Unblocked(T), "done", who), "finished")
           ELSE IF v THEN Seen(Resumed(T, b, who)) ELSE Resumed(T, b, who)
BY DEF OnActivityChanged, Resumed, Unblocked, Seen

LEMMA ChangeTyped ==
  ASSUME NEW T \in Tolds, NEW a, NEW b, NEW v \in BOOLEAN, NEW who
  PROVE  OnActivityChanged(T, a, b, v, who) \in Tolds
<1>1. CASE a = b
  BY <1>1, NoChange
<1>2. CASE a # b /\ b = "blocked"
  BY <1>2, Blocks, HelpersTyped
<1>3. CASE a # b /\ b # "blocked"
  <2>1. Unblocked(T) \in Tolds
    BY HelpersTyped DEF Unblocked
  <2>2. Sync(Unblocked(T), who) \in Tolds /\ Record(Unblocked(T), "done", who) \in Tolds
    BY <2>1, HelpersTyped
  <2>3. /\ Resumed(T, b, who) \in Tolds
        /\ Push(Record(Unblocked(T), "done", who), "finished") \in Tolds
    BY <2>2, HelpersTyped DEF Resumed
  <2>4. Seen(Resumed(T, b, who)) \in Tolds
    BY <2>3 DEF Tolds, Seen
  <2>5. OnActivityChanged(T, a, b, v, who) \in
          {Push(Record(Unblocked(T), "done", who), "finished"), Resumed(T, b, who),
           Seen(Resumed(T, b, who))}
    BY <1>3, Unblocks
  <2>6. QED
    BY <2>3, <2>4, <2>5
<1>4. QED
  BY <1>1, <1>2, <1>3

(* What it does with the items and the alert of an agent's session.        *)
LEMMA ChangeItems ==
  ASSUME NEW T \in Tolds, NEW a, NEW b, NEW v \in BOOLEAN, NEW who, who # "none", listed,
         a = "blocked" => "blocked" \in T.items, v => "done" \notin T.items
  PROVE  LET U == OnActivityChanged(T, a, b, v, who) IN
         /\ b = "blocked" => "blocked" \in U.items
         /\ a = "blocked" /\ b # "blocked" => "blocked" \notin U.items
         /\ v => "done" \notin U.items
         /\ "done" \in T.items /\ "done" \notin U.items => U.banner # "finished"
         /\ "blocked" \in T.items /\ "blocked" \notin U.items => U.banner # "awaiting"
<1> DEFINE U == OnActivityChanged(T, a, b, v, who)
<1>1. CASE a = b
  BY <1>1, NoChange
<1>2. CASE a # b /\ b = "blocked"
  <2>1. U = [T EXCEPT !.items = @ \cup {"blocked"}]
    BY <1>2, Blocks DEF Record
  <2>2. U.items = T.items \cup {"blocked"} /\ U.banner = T.banner
    BY <2>1 DEF Tolds
  <2>3. QED
    BY <1>2, <2>2
<1>3. CASE a # b /\ b # "blocked"
  <2> DEFINE R == Unblocked(T)
             S == Resumed(T, b, who)
  <2>1. /\ R \in Tolds /\ R.items = T.items \ {"blocked"}
        /\ "blocked" \in T.items => R.banner = "none"
    <3>1. CASE "blocked" \in T.items
      BY <3>1 DEF Unblocked, ResolveAndDismiss, Dismiss, Push, Tolds
    <3>2. CASE "blocked" \notin T.items
      BY <3>2 DEF Unblocked, ResolveAndDismiss, Tolds
    <3>3. QED
      BY <3>1, <3>2
  <2>2. Sync(R, who) = R
    BY DEF Sync
  <2>3. /\ S \in Tolds /\ S.items \in {R.items, R.items \ {"done"}}
        /\ S.banner \in {R.banner, "none"}
        /\ "done" \in R.items /\ "done" \notin S.items => S.banner = "none"
    <3>1. S = R \/ S = ResolveAndDismiss(R, "done")
      BY <2>2 DEF Resumed
    <3>2. CASE "done" \in R.items
      <4>1. ResolveAndDismiss(R, "done") = [R EXCEPT !.items = @ \ {"done"}, !.banner = "none"]
        BY <2>1, <3>2 DEF ResolveAndDismiss, Dismiss, Push, Tolds
      <4>2. QED
        BY <2>1, <3>1, <3>2, <4>1, <2>2 DEF Tolds, Resumed
    <3>3. CASE "done" \notin R.items
      BY <2>1, <3>1, <3>3 DEF ResolveAndDismiss
    <3>4. QED
      BY <3>2, <3>3
  <2> HIDE DEF R, S
  <2>4. CASE b = "idle" /\ ~v
    <3>1. U = Push(Record(R, "done", who), "finished")
      BY <1>3, <2>4, Unblocks DEF R
    <3>2. U.items = R.items \cup {"done"} /\ U.banner = "finished"
      BY <2>1, <3>1 DEF Push, Record, Tolds
    <3>3. QED
      BY <1>3, <2>1, <2>4, <3>2
  <2>5. CASE v
    <3>1. U = Seen(S)
      <4>1. ~(b = "idle" /\ ~v)
        BY <2>5, Zenon
      <4>2. U = IF v THEN Seen(S) ELSE S
        BY <1>3, <4>1, Unblocks DEF S
      <4>3. QED
        BY <2>5, <4>2, Zenon
    <3>2. U.items = S.items \ {"done"} /\ U.banner = S.banner
      BY <2>3, <3>1 DEF Tolds, Seen
    <3>3. QED
      BY <1>3, <2>1, <2>3, <2>5, <3>2
  <2>6. CASE b # "idle" /\ ~v
    <3>1. U = S
      BY <1>3, <2>6, Unblocks DEF S
    <3>2. QED
      BY <1>3, <2>1, <2>3, <2>6, <3>1
  <2>7. QED
    BY <2>4, <2>5, <2>6
<1>4. QED
  BY <1>1, <1>2, <1>3

(* A blocker that is recorded leaves the alert as it was.                  *)
LEMMA BlockBanner ==
  ASSUME NEW T \in Tolds, NEW a, NEW v, NEW who
  PROVE  LET U == OnActivityChanged(T, a, "blocked", v, who) IN
         U.banner = T.banner
<1>1. CASE a = "blocked"
  BY <1>1, NoChange
<1>2. CASE a # "blocked"
  <2>1. Record(T, "blocked", who).banner = T.banner
    <3>1. Sync(T, who).banner = T.banner
      BY DEF Sync, Tolds
    <3>2. [T EXCEPT !.items = @ \cup {"blocked"}].banner = T.banner
      BY DEF Tolds
    <3>3. QED
      BY <3>1, <3>2 DEF Record
  <2>2. QED
    BY <1>2, <2>1, Blocks
<1>3. QED
  BY <1>1, <1>2

-----------------------------------------------------------------------------
(* A new activity, announced, and pushed if it is a blocker nobody sees.   *)
LEMMA Becoming ==
  ASSUME Inv, listed, listed' = listed, kind' = kind, viewing' = viewing,
         NEW before \in Activities, NEW a \in Activities, NEW who, NEW up \in BOOLEAN,
         Managed => before = activity /\ who # "none",
         activity' = a, awaiting' = (a = "blocked"),
         Tell(IF up THEN OnAwaiting(OnActivityChanged(Told, before, a, Viewed(viewing), who))
              ELSE OnActivityChanged(Told, before, a, Viewed(viewing), who)),
         up => a = "blocked",
         a = "blocked" /\ ~Viewed(viewing) => up \/ awaiting
  PROVE  /\ items' \subseteq Topics /\ banner' \in Alerts
         /\ Paired' /\ Alerted' /\ Itemised' /\ ItemStep /\ AlertStep /\ NoticeStep
<1> DEFINE U == OnActivityChanged(Told, before, a, Viewed(viewing), who)
<1>1. Told \in Tolds /\ U \in Tolds /\ Viewed(viewing) \in BOOLEAN
  BY ToldTyped, ChangeTyped DEF Inv, Viewed
<1>2. items' = U.items /\ banner' = IF up THEN "awaiting" ELSE U.banner
  BY <1>1 DEF Tell, OnAwaiting, Push, Tolds
<1>3. items' \subseteq Topics /\ banner' \in Alerts
  BY <1>1, <1>2 DEF Tolds
<1>4. Paired'
  BY DEF Paired
<1>5. NoticeStep /\ Alerted'
  <2> SUFFICES ASSUME a = "blocked", ~Viewed(viewing)
               PROVE  banner' = "awaiting" \/ (Unseen /\ banner' = "file")
    BY DEF NoticeStep, Unseen, Alerted, Viewed
  <2>1. CASE up
    BY <1>2, <2>1
  <2>2. CASE ~up
    <3>1. Unseen
      BY <2>2 DEF Unseen
    <3>2. Told.banner \in {"awaiting", "file"}
      BY <3>1 DEF Told, Inv, Alerted
    <3>3. U.banner = Told.banner
      BY <1>1, BlockBanner
    <3>4. QED
      BY <1>2, <2>2, <3>1, <3>2, <3>3
  <2>3. QED
    BY <2>1, <2>2
<1>6. ASSUME Managed PROVE Itemised' /\ ItemStep /\ AlertStep
  <2>1. before = activity /\ who # "none"
    BY <1>6
  <2>2. /\ activity = "blocked" => "blocked" \in Told.items
        /\ Viewed(viewing) => "done" \notin Told.items
    BY <1>6, Zenon DEF Inv, Itemised, Told
  <2>3. /\ a = "blocked" => "blocked" \in U.items
        /\ before = "blocked" /\ a # "blocked" => "blocked" \notin U.items
        /\ Viewed(viewing) => "done" \notin U.items
        /\ "done" \in Told.items /\ "done" \notin U.items => U.banner # "finished"
        /\ "blocked" \in Told.items /\ "blocked" \notin U.items => U.banner # "awaiting"
    BY <1>1, <2>1, <2>2, ChangeItems
  <2>4. Told.items = items
    BY DEF Told
  <2> HIDE DEF U
  <2>5. Itemised' /\ ItemStep
    BY <1>2, <2>1, <2>3 DEF Itemised, ItemStep, Viewed
  <2>6. AlertStep
    BY <1>2, <2>1, <2>3, <2>4 DEF AlertStep
  <2>7. QED
    BY <2>5, <2>6
<1>7. ~Managed => Itemised' /\ ItemStep /\ AlertStep
  BY DEF Itemised, ItemStep, AlertStep, Managed
<1> HIDE DEF U
<1>8. QED
  BY <1>3, <1>4, <1>5, <1>6, <1>7

(* Nothing was said, and what was known is as before.                      *)
LEMMA Silent ==
  ASSUME Inv, TypeOK', listed' => listed, UNCHANGED <<kind, agent, activity, awaiting, banner, native>>,
         viewing' = viewing, listed' => items' = items,
         listed' /\ subs' # {} => proc' /\ status' = "running"
  PROVE  Inv' /\ ItemStep /\ AlertStep /\ NoticeStep
<1>1. Paired' /\ Kin'
  BY DEF Inv, Paired, Kin, Managed
<1>2. Attached'
  BY DEF Attached
<1>3. NativeOutranksScreen'
  BY Zenon DEF Inv, NativeOutranksScreen, Managed
<1>4. Itemised'
  BY DEF Inv, Itemised, Managed, Viewed
<1>5. ItemStep /\ AlertStep
  BY DEF Inv, Itemised, ItemStep, AlertStep, Managed
<1>6. NoticeStep /\ Alerted'
  BY DEF Inv, Alerted, NoticeStep, Unseen, Viewed
<1>7. QED
  BY <1>1, <1>2, <1>3, <1>4, <1>5, <1>6 DEF Inv

LEMMA InitInv == Init => Inv
<1> SUFFICES ASSUME Init PROVE Inv
  OBVIOUS
<1>1. /\ proc \in BOOLEAN /\ listed \in BOOLEAN /\ awaiting \in BOOLEAN
      /\ lifecycle \in BOOLEAN /\ integrated \in BOOLEAN
      /\ agent \in Provider \cup {"none", "own"}
  BY Zenon DEF Init
<1>2. TypeOK
  <2>1. /\ kind \in Kinds /\ status = "running" /\ subs = {} /\ viewing = {}
        /\ activity = "idle" /\ native = "none" /\ misses = 0
    BY DEF Init
  <2>2. /\ screen = "plain" /\ fg = "none" /\ pc = "off" /\ snap = "unknown"
        /\ pane = "unreadable" /\ rechecks = 0 /\ items = {} /\ banner = "none"
    BY DEF Init
  <2>3. QED
    BY <1>1, <2>1, <2>2 DEF TypeOK, Activities, Screens, Confirmations
<1>3. QED
  BY <1>2 DEF Init, Inv, Paired, Kin, Attached, Alerted, Unseen, Itemised, NativeOutranksScreen, Managed, Viewed

-----------------------------------------------------------------------------
LEMMA NativeSignalKeeps ==
  ASSUME Inv, NEW a \in Activities, NativeSignal(a) PROVE Inv' /\ ItemStep /\ AlertStep /\ NoticeStep
<1> USE DEF NativeSignal
<1> DEFINE up == a = "blocked" /\ ~awaiting /\ ~Viewed(viewing)
<1>1. /\ listed /\ listed' = listed /\ kind' = kind /\ viewing' = viewing /\ Managed
      /\ activity \in Activities /\ agent # "none" /\ native' = a
  BY DEF Inv, TypeOK, Kin, viewers
<1>2. /\ activity' = a /\ awaiting' = (a = "blocked")
      /\ Tell(IF up THEN OnAwaiting(OnActivityChanged(Told, activity, a, Viewed(viewing), agent))
              ELSE OnActivityChanged(Told, activity, a, Viewed(viewing), agent))
  BY Zenon DEF Become
<1>3. /\ up \in BOOLEAN /\ up => a = "blocked"
      /\ a = "blocked" /\ ~Viewed(viewing) => up \/ awaiting
  OBVIOUS
<1>4. /\ items' \subseteq Topics /\ banner' \in Alerts
      /\ Paired' /\ Alerted' /\ Itemised' /\ ItemStep /\ AlertStep /\ NoticeStep
  <2> HIDE DEF up, NativeSignal
  <2>1. QED
    BY <1>1, <1>2, <1>3, Becoming
<1>5. TypeOK'
  BY <1>1, <1>2, <1>4 DEF Inv, TypeOK, Activities, viewers, world, sweep
<1>6. Kin' /\ Attached' /\ NativeOutranksScreen'
  BY <1>1, <1>2 DEF Inv, Kin, Attached, NativeOutranksScreen, Managed, viewers
<1>7. QED
  BY <1>4, <1>5, <1>6 DEF Inv

LEMMA IntegrationReportKeeps ==
  ASSUME Inv, NEW p \in Provider, NEW a \in Activities, IntegrationReport(p, a)
  PROVE  Inv' /\ ItemStep /\ AlertStep /\ NoticeStep
<1> USE DEF IntegrationReport
<1> DEFINE up == a = "blocked" /\ ~awaiting /\ ~Viewed(viewing)
<1>1. /\ listed /\ listed' = listed /\ kind' = kind /\ viewing' = viewing /\ ~Managed
      /\ activity \in Activities /\ native' = native
  BY DEF Inv, TypeOK, viewers, evidence
<1>2. /\ activity' = a /\ awaiting' = (a = "blocked")
      /\ Tell(IF up THEN OnAwaiting(OnActivityChanged(Told, activity, a, Viewed(viewing), p))
              ELSE OnActivityChanged(Told, activity, a, Viewed(viewing), p))
  BY Zenon DEF Become
<1>3. /\ up \in BOOLEAN /\ up => a = "blocked"
      /\ a = "blocked" /\ ~Viewed(viewing) => up \/ awaiting
  OBVIOUS
<1>4. /\ items' \subseteq Topics /\ banner' \in Alerts
      /\ Paired' /\ Alerted' /\ Itemised' /\ ItemStep /\ AlertStep /\ NoticeStep
  <2> HIDE DEF up, IntegrationReport
  <2>1. QED
    BY <1>1, <1>2, <1>3, Becoming
<1>5. TypeOK'
  BY <1>1, <1>2, <1>4 DEF Inv, TypeOK, Activities, viewers, evidence, world, sweep
<1>6. Kin' /\ Attached' /\ NativeOutranksScreen'
  BY <1>1, <1>2 DEF Inv, Kin, Attached, NativeOutranksScreen, Managed, viewers
<1>7. QED
  BY <1>4, <1>5, <1>6 DEF Inv

LEMMA WriteKeeps ==
  ASSUME Inv, NEW enter \in BOOLEAN, Write(enter) PROVE Inv' /\ ItemStep /\ AlertStep /\ NoticeStep
<1> USE DEF Write
<1> DEFINE resumes == native # "none" /\ enter /\ ~(native = "blocked" /\ lifecycle)
           a       == IF native = "none" \/ resumes THEN "working" ELSE native
<1>1. /\ listed /\ listed' = listed /\ kind' = kind /\ viewing' = viewing
      /\ activity \in Activities /\ a \in Activities /\ lifecycle' \in BOOLEAN
      /\ native' \in Activities \cup {"none"}
      /\ native # "none" => native' = a
      /\ native = "none" => native' = "none"
      /\ Managed => agent # "none"
  BY DEF Inv, TypeOK, Kin, viewers, Activities
<1>2. /\ activity' = a /\ awaiting' = (a = "blocked")
      /\ Tell(OnActivityChanged(Told, activity, a, Viewed(viewing), agent))
  OBVIOUS
<1>3. a = "blocked" => awaiting
  <2>1. a = "blocked" => native = "blocked"
    OBVIOUS
  <2>2. native = "blocked" => activity = "blocked"
    BY <1>1 DEF Inv, Kin, NativeOutranksScreen
  <2>3. QED
    BY <2>1, <2>2 DEF Inv, Paired
<1>4. /\ items' \subseteq Topics /\ banner' \in Alerts
      /\ Paired' /\ Alerted' /\ Itemised' /\ ItemStep /\ AlertStep /\ NoticeStep
  <2> HIDE DEF a, resumes, Write
  <2> DEFINE U == OnActivityChanged(Told, activity, a, Viewed(viewing), agent)
  <2>1. Tell(IF FALSE THEN OnAwaiting(U) ELSE U)
    BY <1>2
  <2>2. QED
    BY <1>1, <1>2, <1>3, <2>1, Becoming
<1>5. TypeOK'
  BY <1>1, <1>2, <1>4 DEF Inv, TypeOK, viewers, world, sweep
<1>6. Kin' /\ Attached'
  BY <1>1 DEF Inv, Kin, Attached, Managed, viewers
<1>7. NativeOutranksScreen'
  BY <1>1, <1>2 DEF NativeOutranksScreen
<1>8. QED
  BY <1>4, <1>5, <1>6, <1>7 DEF Inv

LEMMA AttachKeeps ==
  ASSUME Inv, NEW c \in Client, Attach(c) PROVE Inv' /\ ItemStep /\ AlertStep /\ NoticeStep
<1>1. TypeOK'
  BY DEF Inv, TypeOK, Attach, meta, evidence, world, sweep, told
<1>2. listed' /\ subs' # {} => proc' /\ status' = "running"
  BY DEF Attach
<1>3. QED
  BY <1>1, <1>2, Silent DEF Attach, meta, evidence, told

LEMMA ReapIdleKeeps == ASSUME Inv, ReapIdle PROVE Inv' /\ ItemStep /\ AlertStep /\ NoticeStep
<1>1. TypeOK'
  <2>1. listed' \in BOOLEAN /\ proc' \in BOOLEAN
    BY Zenon DEF ReapIdle
  <2>2. QED
    BY <2>1 DEF Inv, TypeOK, ReapIdle, viewers, meta, evidence, world, sweep, told
<1>2. QED
  BY <1>1, Silent DEF ReapIdle, viewers, meta, evidence, told

LEMMA StopKeeps == ASSUME Inv, Stop PROVE Inv' /\ ItemStep /\ AlertStep /\ NoticeStep
<1>1. TypeOK'
  <2>1. listed' \in BOOLEAN /\ proc' \in BOOLEAN
    BY Zenon DEF Stop
  <2>2. QED
    BY <2>1 DEF Inv, TypeOK, Stop, viewers, meta, evidence, world, sweep
<1>2. QED
  BY <1>1, Silent DEF Stop, viewers, meta, evidence

(* The screen changes, or the sweep takes a step that is not an update.    *)
Quiet ==
  \/ ScreenChanges \/ ForegroundChanges \/ SweepStarts \/ InventoryTaken \/ PaneCaptured
  \/ SweepSkips \/ SweepRechecks

LEMMA QuietKeeps == ASSUME Inv, Quiet PROVE Inv' /\ ItemStep /\ AlertStep /\ NoticeStep
<1>1. UNCHANGED <<kind, listed, status, proc, viewers, meta, evidence, told>>
  BY DEF Quiet, ScreenChanges, ForegroundChanges, SweepStarts, InventoryTaken, PaneCaptured,
         SweepSkips, SweepRechecks
<1>2. /\ screen' \in Screens /\ fg' \in Provider \cup {"none", "unknown"}
      /\ pc' \in {"off", "inventory", "capture", "apply"}
      /\ snap' \in Provider \cup {"none", "unknown"}
      /\ pane' \in Screens /\ rechecks' \in 0..Confirmations - 1
  <2> USE DEF Inv, TypeOK, world, sweep, Idle, Screens, Confirmations
  <2>1. CASE ScreenChanges \/ ForegroundChanges
    BY <2>1 DEF ScreenChanges, ForegroundChanges
  <2>2. CASE SweepStarts \/ SweepSkips
    BY <2>2 DEF SweepStarts, SweepSkips
  <2>3. CASE InventoryTaken
    BY <2>3 DEF InventoryTaken
  <2>4. CASE PaneCaptured
    BY <2>4 DEF PaneCaptured
  <2>5. CASE SweepRechecks
    BY <2>5 DEF SweepRechecks, NeedsRecheck
  <2>6. QED
    BY <2>1, <2>2, <2>3, <2>4, <2>5 DEF Quiet
<1>3. TypeOK'
  BY <1>1, <1>2 DEF Inv, TypeOK, viewers, meta, evidence, told
<1>4. listed' /\ subs' # {} => proc' /\ status' = "running"
  BY <1>1 DEF Inv, Attached, viewers
<1>5. QED
  BY <1>1, <1>3, <1>4, Silent DEF viewers, meta, evidence, told

LEMMA StartFailsKeeps == ASSUME Inv, StartFails PROVE Inv' /\ ItemStep /\ AlertStep /\ NoticeStep
<1>1. TypeOK'
  BY DEF Inv, TypeOK, StartFails, viewers, world, sweep, told, Activities
<1>2. subs = {} /\ subs' = {}
  BY DEF StartFails, Inv, Attached, viewers
<1>3. Paired' /\ Kin' /\ Attached' /\ Alerted' /\ NativeOutranksScreen'
  BY <1>2 DEF StartFails, Inv, Paired, Kin, Attached, Alerted, Unseen, NativeOutranksScreen, Managed
<1>4. Itemised' /\ ItemStep /\ AlertStep /\ NoticeStep
  BY <1>2 DEF StartFails, Inv, Itemised, ItemStep, AlertStep, NoticeStep, Unseen, Managed, told,
     viewers, Viewed
<1>5. QED
  BY <1>1, <1>3, <1>4 DEF Inv

LEMMA ViewKeeps == ASSUME Inv, NEW c \in Client, View(c) PROVE Inv' /\ ItemStep /\ AlertStep /\ NoticeStep
<1> DEFINE who == IF listed THEN agent ELSE "none"
           R   == ResolveAndDismiss(Told, "done")
<1>1. Told \in Tolds /\ R \in Tolds /\ Sync(R, who) \in Tolds
  BY ToldTyped, HelpersTyped DEF Inv
<1>2. Viewed(viewing') /\ kind' = kind /\ listed' = listed
  BY DEF View, Viewed
<1>3. /\ items' \subseteq Topics /\ banner' \in Alerts
  BY <1>1 DEF View, Tell, OnViewed, Tolds
<1>4. TypeOK'
  BY <1>3 DEF View, Inv, TypeOK, meta, evidence, world, sweep
<1>5. Paired' /\ Kin' /\ Attached' /\ Alerted' /\ NativeOutranksScreen'
  BY <1>2 DEF View, meta, evidence, Inv, Paired, Kin, Attached, Alerted, Unseen, NativeOutranksScreen,
     Managed
<1>6. ASSUME Managed, listed
      PROVE  /\ items' = items \ {"done"}
             /\ "done" \in items => banner' = "none"
  <2>1. Sync(R, who) = R
    BY <1>6 DEF Sync, Inv, Kin
  <2>2. CASE Viewed(viewing)
    BY <1>6, <2>2 DEF View, Tell, Told, Inv, Itemised
  <2>3. CASE ~Viewed(viewing) /\ "done" \in items
    BY <2>1, <2>3 DEF View, Tell, OnViewed, Told, ResolveAndDismiss, Dismiss, Push
  <2>4. CASE ~Viewed(viewing) /\ "done" \notin items
    BY <2>1, <2>4 DEF View, Tell, OnViewed, Told, ResolveAndDismiss
  <2>5. QED
    BY <2>2, <2>3, <2>4
<1>7. Itemised' /\ ItemStep /\ AlertStep /\ NoticeStep
  BY <1>2, <1>6 DEF View, meta, Inv, Itemised, ItemStep, AlertStep, NoticeStep, Unseen, Managed
<1>8. QED
  BY <1>4, <1>5, <1>7 DEF Inv

(* Of the viewers some remain, and only those still attached.              *)
LEMMA StopsViewingKeeps ==
  ASSUME Inv, NEW V, V \subseteq viewing, StopsViewing(V), V \subseteq subs', subs' \subseteq subs,
         UNCHANGED <<kind, listed, status, proc, meta, evidence, world, sweep>>
  PROVE  Inv' /\ ItemStep /\ AlertStep /\ NoticeStep
<1> DEFINE up == Viewed(viewing) /\ ~Viewed(V) /\ awaiting /\ status = "running"
<1>1. items' = items /\ banner' = IF up THEN "awaiting" ELSE banner
  BY DEF StopsViewing, Tell, OnAwaiting, Push, Told
<1>2. viewing' = V
  BY DEF StopsViewing
<1>3. TypeOK'
  BY <1>1, <1>2 DEF Inv, TypeOK, meta, evidence, world, sweep
<1>4. Paired' /\ Kin' /\ Attached' /\ NativeOutranksScreen'
  BY DEF Inv, Paired, Kin, Attached, NativeOutranksScreen, Managed, meta, evidence
<1>5. NoticeStep /\ Alerted'
  <2> SUFFICES ASSUME listed, awaiting, ~Viewed(V)
               PROVE  banner' = "awaiting" \/ (Unseen /\ banner' = "file")
    BY <1>2 DEF NoticeStep, Unseen, Alerted, Viewed, meta
  <2>1. CASE Viewed(viewing)
    <3>1. status = "running"
      BY <2>1 DEF Viewed, Inv, TypeOK, Attached
    <3>2. QED
      BY <1>1, <2>1, <3>1
  <2>2. CASE ~Viewed(viewing)
    BY <1>1, <2>2 DEF Inv, Alerted, Unseen
  <2>3. QED
    BY <2>1, <2>2
<1>6. Itemised' /\ ItemStep /\ AlertStep
  BY <1>1, <1>2 DEF Inv, Itemised, ItemStep, AlertStep, Managed, Viewed, meta
<1>7. QED
  BY <1>3, <1>4, <1>5, <1>6 DEF Inv

LEMMA HideKeeps == ASSUME Inv, NEW c \in Client, Hide(c) PROVE Inv' /\ ItemStep /\ AlertStep /\ NoticeStep
<1>1. viewing \ {c} \subseteq subs
  BY DEF Inv, TypeOK
<1>2. QED
  BY <1>1, StopsViewingKeeps DEF Hide

LEMMA DetachKeeps == ASSUME Inv, NEW c \in Client, Detach(c) PROVE Inv' /\ ItemStep /\ AlertStep /\ NoticeStep
<1>1. viewing \ {c} \subseteq subs \ {c}
  BY DEF Inv, TypeOK
<1>2. QED
  BY <1>1, StopsViewingKeeps DEF Detach

LEMMA ForgetTyped ==
  ASSUME TypeOK, NEW v \in BOOLEAN PROVE Forget(Told, v) \in Tolds
<1>1. AgentRemoved(Told) \in Tolds
  BY ToldTyped DEF AgentRemoved, Tolds
<1>2. QED
  BY <1>1, ChangeTyped DEF Forget

LEMMA FinishedTyped ==
  ASSUME NEW T \in Tolds, NEW v, NEW who PROVE OnFinished(T, v, who) \in Tolds
<1> DEFINE S == [Sync(T, who) EXCEPT !.items = @ \ {"blocked"}]
<1>1. Sync(T, who) \in Tolds
  BY HelpersTyped
<1>2. S \in Tolds
  BY <1>1 DEF Tolds
<1>3. Push(Record(S, "done", who), "finished") \in Tolds
  <2> HIDE DEF S
  <2>1. Record(S, "done", who) \in Tolds
    BY <1>2, HelpersTyped
  <2>2. QED
    BY <2>1, HelpersTyped
<1>4. OnFinished(T, v, who) \in {S, Push(Record(S, "done", who), "finished")}
  BY DEF OnFinished
<1>5. QED
  BY <1>2, <1>3, <1>4

LEMMA IntegrationOffKeeps == ASSUME Inv, IntegrationOff PROVE Inv' /\ ItemStep /\ AlertStep /\ NoticeStep
<1>1. Forget(Told, Viewed(viewing)) \in Tolds
  BY ForgetTyped DEF Inv, Viewed
<1>2. items' \subseteq Topics /\ banner' \in Alerts
  BY <1>1 DEF IntegrationOff, Tell, Tolds
<1>3. activity' = "idle" /\ ~awaiting' /\ awaiting' \in BOOLEAN /\ integrated' \in BOOLEAN
  BY Zenon DEF IntegrationOff
<1>4. TypeOK'
  BY <1>2, <1>3 DEF IntegrationOff, Inv, TypeOK, Activities, viewers, evidence, world, sweep
<1>5. QED
  BY <1>3, <1>4 DEF IntegrationOff, Inv, Paired, Kin, Attached, Alerted, Unseen, Itemised,
     NativeOutranksScreen, ItemStep, AlertStep, NoticeStep, Managed, viewers, evidence

LEMMA SweepMissesKeeps == ASSUME Inv, SweepMisses PROVE Inv' /\ ItemStep /\ AlertStep /\ NoticeStep
<1>1. /\ ~Managed /\ kind' = kind /\ listed' = listed
      /\ UNCHANGED <<status, proc, viewers, evidence, world>>
  BY DEF SweepMisses, AgentMissing
<1>2. /\ pc' \in {"off"} /\ snap' = "unknown" /\ pane' = "unreadable" /\ rechecks' = 0
      /\ misses' \in 0..2
  BY DEF SweepMisses, Idle
<1>3. CASE misses > 0 /\ agent # "none"
  <2>1. Forget(Told, Viewed(viewing)) \in Tolds
    BY ForgetTyped DEF Inv, Viewed
  <2>2. items' \subseteq Topics /\ banner' \in Alerts
    BY <1>3, <2>1 DEF SweepMisses, Tell, Tolds
  <2>3. /\ activity' = "idle" /\ ~awaiting' /\ awaiting' \in BOOLEAN
        /\ integrated' \in BOOLEAN /\ agent' = "none"
    BY <1>3, Zenon DEF SweepMisses
  <2>4. TypeOK'
    BY <1>1, <1>2, <2>2, <2>3 DEF Inv, TypeOK, Activities, Screens, Confirmations, viewers, evidence, world
  <2>5. QED
    BY <1>1, <2>3, <2>4 DEF Inv, Paired, Kin, Attached, Alerted, Unseen, Itemised,
       NativeOutranksScreen, ItemStep, AlertStep, NoticeStep, Managed, viewers, evidence
<1>4. CASE ~(misses > 0 /\ agent # "none")
  <2>1. UNCHANGED <<agent, integrated, activity, awaiting, told>>
    BY <1>4 DEF SweepMisses
  <2>2. TypeOK'
    BY <1>1, <1>2, <2>1 DEF Inv, TypeOK, Screens, Confirmations, viewers, evidence, world, told
  <2>3. listed' /\ subs' # {} => proc' /\ status' = "running"
    BY <1>1 DEF Inv, Attached, viewers
  <2>4. QED
    BY <1>1, <2>1, <2>2, <2>3, Silent DEF viewers, evidence, told
<1>5. QED
  BY <1>3, <1>4

LEMMA SweepAppliesKeeps == ASSUME Inv, SweepApplies PROVE Inv' /\ ItemStep /\ AlertStep /\ NoticeStep
<1> DEFINE replaced == ~Managed /\ agent # snap
           before   == IF replaced THEN "idle" ELSE activity
           blocked  == awaiting /\ ~replaced
           who      == IF Managed THEN agent ELSE snap
           now      == IF pane = "unreadable" THEN before ELSE Classified
           S        == OnActivityChanged(Told, before, now, Viewed(viewing), who)
           up       == now = "blocked" /\ ~blocked /\ ~Viewed(viewing) /\ pane # "unreadable"
<1>1. /\ listed' = listed /\ kind' = kind /\ viewing' = viewing /\ Identified
      /\ Managed => pane # "unreadable"
      /\ UNCHANGED <<status, proc, subs, integrated, evidence, world>>
      /\ pc' = "off" /\ snap' = "unknown" /\ pane' = "unreadable" /\ rechecks' = 0
      /\ misses' = IF Managed THEN misses ELSE 0
  BY DEF SweepApplies, viewers, Idle
<1>2. /\ agent' = who /\ activity' = now
      /\ awaiting' = IF pane = "unreadable" THEN blocked ELSE now = "blocked"
      /\ Tell(IF up THEN OnAwaiting(S) ELSE S)
  BY Zenon DEF SweepApplies
<1>3. activity \in Activities /\ before \in Activities
  BY DEF Inv, TypeOK, Activities
<1>4. now \in Activities
  BY <1>3 DEF Inv, TypeOK, Activities, Screens, Classified
<1>5. who \in Provider \cup {"none", "own"} /\ (Managed => who = "own" /\ before = activity)
  BY <1>1 DEF Inv, TypeOK, Kin, Identified
<1>6. awaiting' = (now = "blocked")
  <2>1. awaiting = (activity = "blocked")
    BY DEF Inv, Paired
  <2>2. before = "blocked" <=> activity = "blocked" /\ ~replaced
    OBVIOUS
  <2> HIDE DEF replaced
  <2>3. CASE pane = "unreadable"
    BY <1>2, <2>1, <2>2, <2>3
  <2>4. CASE pane # "unreadable"
    BY <1>2, <2>4
  <2>5. QED
    BY <2>3, <2>4
<1>7. /\ up \in BOOLEAN /\ up => now = "blocked"
      /\ now = "blocked" /\ ~Viewed(viewing) => up \/ awaiting
  BY <1>2, <1>6
<1>8. /\ items' \subseteq Topics /\ banner' \in Alerts
      /\ Paired' /\ Alerted' /\ Itemised' /\ ItemStep /\ AlertStep /\ NoticeStep
  <2>1. CASE listed
    <3> HIDE DEF up, now, who, before
    <3>1. QED
      BY <1>1, <1>2, <1>3, <1>4, <1>5, <1>6, <1>7, <2>1, Becoming
  <2>2. CASE ~listed
    <3>1. S \in Tolds
      <4> HIDE DEF now, who, before
      <4>1. QED
        BY ToldTyped, ChangeTyped DEF Inv, Viewed
    <3>2. (IF up THEN OnAwaiting(S) ELSE S) \in Tolds
      BY <3>1 DEF OnAwaiting, Push, Tolds
    <3>3. items' \subseteq Topics /\ banner' \in Alerts
      BY <1>2, <3>2 DEF Tell, Tolds
    <3>4. QED
      BY <1>1, <1>2, <1>6, <2>2, <3>3 DEF Paired, Alerted, Unseen, Itemised, ItemStep, AlertStep, NoticeStep
  <2>3. QED
    BY <2>1, <2>2
<1>9. Kin' /\ Attached'
  BY <1>1, <1>2, <1>5 DEF Inv, Kin, Attached, Managed, evidence
<1>10. NativeOutranksScreen'
  <2>1. Managed /\ native # "none" => now = native
    BY <1>1 DEF Classified
  <2>2. QED
    BY <1>1, <1>2, <2>1 DEF NativeOutranksScreen, Managed, evidence
<1>11. TypeOK'
  <2>1. awaiting' \in BOOLEAN
    BY <1>6
  <2> HIDE DEF now, who
  <2>2. QED
    BY <1>1, <1>2, <1>4, <1>5, <1>8, <2>1 DEF Inv, TypeOK, Screens, Confirmations, evidence, world
<1>12. QED
  BY <1>8, <1>9, <1>10, <1>11 DEF Inv

(* Who was looking is only asked about the finish: the change itself is    *)
(* announced as if nobody had been.                                        *)
LEMMA ExitKeeps == ASSUME Inv, Exit PROVE Inv' /\ ItemStep /\ AlertStep /\ NoticeStep
<1> USE DEF Exit
<1> DEFINE left == IF Managed THEN OnActivityChanged(Told, activity, "idle", FALSE, agent)
                              ELSE Forget(Told, FALSE)
           wasViewed == Viewed(viewing)
<1>1. left \in Tolds
  BY ToldTyped, ChangeTyped, ForgetTyped DEF Inv
<1>2. Tell(OnFinished(left, wasViewed, agent'))
  BY Zenon
<1>3. OnFinished(left, wasViewed, agent') \in Tolds
  <2> HIDE DEF left, wasViewed, Exit
  <2>1. QED
    BY <1>1, FinishedTyped
<1>4. items' \subseteq Topics /\ banner' \in Alerts
  BY <1>2, <1>3 DEF Tell, Tolds
<1>5. /\ activity' = "idle" /\ ~awaiting' /\ awaiting' \in BOOLEAN
      /\ lifecycle' \in BOOLEAN /\ integrated' \in BOOLEAN /\ proc' \in BOOLEAN
      /\ native' = "none" /\ subs' = {} /\ viewing' = {} /\ listed' = listed /\ kind' = kind
      /\ agent' = (IF Managed THEN agent ELSE "none") /\ status' = "ended" /\ misses' = 0
  BY Zenon
<1>6. TypeOK'
  <2>1. UNCHANGED <<world, sweep>>
    OBVIOUS
  <2> HIDE DEF Exit
  <2>2. QED
    BY <1>4, <1>5, <2>1 DEF Inv, TypeOK, Activities, world, sweep
<1>7. Paired' /\ Kin' /\ Attached' /\ Alerted' /\ NativeOutranksScreen'
  <2> HIDE DEF Exit
  <2>1. QED
    BY <1>5 DEF Inv, Paired, Kin, Attached, Alerted, Unseen, NativeOutranksScreen, Managed
<1>8. Itemised'
  BY <1>5 DEF Itemised, Viewed
<1>9. ASSUME Managed, listed
      PROVE  /\ "blocked" \notin items'
             /\ "done" \in items => "done" \in items'
             /\ activity = "blocked" => banner' = "finished"
  <2>1. agent' = "own" /\ agent = "own"
    BY <1>5, <1>9 DEF Inv, Kin
  <2>2. /\ "done" \in items => "done" \in left.items
        /\ activity = "blocked" => "done" \in left.items /\ left.banner = "finished"
    <3>1. CASE activity = "idle"
      <4>1. left = Told
        BY <1>9, <3>1, NoChange, Zenon
      <4> HIDE DEF left
      <4>2. QED
        BY <3>1, <4>1 DEF Told
    <3>2. CASE activity # "idle"
      <4> DEFINE R == Unblocked(Told)
      <4>1. R \in Tolds
        BY ToldTyped, HelpersTyped DEF Inv, Unblocked
      <4>2. left = Push(Record(R, "done", agent), "finished")
        BY <1>9, <3>2, ToldTyped, Unblocks DEF Inv
      <4>3. Record(R, "done", agent) = [R EXCEPT !.items = @ \cup {"done"}]
        BY <1>9, <2>1 DEF Record
      <4>4. left.items = R.items \cup {"done"} /\ left.banner = "finished"
        BY <4>1, <4>2, <4>3 DEF Push, Tolds
      <4>5. QED
        BY <4>4
    <3>3. QED
      BY <3>1, <3>2
  <2> DEFINE S == [left EXCEPT !.items = @ \ {"blocked"}]
  <2> HIDE DEF left, Exit, wasViewed
  <2>3. S \in Tolds /\ S.items = left.items \ {"blocked"} /\ S.banner = left.banner
    BY <1>1 DEF Tolds
  <2>4. OnFinished(left, wasViewed, agent') =
          IF wasViewed \/ "done" \in S.items THEN S ELSE Push(Record(S, "done", agent'), "finished")
    BY <2>1 DEF OnFinished, Sync
  <2>5. CASE wasViewed \/ "done" \in S.items
    BY <1>2, <2>2, <2>3, <2>4, <2>5 DEF Tell
  <2>6. CASE ~(wasViewed \/ "done" \in S.items)
    <3>1. Record(S, "done", agent') = [S EXCEPT !.items = @ \cup {"done"}]
      BY <1>5, <1>9, <2>1 DEF Record
    <3>2. /\ Push(Record(S, "done", agent'), "finished").items = S.items \cup {"done"}
          /\ Push(Record(S, "done", agent'), "finished").banner = "finished"
      BY <2>3, <3>1 DEF Push, Tolds
    <3>3. QED
      BY <1>2, <2>3, <2>4, <2>6, <3>2 DEF Tell
  <2>7. QED
    BY <2>5, <2>6
<1>10. ItemStep /\ AlertStep /\ NoticeStep
  <2> HIDE DEF Exit
  <2>1. QED
    BY <1>5, <1>9 DEF ItemStep, AlertStep, NoticeStep, Unseen
<1>11. QED
  BY <1>6, <1>7, <1>8, <1>10 DEF Inv

(* A file's alert replaces the blocker's; it takes no item away but where  *)
(* there is no agent.                                                      *)
LEMMA FileSharedKeeps == ASSUME Inv, FileShared PROVE Inv' /\ ItemStep /\ AlertStep /\ NoticeStep
<1> DEFINE T == IF listed /\ subs # {} THEN Told ELSE Record(Told, "file", agent)
<1>1. Told \in Tolds /\ Told.items = items
  BY ToldTyped DEF Inv, Told
<1>2. T \in Tolds
  BY <1>1, HelpersTyped
<1>3. items' = T.items /\ banner' = "file"
  <2> HIDE DEF T
  <2>1. Tell(Push(T, "file"))
    BY DEF FileShared, T
  <2>2. QED
    BY <1>2, <2>1 DEF Tell, Push, Tolds
<1>4. items' \subseteq Topics
  <2> HIDE DEF T
  <2>1. QED
    BY <1>2, <1>3 DEF Tolds
<1>5. Managed /\ listed => items \subseteq items' /\ items' \subseteq items \cup {"file"}
  <2>1. CASE Managed /\ listed
    <3>1. agent # "none"
      BY <2>1 DEF Inv, Kin
    <3>2. Record(Told, "file", agent).items = items \cup {"file"}
      BY <1>1, <2>1, <3>1 DEF Record, Tolds
    <3>3. T.items \in {items, items \cup {"file"}}
      BY <1>1, <3>2
    <3>4. QED
      BY <1>3, <3>3
  <2>2. QED
    BY <2>1
<1>6. UNCHANGED <<kind, listed, status, proc, viewers, meta, evidence, world, sweep>>
  BY DEF FileShared
<1>7. TypeOK'
  BY <1>3, <1>4, <1>6 DEF Inv, TypeOK, viewers, meta, evidence, world, sweep
<1>8. Paired' /\ Kin' /\ Attached' /\ NativeOutranksScreen'
  BY <1>6 DEF Inv, Paired, Kin, Attached, NativeOutranksScreen, Managed, viewers, meta, evidence
<1>9. NoticeStep /\ Alerted'
  BY <1>3, <1>6 DEF NoticeStep, Alerted, Unseen, Viewed, viewers, meta
<1>10. Itemised' /\ ItemStep /\ AlertStep
  BY <1>5, <1>6 DEF Inv, Itemised, ItemStep, AlertStep, Managed, Viewed, viewers, meta
<1>11. QED
  BY <1>7, <1>8, <1>9, <1>10 DEF Inv

-----------------------------------------------------------------------------
LEMMA StepKeeps == ASSUME Inv, Next PROVE Inv' /\ ItemStep /\ AlertStep /\ NoticeStep
<1>1. ASSUME NEW a \in Activities, NativeSignal(a) PROVE Inv' /\ ItemStep /\ AlertStep /\ NoticeStep
  BY <1>1, NativeSignalKeeps
<1>2. ASSUME NEW p \in Provider, NEW a \in Activities, IntegrationReport(p, a)
      PROVE  Inv' /\ ItemStep /\ AlertStep /\ NoticeStep
  BY <1>2, IntegrationReportKeeps
<1>3. ASSUME NEW enter \in BOOLEAN, Write(enter) PROVE Inv' /\ ItemStep /\ AlertStep /\ NoticeStep
  BY <1>3, WriteKeeps
<1>4. ASSUME NEW c \in Client, Attach(c) \/ View(c) \/ Hide(c) \/ Detach(c)
      PROVE  Inv' /\ ItemStep /\ AlertStep /\ NoticeStep
  BY <1>4, AttachKeeps, ViewKeeps, HideKeeps, DetachKeeps
<1>5. CASE IntegrationOff \/ FileShared \/ StartFails \/ Exit \/ Stop \/ ReapIdle
  BY <1>5, IntegrationOffKeeps, FileSharedKeeps, StartFailsKeeps, ExitKeeps, StopKeeps, ReapIdleKeeps
<1>6. CASE Quiet
  BY <1>6, QuietKeeps
<1>7. CASE SweepMisses \/ SweepApplies
  BY <1>7, SweepMissesKeeps, SweepAppliesKeeps
<1>8. QED
  BY <1>1, <1>2, <1>3, <1>4, <1>5, <1>6, <1>7, Zenon DEF Next, Quiet

LEMMA StutterKeeps == ASSUME Inv, UNCHANGED vars PROVE Inv' /\ ItemStep /\ AlertStep /\ NoticeStep
<1>1. TypeOK'
  BY DEF Inv, TypeOK, vars, viewers, meta, evidence, world, sweep, told
<1>2. listed' /\ subs' # {} => proc' /\ status' = "running"
  BY DEF Inv, Attached, vars, viewers
<1>3. QED
  BY <1>1, <1>2, Silent DEF vars, viewers, meta, evidence, told

LEMMA InvHolds == Spec => []Inv
<1>1. Inv /\ [Next]_vars => Inv'
  BY StepKeeps, StutterKeeps
<1>2. QED
  BY InitInv, <1>1, PTL DEF Spec

(* Every reachable state is well formed: whoever writes the metadata.      *)
THEOREM Typed == Spec => []TypeOK
<1>1. Inv => TypeOK
  BY DEF Inv
<1>2. QED
  BY <1>1, InvHolds, PTL

(* No sweep, however old its capture, overrides the provider's own state.  *)
THEOREM Outranked == Spec => []NativeOutranksScreen
<1>1. Inv => NativeOutranksScreen
  BY DEF Inv
<1>2. QED
  BY <1>1, InvHolds, PTL

(* Whoever leaves, and in whatever order, a blocker nobody is looking at   *)
(* has its alert up, until its agent shares a file.                        *)
THEOREM Alerting == Spec => UnseenBlockerAlerts
<1>1. Inv /\ [Next]_vars => [NoticeStep]_vars
  BY StepKeeps
<1>2. QED
  BY <1>1, InvHolds, PTL DEF Spec, UnseenBlockerAlerts, NoticeStep

(* A blocker's item comes and goes with it, except when a start fails.     *)
THEOREM ItemsFollow == Spec => ItemFollowsBlocker
<1>1. Inv /\ [Next]_vars => [ItemStep]_vars
  BY StepKeeps
<1>2. QED
  BY <1>1, InvHolds, PTL DEF Spec, ItemFollowsBlocker, ItemStep

(* What is dealt with on one device leaves no alert on the others.         *)
THEOREM AlertsComeDown == Spec => AlertComesDown
<1>1. Inv /\ [Next]_vars => [AlertStep]_vars
  BY StepKeeps
<1>2. QED
  BY <1>1, InvHolds, PTL DEF Spec, AlertComesDown, AlertStep
=============================================================================
