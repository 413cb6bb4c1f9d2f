---------------------------- MODULE AgentMonitor ----------------------------
(***************************************************************************)
(* What RoamCode believes one session's agent is doing, and whom it tells: *)
(* TerminalManager's activity state (terminal-manager.ts), the attention   *)
(* items and the away-from-desk pushes the transport derives from it       *)
(* (transport.ts, command-center-store.ts).                                *)
(*                                                                         *)
(* Four writers update the same metadata: the provider's own lifecycle     *)
(* events, an integration's reports, the user's input, and a sweep that    *)
(* reads the screen.  The sweep awaits a process inventory and one or more *)
(* captures, so what it applies may have been read from another moment.    *)
(***************************************************************************)
EXTENDS Naturals, FiniteSets

CONSTANTS
  Client,     \* browsers
  Provider,   \* agents the foreground detector knows
  Kinds       \* the kinds of session examined: "managed", "shell"

ASSUME KindsAssumption == Kinds \subseteq {"managed", "shell"}

VARIABLES
  kind,       \* rec.kind
  listed,     \* the record is in the map; stop leaves meta.status alone
  status,     \* meta.status
  proc,       \* rec.proc is set: not for a session adopted or created, until attached
  subs,       \* attached browsers
  viewing,    \* those that have the session in front
  activity,   \* meta.activity
  awaiting,   \* meta.awaiting
  native,     \* runtimeActivity, or "none"
  lifecycle,  \* runtimeActivitySource = "lifecycle"
  agent,      \* meta.agent.provider; "own" in a managed session
  integrated, \* meta.agent.source = "integration"
  misses,     \* detectionMisses, 2 standing for two or more
  screen,     \* what the pane shows; "unreadable" when a capture fails
  fg,         \* the shell's foreground agent; "unknown" when ps fails
  pc,         \* where refreshActivity is
  snap,       \* the sweep's process inventory
  pane,       \* the sweep's last capture
  rechecks,   \* plain-idle rechecks done
  items,      \* open attention of the session: "blocked", "done", "file"
  banner      \* the notification its tag shows on the user's devices

meta == <<activity, awaiting, agent, integrated, misses>>
evidence == <<native, lifecycle>>
viewers == <<subs, viewing>>
world == <<screen, fg>>
sweep == <<pc, snap, pane, rechecks>>
told == <<items, banner>>
vars == <<kind, listed, status, proc, viewers, meta, evidence, world, sweep, told>>

Activities == {"working", "blocked", "idle"}
Screens == Activities \cup {"plain", "unreadable"}   \* plain: idle without idle chrome
Confirmations == 3                                   \* PLAIN_IDLE_CONFIRMATIONS
Topics == {"blocked", "done", "file"}                \* AttentionKind
Alerts == {"none", "awaiting", "finished", "file"}   \* of a push; a dismiss leaves none

TypeOK ==
  /\ kind \in Kinds /\ listed \in BOOLEAN /\ status \in {"running", "ended"}
  /\ proc \in BOOLEAN /\ subs \subseteq Client /\ viewing \subseteq subs
  /\ activity \in Activities /\ awaiting \in BOOLEAN
  /\ native \in Activities \cup {"none"} /\ lifecycle \in BOOLEAN
  /\ agent \in Provider \cup {"none", "own"} /\ integrated \in BOOLEAN
  /\ misses \in 0..2
  /\ screen \in Screens /\ fg \in Provider \cup {"none", "unknown"}
  /\ pc \in {"off", "inventory", "capture", "apply"}
  /\ snap \in Provider \cup {"none", "unknown"}
  /\ pane \in Screens /\ rechecks \in 0..Confirmations - 1
  /\ items \subseteq Topics
  /\ banner \in Alerts

Init ==
  /\ kind \in Kinds /\ listed = TRUE /\ status = "running"
  /\ proc \in (IF kind = "managed" THEN {FALSE} ELSE BOOLEAN)
  /\ subs = {} /\ viewing = {}
  /\ activity = "idle" /\ awaiting = FALSE
  /\ native = "none" /\ lifecycle = FALSE
  /\ agent = (IF kind = "managed" THEN "own" ELSE "none") /\ integrated = FALSE
  /\ misses = 0
  /\ screen = "plain" /\ fg = "none"
  /\ pc = "off" /\ snap = "unknown" /\ pane = "unreadable" /\ rechecks = 0
  /\ items = {} /\ banner = "none"

Managed == kind = "managed"
Viewed(v) == v # {}

-----------------------------------------------------------------------------
(* The transport's callbacks.  T is what the user has been told, a record  *)
(* of items and banner; who is the session's agent as get(id) reports it.  *)
(* A push replaces the notification with the session's tag; a dismiss      *)
(* takes it down.                                                          *)
Told == [items |-> items, banner |-> banner]
Push(T, b) == [T EXCEPT !.banner = b]
Dismiss(T) == Push(T, "none")

(* syncCommandAgent: a session without an agent has no attention.  Nothing *)
(* is known, and nothing done, of a session that was deleted.              *)
Sync(T, who) == IF listed /\ who = "none" THEN [T EXCEPT !.items = {}] ELSE T
Record(T, item, who) ==
  IF listed /\ who # "none" THEN [T EXCEPT !.items = @ \cup {item}] ELSE Sync(T, who)
ResolveAndDismiss(T, item) ==
  IF item \in T.items THEN Dismiss([T EXCEPT !.items = @ \ {item}]) ELSE T

OnAwaiting(T) == Push(T, "awaiting")

\* Mutant: a viewed session is settled before its blocker is resolved.
OnActivityChangedMutant(T, previous, current, viewed, who) ==
  CASE previous = current -> T
    [] previous # current /\ current = "blocked" -> Record(T, "blocked", who)
    [] previous # current /\ current # "blocked" /\ viewed -> [T EXCEPT !.items = @ \ {"done"}]
    [] OTHER -> ResolveAndDismiss(T, "blocked")

OnActivityChanged(T, previous, current, viewed, who) ==
  LET R == ResolveAndDismiss(T, "blocked")
      S == IF current = "working" THEN ResolveAndDismiss(Sync(R, who), "done") ELSE Sync(R, who)
  IN  CASE previous = current -> T
        [] previous # current /\ current = "blocked" -> Record(T, "blocked", who)
        [] previous # current /\ current = "idle" /\ ~viewed ->
             Push(Record(R, "done", who), "finished")
        [] OTHER -> IF viewed THEN [S EXCEPT !.items = @ \ {"done"}] ELSE S

\* Mutant: the other devices keep their notification.
OnViewedMutant(T, who) == Sync([T EXCEPT !.items = @ \ {"done"}], who)

(* Opening the session settles what it had finished.                       *)
OnViewed(T, who) == Sync(ResolveAndDismiss(T, "done"), who)

OnFinished(T, wasViewed, who) ==
  LET S == [Sync(T, who) EXCEPT !.items = @ \ {"blocked"}] IN
  IF wasViewed \/ "done" \in S.items THEN S ELSE Push(Record(S, "done", who), "finished")

Tell(T) == items' = T.items /\ banner' = T.banner

-----------------------------------------------------------------------------
(* The metadata becomes a, for whatever reason: awaiting follows, the      *)
(* transport hears of the change, and a new blocker nobody looks at is     *)
(* pushed.  T is what has been told on the way.                            *)
Become(a, T, who) ==
  LET S == OnActivityChanged(T, activity, a, Viewed(viewing), who) IN
  /\ activity' = a
  /\ awaiting' = (a = "blocked")
  /\ Tell(IF a = "blocked" /\ ~awaiting /\ ~Viewed(viewing) THEN OnAwaiting(S) ELSE S)

(* setShellAgent(undefined), when there was an agent, removes it from the  *)
(* command center and its attention with it.                               *)
AgentRemoved(T) == IF listed /\ agent # "none" THEN [T EXCEPT !.items = {}] ELSE T
Forget(T, viewed) ==
  OnActivityChanged(AgentRemoved(T), activity, "idle", viewed, "none")

-----------------------------------------------------------------------------
(* applyRuntimeSignal: a lifecycle hook, or a signal in the output.        *)
NativeSignal(a) ==
  /\ Managed /\ listed /\ status = "running"
  /\ native' = a /\ lifecycle' \in BOOLEAN
  /\ Become(a, Told, agent)
  /\ UNCHANGED <<kind, listed, status, proc, viewers, agent, integrated, misses, world, sweep>>

(* reportAgentState, in a shell session only, whatever its status.         *)
IntegrationReport(p, a) ==
  /\ ~Managed /\ listed
  /\ agent' = p /\ integrated' = TRUE /\ misses' = 0
  /\ Become(a, Told, p)
  /\ UNCHANGED <<kind, listed, status, proc, viewers, evidence, world, sweep>>

IntegrationOff ==
  /\ ~Managed /\ listed
  /\ agent' = "none" /\ integrated' = FALSE
  /\ activity' = "idle" /\ awaiting' = FALSE
  /\ Tell(Forget(Told, Viewed(viewing)))
  /\ UNCHANGED <<kind, listed, status, proc, viewers, misses, evidence, world, sweep>>

(* write.  Input means work, unless the provider's own state says          *)
(* otherwise; then only a bare Enter changes it, and not a lifecycle       *)
(* blocker.                                                                *)
Write(enter) ==
  /\ listed
  /\ Managed \/ agent # "none"
  /\ LET resumes == native # "none" /\ enter /\ ~(native = "blocked" /\ lifecycle)
         a       == IF native = "none" \/ resumes THEN "working" ELSE native
     IN  /\ native' = IF resumes THEN "working" ELSE native
         /\ lifecycle' = (lifecycle /\ ~resumes)
         /\ activity' = a
         /\ awaiting' = (a = "blocked")
         /\ Tell(OnActivityChanged(Told, activity, a, Viewed(viewing), agent))
  /\ UNCHANGED <<kind, listed, status, proc, viewers, agent, integrated, misses, world, sweep>>

-----------------------------------------------------------------------------
(* POST /sessions/:id/attach: the agent shares a file. Somebody attached   *)
(* sees it come; the push goes out in any case, and replaces whatever      *)
(* stands, like all of the session's pushes. The file is looked up after   *)
(* the session is, so the session may be deleted by now.                   *)
FileShared ==
  /\ Tell(Push(IF listed /\ subs # {} THEN Told ELSE Record(Told, "file", agent), "file"))
  /\ UNCHANGED <<kind, listed, status, proc, viewers, meta, evidence, world, sweep>>

-----------------------------------------------------------------------------
(* attach restarts a session that is over; setViewing and detach.          *)
Attach(c) ==
  /\ listed /\ c \notin subs
  /\ subs' = subs \cup {c}
  /\ status' = "running" /\ proc' = TRUE
  /\ UNCHANGED <<kind, listed, viewing, meta, evidence, world, sweep, told>>

(* An attach that cannot start the agent ends the session.  Nobody is told. *)
StartFails ==
  /\ Managed /\ listed /\ ~proc
  /\ status' = "ended"
  /\ activity' = "idle" /\ awaiting' = FALSE
  /\ native' = "none" /\ lifecycle' = FALSE
  /\ UNCHANGED <<kind, listed, proc, viewers, agent, integrated, misses, world, sweep, told>>

\* Mutant: leaving a blocked session is nothing to be told about.
StopsViewingMutant(V) == viewing' = V /\ UNCHANGED told

(* The last viewer leaving a blocked session is told outside it instead.   *)
StopsViewing(V) ==
  /\ viewing' = V
  /\ Tell(IF Viewed(viewing) /\ ~Viewed(V) /\ awaiting /\ status = "running"
          THEN OnAwaiting(Told) ELSE Told)

View(c) ==
  /\ c \in subs \ viewing
  /\ viewing' = viewing \cup {c}
  /\ Tell(IF Viewed(viewing) THEN Told
          ELSE OnViewed(Told, IF listed THEN agent ELSE "none"))
  /\ UNCHANGED <<kind, listed, status, proc, subs, meta, evidence, world, sweep>>

Hide(c) ==
  /\ c \in viewing
  /\ StopsViewing(viewing \ {c})
  /\ UNCHANGED <<kind, listed, status, proc, subs, meta, evidence, world, sweep>>

Detach(c) ==
  /\ c \in subs
  /\ subs' = subs \ {c}
  /\ StopsViewing(viewing \ {c})
  /\ UNCHANGED <<kind, listed, status, proc, meta, evidence, world, sweep>>

-----------------------------------------------------------------------------
(* The exit listeners.  The subscriptions are gone before the activity     *)
(* change is announced; who was looking is only remembered for onFinished. *)
Exit ==
  /\ listed /\ proc
  /\ status' = "ended" /\ proc' = FALSE
  /\ subs' = {} /\ viewing' = {}
  /\ activity' = "idle" /\ awaiting' = FALSE
  /\ native' = "none" /\ lifecycle' = FALSE
  /\ agent' = (IF Managed THEN agent ELSE "none") /\ integrated' = FALSE
  /\ misses' = 0
  /\ LET left == IF Managed THEN OnActivityChanged(Told, activity, "idle", FALSE, agent)
                            ELSE Forget(Told, FALSE)
     IN  Tell(OnFinished(left, Viewed(viewing), agent'))
  /\ UNCHANGED <<kind, listed, world, sweep>>

(* DELETE /sessions/:id: stop, then the command center forgets it.  The    *)
(* record goes with its viewers still on it.                               *)
Stop ==
  /\ listed
  /\ listed' = FALSE /\ proc' = FALSE
  /\ items' = {}
  /\ UNCHANGED <<kind, status, viewers, meta, evidence, world, sweep, banner>>

(* reapIdle: stop alone.                                                   *)
ReapIdle ==
  /\ listed /\ subs = {} /\ status = "running"
  /\ listed' = FALSE /\ proc' = FALSE
  /\ UNCHANGED <<kind, status, viewers, meta, evidence, world, sweep, told>>

-----------------------------------------------------------------------------
(* The agent's screen and, in a shell, which agent is in the foreground.   *)
ScreenChanges ==
  /\ listed /\ status = "running"
  /\ screen' \in Screens
  /\ UNCHANGED <<kind, listed, status, proc, viewers, meta, evidence, fg, sweep, told>>

ForegroundChanges ==
  /\ ~Managed /\ listed /\ status = "running"
  /\ fg' \in Provider \cup {"none", "unknown"}
  /\ UNCHANGED <<kind, listed, status, proc, viewers, meta, evidence, screen, sweep, told>>

-----------------------------------------------------------------------------
(* refreshActivity, one at a time (activityBusy): the inventory, then for  *)
(* a session still listed and running a capture, then the update.          *)
Idle == pc' = "off" /\ snap' = "unknown" /\ pane' = "unreadable" /\ rechecks' = 0

SweepStarts ==
  /\ pc = "off" /\ listed
  /\ pc' = "inventory"
  /\ UNCHANGED <<kind, listed, status, proc, viewers, meta, evidence, world, snap, pane, rechecks, told>>

\* Mutant: only sessions nobody looks at are examined.
InventoryTakenMutant ==
  /\ pc = "inventory"
  /\ IF listed /\ status = "running" /\ ~Viewed(viewing)
     THEN pc' = "capture" /\ snap' = (IF Managed THEN "unknown" ELSE fg) /\ UNCHANGED <<pane, rechecks>>
     ELSE Idle
  /\ UNCHANGED <<kind, listed, status, proc, viewers, meta, evidence, world, told>>

InventoryTaken ==
  /\ pc = "inventory"
  /\ IF listed /\ status = "running"
     THEN /\ pc' = "capture"
          /\ snap' = (IF Managed THEN "unknown" ELSE fg)
          /\ UNCHANGED <<pane, rechecks>>
     ELSE Idle
  /\ UNCHANGED <<kind, listed, status, proc, viewers, meta, evidence, world, told>>

\* An exit may be of the tmux client alone, and then the pane is still there.
PaneCaptured ==
  /\ pc = "capture"
  /\ pc' = "apply"
  /\ pane' \in {screen} \cup (IF listed /\ status = "running" THEN {} ELSE {"unreadable"})
  /\ UNCHANGED <<kind, listed, status, proc, viewers, meta, evidence, world, snap, rechecks, told>>

(* A shell's agent is identified first.  Two sweeps without one forget it; *)
(* another one replaces it, idle until its pane says otherwise.            *)
ShellLeftAlone == ~Managed /\ (integrated \/ snap = "unknown")
AgentMissing == ~Managed /\ ~integrated /\ snap = "none"
Identified == Managed \/ (~integrated /\ snap \in Provider)

SweepSkips ==
  /\ pc = "apply"
  /\ ShellLeftAlone \/ (Managed /\ pane = "unreadable")
  /\ Idle
  /\ UNCHANGED <<kind, listed, status, proc, viewers, meta, evidence, world, told>>

SweepMisses ==
  /\ pc = "apply" /\ AgentMissing
  /\ Idle
  /\ misses' = IF misses = 0 THEN 1 ELSE 2
  /\ IF misses > 0 /\ agent # "none"
     THEN /\ agent' = "none" /\ integrated' = FALSE
          /\ activity' = "idle" /\ awaiting' = FALSE
          /\ Tell(Forget(Told, Viewed(viewing)))
     ELSE UNCHANGED <<agent, integrated, activity, awaiting, told>>
  /\ UNCHANGED <<kind, listed, status, proc, viewers, evidence, world>>

(* Working turns into plain idle only when rechecks agree.                 *)
NeedsRecheck ==
  /\ Managed /\ pane = "plain" /\ rechecks < Confirmations - 1
  /\ rechecks > 0 \/ (native = "none" /\ activity = "working")

\* Mutant: an ambiguous frame is left to the next sweep.
SweepRechecksMutant ==
  /\ pc = "apply" /\ NeedsRecheck
  /\ Idle
  /\ UNCHANGED <<kind, listed, status, proc, viewers, meta, evidence, world, told>>

SweepRechecks ==
  /\ pc = "apply" /\ NeedsRecheck
  /\ pc' = "capture"
  /\ rechecks' = rechecks + 1
  /\ UNCHANGED <<kind, listed, status, proc, viewers, meta, evidence, world, snap, pane, told>>

\* Mutant: a capture taken earlier overrides what the provider said since.
ClassifiedMutant == IF pane = "plain" THEN "idle" ELSE pane

\* The provider's own evidence outranks the screen.
Classified ==
  CASE Managed /\ native # "none" -> native
    [] ~(Managed /\ native # "none") /\ pane = "plain" -> "idle"
    [] OTHER -> pane

SweepApplies ==
  /\ pc = "apply" /\ Identified /\ ~NeedsRecheck
  /\ Managed => pane # "unreadable"
  /\ Idle
  /\ LET replaced == ~Managed /\ agent # snap
         before   == IF replaced THEN "idle" ELSE activity
         blocked  == awaiting /\ ~replaced
         who      == IF Managed THEN agent ELSE snap
         now      == IF pane = "unreadable" THEN before ELSE Classified
         S        == OnActivityChanged(Told, before, now, Viewed(viewing), who)
     IN  /\ agent' = who
         /\ activity' = now
         /\ awaiting' = IF pane = "unreadable" THEN blocked ELSE now = "blocked"
         /\ Tell(IF now = "blocked" /\ ~blocked /\ ~Viewed(viewing) /\ pane # "unreadable"
                 THEN OnAwaiting(S) ELSE S)
  /\ misses' = IF Managed THEN misses ELSE 0
  /\ UNCHANGED <<kind, listed, status, proc, viewers, integrated, evidence, world>>

-----------------------------------------------------------------------------
Next ==
  \/ \E a \in Activities : NativeSignal(a)
  \/ \E p \in Provider, a \in Activities : IntegrationReport(p, a)
  \/ IntegrationOff
  \/ \E enter \in BOOLEAN : Write(enter)
  \/ FileShared
  \/ \E c \in Client : Attach(c)
  \/ StartFails
  \/ \E c \in Client : View(c)
  \/ \E c \in Client : Hide(c)
  \/ \E c \in Client : Detach(c)
  \/ Exit
  \/ Stop
  \/ ReapIdle
  \/ ScreenChanges
  \/ ForegroundChanges
  \/ SweepStarts
  \/ InventoryTaken
  \/ PaneCaptured
  \/ SweepSkips
  \/ SweepMisses
  \/ SweepRechecks
  \/ SweepApplies

(* The 2.5 s timer, and the bounded child processes a sweep awaits.        *)
Fairness ==
  /\ WF_vars(SweepStarts) /\ WF_vars(InventoryTaken) /\ WF_vars(PaneCaptured)
  /\ WF_vars(SweepSkips \/ SweepMisses \/ SweepRechecks \/ SweepApplies)

Spec == Init /\ [][Next]_vars
FairSpec == Spec /\ Fairness

-----------------------------------------------------------------------------
(* A managed session is on the attention list while it is blocked, and     *)
(* whichever writer ends the blocker takes it off; only a session that     *)
(* fails to start keeps its item.                                          *)
ItemFollowsBlocker ==
  [][Managed /\ listed' =>
       /\ activity' = "blocked" => "blocked" \in items'
       /\ activity = "blocked" /\ activity' # "blocked" /\ (proc \/ status' = "running")
            => "blocked" \notin items']_vars

(* Screen evidence never overrides what the provider itself said last, not *)
(* even from a capture that was taken before it said so.                   *)
NativeOutranksScreen == Managed /\ listed /\ native # "none" => activity = native

(* A blocker nobody is looking at has its alert up from that moment on:    *)
(* closing the session in the browser, or another alert for it, never      *)
(* swallows it. Only a file the blocked agent then shares takes its place. *)
Unseen == listed /\ awaiting /\ ~Viewed(viewing)
UnseenBlockerAlerts ==
  [][Unseen' => banner' = "awaiting" \/ (Unseen /\ banner' = "file")]_vars

(* When what an alert was about is dealt with, the alert comes down on the *)
(* other devices too (a failed start, again, leaves it up).                *)
AlertComesDown ==
  [][Managed /\ listed' =>
       /\ "done" \in items \ items' => banner' # "finished"
       /\ "blocked" \in items \ items' /\ activity = "blocked" => banner' # "awaiting"]_vars

(* A persistent blocker on the screen is noticed, and so is an idle prompt *)
(* (three plain captures in a row); input in between only delays it.       *)
OnScreen(S) ==
  /\ listed /\ status = "running" /\ screen \in S
  /\ IF Managed THEN native = "none" ELSE ~integrated /\ fg \in Provider
BlockerNoticed == <>[]OnScreen({"blocked"}) => []<>awaiting
IdleNoticed == <>[]OnScreen({"plain"}) => []<>(activity = "idle")
=============================================================================
