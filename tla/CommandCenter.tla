--------------------------- MODULE CommandCenter ---------------------------
(***************************************************************************)
(* The command centre: workspaces, the sessions placed in them, their      *)
(* agents and what they need, and the log of events that tells subscribers *)
(* of every change. The store is command-center-store.ts; the transport    *)
(* writes it whenever the terminal manager changes and streams the log     *)
(* (transport.ts, GET /api/v1/events/stream); a subscriber is the browser's*)
(* subscribeCommandEvents (packages/web/src/api/client.ts).                *)
(*                                                                         *)
(* The sessions themselves are kept in another database. Their life is the *)
(* subject of SessionLifecycle, and the reasons for an item of AgentMonitor*)
(* : here sessions come and go, and report an agent, as those modules let  *)
(* them. Each handler runs without yielding, so only a crash comes between *)
(* two of its writes. Some are transactions; others are statements of their*)
(* own, a row and then the event about it.                                 *)
(***************************************************************************)
EXTENDS Naturals, Sequences, FiniteSets, FiniteSetsExt

CONSTANTS
  Session, Dir, Subscriber,
  Activity,     \* what an agent may be doing
  None,
  Keep,         \* events kept: 10 000
  Every,        \* ids between two prunings: 100
  MaxEvents,    \* bound on the log
  MaxCrashes, MaxDrops

(* An event tells whether it is about a workspace, a session, or neither.  *)
ASSUME NoneAssumption == None \notin Dir \cup Session \cup Activity
ASSUME SessionAssumption == IsFiniteSet(Session) /\ Session \cap Dir = {}

ASSUME BoundsAssumption ==
  /\ Keep \in Nat \ {0} /\ Every \in Nat \ {0}
  /\ MaxEvents \in Nat /\ MaxCrashes \in Nat /\ MaxDrops \in Nat

VARIABLES
  up, crashes,
  surveyed,   \* at boot tmux could be asked for its sessions
  stored,     \* SessionStore.list()
  listed,     \* terminalManager.list()
  cwd,        \* the directory of each session
  reports,    \* the activity its agent is in, or None without an agent
  store,      \* the tables of the command centre
  log,        \* the events it keeps
  latest,     \* the id of the last of them
  link,       \* of each subscriber: its stream is open
  cursor,     \* the last event it knows of
  copy,       \* what it knows, see View
  wire,       \* messages on their way to it
  misled,     \* history: subscribers told of a transaction that was undone
  drops

manager == <<stored, listed, cwd, reports>>
tables  == <<store, log, latest>>
stream  == <<link, cursor, copy, wire, misled, drops>>
vars == <<up, crashes, surveyed, manager, tables, stream>>

NoWorkspace == [origin |-> "none", archived |-> FALSE]
Workspaces  == [origin : {"explicit", "session"}, archived : BOOLEAN]

(* An event names what it is about, and what that has become.              *)
Topics == Dir \cup Session \cup {None}
Events == [what : Dir, is : BOOLEAN] \cup [what : Session, is : Activity \cup {None}]
            \cup [what : {None}, is : {None}]

Views == [dirs : SUBSET Dir, agents : [Session -> Activity \cup {None}]]

(* A message carries an id, and an event or, in a snapshot, a view.        *)
Messages == [id : Nat, event : Events] \cup [id : Nat, view : Views]

TypeOK ==
  /\ up \in BOOLEAN /\ crashes \in 0 .. MaxCrashes /\ surveyed \in BOOLEAN
  /\ stored \subseteq Session /\ listed \subseteq stored
  /\ cwd \in [Session -> Dir] /\ reports \in [Session -> Activity \cup {None}]
  /\ store \in [ws    : [Dir -> Workspaces \cup {NoWorkspace}],
                place : [Session -> Dir \cup {None}],
                agent : [Session -> Activity \cup {None}],
                items : SUBSET Session, silent : SUBSET Topics,
                events : {<< >>}, undone : {<< >>}, uncut : {FALSE}, left : {0}]
  /\ log \in Seq(Events) /\ latest \in 0 .. MaxEvents /\ Len(log) <= latest
  /\ link \in [Subscriber -> BOOLEAN] /\ cursor \in [Subscriber -> Nat]
  /\ copy \in [Subscriber -> Views] /\ wire \in [Subscriber -> Seq(Messages)]
  /\ misled \subseteq Subscriber /\ drops \in 0 .. MaxDrops

Nothing == [dirs |-> {}, agents |-> [s \in Session |-> None]]

Init ==
  /\ up = TRUE /\ crashes = 0 /\ surveyed = TRUE
  /\ stored = {} /\ listed = {} /\ cwd \in [Session -> Dir]
  /\ reports = [s \in Session |-> None]
  /\ store = [ws |-> [d \in Dir |-> NoWorkspace], place |-> [s \in Session |-> None],
              agent |-> [s \in Session |-> None], items |-> {}, silent |-> {},
              events |-> << >>, undone |-> << >>, uncut |-> FALSE, left |-> 0]
  /\ log = << >> /\ latest = 0
  /\ link = [c \in Subscriber |-> FALSE] /\ cursor = [c \in Subscriber |-> 0]
  /\ copy = [c \in Subscriber |-> Nothing] /\ wire = [c \in Subscriber |-> << >>]
  /\ misled = {} /\ drops = 0

-----------------------------------------------------------------------------
(* The store. An operator takes and returns tables T, with the events that *)
(* were appended to its log, and with the writes that are left to the      *)
(* process: at zero it is dead, and nothing that follows is done. History: *)
(* silent holds what has changed without an event that tells of it, and    *)
(* undone the events of a transaction that was never committed, of which   *)
(* appendEvent had told its listeners.                                     *)
Event(T, what, is) ==
  [T EXCEPT !.events = Append(@, [what |-> what, is |-> is]), !.silent = @ \ {what}]

Write(T, R) == IF T.left = 0 THEN T ELSE [R EXCEPT !.left = @ - 1]

Transaction(T, R) ==
  CASE T.left = 0 -> T
    [] T.left = 1 -> [T EXCEPT !.left = 0, !.undone = SubSeq(R.events, Len(T.events) + 1, Len(R.events))]
    [] OTHER      -> [R EXCEPT !.left = @ - 2]

(* A row, the event about it, and the pruning it may bring, one by one.    *)
OneByOne(T, row, what, is) ==
  LET W == Write(T, [row EXCEPT !.silent = @ \cup {what}])
      E == Write(W, [Event(W, what, is) EXCEPT !.uncut = TRUE])
  IN  Write(E, [E EXCEPT !.uncut = FALSE])

(* createWorkspace: a directory that is known keeps its workspace. One the *)
(* user asked for is his own from then on; an archived one comes back when *)
(* he asks for it, or, if it was made for sessions, with the next session. *)
RestoresMutant(w, origin) == w.archived /\ origin = "explicit"

Restores(w, origin) == w.archived /\ (w.origin = "session" \/ origin = "explicit")

Made(w, origin) ==
  IF w = NoWorkspace THEN [origin |-> origin, archived |-> FALSE]
  ELSE [origin   |-> IF "explicit" \in {w.origin, origin} THEN "explicit" ELSE "session",
        archived |-> w.archived /\ ~Restores(w, origin)]

CreateWorkspace(T, d, origin) ==
  LET made == Made(T.ws[d], origin)
  IN  IF made = T.ws[d] THEN T ELSE Event([T EXCEPT !.ws[d] = made], d, ~made.archived)

AddWorkspace(T, d) ==
  LET made == Made(T.ws[d], "explicit")
  IN  IF made = T.ws[d] THEN T ELSE OneByOne(T, [T EXCEPT !.ws[d] = made], d, ~made.archived)

UpdateWorkspace(T, d, archived) ==
  OneByOne(T, [T EXCEPT !.ws[d] = [origin |-> "explicit", archived |-> archived]], d, ~archived)

Place(T, s, d) ==
  IF T.place[s] # None THEN T
  ELSE Event([CreateWorkspace(T, d, "session") EXCEPT !.place[s] = d], None, None)

EnsureSession(T, s, d) == Transaction(T, Place(T, s, d))

(* mutateAttention, within a transaction; resolveAttentionByDedupeKey and  *)
(* recordAttention without.                                                *)
Resolve(T, s) == IF s \in T.items THEN Event([T EXCEPT !.items = @ \ {s}], None, None) ELSE T

ResolveItem(T, s) ==
  IF s \in T.items THEN OneByOne(T, [T EXCEPT !.items = @ \ {s}], None, None) ELSE T

RecordItem(T, s) == OneByOne(T, [T EXCEPT !.items = @ \cup {s}], None, None)

UpsertAgent(T, s, activity) ==
  IF T.agent[s] = activity THEN T ELSE OneByOne(T, [T EXCEPT !.agent[s] = activity], s, activity)

(* removeAgentForSession                                                   *)
DropAgent(T, s) ==
  IF T.agent[s] = None THEN T ELSE Event([Resolve(T, s) EXCEPT !.agent[s] = None], s, None)

RemoveAgent(T, s) == Transaction(T, DropAgent(T, s))

(* archiveSessionWorkspaceIfEmpty                                          *)
Empty(T, d) == \A s \in Session : T.place[s] # d

ArchiveIfEmpty(T, d) ==
  IF T.ws[d].origin # "session" \/ T.ws[d].archived \/ ~Empty(T, d) THEN T
  ELSE Event([T EXCEPT !.ws[d].archived = TRUE], d, FALSE)

(* removeSessionRecord: one event for the session and its agent.           *)
RemoveSession(T, s) ==
  IF T.place[s] = None /\ T.agent[s] = None /\ s \notin T.items THEN T
  ELSE LET R == Event([Resolve(T, s) EXCEPT !.place[s] = None, !.agent[s] = None], s, None)
       IN  IF T.place[s] = None THEN R ELSE ArchiveIfEmpty(R, T.place[s])

(* reconcileSessions: all of them in one transaction.                      *)
RemoveAll(T, active) ==
  FoldSet(LAMBDA s, U : RemoveSession(U, s), T,
          {s \in Session \ active : T.place[s] # None \/ T.agent[s] # None})

Reconcile(T, active) == Transaction(T, RemoveAll(T, active))

(* syncCommandAgent, for sessions the manager lists.                       *)
SyncAs(T, s, d, activity) ==
  LET P == EnsureSession(T, s, d)
  IN  IF activity = None THEN RemoveAgent(P, s) ELSE UpsertAgent(P, s, activity)

SyncAll(T, sessions, says) == FoldSet(LAMBDA s, U : SyncAs(U, s, cwd[s], says[s]), T, sessions)

(* An id that is a multiple of Every has the log cut to its last events.   *)
(* Whoever streams it is sent each event as it is appended.                *)
Pruned(events, last, n) ==
  LET past == last % Every
      kept == Keep + past
  IN  IF past < n /\ Len(events) > kept THEN SubSeq(events, Len(events) - kept + 1, Len(events))
      ELSE events

Sent(events) == [i \in DOMAIN events |-> [id |-> latest + i, event |-> events[i]]]

(* A handler makes a few writes for each session it is about.              *)
Writes == 5 * Cardinality(Session) + 4

Lives == IF crashes < MaxCrashes THEN 0 .. Writes ELSE {Writes}

Until(n) == [store EXCEPT !.left = n]

Appended(T) ==
  /\ up' = (T.left # 0) /\ crashes' = (IF up' THEN crashes ELSE crashes + 1)
  /\ crashes' <= MaxCrashes
  /\ latest' = latest + Len(T.events) /\ latest' <= MaxEvents
  /\ log' = (IF T.uncut /\ latest' % Every = 0 THEN log \o T.events
             ELSE Pruned(log \o T.events, latest', Len(T.events)))
  /\ store' = [T EXCEPT !.events = << >>, !.undone = << >>, !.uncut = FALSE, !.left = 0]

Streamed(T) ==
  [c \in Subscriber |-> IF link[c] THEN wire[c] \o Sent(T.events \o T.undone) ELSE wire[c]]

Misled(T) == misled \cup (IF T.undone = << >> THEN {} ELSE {c \in Subscriber : link[c]})

Commits(T) ==
  /\ Appended(T) /\ wire' = Streamed(T) /\ misled' = Misled(T)
  /\ UNCHANGED <<link, cursor, copy, drops>>

-----------------------------------------------------------------------------
(* What the transport does, if it lives for n writes. The sessions' own    *)
(* database is written first.                                              *)
Create(s, d, n) ==
  /\ up /\ s \notin stored
  /\ stored' = stored \cup {s} /\ listed' = listed \cup {s}
  /\ cwd' = [cwd EXCEPT ![s] = d] /\ reports' = [reports EXCEPT ![s] = None]
  /\ Commits(SyncAs(Until(n), s, d, None))
  /\ UNCHANGED surveyed

Reports(s, activity, n) ==
  /\ up /\ s \in listed /\ reports[s] # activity /\ reports' = [reports EXCEPT ![s] = activity]
  /\ Commits(SyncAs(Until(n), s, cwd[s], activity))
  /\ UNCHANGED <<surveyed, stored, listed, cwd>>

(* recordAttentionForSession: only an agent needs anything.                *)
Needs(s, n) ==
  /\ up /\ s \in listed
  /\ LET S == SyncAs(Until(n), s, cwd[s], reports[s])
     IN  Commits(IF S.agent[s] = None THEN S ELSE RecordItem(S, s))
  /\ UNCHANGED <<surveyed, manager>>

Answered(s, n) ==
  /\ up /\ s \in store.items /\ Commits(ResolveItem(Until(n), s))
  /\ UNCHANGED <<surveyed, manager>>

(* deleteSessionHandler: what the manager does not list is only forgotten. *)
Forgotten(s) ==
  /\ stored' = (IF s \in listed THEN stored \ {s} ELSE stored) /\ listed' = listed \ {s}
  /\ UNCHANGED <<cwd, reports>>

Delete(s, n) ==
  /\ up /\ Forgotten(s) /\ Commits(Transaction(Until(n), RemoveSession(Until(n), s)))
  /\ UNCHANGED surveyed

AddDirectory(d, n) ==
  /\ up /\ Commits(AddWorkspace(Until(n), d))
  /\ UNCHANGED <<surveyed, manager>>

EditDirectory(d, archived, n) ==
  /\ up /\ store.ws[d] # NoWorkspace /\ Commits(UpdateWorkspace(Until(n), d, archived))
  /\ UNCHANGED <<surveyed, manager>>

(* The server dies between two handlers. What it has sent may yet arrive.  *)
Crash ==
  /\ up /\ up' = FALSE /\ crashes < MaxCrashes /\ crashes' = crashes + 1
  /\ UNCHANGED <<surveyed, manager, tables, stream>>

(* It starts again. If tmux answers, the rows of the sessions that are gone*)
(* are given up (rehydrate), and so is their place; a row may be kept of   *)
(* which no session can be made. Sessions are listed as shells, without an *)
(* agent until one is found.                                               *)
BootMutant(alive, known, n) ==   \* the command centre is not told
  LET says == [s \in Session |-> None]
  IN  /\ stored' = alive /\ listed' = known /\ reports' = says
      /\ Appended(SyncAll(Until(n), known, says))

Boot(alive, known, n) ==
  LET says == [s \in Session |-> None]
  IN  /\ stored' = alive /\ listed' = known /\ reports' = says
      /\ Appended(SyncAll(Reconcile(Until(n), alive), known, says))

Restart ==
  /\ ~up
  /\ \/ /\ surveyed' = TRUE
        /\ \E alive \in SUBSET stored : \E known \in SUBSET alive, n \in Lives : Boot(alive, known, n)
     \/ /\ surveyed' = FALSE /\ up' = TRUE /\ listed' = {}
        /\ UNCHANGED <<crashes, stored, reports, tables>>
  /\ link' = [c \in Subscriber |-> FALSE] /\ wire' = [c \in Subscriber |-> << >>]
  /\ UNCHANGED <<cwd, cursor, copy, misled, drops>>

-----------------------------------------------------------------------------
(* The stream. A subscriber names the last event it knows. When some that  *)
(* follow are no longer kept, or it knows of none, it is sent a snapshot.  *)
View(T) == [dirs   |-> {d \in Dir : T.ws[d] # NoWorkspace /\ ~T.ws[d].archived},
            agents |-> T.agent]

Earliest == latest - Len(log) + 1

LostMutant(after) == after > latest \/ after + 2 < Earliest

Lost(after) == after > latest \/ after + 1 < Earliest

(* listEvents                                                              *)
EventsAfter(after) ==
  LET skip == IF after < Earliest THEN 0 ELSE after - Earliest + 1
  IN  [i \in 1 .. Len(log) - skip |-> [id |-> Earliest + skip + i - 1, event |-> log[skip + i]]]

(* The rest of the log.                                                    *)
Resume(c) ==
  /\ up /\ ~link[c] /\ cursor[c] # 0 /\ ~Lost(cursor[c])
  /\ link' = [link EXCEPT ![c] = TRUE]
  /\ wire' = [wire EXCEPT ![c] = EventsAfter(cursor[c])]
  /\ UNCHANGED <<up, crashes, surveyed, manager, tables, cursor, copy, misled, drops>>

(* Or a snapshot, taken once the agents are in step with the manager. A    *)
(* cursor that is ahead of the log stays so.                               *)
Snapshot(c, n) ==
  /\ up /\ ~link[c] /\ (cursor[c] = 0 \/ Lost(cursor[c]))
  /\ LET S == SyncAll(Until(n), listed, reports)
     IN  \/ S.left = 0 /\ Commits(S)
         \/ /\ S.left # 0 /\ Appended(S)
            /\ link' = [link EXCEPT ![c] = TRUE]
            /\ wire' = [Streamed(S) EXCEPT ![c] = <<[id |-> latest', view |-> View(S)]>>]
            /\ misled' = (IF cursor[c] <= latest THEN Misled(S) \ {c} ELSE Misled(S))
            /\ UNCHANGED <<cursor, copy, drops>>
  /\ UNCHANGED <<surveyed, manager>>

Told(v, e) ==
  CASE e.what \in Dir -> [v EXCEPT !.dirs = IF e.is THEN @ \cup {e.what} ELSE @ \ {e.what}]
    [] e.what \in Session -> [v EXCEPT !.agents[e.what] = e.is]
    [] OTHER -> v

Receive(c) ==
  /\ link[c] /\ wire[c] # << >>
  /\ LET m == Head(wire[c])
     IN  /\ copy' = [copy EXCEPT ![c] = IF "view" \in DOMAIN m THEN m.view ELSE Told(@, m.event)]
         /\ cursor' = [cursor EXCEPT ![c] = IF m.id > @ THEN m.id ELSE @]
  /\ wire' = [wire EXCEPT ![c] = Tail(@)]
  /\ UNCHANGED <<up, crashes, surveyed, manager, tables, link, misled, drops>>

Drop(c) ==
  /\ link[c] /\ drops < MaxDrops /\ drops' = drops + 1
  /\ link' = [link EXCEPT ![c] = FALSE] /\ wire' = [wire EXCEPT ![c] = << >>]
  /\ UNCHANGED <<up, crashes, surveyed, manager, tables, cursor, copy, misled>>

-----------------------------------------------------------------------------
Next ==
  \/ \E n \in Lives :
       \/ \E s \in Session :
            \/ \E d \in Dir : Create(s, d, n)
            \/ \E a \in Activity \cup {None} : Reports(s, a, n)
            \/ Needs(s, n) \/ Answered(s, n) \/ Delete(s, n)
       \/ \E d \in Dir : AddDirectory(d, n) \/ \E archived \in BOOLEAN : EditDirectory(d, archived, n)
       \/ \E c \in Subscriber : Snapshot(c, n)
  \/ Crash \/ Restart
  \/ \E c \in Subscriber : Resume(c) \/ Receive(c) \/ Drop(c)

Spec == Init /\ [][Next]_vars

-----------------------------------------------------------------------------
(* Properties.                                                             *)

(* A workspace made for sessions is shown exactly while one is placed in   *)
(* it: none is left empty, and no session is hidden with its workspace,    *)
(* unless the user archived it himself.                                    *)
SessionWorkspaces ==
  \A d \in Dir : store.ws[d].origin = "session" => (store.ws[d].archived <=> Empty(store, d))

(* What needs the user belongs to an agent, an agent to a session, and,    *)
(* once tmux was asked for them, a session to the manager's inventory:     *)
(* whatever two databases a crash left apart.                              *)
NoGhosts ==
  /\ \A s \in Session : /\ s \in store.items => store.agent[s] # None
                        /\ store.agent[s] # None => store.place[s] # None
  /\ up /\ surveyed => \A s \in Session : store.place[s] # None => s \in stored

(* A subscriber to which nothing is on its way knows the workspaces and    *)
(* the agents as they are, whatever was pruned while it was away, but for  *)
(* what a crash kept silent and nothing has told since. This leaves out who*)
(* was told of a transaction a crash undid, until a snapshot puts it right.*)
Agrees(v, w, silent) ==
  /\ \A d \in Dir \ silent : d \in v.dirs <=> d \in w.dirs
  /\ \A s \in Session \ silent : v.agents[s] = w.agents[s]

MirrorExact ==
  \A c \in Subscriber \ misled :
    link[c] /\ wire[c] = << >> => Agrees(copy[c], View(store), store.silent)
=============================================================================
