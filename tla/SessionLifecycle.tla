-------------------------- MODULE SessionLifecycle --------------------------
(***************************************************************************)
(* The life of a terminal session: TerminalManager in                      *)
(* packages/server/src/terminal-manager.ts over TerminalProcess, the       *)
(* session store and the tmux server.                                      *)
(*                                                                         *)
(* One session lives in four places that fail separately: the in-memory    *)
(* record, the PTY client that shows it, the tmux session that runs it and *)
(* the row that lets the next server process find it again.  Attaching to  *)
(* a managed session starts its process lazily, through several awaits     *)
(* during which the session may be stopped, abandoned or joined.           *)
(***************************************************************************)
EXTENDS Integers, FiniteSets

CONSTANTS
  Id,           \* sessions; an id is a fresh UUID and never comes back
  Client,       \* attach calls, one per socket
  Cap,          \* config.maxSessions; 0 disables it
  MaxCrashes    \* bound: how often the server process dies

ASSUME CapAssumption == Cap \in Nat /\ MaxCrashes \in Nat

VARIABLES
  up,        \* the server process is running
  crashes,   \* how often it died
  mode,      \* the store it opened: "sqlite", or "memory" when that failed
  surveyed,  \* this boot's tmux inventory succeeded, so rehydrate ran
  unread,    \* history: rows it kept without making a record of them
  rows,      \* sessions with a row in the open store
  shelf,     \* sessions with a row in the sqlite file while mode = "memory"
  kind,      \* "shell", "claude" or "codex" (any provider with its own ids)
  rec,       \* the record: meta.status while it is in the map
  adopted,   \* records with adoptedLive: found in tmux, not started here
  proc,      \* rec.proc: none, alive, or exited with the event still to come
  tmux,      \* sessions the tmux server runs
  killing,   \* kill-session commands in flight (spawned, never awaited)
  subs,      \* rec.subs
  spawn,     \* where spawnForRecord is: see Spawns
  intent,    \* rec.spawnIntent
  waiting,   \* attach calls awaiting rec.spawnPromise
  files,     \* the provider's integration files: "ours" are in cleanupPaths
  kept       \* history: created in sqlite, not stopped and never failed to start

vars == <<up, crashes, mode, surveyed, unread, rows, shelf, kind, rec, adopted, proc, tmux,
          killing, subs, spawn, intent, waiting, files, kept>>
server == <<up, crashes, mode, surveyed, unread>>
tables == <<rows, shelf>>
world == <<tmux, killing, kept>>
spawning == <<spawn, intent, waiting>>

Kinds == {"shell", "claude", "codex"}
Records == {"new", "running", "ended", "gone", "lost"}   \* lost: died with its server
Procs == {"none", "alive", "exited"}
Spawns == {"none", "building", "checking", "resolving"}
Intents == {"fresh", "resume"}

TypeOK ==
  /\ up \in BOOLEAN /\ surveyed \in BOOLEAN
  /\ crashes \in Nat
  /\ mode \in {"sqlite", "memory"}
  /\ rows \subseteq Id /\ shelf \subseteq Id /\ adopted \subseteq Id
  /\ tmux \subseteq Id /\ killing \subseteq Id /\ kept \subseteq Id /\ unread \subseteq Id
  /\ kind \in [Id -> Kinds]
  /\ rec \in [Id -> Records]
  /\ proc \in [Id -> Procs]
  /\ subs \in [Id -> SUBSET Client] /\ waiting \in [Id -> SUBSET Client]
  /\ spawn \in [Id -> Spawns] /\ intent \in [Id -> Intents]
  /\ files \in [Id -> {"none", "ours", "stale"}]

Init ==
  /\ up = TRUE /\ crashes = 0 /\ mode = "sqlite" /\ surveyed = TRUE
  /\ rows = {} /\ shelf = {} /\ adopted = {} /\ tmux = {} /\ killing = {} /\ kept = {} /\ unread = {}
  /\ kind = [id \in Id |-> "shell"]
  /\ rec = [id \in Id |-> "new"]
  /\ proc = [id \in Id |-> "none"]
  /\ subs = [id \in Id |-> {}] /\ waiting = [id \in Id |-> {}]
  /\ spawn = [id \in Id |-> "none"] /\ intent = [id \in Id |-> "fresh"]
  /\ files = [id \in Id |-> "none"]

\* records.get(id) finds it.
Present(id) == rec[id] \in {"running", "ended"}
RunningIds == {id \in Id : rec[id] = "running"}
UnderCap == Cap = 0 \/ Cardinality(RunningIds) < Cap

\* A row survives a restart in the sqlite file.
Durable(id) == id \in (IF mode = "sqlite" THEN rows ELSE shelf)

-----------------------------------------------------------------------------
(* startProcess and startShellProcess.  new-session -A creates the tmux    *)
(* session or joins it; attach-session only joins it, and exits at once    *)
(* when there is none.  A PTY that cannot be spawned is torn down with     *)
(* stop({kill: true}), which sends kill-session.                           *)
Started(id, attachOnly) ==
  /\ proc' = [proc EXCEPT ![id] = IF attachOnly /\ id \notin tmux THEN "exited" ELSE "alive"]
  /\ tmux' = IF attachOnly THEN tmux ELSE tmux \cup {id}
  /\ rec' = [rec EXCEPT ![id] = IF @ = "gone" THEN @ ELSE "running"]
  /\ adopted' = adopted \ {id}
  /\ UNCHANGED killing

KillSession(id) ==
  /\ killing' = killing \cup {id}
  /\ kept' = kept \ {id}
  /\ UNCHANGED tmux

\* claimNew: the row is written before anything else happens.
ClaimNew(id) ==
  /\ rows' = rows \cup {id}
  /\ kept' = IF mode = "sqlite" THEN kept \cup {id} ELSE kept

CleanUp(id) == files' = [files EXCEPT ![id] = IF @ = "ours" THEN "none" ELSE @]

(* spawnPromise settles: it is cleared, and the calls that awaited it give *)
(* their subscriptions back unless the record has a process by then.       *)
SettleMutant(id) ==   \* subscriptions are kept
  /\ spawn' = [spawn EXCEPT ![id] = "none"]
  /\ intent' = [intent EXCEPT ![id] = "fresh"]
  /\ waiting' = [waiting EXCEPT ![id] = {}]
  /\ subs' = subs

SettleMutant2(id) ==  \* the calls are not answered
  /\ spawn' = [spawn EXCEPT ![id] = "none"]
  /\ UNCHANGED <<intent, waiting, subs>>

Settle(id) ==
  /\ spawn' = [spawn EXCEPT ![id] = "none"]
  /\ intent' = [intent EXCEPT ![id] = "fresh"]
  /\ waiting' = [waiting EXCEPT ![id] = {}]
  /\ subs' = IF proc'[id] = "none" THEN [subs EXCEPT ![id] = @ \ waiting[id]] ELSE subs

(* spawnForRecord's outer catch: the session is over.                      *)
SpawnFailedMutant(id) ==   \* files are forgotten
  /\ proc' = [proc EXCEPT ![id] = "none"]
  /\ rec' = IF Present(id) THEN [rec EXCEPT ![id] = "ended"] ELSE rec
  /\ UNCHANGED files

SpawnFailed(id) ==
  /\ proc' = [proc EXCEPT ![id] = "none"]
  /\ rec' = IF Present(id) THEN [rec EXCEPT ![id] = "ended"] ELSE rec
  /\ CleanUp(id)

\* The spawn still has a record and somebody who wants it.
WantedMutant(id) == subs[id] # {}
Wanted(id) == Present(id) /\ subs[id] # {}

-----------------------------------------------------------------------------
(* launchShellSession: the cap is checked and the shell started in one go. *)
Launch(id) ==
  /\ up /\ rec[id] = "new" /\ UnderCap
  /\ kind' = [kind EXCEPT ![id] = "shell"]
  /\ \/ /\ Started(id, FALSE)
        /\ ClaimNew(id)
     \/ /\ KillSession(id)
        /\ rec' = [rec EXCEPT ![id] = "gone"]
        /\ UNCHANGED <<proc, rows, adopted>>
  /\ UNCHANGED <<server, shelf, subs, spawning, files>>

(* create: a managed session is a record and a row until it is attached.   *)
Create(id, k) ==
  /\ up /\ rec[id] = "new"
  /\ kind' = [kind EXCEPT ![id] = k]
  /\ rec' = [rec EXCEPT ![id] = "running"]
  /\ ClaimNew(id)
  /\ UNCHANGED <<server, shelf, adopted, proc, tmux, killing, subs, spawning, files>>

-----------------------------------------------------------------------------
(* attach.  c is one call and its subscription; it subscribes before it    *)
(* starts anything.  respawn "continue" asks to resume a conversation, and *)
(* counts only when the session is over.                                   *)
Free(c) == \A id \in Id : c \notin subs[id] \cup waiting[id]
IntentOf(id, respawn) ==
  IF respawn = "continue" /\ rec[id] = "ended" /\ proc[id] = "none" THEN "resume" ELSE "fresh"

AttachLive(c, id) ==
  /\ up /\ Free(c) /\ Present(id) /\ proc[id] # "none"
  /\ subs' = [subs EXCEPT ![id] = @ \cup {c}]
  /\ UNCHANGED <<server, tables, kind, rec, adopted, proc, world, spawning, files>>

AttachShell(c, id) ==
  /\ up /\ Free(c) /\ Present(id) /\ proc[id] = "none" /\ kind[id] = "shell"
  /\ \/ /\ Started(id, id \in adopted)
        /\ subs' = [subs EXCEPT ![id] = @ \cup {c}]
        /\ UNCHANGED kept
     \/ /\ KillSession(id)
        /\ UNCHANGED <<rec, adopted, proc, subs>>
  /\ UNCHANGED <<server, tables, kind, spawning, files>>

(* An adopted session is joined without building a command line and hence  *)
(* without an await.                                                       *)
AttachAdopted(c, id) ==
  /\ up /\ Free(c) /\ Present(id) /\ proc[id] = "none" /\ kind[id] # "shell"
  /\ spawn[id] = "none" /\ id \in adopted
  /\ \E respawn \in {"continue", "fresh"} : IntentOf(id, respawn) = "fresh"
  /\ \/ /\ Started(id, TRUE)
        /\ subs' = [subs EXCEPT ![id] = @ \cup {c}]
        /\ UNCHANGED <<kept, files>>
     \/ /\ KillSession(id)
        /\ SpawnFailed(id)
        /\ UNCHANGED <<adopted, subs>>
  /\ UNCHANGED <<server, tables, kind, spawning>>

(* The first call starts spawnForRecord; calls with the same intent share  *)
(* its promise, and a conflicting one is refused.                          *)
AttachSpawns(c, id) ==
  /\ up /\ Free(c) /\ Present(id) /\ proc[id] = "none" /\ kind[id] # "shell"
  /\ \E respawn \in {"continue", "fresh"} :
       LET i == IntentOf(id, respawn) IN
       /\ IF spawn[id] = "none"
          THEN /\ ~(id \in adopted /\ i = "fresh")
               /\ spawn' = [spawn EXCEPT ![id] = "building"]
               /\ intent' = [intent EXCEPT ![id] = i]
               /\ files' = [files EXCEPT ![id] = "ours"]
          ELSE intent[id] = i /\ UNCHANGED <<spawn, intent, files>>
  /\ subs' = [subs EXCEPT ![id] = @ \cup {c}]
  /\ waiting' = [waiting EXCEPT ![id] = @ \cup {c}]
  /\ UNCHANGED <<server, tables, kind, rec, adopted, proc, world>>

(* buildProcess answers.  A session stopped or abandoned since is dropped. *)
Built(id) ==
  /\ up /\ spawn[id] = "building"
  /\ \/ /\ Wanted(id)
        /\ spawn' = [spawn EXCEPT ![id] = "checking"]
        /\ UNCHANGED <<rec, proc, subs, intent, waiting, files>>
     \/ /\ ~Wanted(id)
        /\ CleanUp(id)
        /\ UNCHANGED <<rec, proc>>
        /\ Settle(id)
     \/ SpawnFailed(id) /\ Settle(id)
  /\ UNCHANGED <<server, tables, kind, adopted, world>>

(* preSpawnCheck and the start.  A fresh codex session starts inside the   *)
(* identity resolver: its promise settles only once the resolver does, and *)
(* a launch the resolver gave up on is started untracked.  Nobody wanting  *)
(* it any more ends that session, where another's stays as it was.         *)
Resolves(id) == kind[id] = "codex" /\ intent[id] = "fresh"

Checked(id) ==
  /\ up /\ spawn[id] = "checking"
  /\ \/ /\ Wanted(id)
        /\ Started(id, FALSE)
        /\ UNCHANGED <<kept, files>>
        /\ \/ Settle(id)
           \/ /\ Resolves(id)
              /\ spawn' = [spawn EXCEPT ![id] = "resolving"]
              /\ UNCHANGED <<intent, waiting, subs>>
     \/ /\ Wanted(id)
        /\ KillSession(id)
        /\ SpawnFailed(id)
        /\ UNCHANGED adopted
        /\ Settle(id)
     \/ /\ ~Wanted(id)
        /\ CleanUp(id)
        /\ rec' = IF Resolves(id) /\ Present(id) THEN [rec EXCEPT ![id] = "ended"] ELSE rec
        /\ UNCHANGED <<proc, world, adopted>>
        /\ Settle(id)
     \/ /\ SpawnFailed(id)
        /\ UNCHANGED <<world, adopted>>
        /\ Settle(id)
  /\ UNCHANGED <<server, tables, kind>>

(* The resolver proves an identity or gives up; either way the terminal    *)
(* it started is left alone.                                               *)
Resolved(id) ==
  /\ up /\ spawn[id] = "resolving"
  /\ UNCHANGED proc
  /\ Settle(id)
  /\ UNCHANGED <<server, tables, kind, rec, adopted, world, files>>

(* unsubscribe, or the abort signal of an attach still pending.            *)
Detach(c, id) ==
  /\ up /\ c \in subs[id]
  /\ subs' = [subs EXCEPT ![id] = @ \ {c}]
  /\ UNCHANGED <<server, tables, kind, rec, adopted, proc, world, spawning, files>>

-----------------------------------------------------------------------------
(* The agent or shell ends, and remain-on-exit off ends its tmux session;  *)
(* or the tmux client alone dies.  Either way the PTY exits.               *)
PtyExits(id) == proc' = [proc EXCEPT ![id] = IF @ = "alive" THEN "exited" ELSE @]

AgentEnds(id) ==
  /\ id \in tmux
  /\ tmux' = tmux \ {id}
  /\ PtyExits(id)
  /\ UNCHANGED <<server, tables, kind, rec, adopted, killing, kept, subs, spawning, files>>

TmuxClientDies(id) ==
  /\ proc[id] = "alive"
  /\ PtyExits(id)
  /\ UNCHANGED <<server, tables, kind, rec, adopted, world, subs, spawning, files>>

KillDone(id) ==
  /\ id \in killing
  /\ killing' = killing \ {id}
  /\ tmux' = tmux \ {id}
  /\ PtyExits(id)
  /\ UNCHANGED <<server, tables, kind, rec, adopted, kept, subs, spawning, files>>

(* The exit listener of the current process.                               *)
ExitEvent(id) ==
  /\ up /\ proc[id] = "exited"
  /\ proc' = [proc EXCEPT ![id] = "none"]
  /\ rec' = [rec EXCEPT ![id] = "ended"]
  /\ subs' = [subs EXCEPT ![id] = {}]
  /\ CleanUp(id)
  /\ UNCHANGED <<server, tables, kind, adopted, world, spawning>>

(* stop, for a DELETE or an expired idle session.  Whoever is attached     *)
(* stays subscribed to a record nobody else can reach any more.            *)
Stop(id) ==
  /\ up /\ Present(id)
  /\ rec' = [rec EXCEPT ![id] = "gone"]
  /\ proc' = [proc EXCEPT ![id] = "none"]
  /\ rows' = rows \ {id}
  /\ adopted' = adopted \ {id}
  /\ KillSession(id)
  /\ IF spawn[id] = "building" THEN UNCHANGED files ELSE CleanUp(id)
  /\ UNCHANGED <<server, shelf, kind, subs, spawning>>

ReapIdle ==
  /\ \E id \in Id : subs[id] = {} /\ rec[id] = "running" /\ Stop(id)

-----------------------------------------------------------------------------
(* The server process dies.  tmux, the rows, the files and the kill-session*)
(* children already spawned outlive it.                                    *)
Crash ==
  /\ up /\ crashes < MaxCrashes
  /\ up' = FALSE /\ crashes' = crashes + 1
  /\ rec' = [id \in Id |-> IF Present(id) THEN "lost" ELSE rec[id]]
  /\ proc' = [id \in Id |-> "none"]
  /\ adopted' = {}
  /\ subs' = [id \in Id |-> {}] /\ waiting' = [id \in Id |-> {}]
  /\ spawn' = [id \in Id |-> "none"] /\ intent' = [id \in Id |-> "fresh"]
  /\ files' = [id \in Id |-> IF files[id] = "none" THEN "none" ELSE "stale"]
  /\ UNCHANGED <<mode, surveyed, unread, tables, kind, world>>

(* Boot.  The store is the sqlite file, or empty if that fails to load.    *)
(* With a tmux inventory, rehydrate prunes the rows that have no tmux      *)
(* session, adopts those of the others it can read, and kills the tmux     *)
(* sessions that have no row, unless the store is the fallback.  A row it  *)
(* cannot read (no shell to be found, a provider that is not registered,   *)
(* options it does not understand) is kept, without a record.  Then        *)
(* sweepStaleMcpConfigs removes the files of every session without one.    *)
OpenStore(m) ==
  LET sqlite == IF mode = "sqlite" THEN rows ELSE shelf IN
  [table |-> IF m = "sqlite" THEN sqlite ELSE {},
   shelf |-> IF m = "sqlite" THEN {} ELSE sqlite]

RehydrateMutant2(table, m, readable) ==   \* orphans are reaped in fallback mode too
  LET live == table \cap tmux IN
  /\ rows' = live
  /\ adopted' = live \cap readable /\ unread' = live \ readable
  /\ rec' = [id \in Id |-> IF id \in adopted' THEN "running" ELSE rec[id]]
  /\ killing' = killing \cup (tmux \ table)

Rehydrate(table, m, readable) ==
  LET live == table \cap tmux IN
  /\ rows' = live
  /\ adopted' = live \cap readable /\ unread' = live \ readable
  /\ rec' = [id \in Id |-> IF id \in adopted' THEN "running" ELSE rec[id]]
  /\ killing' = killing \cup (IF m = "sqlite" THEN tmux \ table ELSE {})

Boot(m, probe) ==
  /\ ~up
  /\ up' = TRUE /\ mode' = m /\ surveyed' = probe
  /\ shelf' = OpenStore(m).shelf
  /\ IF probe THEN \E readable \in SUBSET Id : Rehydrate(OpenStore(m).table, m, readable)
              ELSE rows' = OpenStore(m).table /\ unread' = {} /\ UNCHANGED <<adopted, rec, killing>>
  /\ files' = [id \in Id |-> IF id \in adopted' THEN files[id] ELSE "none"]
  /\ UNCHANGED <<crashes, kind, proc, tmux, kept, subs, spawning>>

-----------------------------------------------------------------------------
Next ==
  \/ \E id \in Id : Launch(id)
  \/ \E id \in Id, k \in Kinds \ {"shell"} : Create(id, k)
  \/ \E c \in Client, id \in Id : AttachLive(c, id)
  \/ \E c \in Client, id \in Id : AttachShell(c, id)
  \/ \E c \in Client, id \in Id : AttachAdopted(c, id)
  \/ \E c \in Client, id \in Id : AttachSpawns(c, id)
  \/ \E id \in Id : Built(id)
  \/ \E id \in Id : Checked(id)
  \/ \E id \in Id : Resolved(id)
  \/ \E c \in Client, id \in Id : Detach(c, id)
  \/ \E id \in Id : AgentEnds(id)
  \/ \E id \in Id : TmuxClientDies(id)
  \/ \E id \in Id : KillDone(id)
  \/ \E id \in Id : ExitEvent(id)
  \/ \E id \in Id : Stop(id)
  \/ ReapIdle
  \/ Crash
  \/ \E m \in {"sqlite", "memory"}, probe \in BOOLEAN : Boot(m, probe)

(* Every await of a spawn ends: builds and checks read files and run       *)
(* probes under timeouts, and the resolver has a deadline.                 *)
Fairness ==
  \A id \in Id : WF_vars(Built(id)) /\ WF_vars(Checked(id)) /\ WF_vars(Resolved(id))

Spec == Init /\ [][Next]_vars
FairSpec == Spec /\ Fairness

-----------------------------------------------------------------------------
(* A stopped session never runs again: whatever spawn was in progress when *)
(* it was stopped, no process is left behind that nobody can reach, and    *)
(* its tmux session is gone or about to be.                                *)
StoppedStaysStopped ==
  \A id \in Id :
    rec[id] = "gone" => proc[id] = "none" /\ (id \in tmux => id \in killing)

(* A browser whose attach was answered looks at a process, or at a session *)
(* that was stopped: it never watches a session in the list that has none. *)
ViewerHasProcess ==
  \A id \in Id :
    Present(id) /\ subs[id] \ waiting[id] # {} => proc[id] # "none"

(* The next boot finds every session this one lists; and, unless its tmux  *)
(* inventory failed, what the store has and the list has not is what this  *)
(* boot could not read: a row that is neither can be reached by nobody.    *)
RowTracksRecord ==
  up => /\ {id \in Id : Present(id)} \subseteq rows
        /\ surveyed => rows \subseteq {id \in Id : Present(id)} \cup unread

(* A provider's token files are removed with the process they were made    *)
(* for, however its spawn went.                                            *)
NoLeakedFiles ==
  \A id \in Id : files[id] = "ours" => proc[id] # "none" \/ spawn[id] # "none"

(* A session created in the durable store and never stopped keeps its tmux *)
(* session and its row over every restart, the ones that come up with the  *)
(* fallback store or without a tmux inventory included.                    *)
SessionsSurviveRestarts ==
  \A id \in kept : id \in tmux => id \notin killing /\ Durable(id)

(* An attach call is answered, whatever becomes of the session meanwhile.  *)
AttachAnswered ==
  \A c \in Client, id \in Id : c \in waiting[id] ~> c \notin waiting[id]

-----------------------------------------------------------------------------
(* What the documents claim and the code does not keep.                    *)

(* Terminal sessions "intentionally SURVIVE a server restart (rehydrate    *)
(* reattaches them on the next boot)": one found in tmux at boot is killed *)
(* only by a stop.                                                         *)
AdoptedNeverKilled == \A id \in Id : id \in adopted => id \notin killing

=============================================================================
