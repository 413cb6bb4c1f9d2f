----------------------- MODULE SessionLifecycle_proofs -----------------------
(***************************************************************************)
(* For any number of sessions, attach calls and crashes, and any cap: the  *)
(* invariants of SessionLifecycle that the runs check on one session.      *)
(*                                                                         *)
(* No action touches two sessions, except a crash and a boot, so the       *)
(* invariant is a conjunction over sessions (Sound) and an action has to   *)
(* be examined for its own session only (Others).                          *)
(***************************************************************************)
EXTENDS SessionLifecycle, TLAPS

(* What holds of one session between two actions.                          *)
Sound(id) ==
  /\ rec[id] = "new" =>
       /\ id \notin rows \cup shelf \cup tmux \cup killing \cup kept
       /\ subs[id] = {} /\ spawn[id] = "none"
  /\ rec[id] = "gone" => id \notin rows \cup shelf /\ (id \in tmux => id \in killing)
  /\ Present(id) => up /\ id \in rows /\ id \notin shelf
  /\ proc[id] # "none" => Present(id)
  /\ ~up => spawn[id] = "none" /\ subs[id] = {} /\ files[id] # "ours"
  /\ spawn[id] # "none" => kind[id] # "shell"
  /\ spawn[id] \in {"building", "checking"} => proc[id] = "none"
  /\ Present(id) /\ subs[id] \ waiting[id] # {} => proc[id] # "none"
  /\ files[id] = "ours" => proc[id] # "none" \/ spawn[id] \in {"building", "checking"}
  /\ id \in kept /\ Present(id) => mode = "sqlite" /\ id \notin killing
  /\ id \in kept /\ id \in tmux => id \notin killing /\ Durable(id)
  /\ up /\ surveyed /\ id \in rows => Present(id) \/ id \in unread

LifeInv == TypeOK /\ \A id \in Id : Sound(id)

(* A step that changes nothing of session j, nor of the server.            *)
Same(j) ==
  /\ up' = up /\ mode' = mode /\ surveyed' = surveyed
  /\ j \in unread' <=> j \in unread
  /\ j \in rows' <=> j \in rows
  /\ j \in shelf' <=> j \in shelf
  /\ j \in tmux' <=> j \in tmux
  /\ j \in killing' <=> j \in killing
  /\ j \in kept' <=> j \in kept
  /\ rec'[j] = rec[j] /\ proc'[j] = proc[j] /\ kind'[j] = kind[j]
  /\ subs'[j] = subs[j] /\ waiting'[j] = waiting[j] /\ spawn'[j] = spawn[j]
  /\ files'[j] = files[j]

LEMMA SameSound == ASSUME NEW j \in Id, Sound(j), Same(j) PROVE Sound(j)'
BY DEF Same, Sound, Present, Durable

(* It is enough to look at the session an action is about.                 *)
LEMMA Others ==
  ASSUME LifeInv, NEW id \in Id, TypeOK', Sound(id)',
         \A j \in Id : j # id => Same(j)
  PROVE  LifeInv'
<1>1. ASSUME NEW j \in Id PROVE Sound(j)'
  <2>1. CASE j = id
    BY <2>1
  <2>2. CASE j # id
    BY <2>2, SameSound DEF LifeInv
  <2>3. QED
    BY <2>1, <2>2
<1>2. QED
  BY <1>1 DEF LifeInv

-----------------------------------------------------------------------------
LEMMA InitLife == Init => LifeInv
BY CapAssumption DEF Init, LifeInv, TypeOK, Sound, Present, Durable, Kinds, Records, Procs,
       Spawns, Intents

LEMMA LaunchLife == ASSUME LifeInv, NEW id \in Id, Launch(id) PROVE LifeInv'
<1>1. TypeOK'
  BY DEF LifeInv, TypeOK, Launch, Started, KillSession, ClaimNew, server, spawning, Kinds,
         Records, Procs
<1>2. \A j \in Id : j # id => Same(j)
  BY DEF LifeInv, TypeOK, Same, Launch, Started, KillSession, ClaimNew, server, spawning
<1>3. Sound(id)'
  BY DEF LifeInv, TypeOK, Sound, Present, Durable, Launch, Started, KillSession, ClaimNew,
         server, spawning
<1>4. QED
  BY <1>1, <1>2, <1>3, Others

LEMMA CreateLife ==
  ASSUME LifeInv, NEW id \in Id, NEW k \in Kinds \ {"shell"}, Create(id, k) PROVE LifeInv'
<1>1. TypeOK'
  BY DEF LifeInv, TypeOK, Create, ClaimNew, server, spawning, Kinds, Records
<1>2. \A j \in Id : j # id => Same(j)
  BY DEF LifeInv, TypeOK, Same, Create, ClaimNew, server, spawning
<1>3. Sound(id)'
  BY DEF LifeInv, TypeOK, Sound, Present, Durable, Create, ClaimNew, server, spawning
<1>4. QED
  BY <1>1, <1>2, <1>3, Others

-----------------------------------------------------------------------------
LEMMA AttachLiveLife ==
  ASSUME LifeInv, NEW c \in Client, NEW id \in Id, AttachLive(c, id) PROVE LifeInv'
<1>1. TypeOK'
  BY DEF LifeInv, TypeOK, AttachLive, server, tables, world, spawning
<1>2. \A j \in Id : j # id => Same(j)
  BY DEF LifeInv, TypeOK, Same, AttachLive, server, tables, world, spawning
<1>3. Sound(id)'
  BY DEF LifeInv, TypeOK, Sound, Present, Durable, AttachLive, server, tables, world, spawning
<1>4. QED
  BY <1>1, <1>2, <1>3, Others

LEMMA AttachShellLife ==
  ASSUME LifeInv, NEW c \in Client, NEW id \in Id, AttachShell(c, id) PROVE LifeInv'
<1>1. TypeOK'
  BY DEF LifeInv, TypeOK, AttachShell, Started, KillSession, server, tables, spawning, Records, Procs
<1>2. \A j \in Id : j # id => Same(j)
  BY DEF LifeInv, TypeOK, Same, AttachShell, Started, KillSession, server, tables, spawning
<1>3. Sound(id)'
  BY DEF LifeInv, TypeOK, Sound, Present, Durable, AttachShell, Started, KillSession, server,
         tables, spawning
<1>4. QED
  BY <1>1, <1>2, <1>3, Others

LEMMA AttachAdoptedLife ==
  ASSUME LifeInv, NEW c \in Client, NEW id \in Id, AttachAdopted(c, id) PROVE LifeInv'
<1>1. TypeOK'
  BY DEF LifeInv, TypeOK, AttachAdopted, Started, KillSession, SpawnFailed, CleanUp, server,
         tables, spawning, Records, Procs
<1>2. \A j \in Id : j # id => Same(j)
  BY DEF LifeInv, TypeOK, Same, AttachAdopted, Started, KillSession, SpawnFailed, CleanUp, server,
         tables, spawning
<1>3. Sound(id)'
  BY DEF LifeInv, TypeOK, Sound, Present, Durable, AttachAdopted, Started, KillSession,
         SpawnFailed, CleanUp, server, tables, spawning
<1>4. QED
  BY <1>1, <1>2, <1>3, Others

LEMMA AttachSpawnsLife ==
  ASSUME LifeInv, NEW c \in Client, NEW id \in Id, AttachSpawns(c, id) PROVE LifeInv'
<1>1. TypeOK'
  BY DEF LifeInv, TypeOK, AttachSpawns, IntentOf, server, tables, world, Spawns, Intents
<1>2. \A j \in Id : j # id => Same(j)
  BY DEF LifeInv, TypeOK, Same, AttachSpawns, server, tables, world
<1>3. Sound(id)'
  BY DEF LifeInv, TypeOK, Sound, Present, Durable, AttachSpawns, server, tables, world
<1>4. QED
  BY <1>1, <1>2, <1>3, Others

-----------------------------------------------------------------------------
(* The awaits of spawnForRecord.  A spawn that has not started a process   *)
(* yet leaves nothing behind when it settles.                              *)
LEMMA BuiltLife == ASSUME LifeInv, NEW id \in Id, Built(id) PROVE LifeInv'
<1>1. TypeOK'
  BY DEF LifeInv, TypeOK, Built, Settle, SpawnFailed, CleanUp, server, tables, world,
         Records, Procs, Spawns, Intents
<1>2. \A j \in Id : j # id => Same(j)
  BY DEF LifeInv, TypeOK, Same, Built, Settle, SpawnFailed, CleanUp, server, tables, world
<1>3. Sound(id)'
  BY DEF LifeInv, TypeOK, Sound, Present, Durable, Built, Wanted, Settle, SpawnFailed, CleanUp,
         server, tables, world
<1>4. QED
  BY <1>1, <1>2, <1>3, Others

LEMMA CheckedLife == ASSUME LifeInv, NEW id \in Id, Checked(id) PROVE LifeInv'
<1>1. TypeOK'
  BY DEF LifeInv, TypeOK, Checked, Started, KillSession, Settle, SpawnFailed, CleanUp, server,
         tables, world, Records, Procs, Spawns, Intents
<1>2. \A j \in Id : j # id => Same(j)
  BY DEF LifeInv, TypeOK, Same, Checked, Started, KillSession, Settle, SpawnFailed, CleanUp,
         server, tables, world
<1>3. Sound(id)'
  BY DEF LifeInv, TypeOK, Sound, Present, Durable, Checked, Wanted, Started, KillSession, Settle,
         SpawnFailed, CleanUp, server, tables, world
<1>4. QED
  BY <1>1, <1>2, <1>3, Others

LEMMA ResolvedLife == ASSUME LifeInv, NEW id \in Id, Resolved(id) PROVE LifeInv'
<1>1. TypeOK'
  BY DEF LifeInv, TypeOK, Resolved, Settle, server, tables, world, Spawns, Intents
<1>2. \A j \in Id : j # id => Same(j)
  BY DEF LifeInv, TypeOK, Same, Resolved, Settle, server, tables, world
<1>3. Sound(id)'
  BY DEF LifeInv, TypeOK, Sound, Present, Durable, Resolved, Settle, server, tables, world
<1>4. QED
  BY <1>1, <1>2, <1>3, Others

LEMMA DetachLife ==
  ASSUME LifeInv, NEW c \in Client, NEW id \in Id, Detach(c, id) PROVE LifeInv'
<1>1. TypeOK'
  BY DEF LifeInv, TypeOK, Detach, server, tables, world, spawning
<1>2. \A j \in Id : j # id => Same(j)
  BY DEF LifeInv, TypeOK, Same, Detach, server, tables, world, spawning
<1>3. Sound(id)'
  BY DEF LifeInv, TypeOK, Sound, Present, Durable, Detach, server, tables, world, spawning
<1>4. QED
  BY <1>1, <1>2, <1>3, Others

-----------------------------------------------------------------------------
(* The session, its client or its kill-session command ends by itself.     *)
LEMMA WorldLife ==
  ASSUME LifeInv, NEW id \in Id, AgentEnds(id) \/ TmuxClientDies(id) \/ KillDone(id)
  PROVE  LifeInv'
<1>1. TypeOK'
  BY DEF LifeInv, TypeOK, AgentEnds, TmuxClientDies, KillDone, PtyExits, server, tables, world,
         spawning, Procs
<1>2. \A j \in Id : j # id => Same(j)
  BY DEF LifeInv, TypeOK, Same, AgentEnds, TmuxClientDies, KillDone, PtyExits, server, tables,
         world, spawning
<1>3. Sound(id)'
  BY DEF LifeInv, TypeOK, Sound, Present, Durable, AgentEnds, TmuxClientDies, KillDone, PtyExits,
         server, tables, world, spawning
<1>4. QED
  BY <1>1, <1>2, <1>3, Others

LEMMA ExitLife == ASSUME LifeInv, NEW id \in Id, ExitEvent(id) PROVE LifeInv'
<1>1. TypeOK'
  BY DEF LifeInv, TypeOK, ExitEvent, CleanUp, server, tables, world, spawning, Records, Procs
<1>2. \A j \in Id : j # id => Same(j)
  BY DEF LifeInv, TypeOK, Same, ExitEvent, CleanUp, server, tables, world, spawning
<1>3. Sound(id)'
  BY DEF LifeInv, TypeOK, Sound, Present, Durable, ExitEvent, CleanUp, server, tables, world,
         spawning
<1>4. QED
  BY <1>1, <1>2, <1>3, Others

LEMMA StopLife == ASSUME LifeInv, NEW id \in Id, Stop(id) PROVE LifeInv'
<1>1. TypeOK'
  BY DEF LifeInv, TypeOK, Stop, KillSession, CleanUp, server, spawning, Records, Procs
<1>2. \A j \in Id : j # id => Same(j)
  BY DEF LifeInv, TypeOK, Same, Stop, KillSession, CleanUp, server, spawning
<1>3. Sound(id)'
  BY DEF LifeInv, TypeOK, Sound, Present, Durable, Stop, KillSession, CleanUp, server, spawning
<1>4. QED
  BY <1>1, <1>2, <1>3, Others

-----------------------------------------------------------------------------
(* A crash and a boot touch every session alike.                           *)
LEMMA CrashLife == ASSUME LifeInv, Crash PROVE LifeInv'
<1>1. TypeOK'
  <2>1. rec' \in [Id -> Records]
    BY DEF LifeInv, TypeOK, Crash, Present, Records
  <2>2. files' \in [Id -> {"none", "ours", "stale"}] /\ proc' \in [Id -> Procs]
    BY DEF Crash, Procs
  <2>3. subs' \in [Id -> SUBSET Client] /\ waiting' \in [Id -> SUBSET Client]
    BY DEF Crash
  <2>4. spawn' \in [Id -> Spawns] /\ intent' \in [Id -> Intents]
    BY DEF Crash, Spawns, Intents
  <2>5. up' = FALSE /\ adopted' = {} /\ crashes' \in Nat
    <3>1. crashes \in Nat /\ crashes' = crashes + 1
      BY DEF LifeInv, TypeOK, Crash
    <3>2. QED
      BY <3>1 DEF Crash
  <2>6. UNCHANGED <<surveyed, mode, unread, rows, shelf, tmux, killing, kept, kind>>
    BY DEF Crash, tables, world
  <2>7. QED
    BY <2>1, <2>2, <2>3, <2>4, <2>5, <2>6 DEF LifeInv, TypeOK
<1>2. ASSUME NEW j \in Id PROVE Sound(j)'
  BY DEF LifeInv, TypeOK, Sound, Present, Durable, Crash, tables, world
<1>3. QED
  BY <1>1, <1>2 DEF LifeInv

(* The rows a boot opens are those of the sqlite file or none, and what it *)
(* sets aside are the others: durable rows stay durable.                   *)
LEMMA OpenStoreRows ==
  ASSUME NEW m \in {"sqlite", "memory"}, NEW j \in Id
  PROVE  /\ j \in OpenStore(m).table <=> m = "sqlite" /\ Durable(j)
         /\ j \in OpenStore(m).shelf <=> m = "memory" /\ Durable(j)
BY DEF OpenStore, Durable

LEMMA BootLife ==
  ASSUME LifeInv, NEW m \in {"sqlite", "memory"}, NEW probe \in BOOLEAN, Boot(m, probe)
  PROVE  LifeInv'
<1>1. TypeOK'
  BY DEF LifeInv, TypeOK, Boot, Rehydrate, OpenStore, spawning, Records
<1>2. ASSUME NEW j \in Id PROVE Sound(j)'
  <2>1. Sound(j) /\ ~up /\ ~Present(j)
    BY DEF LifeInv, Boot, Sound
  <2>2. CASE probe
    BY <2>1, <2>2, OpenStoreRows
       DEF LifeInv, TypeOK, Sound, Present, Durable, Boot, Rehydrate, spawning
  <2>3. CASE ~probe
    BY <2>1, <2>3, OpenStoreRows
       DEF LifeInv, TypeOK, Sound, Present, Durable, Boot, spawning
  <2>4. QED
    BY <2>2, <2>3
<1>3. QED
  BY <1>1, <1>2 DEF LifeInv

-----------------------------------------------------------------------------
LEMMA NextLife == LifeInv /\ [Next]_vars => LifeInv'
<1> SUFFICES ASSUME LifeInv, [Next]_vars PROVE LifeInv'
  OBVIOUS
<1>1. CASE ReapIdle
  BY <1>1, StopLife DEF ReapIdle
<1>2. CASE UNCHANGED vars
  <2>1. TypeOK'
    BY <1>2 DEF LifeInv, TypeOK, vars
  <2>2. \A j \in Id : Same(j)
    BY <1>2 DEF Same, vars
  <2>3. QED
    BY <2>1, <2>2, SameSound DEF LifeInv
<1>3. QED
  BY <1>1, <1>2, LaunchLife, CreateLife, AttachLiveLife, AttachShellLife, AttachAdoptedLife,
     AttachSpawnsLife, BuiltLife, CheckedLife, ResolvedLife, DetachLife, WorldLife, ExitLife,
     StopLife, CrashLife, BootLife
  DEF Next

(* The inductive invariant holds in every state of every instance.         *)
THEOREM LifeInvariant == Spec => []LifeInv
BY InitLife, NextLife, PTL DEF Spec

(* Every variable has its type.                                            *)
THEOREM TypeCorrect == Spec => []TypeOK
<1>1. LifeInv => TypeOK
  BY DEF LifeInv
<1>2. QED
  BY <1>1, LifeInvariant, PTL

(* stop is final: no spawn in progress when a session is stopped leaves a  *)
(* process or a tmux session nobody can reach (rechecks of spawnForRecord).*)
THEOREM StopIsFinal == Spec => []StoppedStaysStopped
<1>1. LifeInv => StoppedStaysStopped
  BY DEF LifeInv, Sound, StoppedStaysStopped, Present
<1>2. QED
  BY <1>1, LifeInvariant, PTL

(* A browser whose attach was answered has a process to look at.           *)
THEOREM ViewersHaveProcess == Spec => []ViewerHasProcess
<1>1. LifeInv => ViewerHasProcess
  BY DEF LifeInv, Sound, ViewerHasProcess
<1>2. QED
  BY <1>1, LifeInvariant, PTL

(* Every listed session has its row, and after a boot with an inventory a  *)
(* row that is not listed is one that boot could not read (claimNew, stop, *)
(* rehydrate).                                                             *)
THEOREM RowsTrackRecords == Spec => []RowTracksRecord
<1>1. LifeInv => RowTracksRecord
  BY DEF LifeInv, TypeOK, Sound, RowTracksRecord
<1>2. QED
  BY <1>1, LifeInvariant, PTL

(* No token files outlive the process they were written for, unless the    *)
(* server died with it.                                                    *)
THEOREM FilesNotLeaked == Spec => []NoLeakedFiles
<1>1. LifeInv => NoLeakedFiles
  BY DEF LifeInv, Sound, NoLeakedFiles
<1>2. QED
  BY <1>1, LifeInvariant, PTL

(* Durable sessions survive any number of restarts, whatever store and     *)
(* inventory each of them finds.                                           *)
THEOREM WorkSurvives == Spec => []SessionsSurviveRestarts
<1>1. LifeInv => SessionsSurviveRestarts
  BY DEF LifeInv, TypeOK, Sound, SessionsSurviveRestarts
<1>2. QED
  BY <1>1, LifeInvariant, PTL
=============================================================================
