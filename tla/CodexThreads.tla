---------------------------- MODULE CodexThreads ----------------------------
(***************************************************************************)
(* How a Codex session learns which thread (conversation) is its own.      *)
(*                                                                         *)
(* Codex does not say. The server takes a process-wide lease, reads the    *)
(* thread inventory, starts codex, and takes the one thread that was not   *)
(* there before, if it is still the only one at a second look. A lease     *)
(* whose codex may still be running without a known thread cannot simply   *)
(* be released: its thread may appear in somebody else's window. So it     *)
(* poisons the coordinator, and nobody discovers anything any more.        *)
(*                                                                         *)
(* The sessions are the Codex sessions of one directory, since threads of  *)
(* another never match. A resolution is numbered when it is called, and    *)
(* its number is also that of the thread its codex will create; deadlines  *)
(* are equally long, so they expire in that order. Threads begun by hand   *)
(* in the same directory, or with /new, cannot be told apart and are left  *)
(* out. Steps between two awaits are one action.                           *)
(***************************************************************************)
EXTENDS Naturals

CONSTANTS
  Session,     \* Codex sessions of one directory
  MaxStarts,   \* bound on fresh starts
  MaxCrashes   \* bound on server crashes

ASSUME BoundsAssumption == MaxStarts \in Nat /\ MaxCrashes \in Nat

VARIABLES
  locked,      \* the coordinator's lease is taken
  poisoned,    \* discovery is closed until the server restarts
  pc,          \* where the session's start stands (see Places)
  mine,        \* number of its latest start, and of that start's thread
  before,      \* threads in its snapshot
  exact,       \* provider_session_id of its row, 0 if NULL
  prov,        \* provisional_provider_session_id of its row, 0 if NULL
  rec,         \* its record: with subscribers, without, or deleted
  running,     \* a codex runs in its tmux session
  unborn,      \* running codexes, by number, whose thread is not listed yet
  inventory,   \* threads that thread/list answers with
  owner,       \* history: the session a start was for
  given,       \* history: threads that were ever exact
  stray,       \* history: codexes started in another's window, or unlisted at a crash
  starts, crashes

lease  == <<locked, poisoned>>
store  == <<exact, prov, given>>
world  == <<running, unborn, stray>>
bounds == <<starts, crashes, owner, mine>>
vars   == <<lease, pc, before, store, rec, world, inventory, bounds>>

Thread  == 1 .. MaxStarts
Records == {"wanted", "unwatched", "gone"}
(* "snapshot" reads the inventory, "spawning" awaits preSpawnCheck,        *)
(* "polling" and "checking" await an inventory, the latter with a          *)
(* provisional thread. "withdrawn" and "unacknowledged" await the          *)
(* acknowledgement of a cancellation, before and after codex runs.         *)
(* "fallback" awaits the preSpawnCheck of a start without a lease.         *)
Holding == {"snapshot", "spawning", "polling", "checking", "withdrawn", "unacknowledged"}
Places  == {"idle", "queued", "fallback"} \cup Holding

TypeOK ==
  /\ locked \in BOOLEAN /\ poisoned \in BOOLEAN
  /\ pc \in [Session -> Places]
  /\ mine \in [Session -> {0} \cup Thread]
  /\ before \in [Session -> SUBSET Thread]
  /\ exact \in [Session -> {0} \cup Thread] /\ prov \in [Session -> {0} \cup Thread]
  /\ rec \in [Session -> Records]
  /\ running \in [Session -> BOOLEAN]
  /\ unborn \subseteq Thread /\ inventory \subseteq Thread
  /\ given \subseteq Thread /\ stray \subseteq Thread
  /\ starts \in 0 .. MaxStarts /\ crashes \in 0 .. MaxCrashes
  /\ owner \in [1 .. starts -> Session]

Init ==
  /\ locked = FALSE /\ poisoned = FALSE
  /\ pc = [s \in Session |-> "idle"]
  /\ mine = [s \in Session |-> 0] /\ before = [s \in Session |-> {}]
  /\ exact = [s \in Session |-> 0] /\ prov = [s \in Session |-> 0]
  /\ rec = [s \in Session |-> "unwatched"]
  /\ running = [s \in Session |-> FALSE]
  /\ unborn = {} /\ inventory = {} /\ given = {} /\ stray = {}
  /\ starts = 0 /\ crashes = 0 /\ owner = <<>>

-----------------------------------------------------------------------------
(* The coordinator.                                                        *)

Waiting == {s \in Session : pc[s] = "queued"}
IsFirst(s) == s \in Waiting /\ \A t \in Waiting : mine[s] <= mine[t]

(* Where a start that failed without a codex goes on: it is tried without  *)
(* a lease for whoever is still watching.                                  *)
Degraded(s) == IF rec[s] = "wanted" THEN "fallback" ELSE "idle"

(* The finally of resolveAfterSpawn, and then the caller's catch. The      *)
(* release grants the lease to the first waiter before the caller, going   *)
(* to its fallback, poisons the coordinator, which rejects the others.     *)
Release(s, next) ==
  /\ locked' = (Waiting # {})
  /\ poisoned' = (poisoned \/ next = "fallback")
  /\ pc' = [t \in Session |->
             IF t = s THEN next
             ELSE IF IsFirst(t) THEN "snapshot"
             ELSE IF t \in Waiting /\ poisoned' THEN Degraded(t) ELSE pc[t]]

(* A release that poisons first: everybody waiting is rejected.            *)
PoisonAndReleaseMutant(s, next) == Release(s, next)   \* an unanswered cancellation is let pass

PoisonAndRelease(s, next) ==
  /\ locked' = FALSE /\ poisoned' = TRUE
  /\ pc' = [t \in Session |->
             IF t = s THEN next ELSE IF t \in Waiting THEN Degraded(t) ELSE pc[t]]

(* A waiter leaves the queue, and its fallback poisons the coordinator.    *)
LeaveQueue(s) ==
  /\ poisoned' = (poisoned \/ rec[s] = "wanted")
  /\ pc' = [t \in Session |->
             IF t = s \/ (t \in Waiting /\ poisoned') THEN Degraded(t) ELSE pc[t]]
  /\ UNCHANGED locked

-----------------------------------------------------------------------------
(* A fresh start: the attach of an ended session, or the first one.        *)

(* The old identity is retired, then the lease acquired. A poisoned        *)
(* coordinator refuses, which leads to the fallback at once.               *)
Start(s) ==
  /\ rec[s] # "gone" /\ pc[s] = "idle" /\ ~running[s] /\ starts < MaxStarts
  /\ starts' = starts + 1
  /\ mine' = [mine EXCEPT ![s] = starts + 1]
  /\ owner' = [n \in 1 .. starts + 1 |-> IF n = starts + 1 THEN s ELSE owner[n]]
  /\ rec' = [rec EXCEPT ![s] = "wanted"]
  /\ prov' = [prov EXCEPT ![s] = IF exact[s] = 0 THEN @ ELSE 0]
  /\ exact' = [exact EXCEPT ![s] = 0]
  /\ pc' = [pc EXCEPT ![s] =
             IF poisoned THEN "fallback" ELSE IF locked THEN "queued" ELSE "snapshot"]
  /\ locked' = (locked \/ ~poisoned)
  /\ UNCHANGED <<poisoned, before, given, world, inventory, crashes>>

Snapshot(s) ==
  /\ pc[s] = "snapshot"
  /\ before' = [before EXCEPT ![s] = inventory]
  /\ pc' = [pc EXCEPT ![s] = "spawning"]
  /\ UNCHANGED <<lease, store, rec, world, inventory, bounds>>

Runs(s) ==
  /\ running' = [running EXCEPT ![s] = TRUE]
  /\ unborn' = unborn \cup {mine[s]}

Spawns(s) ==
  /\ pc[s] = "spawning" /\ rec[s] = "wanted"
  /\ Runs(s)
  /\ pc' = [pc EXCEPT ![s] = "polling"]
  /\ UNCHANGED <<lease, before, store, rec, stray, inventory, bounds>>

(* The check or the start fails, or nobody watches any more. There is no   *)
(* codex, so the cancellation is acknowledged at once, and the error is    *)
(* the caller's.                                                           *)
SpawnRefused(s) ==
  /\ pc[s] = "spawning"
  /\ Release(s, "idle")
  /\ UNCHANGED <<before, store, rec, world, inventory, bounds>>

(* Threads that may be the session's own.                                  *)
CandidatesMutant(s) == inventory   \* the snapshot is ignored
Candidates(s) == inventory \ before[s]

(* The first poll that finds candidates: one becomes provisional, several  *)
(* end the discovery, and so does a row that takes no provisional thread.  *)
Poll(s) ==
  /\ pc[s] = "polling" /\ Candidates(s) # {}
  /\ \/ \E t \in Candidates(s) :
          /\ Candidates(s) = {t} /\ rec[s] # "gone" /\ exact[s] = 0 /\ prov[s] = 0
          /\ prov' = [prov EXCEPT ![s] = t]
          /\ pc' = [pc EXCEPT ![s] = "checking"]
     \/ /\ (\A t \in Candidates(s) : Candidates(s) # {t})
             \/ rec[s] = "gone" \/ exact[s] # 0 \/ prov[s] # 0
        /\ pc' = [pc EXCEPT ![s] = "unacknowledged"]
        /\ UNCHANGED prov
  /\ UNCHANGED <<lease, before, exact, given, rec, world, inventory, bounds>>

Commits(s) ==
  /\ pc[s] = "checking" /\ prov[s] # 0 /\ Candidates(s) = {prov[s]} /\ exact[s] = 0
  /\ exact' = [exact EXCEPT ![s] = prov[s]]
  /\ given' = given \cup {prov[s]}
  /\ prov' = [prov EXCEPT ![s] = 0]
  /\ Release(s, "idle")
  /\ UNCHANGED <<before, rec, world, inventory, bounds>>

(* The second look sees something else, or the row is gone.                *)
CheckFails(s) ==
  /\ pc[s] = "checking" /\ (prov[s] = 0 \/ Candidates(s) # {prov[s]})
  /\ prov' = [prov EXCEPT ![s] = 0]
  /\ pc' = [pc EXCEPT ![s] = "unacknowledged"]
  /\ UNCHANGED <<lease, before, exact, given, rec, world, inventory, bounds>>

(* What an error does to a resolution before its codex runs, and after.    *)
FailsUnlaunched(s) ==
  /\ pc[s] = "snapshot"
  /\ Release(s, Degraded(s))
  /\ UNCHANGED prov

FailsLaunchedMutant(s) ==   \* the provisional thread is not cleared
  /\ pc[s] \in {"polling", "checking"}
  /\ pc' = [pc EXCEPT ![s] = "unacknowledged"]
  /\ UNCHANGED <<lease, prov>>

FailsLaunched(s) ==
  /\ pc[s] \in {"polling", "checking"}
  /\ pc' = [pc EXCEPT ![s] = "unacknowledged"]
  /\ prov' = [prov EXCEPT ![s] = IF pc[s] = "checking" THEN 0 ELSE @]
  /\ UNCHANGED lease

(* The inventory cannot be read.                                           *)
ReadFails(s) ==
  /\ FailsUnlaunched(s) \/ FailsLaunched(s)
  /\ UNCHANGED <<before, exact, given, rec, world, inventory, bounds>>

(* The deadline, which runs from the call, passes.                         *)
HasDeadline == {"queued", "snapshot", "spawning", "polling", "checking"}
Timeout(s) ==
  /\ pc[s] \in HasDeadline
  /\ \A t \in Session : pc[t] \in HasDeadline => mine[s] <= mine[t]
  /\ \/ pc[s] = "queued" /\ LeaveQueue(s) /\ UNCHANGED prov
     \/ /\ pc[s] = "spawning"
        /\ pc' = [pc EXCEPT ![s] = "withdrawn"]
        /\ UNCHANGED <<lease, prov>>
     \/ FailsUnlaunched(s)
     \/ FailsLaunched(s)
  /\ UNCHANGED <<before, exact, given, rec, world, inventory, bounds>>

(* A withdrawn start whose check ends finds its signal aborted, or throws. *)
Acknowledged(s) ==
  /\ pc[s] = "withdrawn"
  /\ \E next \in {"idle", Degraded(s)} : Release(s, next)
  /\ UNCHANGED <<before, store, rec, world, inventory, bounds>>

(* Nobody acknowledges in time: a running codex is not killed for this.    *)
AckTimeoutMutant(s) ==   \* no limit on the wait for a running codex
  /\ pc[s] = "withdrawn"
  /\ PoisonAndRelease(s, Degraded(s))
  /\ UNCHANGED <<before, store, rec, world, inventory, bounds>>

AckTimeout(s) ==
  /\ pc[s] \in {"withdrawn", "unacknowledged"}
  /\ PoisonAndRelease(s, IF pc[s] = "withdrawn" THEN Degraded(s) ELSE "idle")
  /\ UNCHANGED <<before, store, rec, world, inventory, bounds>>

(* The check before an untracked start ends: it failed, or nobody is left, *)
(* or codex starts, in the window of whoever holds the lease.              *)
Fallback(s) ==
  /\ pc[s] = "fallback"
  /\ pc' = [pc EXCEPT ![s] = "idle"]
  /\ \/ UNCHANGED world
     \/ /\ rec[s] = "wanted"
        /\ Runs(s)
        /\ stray' = IF locked THEN stray \cup {mine[s]} ELSE stray
  /\ UNCHANGED <<lease, before, store, rec, inventory, bounds>>

-----------------------------------------------------------------------------
(* Browsers, codex, and crashes.                                           *)

Watch(s) ==
  /\ rec[s] # "gone" /\ pc[s] # "idle"
  /\ rec' = [rec EXCEPT ![s] = IF @ = "wanted" THEN "unwatched" ELSE "wanted"]
  /\ UNCHANGED <<lease, pc, before, store, world, inventory, bounds>>

Delete(s) ==
  /\ rec[s] # "gone"
  /\ rec' = [rec EXCEPT ![s] = "gone"]
  /\ exact' = [exact EXCEPT ![s] = 0]
  /\ prov' = [prov EXCEPT ![s] = 0]
  /\ UNCHANGED <<lease, pc, before, given, world, inventory, bounds>>

ThreadListed(t) ==
  /\ t \in unborn
  /\ inventory' = inventory \cup {t}
  /\ unborn' = unborn \ {t}
  /\ UNCHANGED <<lease, pc, before, store, rec, running, stray, bounds>>

Exits(s) ==
  /\ running[s]
  /\ running' = [running EXCEPT ![s] = FALSE]
  /\ unborn' = unborn \ {mine[s]}
  /\ UNCHANGED <<lease, pc, before, store, rec, stray, inventory, bounds>>

(* The server goes down and comes up on the same store and tmux server:    *)
(* codexes run on, memory is lost, and opening the store discards          *)
(* provisional threads.                                                    *)
Crash ==
  /\ crashes < MaxCrashes
  /\ crashes' = crashes + 1
  /\ locked' = FALSE /\ poisoned' = FALSE
  /\ pc' = [s \in Session |-> "idle"]
  /\ before' = [s \in Session |-> {}]
  /\ prov' = [s \in Session |-> 0]
  /\ rec' = [s \in Session |-> IF rec[s] = "gone" THEN "gone" ELSE "unwatched"]
  /\ stray' = stray \cup unborn
  /\ UNCHANGED <<exact, given, running, unborn, inventory, starts, owner, mine>>

Next ==
  \/ \E s \in Session :
       \/ Start(s) \/ Snapshot(s) \/ Spawns(s) \/ SpawnRefused(s) \/ Poll(s) \/ Commits(s)
       \/ CheckFails(s) \/ ReadFails(s) \/ Timeout(s) \/ Acknowledged(s) \/ AckTimeout(s)
       \/ Fallback(s) \/ Watch(s) \/ Delete(s) \/ Exits(s)
  \/ \E t \in Thread : ThreadListed(t)
  \/ Crash

Spec == Init /\ [][Next]_vars

(* Timers fire, and preSpawnCheck, which probes with a timeout, ends.      *)
Fairness == \A s \in Session : WF_vars(Timeout(s)) /\ WF_vars(AckTimeout(s)) /\ WF_vars(Fallback(s))
FairSpec == Spec /\ Fairness

-----------------------------------------------------------------------------
(* The lease is exclusive, it is taken exactly while somebody is between   *)
(* its snapshot and its release, and who waits for it will get it or be    *)
(* told: nobody waits for a free or a poisoned lease.                      *)
OneDiscovery ==
  /\ \A s, t \in Session : pc[s] \in Holding /\ pc[t] \in Holding => s = t
  /\ locked <=> \E s \in Session : pc[s] \in Holding
  /\ Waiting # {} => locked /\ ~poisoned

(* As long as no codex was started in somebody's window and none went      *)
(* unlisted over a restart, an exact identity is the session's own thread. *)
(* It is what poisoning is for: a codex that outlives its lease without a  *)
(* thread would otherwise be found by the next.                            *)
OwnThread ==
  stray = {} => \A s \in Session : exact[s] # 0 => owner[exact[s]] = s

(* A provisional thread is seen by nobody but its own second look: when    *)
(* that ends, by an error, a deletion or a crash, it is gone, and the next *)
(* start can record its own.                                               *)
ProvisionalHidden ==
  \A s \in Session : prov[s] # 0 => exact[s] = 0 /\ pc[s] = "checking"

(* Discovery implements the registry: no thread is given twice.            *)
Registry == INSTANCE ThreadRegistry WITH Session <- Session, Thread <- Thread,
                                       exact <- exact, given <- given
GivenOnce == Registry!Spec

(* Every start ends, with an identity or without.                          *)
StartSettles == \A s \in Session : pc[s] # "idle" ~> pc[s] = "idle"
=============================================================================
