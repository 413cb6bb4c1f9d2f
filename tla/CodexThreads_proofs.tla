------------------------ MODULE CodexThreads_proofs ------------------------
(***************************************************************************)
(* For any number of sessions, fresh starts and crashes: the invariants of *)
(* CodexThreads, and that it implements ThreadRegistry.                    *)
(*                                                                         *)
(* The lease can only be released with a clean conscience or closed: if    *)
(* there are no strays, a codex without a listed thread belongs to the     *)
(* holder, or the coordinator is poisoned (Clean).                         *)
(***************************************************************************)
EXTENDS CodexThreads, WellFoundedInduction, TLAPS

(* Places after the snapshot, and before codex runs.                       *)
Discovering == Holding \ {"snapshot"}
NotRunYet == {"queued", "snapshot", "spawning", "withdrawn", "fallback"}

(* Starts are numbered, and codexes are where the starts say they are.     *)
Numbered ==
  /\ \A s \in Session : pc[s] # "idle" \/ running[s] => mine[s] # 0
  /\ \A s \in Session : mine[s] # 0 => mine[s] <= starts /\ owner[mine[s]] = s
  /\ \A s \in Session : pc[s] \in NotRunYet => ~running[s] /\ mine[s] \notin inventory
  /\ unborn \subseteq 1 .. starts /\ inventory \subseteq 1 .. starts
  /\ \A t \in unborn : running[owner[t]] /\ mine[owner[t]] = t /\ t \notin inventory

(* The coordinator: OneDiscovery, and whoever falls back has poisoned it.  *)
Coordinated ==
  /\ OneDiscovery
  /\ \A s \in Session : pc[s] = "fallback" => poisoned

(* What was given was listed, and is in the snapshot of whoever discovers. *)
Remembered ==
  /\ given \subseteq inventory
  /\ \A s \in Session : exact[s] # 0 => exact[s] \in given
  /\ \A s \in Session : pc[s] \in Discovering => given \subseteq before[s]
  /\ ProvisionalHidden

(* Without strays, whoever holds the lease can only find its own codex's   *)
(* thread, and nobody can take a free lease with a codex unlisted.         *)
Clean ==
  stray = {} =>
    /\ \A s \in Session : pc[s] \in Holding => unborn \subseteq {mine[s]}
    /\ \A s \in Session : pc[s] \in Discovering => inventory \ before[s] \subseteq {mine[s]}
    /\ ~locked /\ ~poisoned => unborn = {}
    /\ \A s \in Session : exact[s] # 0 => owner[exact[s]] = s

ThreadInv == TypeOK /\ Numbered /\ Coordinated /\ Remembered /\ Clean

-----------------------------------------------------------------------------
(* A set of numbers has a least one, so a queue by number has a first.     *)
LEMMA LeastNumber ==
  ASSUME NEW S \in SUBSET Nat, S # {}
  PROVE  \E n \in S : \A m \in S : n <= m
<1>1. PICK n \in S : \A m \in S : <<m, n>> \notin OpToRel(<, Nat)
  BY WFMin, NatLessThanWellFounded, Zenon
<1>2. \A m \in S : ~(m < n)
  BY <1>1, Zenon DEF OpToRel
<1>3. \A m \in S : n <= m
  BY <1>2
<1>4. QED
  BY <1>3

(* Starts have different numbers, so at most one waiter is the first, and  *)
(* if there is a waiter there is a first.                                  *)
LEMMA OneFirst ==
  ASSUME ThreadInv, NEW s \in Session, NEW t \in Session, IsFirst(s), IsFirst(t)
  PROVE  s = t
<1>1. mine[s] # 0 /\ mine[t] # 0 /\ mine[s] \in Nat /\ mine[t] \in Nat
  BY BoundsAssumption DEF ThreadInv, Numbered, TypeOK, IsFirst, Waiting, Thread
<1>2. mine[s] = mine[t]
  BY <1>1 DEF IsFirst
<1>3. QED
  BY <1>1, <1>2 DEF ThreadInv, Numbered

LEMMA SomeFirst ==
  ASSUME ThreadInv, Waiting # {}
  PROVE  \E s \in Session : IsFirst(s)
<1>1. {mine[s] : s \in Waiting} \in SUBSET Nat /\ {mine[s] : s \in Waiting} # {}
  <2>1. \A s \in Session : mine[s] \in Nat
    BY BoundsAssumption DEF ThreadInv, TypeOK, Thread
  <2>2. PICK s \in Waiting : TRUE
    OBVIOUS
  <2>3. mine[s] \in {mine[t] : t \in Waiting}
    BY <2>2
  <2>4. Waiting \subseteq Session
    BY DEF Waiting
  <2>5. QED
    BY <2>1, <2>3, <2>4
<1>2. PICK n \in {mine[s] : s \in Waiting} : \A m \in {mine[s] : s \in Waiting} : n <= m
  BY <1>1, LeastNumber
<1>3. PICK s \in Waiting : n = mine[s]
  BY <1>2
<1>4. QED
  BY <1>2, <1>3 DEF IsFirst, Waiting

-----------------------------------------------------------------------------
(* What the two releases do to a session: the releaser goes where it goes, *)
(* others stay, or stop waiting.                                           *)
Moved(s, next) ==
  /\ pc' \in [Session -> Places] /\ locked' \in BOOLEAN /\ poisoned' \in BOOLEAN
  /\ pc'[s] = next
  /\ \A t \in Session : t # s =>
       pc'[t] = pc[t] \/ (pc[t] = "queued" /\ pc'[t] \in {"snapshot", "idle", "fallback"})

LEMMA ReleaseMoves ==
  ASSUME ThreadInv, NEW s \in Session, NEW next \in {"idle", "fallback"}, pc[s] \in Holding,
         Release(s, next)
  PROVE  Moved(s, next) /\ Coordinated' /\ \A t \in Session : pc'[t] \notin Discovering
<1>1. Moved(s, next)
  BY DEF ThreadInv, TypeOK, Moved, Release, Degraded, Places, Holding, IsFirst, Waiting
<1>2. \A t \in Session : pc'[t] \in Holding <=> t # s /\ IsFirst(t)
  BY DEF ThreadInv, TypeOK, Coordinated, OneDiscovery, Release, Degraded, Holding, IsFirst,
         Waiting
<1>3. \A t \in Session : pc'[t] \in Holding => pc'[t] = "snapshot"
  BY <1>2 DEF ThreadInv, TypeOK, Release, Degraded, Holding, IsFirst, Waiting
<1>4. \A t, u \in Session : pc'[t] \in Holding /\ pc'[u] \in Holding => t = u
  BY <1>2, OneFirst
<1>5. locked' <=> \E t \in Session : pc'[t] \in Holding
  <2>1. s \notin Waiting
    BY DEF Waiting, Holding
  <2>2. QED
    BY <1>2, <2>1, SomeFirst DEF Release, IsFirst
<1>6. (Waiting # {})' => locked' /\ ~poisoned'
  BY <1>5 DEF ThreadInv, TypeOK, Coordinated, OneDiscovery, Release, Degraded, Holding,
         IsFirst, Waiting
<1>7. \A t \in Session : pc'[t] = "fallback" => poisoned'
  BY DEF ThreadInv, TypeOK, Coordinated, Release, Degraded, IsFirst, Waiting
<1>8. QED
  BY <1>1, <1>3, <1>4, <1>5, <1>6, <1>7 DEF Coordinated, OneDiscovery, Discovering

LEMMA PoisonMoves ==
  ASSUME ThreadInv, NEW s \in Session, NEW next \in {"idle", "fallback"}, pc[s] \in Holding,
         PoisonAndRelease(s, next)
  PROVE  Moved(s, next) /\ Coordinated' /\ \A t \in Session : pc'[t] \notin Holding
<1>1. Moved(s, next)
  BY DEF ThreadInv, TypeOK, Moved, PoisonAndRelease, Degraded, Places, Holding, Waiting
<1>2. \A t \in Session : pc'[t] \notin Holding /\ pc'[t] # "queued"
  BY DEF ThreadInv, TypeOK, Coordinated, OneDiscovery, PoisonAndRelease, Degraded, Holding,
         Waiting
<1>3. QED
  BY <1>1, <1>2 DEF Coordinated, OneDiscovery, PoisonAndRelease, Waiting

LEMMA LeaveMoves ==
  ASSUME ThreadInv, NEW s \in Session, pc[s] = "queued", LeaveQueue(s)
  PROVE  /\ Moved(s, pc'[s]) /\ pc'[s] \in {"idle", "fallback"} /\ Coordinated'
         /\ \A t \in Session : pc'[t] \in Holding => pc'[t] = pc[t]
<1>1. Moved(s, pc'[s]) /\ pc'[s] \in {"idle", "fallback"}
  BY DEF ThreadInv, TypeOK, Moved, LeaveQueue, Degraded, Places, Holding, Waiting
<1>2. \A t \in Session : pc'[t] \in Holding <=> pc[t] \in Holding
  BY DEF ThreadInv, TypeOK, LeaveQueue, Degraded, Holding, Waiting
<1>3. \A t \in Session : pc'[t] \in Holding => pc'[t] = pc[t]
  BY <1>2 DEF ThreadInv, TypeOK, LeaveQueue, Degraded, Holding, Waiting
<1>4. (Waiting # {})' => locked' /\ ~poisoned'
  BY DEF ThreadInv, TypeOK, Coordinated, OneDiscovery, LeaveQueue, Degraded, Waiting
<1>5. \A t \in Session : pc'[t] = "fallback" => poisoned'
  BY DEF ThreadInv, TypeOK, Coordinated, LeaveQueue, Degraded, Waiting
<1>6. QED
  BY <1>1, <1>2, <1>3, <1>4, <1>5 DEF ThreadInv, Coordinated, OneDiscovery, LeaveQueue

-----------------------------------------------------------------------------
(* Steps that only move sessions, and perhaps clear a provisional thread.  *)
Quiet == UNCHANGED <<before, exact, given, rec, world, inventory, bounds>>

LEMMA InitInv == Init => ThreadInv
<1> SUFFICES ASSUME Init PROVE ThreadInv
  OBVIOUS
<1>1. TypeOK
  <2>1. <<>> \in [1 .. 0 -> Session]
    OBVIOUS
  <2>2. owner \in [1 .. starts -> Session]
    BY <2>1 DEF Init
  <2>3. /\ pc \in [Session -> Places] /\ rec \in [Session -> Records]
        /\ mine \in [Session -> {0} \cup Thread] /\ before \in [Session -> SUBSET Thread]
        /\ exact \in [Session -> {0} \cup Thread] /\ prov \in [Session -> {0} \cup Thread]
        /\ running \in [Session -> BOOLEAN]
    BY DEF Init, Places, Records
  <2>4. starts \in 0 .. MaxStarts /\ crashes \in 0 .. MaxCrashes
    BY BoundsAssumption DEF Init
  <2>5. QED
    BY <2>2, <2>3, <2>4 DEF Init, TypeOK
<1>2. Numbered /\ Remembered /\ Clean
  BY DEF Init, Numbered, Remembered, Clean, ProvisionalHidden, NotRunYet, Discovering, Holding
<1>3. Coordinated
  BY DEF Init, Coordinated, OneDiscovery, Holding, Waiting
<1>4. QED
  BY <1>1, <1>2, <1>3 DEF ThreadInv

LEMMA QuietRelease ==
  ASSUME ThreadInv, NEW s \in Session, NEW next \in {"idle", "fallback"},
         pc[s] \in {"snapshot", "spawning", "withdrawn"}, Release(s, next), Quiet, prov' = prov
  PROVE  ThreadInv'
<1>1. Moved(s, next) /\ Coordinated' /\ \A t \in Session : pc'[t] \notin Discovering
  BY ReleaseMoves DEF Holding
<1>2. TypeOK'
  BY <1>1 DEF ThreadInv, TypeOK, Moved, Quiet, world, bounds
<1>3. Numbered'
  BY <1>1 DEF ThreadInv, TypeOK, Numbered, Moved, Quiet, world, bounds, NotRunYet
<1>4. Remembered'
  BY <1>1 DEF ThreadInv, TypeOK, Remembered, ProvisionalHidden, Moved, Quiet, world, bounds
<1>5. stray = {} => unborn = {}
  BY DEF ThreadInv, TypeOK, Clean, Numbered, NotRunYet, Holding
<1>6. Clean'
  BY <1>1, <1>5 DEF ThreadInv, TypeOK, Clean, Moved, Quiet, world, bounds
<1>7. QED
  BY <1>1, <1>2, <1>3, <1>4, <1>6 DEF ThreadInv

LEMMA QuietPoison ==
  ASSUME ThreadInv, NEW s \in Session, NEW next \in {"idle", "fallback"},
         pc[s] \in {"withdrawn", "unacknowledged"}, next = "fallback" => pc[s] = "withdrawn",
         PoisonAndRelease(s, next), Quiet, prov' = prov
  PROVE  ThreadInv'
<1>1. /\ Moved(s, next) /\ Coordinated'
      /\ \A t \in Session : pc'[t] \notin Holding /\ pc'[t] \notin Discovering
  BY PoisonMoves DEF Holding, Discovering
<1>2. TypeOK'
  BY <1>1 DEF ThreadInv, TypeOK, Moved, Quiet, world, bounds
<1>3. Numbered'
  BY <1>1 DEF ThreadInv, TypeOK, Numbered, Moved, Quiet, world, bounds, NotRunYet
<1>4. Remembered'
  BY <1>1 DEF ThreadInv, TypeOK, Remembered, ProvisionalHidden, Moved, Quiet, world, bounds
<1>5. Clean'
  BY <1>1 DEF ThreadInv, TypeOK, Clean, PoisonAndRelease, Quiet, world, bounds
<1>6. QED
  BY <1>1, <1>2, <1>3, <1>4, <1>5 DEF ThreadInv

LEMMA QuietLeave ==
  ASSUME ThreadInv, NEW s \in Session, pc[s] = "queued", LeaveQueue(s), Quiet, prov' = prov
  PROVE  ThreadInv'
<1>1. /\ Moved(s, pc'[s]) /\ pc'[s] \in {"idle", "fallback"} /\ Coordinated'
      /\ \A t \in Session : pc'[t] \in Holding => pc'[t] = pc[t]
  BY LeaveMoves
<1>2. TypeOK'
  BY <1>1 DEF ThreadInv, TypeOK, Moved, Quiet, world, bounds
<1>3. Numbered'
  BY <1>1 DEF ThreadInv, TypeOK, Numbered, Moved, Quiet, world, bounds, NotRunYet
<1>4. Remembered'
  BY <1>1 DEF ThreadInv, TypeOK, Remembered, ProvisionalHidden, Moved, Quiet, world, bounds,
              Discovering
<1>5. Clean'
  BY <1>1 DEF ThreadInv, TypeOK, Clean, LeaveQueue, Quiet, world, bounds, Discovering
<1>6. QED
  BY <1>1, <1>2, <1>3, <1>4, <1>5 DEF ThreadInv

(* A holder that goes on to another place of a holder.                     *)
LEMMA Onward ==
  ASSUME ThreadInv, NEW s \in Session, NEW next \in Discovering, pc[s] \in Holding,
         pc' = [pc EXCEPT ![s] = next], UNCHANGED lease
  PROVE  Coordinated' /\ pc' \in [Session -> Places]
<1>1. pc' \in [Session -> Places]
  BY DEF ThreadInv, TypeOK, Places, Discovering
<1>2. \A t \in Session : pc'[t] \in Holding <=> pc[t] \in Holding
  BY DEF ThreadInv, TypeOK, Discovering
<1>3. \A t \in Session : pc'[t] \in {"queued", "fallback"} <=> pc[t] \in {"queued", "fallback"}
  BY DEF ThreadInv, TypeOK, Discovering, Holding
<1>4. \A t \in Session : pc'[t] = "queued" <=> pc[t] = "queued"
  BY DEF ThreadInv, TypeOK, Discovering, Holding
<1>5. \A t \in Session : pc'[t] = "fallback" <=> pc[t] = "fallback"
  BY <1>3, <1>4
<1>6. QED
  BY <1>1, <1>2, <1>4, <1>5 DEF ThreadInv, Coordinated, OneDiscovery, Waiting, lease

LEMMA FailsLaunchedInv ==
  ASSUME ThreadInv, NEW s \in Session, FailsLaunched(s), Quiet
  PROVE  ThreadInv'
<1>1. Coordinated' /\ pc' \in [Session -> Places]
  BY Onward DEF FailsLaunched, Discovering, Holding
<1>2. TypeOK'
  BY <1>1 DEF ThreadInv, TypeOK, FailsLaunched, Quiet, world, bounds, lease
<1>3. Numbered'
  BY DEF ThreadInv, TypeOK, Numbered, FailsLaunched, Quiet, world, bounds, NotRunYet
<1>4. Remembered'
  BY DEF ThreadInv, TypeOK, Remembered, ProvisionalHidden, FailsLaunched, Quiet, world, bounds,
         Discovering, Holding
<1>5. Clean'
  BY DEF ThreadInv, TypeOK, Clean, FailsLaunched, Quiet, world, bounds, lease, Discovering, Holding
<1>6. QED
  BY <1>1, <1>2, <1>3, <1>4, <1>5 DEF ThreadInv

-----------------------------------------------------------------------------
LEMMA StartInv == ASSUME ThreadInv, NEW s \in Session, Start(s) PROVE ThreadInv'
<1>1. TypeOK'
  <2>1. owner' \in [1 .. starts' -> Session]
    BY BoundsAssumption DEF ThreadInv, TypeOK, Start
  <2>2. /\ pc' \in [Session -> Places] /\ rec' \in [Session -> Records]
        /\ mine' \in [Session -> {0} \cup Thread] /\ starts' \in 0 .. MaxStarts
        /\ exact' \in [Session -> {0} \cup Thread] /\ prov' \in [Session -> {0} \cup Thread]
        /\ locked' \in BOOLEAN
    BY BoundsAssumption DEF ThreadInv, TypeOK, Start, Places, Holding, Records, Thread
  <2>3. QED
    BY <2>1, <2>2 DEF ThreadInv, TypeOK, Start, world
<1>2. /\ \A t \in Session : t # s => mine'[t] = mine[t] /\ pc'[t] = pc[t]
      /\ mine'[s] = starts + 1 /\ starts' = starts + 1 /\ starts \in Nat
      /\ pc[s] = "idle" /\ pc'[s] \in {"fallback", "queued", "snapshot"} /\ ~running[s]
  BY BoundsAssumption DEF ThreadInv, TypeOK, Start
<1>3. owner'[starts + 1] = s /\ \A n \in 1 .. starts : owner'[n] = owner[n]
  BY <1>2 DEF Start
<1>4. Numbered'
  <2>1. \A t \in Session : mine'[t] # 0 => mine'[t] <= starts' /\ owner'[mine'[t]] = t
    BY <1>2, <1>3 DEF ThreadInv, TypeOK, Numbered, Thread
  <2>2. unborn' \subseteq 1 .. starts' /\ inventory' \subseteq 1 .. starts'
    BY <1>2 DEF ThreadInv, Numbered, Start, world
  <2>3. ASSUME NEW t \in unborn' PROVE running'[owner'[t]] /\ mine'[owner'[t]] = t /\ t \notin inventory'
    <3>1. t \in unborn /\ t \in 1 .. starts /\ owner[t] \in Session
      BY DEF ThreadInv, TypeOK, Numbered, Start, world
    <3>2. owner[t] # s /\ owner'[t] = owner[t]
      BY <1>2, <1>3, <3>1 DEF ThreadInv, Numbered
    <3>3. QED
      BY <1>2, <3>1, <3>2 DEF ThreadInv, Numbered, Start, world
  <2>4. \A t \in Session : pc'[t] \in NotRunYet => ~running'[t] /\ mine'[t] \notin inventory'
    BY <1>2 DEF ThreadInv, Numbered, Start, world
  <2>5. \A t \in Session : pc'[t] # "idle" \/ running'[t] => mine'[t] # 0
    BY <1>2 DEF ThreadInv, Numbered, Start, world
  <2>6. QED
    BY <2>1, <2>2, <2>3, <2>4, <2>5 DEF Numbered
<1>5. Coordinated'
  <2>1. CASE poisoned \/ locked
    <3>1. \A t \in Session : pc'[t] \in Holding <=> pc[t] \in Holding
      BY <2>1, <1>2 DEF Start, Holding
    <3>2. \A t \in Session : pc[t] \in Holding => pc'[t] = pc[t]
      BY <1>2 DEF Holding
    <3>3. locked' = locked /\ poisoned' = poisoned
      BY <2>1 DEF ThreadInv, TypeOK, Coordinated, OneDiscovery, Start
    <3>4. \A t \in Session : pc'[t] = "queued" => locked /\ ~poisoned
      BY <1>2, <2>1 DEF ThreadInv, TypeOK, Coordinated, OneDiscovery, Start, Waiting
    <3>5. \A t \in Session : pc'[t] = "fallback" => poisoned
      BY <1>2, <2>1 DEF ThreadInv, TypeOK, Coordinated, Start
    <3>6. QED
      BY <3>1, <3>2, <3>3, <3>4, <3>5 DEF ThreadInv, Coordinated, OneDiscovery, Waiting
  <2>2. CASE ~poisoned /\ ~locked
    <3>1. \A t \in Session : pc'[t] \in Holding <=> t = s
      BY <2>2, <1>2 DEF ThreadInv, TypeOK, Coordinated, OneDiscovery, Start, Holding
    <3>2. pc'[s] = "snapshot" /\ locked' /\ \A t \in Session : pc[t] # "queued"
      BY <2>2 DEF ThreadInv, TypeOK, Coordinated, OneDiscovery, Start, Waiting
    <3>3. QED
      BY <1>2, <2>2, <3>1, <3>2 DEF ThreadInv, Coordinated, OneDiscovery, Start, Waiting
  <2>3. QED
    BY <2>1, <2>2
<1>6. Remembered'
  BY <1>2 DEF ThreadInv, TypeOK, Remembered, ProvisionalHidden, Start, world, Discovering, Holding
<1>7. Clean'
  <2> SUFFICES ASSUME stray = {} PROVE
        /\ \A t \in Session : pc'[t] \in Holding => unborn \subseteq {mine'[t]}
        /\ \A t \in Session : pc'[t] \in Discovering => inventory \ before[t] \subseteq {mine'[t]}
        /\ ~locked' /\ ~poisoned => unborn = {}
        /\ \A t \in Session : exact'[t] # 0 => owner'[exact'[t]] = t
    BY DEF Clean, Start, world
  <2>1. ASSUME NEW t \in Session, exact'[t] # 0
        PROVE  t # s /\ exact'[t] = exact[t] /\ exact[t] \in 1 .. starts
    <3>1. t # s /\ exact'[t] = exact[t]
      BY <2>1 DEF ThreadInv, TypeOK, Start
    <3>2. QED
      BY <2>1, <3>1 DEF ThreadInv, Remembered, Numbered
  <2>2. \A t \in Session : exact'[t] # 0 => owner'[exact'[t]] = t
    BY <2>1, <1>3 DEF ThreadInv, Clean
  <2>3. \A t \in Session : pc'[t] \in Discovering => t # s /\ pc[t] \in Discovering
    BY <1>2 DEF Discovering, Holding
  <2>4. pc'[s] = "snapshot" => unborn = {}
    BY DEF ThreadInv, TypeOK, Clean, Start
  <2>5. \A t \in Session : pc'[t] \in Holding => (t = s /\ unborn = {}) \/ (t # s /\ pc[t] \in Holding)
    BY <1>2, <2>4 DEF Holding
  <2>6. QED
    BY <1>2, <2>2, <2>3, <2>5 DEF ThreadInv, Clean, Start
<1>8. QED
  BY <1>1, <1>4, <1>5, <1>6, <1>7 DEF ThreadInv

LEMMA SnapshotInv == ASSUME ThreadInv, NEW s \in Session, Snapshot(s) PROVE ThreadInv'
<1>1. Coordinated' /\ pc' \in [Session -> Places]
  BY Onward DEF Snapshot, Discovering, Holding
<1>2. TypeOK'
  BY <1>1 DEF ThreadInv, TypeOK, Snapshot, world, store, bounds, lease
<1>3. Numbered'
  BY DEF ThreadInv, TypeOK, Numbered, Snapshot, world, store, bounds, NotRunYet
<1>4. Remembered'
  BY DEF ThreadInv, TypeOK, Remembered, ProvisionalHidden, Snapshot, world, store, bounds,
         Discovering, Holding
<1>5. Clean'
  BY DEF ThreadInv, TypeOK, Clean, Snapshot, world, store, bounds, lease, Discovering, Holding
<1>6. QED
  BY <1>1, <1>2, <1>3, <1>4, <1>5 DEF ThreadInv

(* A codex starts: its number is new to the inventory.                     *)
LEMMA RunsNumbered ==
  ASSUME ThreadInv, NEW s \in Session, pc[s] \in NotRunYet, Runs(s),
         NEW next \in Places \ NotRunYet, pc' = [pc EXCEPT ![s] = next],
         UNCHANGED <<inventory, mine, owner, starts>>
  PROVE  Numbered'
<1>1. mine[s] # 0 /\ mine[s] \in 1 .. starts /\ owner[mine[s]] = s /\ mine[s] \notin inventory
  BY BoundsAssumption DEF ThreadInv, TypeOK, Numbered, NotRunYet, Thread
<1>2. /\ running'[s] /\ pc'[s] = next
      /\ \A t \in Session : t # s => running'[t] = running[t] /\ pc'[t] = pc[t]
      /\ unborn' = unborn \cup {mine[s]}
  BY DEF ThreadInv, TypeOK, Runs
<1>3. ASSUME NEW t \in unborn'
      PROVE  running'[owner[t]] /\ mine[owner[t]] = t /\ t \notin inventory /\ t \in 1 .. starts
  <2>1. CASE t = mine[s]
    BY <1>1, <1>2, <2>1
  <2>2. CASE t \in unborn
    <3>1. t \in 1 .. starts /\ owner[t] \in Session
      BY <2>2 DEF ThreadInv, TypeOK, Numbered
    <3>2. QED
      BY <1>2, <2>2, <3>1 DEF ThreadInv, Numbered
  <2>3. QED
    BY <1>2, <2>1, <2>2
<1>4. unborn' \subseteq 1 .. starts
  BY <1>3
<1>5. \A t \in Session : pc'[t] # "idle" \/ running'[t] => mine[t] # 0
  BY <1>1, <1>2 DEF ThreadInv, Numbered
<1>6. \A t \in Session : pc'[t] \in NotRunYet => ~running'[t] /\ mine[t] \notin inventory
  BY <1>2 DEF ThreadInv, Numbered
<1>7. QED
  BY <1>3, <1>4, <1>5, <1>6 DEF ThreadInv, Numbered

LEMMA SpawnsInv == ASSUME ThreadInv, NEW s \in Session, Spawns(s) PROVE ThreadInv'
<1>1. Coordinated' /\ pc' \in [Session -> Places]
  BY Onward DEF Spawns, Discovering, Holding
<1>2. mine[s] # 0 /\ mine[s] \in 1 .. starts /\ owner[mine[s]] = s /\ mine[s] \notin inventory
  BY BoundsAssumption DEF ThreadInv, TypeOK, Numbered, Spawns, NotRunYet, Thread
<1>3. TypeOK'
  BY <1>1, <1>2 DEF ThreadInv, TypeOK, Spawns, Runs, store, bounds, lease
<1>4. Numbered'
  <2>1. "polling" \in Places \ NotRunYet /\ pc[s] \in NotRunYet
    BY DEF Spawns, Places, Holding, NotRunYet
  <2>2. QED
    BY <2>1, RunsNumbered DEF Spawns, bounds
<1>5. Remembered'
  BY DEF ThreadInv, TypeOK, Remembered, ProvisionalHidden, Spawns, Runs, store, bounds,
         Discovering, Holding
<1>6. Clean'
  BY DEF ThreadInv, TypeOK, Clean, Coordinated, OneDiscovery, Spawns, Runs, store, bounds, lease,
         Discovering, Holding
<1>7. QED
  BY <1>1, <1>3, <1>4, <1>5, <1>6 DEF ThreadInv

LEMMA SpawnRefusedInv == ASSUME ThreadInv, NEW s \in Session, SpawnRefused(s) PROVE ThreadInv'
BY QuietRelease DEF SpawnRefused, Quiet, store

LEMMA PollInv == ASSUME ThreadInv, NEW s \in Session, Poll(s) PROVE ThreadInv'
<1>1. PICK next \in {"checking", "unacknowledged"} : pc' = [pc EXCEPT ![s] = next]
  BY DEF Poll
<1>2. Coordinated' /\ pc' \in [Session -> Places]
  BY <1>1, Onward DEF Poll, Discovering, Holding
<1>3. prov' \in [Session -> {0} \cup Thread]
  BY DEF ThreadInv, TypeOK, Poll, Candidates
<1>4. TypeOK'
  BY <1>2, <1>3 DEF ThreadInv, TypeOK, Poll, world, bounds, lease
<1>5. Numbered'
  BY <1>1 DEF ThreadInv, TypeOK, Numbered, Poll, world, bounds, NotRunYet
<1>6. Remembered'
  <2>1. ProvisionalHidden'
    BY DEF ThreadInv, TypeOK, Remembered, ProvisionalHidden, Poll
  <2>2. QED
    BY <1>1, <2>1 DEF ThreadInv, TypeOK, Remembered, Poll, Discovering, Holding
<1>7. Clean'
  BY <1>1 DEF ThreadInv, TypeOK, Clean, Poll, world, bounds, lease, Discovering, Holding
<1>8. QED
  BY <1>2, <1>4, <1>5, <1>6, <1>7 DEF ThreadInv

(* The thread committed is new, and without strays it is the session's.    *)
LEMMA CommitsInv == ASSUME ThreadInv, NEW s \in Session, Commits(s) PROVE ThreadInv'
<1>1. Moved(s, "idle") /\ Coordinated' /\ \A t \in Session : pc'[t] \notin Discovering
  BY ReleaseMoves DEF Commits, Holding
<1>2. prov[s] \in inventory \ before[s] /\ prov[s] \in Thread
  BY DEF ThreadInv, TypeOK, Commits, Candidates
<1>3. TypeOK'
  BY <1>1, <1>2 DEF ThreadInv, TypeOK, Moved, Commits, world, bounds
<1>4. Numbered'
  BY <1>1 DEF ThreadInv, TypeOK, Numbered, Moved, Commits, world, bounds, NotRunYet
<1>5. Remembered'
  <2>1. given' \subseteq inventory' /\ \A t \in Session : exact'[t] # 0 => exact'[t] \in given'
    BY <1>2 DEF ThreadInv, TypeOK, Remembered, Commits
  <2>2. ProvisionalHidden'
    BY <1>1 DEF ThreadInv, TypeOK, Remembered, ProvisionalHidden, Moved, Commits
  <2>3. QED
    BY <1>1, <2>1, <2>2 DEF Remembered
<1>6. ASSUME stray = {} PROVE unborn = {} /\ owner[prov[s]] = s
  <2>1. prov[s] = mine[s] /\ unborn \subseteq {mine[s]}
    BY <1>2, <1>6 DEF ThreadInv, Clean, Commits, Discovering, Holding
  <2>2. prov[s] \notin unborn
    BY <1>2 DEF ThreadInv, Numbered
  <2>3. owner[mine[s]] = s
    BY <2>1 DEF ThreadInv, Numbered, Commits
  <2>4. QED
    BY <2>1, <2>2, <2>3
<1>7. Clean'
  BY <1>1, <1>6 DEF ThreadInv, TypeOK, Clean, Moved, Commits, world, bounds
<1>8. QED
  BY <1>1, <1>3, <1>4, <1>5, <1>7 DEF ThreadInv

LEMMA CheckFailsInv == ASSUME ThreadInv, NEW s \in Session, CheckFails(s) PROVE ThreadInv'
<1>1. FailsLaunched(s)
  BY DEF ThreadInv, TypeOK, CheckFails, FailsLaunched
<1>2. QED
  BY <1>1, FailsLaunchedInv DEF CheckFails, Quiet

LEMMA FailsUnlaunchedInv ==
  ASSUME ThreadInv, NEW s \in Session, FailsUnlaunched(s), Quiet
  PROVE  ThreadInv'
<1>1. Degraded(s) \in {"idle", "fallback"}
  BY DEF Degraded
<1>2. QED
  BY <1>1, QuietRelease DEF FailsUnlaunched

LEMMA ReadFailsInv == ASSUME ThreadInv, NEW s \in Session, ReadFails(s) PROVE ThreadInv'
BY FailsUnlaunchedInv, FailsLaunchedInv DEF ReadFails, Quiet

LEMMA TimeoutInv == ASSUME ThreadInv, NEW s \in Session, Timeout(s) PROVE ThreadInv'
<1>1. CASE pc[s] = "queued" /\ LeaveQueue(s) /\ prov' = prov
  BY <1>1, QuietLeave DEF Timeout, Quiet
<1>2. CASE pc[s] = "spawning" /\ pc' = [pc EXCEPT ![s] = "withdrawn"] /\ UNCHANGED <<lease, prov>>
  <2>1. Coordinated' /\ pc' \in [Session -> Places]
    BY <1>2, Onward DEF Discovering, Holding
  <2>2. TypeOK'
    BY <1>2, <2>1 DEF ThreadInv, TypeOK, Timeout, world, bounds, lease
  <2>3. Numbered'
    BY <1>2 DEF ThreadInv, TypeOK, Numbered, Timeout, world, bounds, NotRunYet
  <2>4. Remembered'
    BY <1>2 DEF ThreadInv, TypeOK, Remembered, ProvisionalHidden, Timeout, Discovering, Holding
  <2>5. Clean'
    BY <1>2 DEF ThreadInv, TypeOK, Clean, Timeout, world, bounds, lease, Discovering, Holding
  <2>6. QED
    BY <2>1, <2>2, <2>3, <2>4, <2>5 DEF ThreadInv
<1>3. CASE FailsUnlaunched(s)
  BY <1>3, FailsUnlaunchedInv DEF Timeout, Quiet
<1>4. CASE FailsLaunched(s)
  BY <1>4, FailsLaunchedInv DEF Timeout, Quiet
<1>5. QED
  BY <1>1, <1>2, <1>3, <1>4 DEF Timeout

LEMMA AcknowledgedInv == ASSUME ThreadInv, NEW s \in Session, Acknowledged(s) PROVE ThreadInv'
<1>1. PICK next \in {"idle", Degraded(s)} : Release(s, next)
  BY DEF Acknowledged
<1>2. next \in {"idle", "fallback"}
  BY DEF Degraded
<1>3. QED
  BY <1>1, <1>2, QuietRelease DEF Acknowledged, Quiet, store

LEMMA AckTimeoutInv == ASSUME ThreadInv, NEW s \in Session, AckTimeout(s) PROVE ThreadInv'
<1>1. CASE pc[s] = "withdrawn"
  <2>1. Degraded(s) \in {"idle", "fallback"} /\ PoisonAndRelease(s, Degraded(s))
    BY <1>1 DEF AckTimeout, Degraded
  <2>2. QED
    BY <1>1, <2>1, QuietPoison DEF AckTimeout, Quiet, store
<1>2. CASE pc[s] = "unacknowledged"
  <2>1. PoisonAndRelease(s, "idle")
    BY <1>2 DEF AckTimeout
  <2>2. QED
    BY <1>2, <2>1, QuietPoison DEF AckTimeout, Quiet, store
<1>3. QED
  BY <1>1, <1>2 DEF AckTimeout

(* A start without a lease: it is a stray if somebody holds one, and else  *)
(* the coordinator is poisoned and free for good.                          *)
LEMMA FallbackInv == ASSUME ThreadInv, NEW s \in Session, Fallback(s) PROVE ThreadInv'
<1>1. pc[s] = "fallback" /\ pc' = [pc EXCEPT ![s] = "idle"] /\ poisoned
  BY DEF ThreadInv, Coordinated, Fallback
<1>2. Coordinated'
  <2>1. \A t \in Session : pc'[t] \in Holding <=> pc[t] \in Holding
    BY <1>1 DEF ThreadInv, TypeOK, Holding
  <2>2. \A t \in Session : pc'[t] = "queued" <=> pc[t] = "queued"
    BY <1>1 DEF ThreadInv, TypeOK
  <2>3. QED
    BY <1>1, <2>1, <2>2 DEF ThreadInv, Coordinated, OneDiscovery, Waiting, Fallback, lease
<1>3. mine[s] \in Thread
  BY <1>1 DEF ThreadInv, TypeOK, Numbered
<1>4. TypeOK'
  <2>1. pc' \in [Session -> Places]
    BY <1>1 DEF ThreadInv, TypeOK, Places
  <2>2. running' \in [Session -> BOOLEAN] /\ unborn' \subseteq Thread /\ stray' \subseteq Thread
    BY <1>3 DEF ThreadInv, TypeOK, Fallback, Runs, world
  <2>3. QED
    BY <2>1, <2>2 DEF ThreadInv, TypeOK, Fallback, store, bounds, lease
<1>5. Remembered'
  BY <1>1 DEF ThreadInv, TypeOK, Remembered, ProvisionalHidden, Fallback, store, Discovering, Holding
<1>6. CASE UNCHANGED world
  <2>1. Numbered'
    BY <1>1, <1>6 DEF ThreadInv, TypeOK, Numbered, Fallback, world, bounds, NotRunYet
  <2>2. Clean'
    BY <1>1, <1>6 DEF ThreadInv, TypeOK, Clean, Fallback, world, store, bounds, lease, Discovering, Holding
  <2>3. QED
    BY <1>2, <1>4, <1>5, <2>1, <2>2 DEF ThreadInv
<1>7. CASE Runs(s) /\ stray' = IF locked THEN stray \cup {mine[s]} ELSE stray
  <2>1. Numbered'
    <3>1. "idle" \in Places \ NotRunYet /\ pc[s] \in NotRunYet
      BY <1>1 DEF Places, Holding, NotRunYet
    <3>2. QED
      BY <1>1, <1>7, <3>1, RunsNumbered DEF Fallback, bounds
  <2>2. Clean'
    <3>1. CASE locked
      BY <1>7, <3>1 DEF Clean
    <3>2. CASE ~locked
      <4>1. \A t \in Session : pc'[t] \notin Holding /\ pc'[t] \notin Discovering
        BY <1>2, <3>2 DEF Coordinated, OneDiscovery, Fallback, lease, Discovering
      <4>2. QED
        BY <1>1, <1>7, <3>2, <4>1 DEF ThreadInv, Clean, Fallback, store, bounds, lease
    <3>3. QED
      BY <3>1, <3>2
  <2>3. QED
    BY <1>2, <1>4, <1>5, <2>1, <2>2 DEF ThreadInv
<1>8. QED
  BY <1>6, <1>7 DEF Fallback

LEMMA WatchInv == ASSUME ThreadInv, NEW s \in Session, Watch(s) PROVE ThreadInv'
<1>1. TypeOK'
  BY DEF ThreadInv, TypeOK, Watch, Records, world, store, bounds, lease
<1>2. Numbered' /\ Remembered' /\ Clean'
  BY DEF ThreadInv, Numbered, Remembered, ProvisionalHidden, Clean, Watch, world, store, bounds, lease
<1>3. Coordinated'
  BY DEF ThreadInv, Coordinated, OneDiscovery, Waiting, Watch, lease
<1>4. QED
  BY <1>1, <1>2, <1>3 DEF ThreadInv

LEMMA DeleteInv == ASSUME ThreadInv, NEW s \in Session, Delete(s) PROVE ThreadInv'
<1>1. TypeOK'
  BY DEF ThreadInv, TypeOK, Delete, Records, world, bounds, lease
<1>2. Numbered'
  BY DEF ThreadInv, Numbered, Delete, world, bounds
<1>3. Remembered' /\ Clean'
  BY DEF ThreadInv, TypeOK, Remembered, ProvisionalHidden, Clean, Delete, world, bounds, lease
<1>4. Coordinated'
  BY DEF ThreadInv, Coordinated, OneDiscovery, Waiting, Delete, lease
<1>5. QED
  BY <1>1, <1>2, <1>3, <1>4 DEF ThreadInv

LEMMA ThreadListedInv == ASSUME ThreadInv, NEW t \in Thread, ThreadListed(t) PROVE ThreadInv'
<1>1. TypeOK'
  BY DEF ThreadInv, TypeOK, ThreadListed, store, bounds, lease
<1>2. Numbered'
  <2>1. ASSUME NEW s \in Session, pc[s] \in NotRunYet PROVE mine[s] # t
    <3>1. mine[s] # 0 /\ owner[mine[s]] = s /\ ~running[s]
      BY <2>1 DEF ThreadInv, Numbered, NotRunYet
    <3>2. QED
      BY <3>1 DEF ThreadInv, Numbered, ThreadListed
  <2>2. QED
    BY <2>1 DEF ThreadInv, Numbered, ThreadListed, bounds
<1>3. Remembered'
  BY DEF ThreadInv, Remembered, ProvisionalHidden, ThreadListed, store
<1>4. Clean'
  BY DEF ThreadInv, Clean, ThreadListed, store, bounds, lease, Discovering
<1>5. Coordinated'
  BY DEF ThreadInv, Coordinated, OneDiscovery, Waiting, ThreadListed, lease
<1>6. QED
  BY <1>1, <1>2, <1>3, <1>4, <1>5 DEF ThreadInv

LEMMA ExitsInv == ASSUME ThreadInv, NEW s \in Session, Exits(s) PROVE ThreadInv'
<1>1. TypeOK'
  BY DEF ThreadInv, TypeOK, Exits, store, bounds, lease
<1>2. Numbered'
  <2>1. ASSUME NEW t \in unborn' PROVE running'[owner[t]] /\ mine[owner[t]] = t /\ t \notin inventory
    <3>1. t \in unborn /\ t # mine[s] /\ owner[t] # s
      BY DEF ThreadInv, Numbered, Exits
    <3>2. running'[owner[t]] = running[owner[t]]
      BY <3>1 DEF ThreadInv, TypeOK, Numbered, Exits
    <3>3. QED
      BY <3>1, <3>2 DEF ThreadInv, Numbered
  <2>2. \A t \in Session : running'[t] => running[t]
    BY DEF ThreadInv, TypeOK, Exits
  <2>3. QED
    BY <2>1, <2>2 DEF ThreadInv, Numbered, Exits, bounds
<1>3. Remembered'
  BY DEF ThreadInv, Remembered, ProvisionalHidden, Exits, store
<1>4. Clean'
  BY DEF ThreadInv, Clean, Exits, store, bounds, lease
<1>5. Coordinated'
  BY DEF ThreadInv, Coordinated, OneDiscovery, Waiting, Exits, lease
<1>6. QED
  BY <1>1, <1>2, <1>3, <1>4, <1>5 DEF ThreadInv

(* Whatever is unlisted at a crash becomes a stray.                        *)
LEMMA CrashInv == ASSUME ThreadInv, Crash PROVE ThreadInv'
<1>1. TypeOK'
  <2>1. /\ pc' \in [Session -> Places] /\ rec' \in [Session -> Records]
        /\ before' \in [Session -> SUBSET Thread] /\ prov' \in [Session -> {0} \cup Thread]
    BY DEF ThreadInv, TypeOK, Crash, Places, Records
  <2>2. crashes' \in 0 .. MaxCrashes /\ stray' \subseteq Thread
    BY BoundsAssumption DEF ThreadInv, TypeOK, Crash
  <2>3. QED
    BY <2>1, <2>2 DEF ThreadInv, TypeOK, Crash
<1>2. \A s \in Session : pc'[s] = "idle"
  BY DEF Crash
<1>3. Numbered'
  BY <1>2 DEF ThreadInv, Numbered, Crash, NotRunYet
<1>4. Remembered'
  BY <1>2 DEF ThreadInv, Remembered, ProvisionalHidden, Crash, Discovering, Holding
<1>5. Clean'
  BY <1>2 DEF ThreadInv, Clean, Crash, Discovering, Holding
<1>6. Coordinated'
  BY <1>2 DEF Coordinated, OneDiscovery, Waiting, Crash, Holding
<1>7. QED
  BY <1>1, <1>3, <1>4, <1>5, <1>6 DEF ThreadInv

-----------------------------------------------------------------------------
LEMMA NextInv == ThreadInv /\ [Next]_vars => ThreadInv'
<1> SUFFICES ASSUME ThreadInv, [Next]_vars PROVE ThreadInv'
  OBVIOUS
<1>1. ASSUME NEW s \in Session,
             \/ Start(s) \/ Snapshot(s) \/ Spawns(s) \/ SpawnRefused(s) \/ Poll(s) \/ Commits(s)
             \/ CheckFails(s) \/ ReadFails(s) \/ Timeout(s) \/ Acknowledged(s) \/ AckTimeout(s)
             \/ Fallback(s) \/ Watch(s) \/ Delete(s) \/ Exits(s)
      PROVE  ThreadInv'
  BY <1>1, StartInv, SnapshotInv, SpawnsInv, SpawnRefusedInv, PollInv, CommitsInv, CheckFailsInv,
     ReadFailsInv, TimeoutInv, AcknowledgedInv, AckTimeoutInv, FallbackInv, WatchInv, DeleteInv,
     ExitsInv
<1>2. ASSUME NEW t \in Thread, ThreadListed(t) PROVE ThreadInv'
  BY <1>2, ThreadListedInv
<1>3. CASE Crash
  BY <1>3, CrashInv
<1>4. CASE UNCHANGED vars
  <2>1. TypeOK' /\ Numbered'
    BY <1>4 DEF ThreadInv, TypeOK, Numbered, vars, lease, store, world, bounds
  <2>2. Coordinated' /\ Remembered' /\ Clean'
    BY <1>4 DEF ThreadInv, Coordinated, OneDiscovery, Waiting, Remembered, ProvisionalHidden, Clean,
                vars, lease, store, world, bounds
  <2>3. QED
    BY <2>1, <2>2 DEF ThreadInv
<1>5. QED
  BY <1>1, <1>2, <1>3, <1>4 DEF Next

(* The inductive invariant, for any number of sessions, starts and         *)
(* crashes.                                                                *)
THEOREM ThreadInvariant == Spec => []ThreadInv
<1>1. QED
  BY InitInv, NextInv, PTL DEF Spec

THEOREM ThreadTypes == Spec => []TypeOK
<1>1. ThreadInv => TypeOK
  BY DEF ThreadInv
<1>2. QED
  BY <1>1, ThreadInvariant, PTL

(* The lease of codex-thread-coordinator.ts is exclusive, is never lost,   *)
(* and keeps nobody waiting in vain.                                       *)
THEOREM DiscoveryExcludes == Spec => []OneDiscovery
<1>1. ThreadInv => OneDiscovery
  BY DEF ThreadInv, Coordinated
<1>2. QED
  BY <1>1, ThreadInvariant, PTL

(* Without untracked starts in a window and unlisted codexes at a restart, *)
(* poisoning makes every exact identity the session's own.                 *)
THEOREM IdentityIsOwn == Spec => []OwnThread
<1>1. ThreadInv => OwnThread
  BY DEF ThreadInv, Clean, OwnThread
<1>2. QED
  BY <1>1, ThreadInvariant, PTL

(* A provisional identity is never left behind, nor beside an exact one.   *)
THEOREM ProvisionalStaysHidden == Spec => []ProvisionalHidden
<1>1. ThreadInv => ProvisionalHidden
  BY DEF ThreadInv, Remembered
<1>2. QED
  BY <1>1, ThreadInvariant, PTL

-----------------------------------------------------------------------------
(* Discovery implements the registry: a commit assigns a thread that was   *)
(* never given, fresh starts and deletions retire one, and nothing else    *)
(* touches identities, whatever strays there are.                          *)
LEMMA RegistryStep == ThreadInv /\ [Next]_vars => [Registry!Next]_<<exact, given>>
<1> SUFFICES ASSUME ThreadInv, [Next]_vars
             PROVE  Registry!Next \/ UNCHANGED <<exact, given>>
  OBVIOUS
<1>1. ASSUME NEW s \in Session, Start(s) \/ Delete(s) PROVE Registry!Retire(s)
  BY <1>1 DEF Start, Delete, Registry!Retire
<1>2. ASSUME NEW s \in Session, Commits(s)
      PROVE  prov[s] \in Thread /\ Registry!Assign(s, prov[s])
  <2>1. prov[s] \in Thread /\ prov[s] \notin before[s]
    BY <1>2 DEF ThreadInv, TypeOK, Commits, Candidates
  <2>2. prov[s] \notin given
    BY <1>2, <2>1 DEF ThreadInv, Remembered, Commits, Discovering, Holding
  <2>3. QED
    BY <1>2, <2>1, <2>2 DEF Commits, Registry!Assign
<1>3. ASSUME NEW s \in Session,
             \/ Snapshot(s) \/ Spawns(s) \/ SpawnRefused(s) \/ Poll(s) \/ CheckFails(s)
             \/ ReadFails(s) \/ Timeout(s) \/ Acknowledged(s) \/ AckTimeout(s) \/ Fallback(s)
             \/ Watch(s) \/ Exits(s)
      PROVE  UNCHANGED <<exact, given>>
  BY <1>3 DEF Snapshot, Spawns, SpawnRefused, Poll, CheckFails, ReadFails, Timeout, Acknowledged,
              AckTimeout, Fallback, Watch, Exits, store
<1>4. CASE Crash \/ \E t \in Thread : ThreadListed(t)
  BY <1>4 DEF Crash, ThreadListed, store
<1>5. CASE UNCHANGED vars
  BY <1>5 DEF vars, store
<1>6. QED
  BY <1>1, <1>2, <1>3, <1>4, <1>5 DEF Next, Registry!Next

THEOREM GivesOnce == Spec => GivenOnce
<1>1. Init => Registry!Init
  BY DEF Init, Registry!Init
<1>2. QED
  BY <1>1, RegistryStep, ThreadInvariant, PTL DEF Spec, GivenOnce, Registry!Spec
=============================================================================
