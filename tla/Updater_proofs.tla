--------------------------- MODULE Updater_proofs ---------------------------
(***************************************************************************)
(* For any number of versions, operations and faults: the safety of        *)
(* Updater.                                                                *)
(*                                                                         *)
(* OneInstaller alone is inductive.  That `current` boots and that a       *)
(* failure restores it need to know what a helper has done with the        *)
(* pointers at each place (Stage), which nobody else undoes because at     *)
(* most one helper is at work.                                             *)
(***************************************************************************)
EXTENDS Updater, TLAPS

Early == {"fetching", "verifying", "replacing", "publishing", "keeping"}
Late  == {"switching", "restarting", "finishing", "cleaning", "failed"}

(* Where there is a helper, or will be, it has a target; what `current`    *)
(* led to is only remembered from the switch on.                           *)
Aimed(o) == pc[o] \in {"considering"} \cup Before \cup Holding => Want(o) \in Version
Fresh(o) == pc[o] \notin Late => job[o].was = 0

(* A helper that turned the pointers elsewhere can turn them back. One     *)
(* that reinstalls what is active has turned nothing until it fails.       *)
Elsewhere(o)  == job[o].was \notin {0, Want(o)}
Returnable(o) == Elsewhere(o) => previous = job[o].was /\ job[o].was \in releases

Stage(o) ==
  /\ pc[o] = "switching" => Returnable(o) /\ (job[o].was # 0 => current = job[o].was)
  /\ pc[o] \in {"restarting", "finishing", "cleaning"} =>
       Returnable(o) /\ current = Want(o) /\ Want(o) \in releases
  /\ pc[o] = "finishing" /\ Kind(o) # "cli" => running \in {0, Want(o)}
  /\ pc[o] = "failed" /\ job[o].was # 0 => Undone(o)

Owns(o) == Live(o) => lock.owner = o

Sound(o) == Aimed(o) /\ Fresh(o) /\ (~broken => Owns(o) /\ Stage(o))

Unowned == lock.owner = 0 => lock = NoLock

Inv == TypeOK /\ Unowned /\ (\A o \in Op : Sound(o)) /\ CurrentBoots

(* What a step may never do: report as done what is not active.            *)
DoneStep ==
  status'.state = "done" /\ status.state # "done" /\ ~broken'
    => current' = status'.target /\ running' \in {0, status'.target}

-----------------------------------------------------------------------------
(* Types.                                                                  *)
LEMMA Places4 ==
  /\ Early \cap Late = {} /\ Early \cup Late = Holding
  /\ Before \subseteq Places /\ Holding \subseteq Places
  /\ {"none", "considering", "enabling", "dying", "over"} \subseteq Places
  /\ {"none", "considering", "enabling", "dying", "over"} \cap Holding = {}
  /\ Before \cap Holding = {}
BY DEF Early, Late, Holding, Before, Places

LEMMA Versions ==
  ASSUME TypeOK
  PROVE  /\ 0 \notin Version
         /\ ActiveVersion \in {0} \cup Version /\ PreviousVersion \in {0} \cup Version
         /\ ActiveVersion # 0 => ActiveVersion \in releases /\ ActiveVersion = current
         /\ PreviousVersion # 0 => PreviousVersion \in releases /\ PreviousVersion = previous
         /\ Restored \in {0} \cup Version
<1>1. 0 \notin Version
  BY BoundsAssumption DEF Version
<1>2. QED
  BY <1>1 DEF TypeOK, ActiveVersion, PreviousVersion, Restored

(* A job is changed one field at a time.                                   *)
LEMMA JobTyped ==
  ASSUME NEW j \in Jobs
  PROVE  /\ NoJob \in Jobs
         /\ \A k \in Kinds, v \in Version : [[j EXCEPT !.kind = k] EXCEPT !.want = v] \in Jobs
         /\ \A v \in {0} \cup Version :
              [j EXCEPT !.want = v] \in Jobs /\ [j EXCEPT !.from = v] \in Jobs
                /\ [j EXCEPT !.was = v] \in Jobs
         /\ [j EXCEPT !.orphan = TRUE] \in Jobs
BY DEF Jobs, NoJob, Kinds

LEMMA ReconciledTyped ==
  ASSUME TypeOK
  PROVE  /\ Reconciled \in [op : {0} \cup Op, state : States, target : Version, overdue : BOOLEAN]
         /\ Reconciled.state = "done" /\ status.state # "done" =>
              /\ Reconciled.target = status.target
              /\ status.target = ActiveVersion /\ status.target = running
BY DEF TypeOK, Reconciled, States, InProgress

-----------------------------------------------------------------------------
(* What a step leaves alone.                                               *)

(* Another operation: while one is at work nobody else turns the pointers. *)
LEMMA Apart ==
  ASSUME Inv, NEW o \in Op, NEW p \in Op, p # o, pc'[p] = pc[p], job'[p] = job[p],
         broken => broken', broken' \in BOOLEAN,
         ~broken' /\ Live(p) => lock'.owner = p,
         Live(o) \/ UNCHANGED <<current, previous, releases, running>>
  PROVE  Sound(p)'
<1>1. Aimed(p)' /\ Fresh(p)'
  BY DEF Inv, Sound, Aimed, Fresh, Want
<1>2. ASSUME ~broken' PROVE Owns(p)' /\ Stage(p)'
  <2>1. CASE ~Live(p)
    BY <2>1 DEF Owns, Stage, Live, Holding
  <2>2. CASE Live(p)
    <3>1. ~Live(o)
      BY <1>2, <2>2 DEF Inv, Sound, Owns
    <3>2. Stage(p)
      BY <1>2 DEF Inv, Sound
    <3>3. QED
      BY <1>2, <2>2, <3>1, <3>2 DEF Owns, Live, Stage, Returnable, Elsewhere, Undone, Want, Kind
  <2>3. QED
    BY <2>1, <2>2
<1>3. QED
  BY <1>1, <1>2 DEF Sound

LEMMA BootsKept ==
  ASSUME CurrentBoots, UNCHANGED <<current, releases>>, broken => broken', torn => torn',
         \A o \in Op : pc[o] = "publishing" /\ ~torn' =>
                         pc'[o] = "publishing" /\ job'[o].want = job[o].want
  PROVE  CurrentBoots'
BY DEF CurrentBoots, Want

(* A step of one operation that neither turns a pointer nor changes a      *)
(* release, and does not yet remember what `current` led to.               *)
LEMMA QuietOp ==
  ASSUME Inv, TypeOK', Unowned', NEW o \in Op,
         \A p \in Op \ {o} : pc'[p] = pc[p] /\ job'[p] = job[p],
         UNCHANGED <<running, current, previous, releases>>,
         broken => broken', torn => torn', pc[o] = "publishing" => torn',
         pc'[o] \notin Late, job'[o].was = 0, Aimed(o)',
         pc'[o] \in Holding /\ ~broken' => lock'.owner = o,
         \A p \in Op \ {o} : ~broken' /\ Live(p) => lock'.owner = p
  PROVE  Inv'
<1>1. \A p \in Op \ {o} : Sound(p)'
  BY Apart DEF TypeOK
<1>2. Sound(o)'
  BY DEF Sound, Fresh, Owns, Stage, Live, Late
<1>3. CurrentBoots'
  BY BootsKept DEF Inv
<1>4. QED
  BY <1>1, <1>2, <1>3 DEF Inv

-----------------------------------------------------------------------------
(* Requests, and what comes before the lock.                               *)
LEMMA RequestKeeps ==
  ASSUME Inv, NEW o \in Op, NEW k \in Kinds, NEW v \in Version, Request(o, k, v)
  PROVE  Inv' /\ DoneStep
<1>1. /\ pc[o] = "none" /\ pc' = [pc EXCEPT ![o] = "considering"]
      /\ job' = [job EXCEPT ![o] = [[job[o] EXCEPT !.kind = k] EXCEPT !.want = v]]
      /\ status' = Reconciled
      /\ UNCHANGED <<service, lock, pointers, files, history, faults>>
  BY DEF Request, IsNext, Inv, TypeOK
<1>2. /\ [[job[o] EXCEPT !.kind = k] EXCEPT !.want = v] \in Jobs
      /\ [[job[o] EXCEPT !.kind = k] EXCEPT !.want = v].want = v
      /\ [[job[o] EXCEPT !.kind = k] EXCEPT !.want = v].was = 0
  BY <1>1, JobTyped DEF Inv, TypeOK, Sound, Fresh, Late, Jobs
<1>3. TypeOK'
  BY <1>1, <1>2, ReconciledTyped, Places4 DEF Inv, TypeOK, service, pointers, files, history
<1>4. Unowned'
  BY <1>1 DEF Inv, Unowned
<1>5. Inv'
  <2>1. pc'[o] = "considering" /\ job'[o].was = 0 /\ job'[o].want = v
    BY <1>1, <1>2 DEF Inv, TypeOK
  <2>2. \A p \in Op \ {o} : pc'[p] = pc[p] /\ job'[p] = job[p]
    BY <1>1 DEF Inv, TypeOK
  <2>3. \A p \in Op \ {o} : ~broken' /\ Live(p) => lock'.owner = p
    BY <1>1 DEF Inv, Sound, Owns, history
  <2>4. Aimed(o)'
    BY <2>1 DEF Aimed, Want
  <2>5. QED
    BY <1>1, <1>3, <1>4, <2>1, <2>2, <2>3, <2>4, QuietOp
       DEF service, pointers, files, history, Late, Holding
<1>6. DoneStep
  BY <1>1, ReconciledTyped, Versions DEF DoneStep, Inv, TypeOK, service, pointers
<1>7. QED
  BY <1>5, <1>6

(* An operation goes on to, or ends at, a place without the lock; nothing  *)
(* is done to the files and done is not reported.                          *)
LEMMA Outside ==
  ASSUME Inv, NEW o \in Op, NEW place \in Places \ Holding, NEW j \in Jobs, j.was = 0,
         place \in {"considering"} \cup Before => j.want \in Version,
         pc' = [pc EXCEPT ![o] = place], job' = [job EXCEPT ![o] = j],
         UNCHANGED <<service, pointers, files>>,
         status' \in [op : {0} \cup Op, state : States, target : Version, overdue : BOOLEAN],
         status' = status \/ status'.state # "done",
         lock' \in [owner : {0} \cup Op, old : BOOLEAN], Unowned',
         faults' \in 0 .. MaxFaults, broken' \in BOOLEAN, torn' \in BOOLEAN,
         broken => broken', torn => torn', pc[o] = "publishing" => torn',
         \A p \in Op \ {o} : ~broken' /\ Live(p) => lock'.owner = p
  PROVE  Inv' /\ DoneStep
<1>1. TypeOK'
  BY DEF Inv, TypeOK, service, pointers, files
<1>2. pc'[o] = place /\ job'[o] = j /\ \A p \in Op \ {o} : pc'[p] = pc[p] /\ job'[p] = job[p]
  BY DEF Inv, TypeOK
<1>3. Aimed(o)'
  BY <1>2 DEF Aimed, Want
<1>4. Inv'
  BY <1>1, <1>2, <1>3, Places4, QuietOp DEF service, pointers, files
<1>5. DoneStep
  BY DEF DoneStep
<1>6. QED
  BY <1>4, <1>5

(* The same, of a step that leaves the lock and the history alone.         *)
LEMMA Aside ==
  ASSUME Inv, NEW o \in Op, NEW place \in Places \ Holding, NEW j \in Jobs, j.was = 0,
         place \in {"considering"} \cup Before => j.want \in Version, pc[o] # "publishing",
         pc' = [pc EXCEPT ![o] = place], job' = [job EXCEPT ![o] = j],
         UNCHANGED <<service, lock, pointers, files, history, faults>>,
         status' \in [op : {0} \cup Op, state : States, target : Version, overdue : BOOLEAN],
         status' = status \/ status'.state # "done"
  PROVE  Inv' /\ DoneStep
<1>1. \A p \in Op \ {o} : ~broken' /\ Live(p) => lock'.owner = p
  BY DEF Inv, Sound, Owns, history
<1>2. Unowned'
  BY DEF Inv, Unowned
<1>3. /\ lock' \in [owner : {0} \cup Op, old : BOOLEAN] /\ faults' \in 0 .. MaxFaults
      /\ broken' \in BOOLEAN /\ torn' \in BOOLEAN /\ broken' = broken /\ torn' = torn
  BY DEF Inv, TypeOK, history
<1>4. QED
  BY <1>1, <1>2, <1>3, Outside

LEMMA InstallByHandKeeps ==
  ASSUME Inv, NEW o \in Op, NEW v \in Version, InstallByHand(o, v) PROVE Inv' /\ DoneStep
<1> DEFINE j == [[job[o] EXCEPT !.kind = "cli"] EXCEPT !.want = v]
<1>1. /\ pc[o] = "none" /\ pc' = [pc EXCEPT ![o] = "launched"] /\ job' = [job EXCEPT ![o] = j]
      /\ UNCHANGED <<service, lock, pointers, files, status, history, faults>>
  BY DEF InstallByHand, IsNext, Inv, TypeOK
<1>2. j \in Jobs /\ j.want = v /\ j.was = 0
  <2>1. job[o] \in Jobs /\ job[o].was = 0 /\ "cli" \in Kinds
    BY <1>1 DEF Inv, TypeOK, Sound, Fresh, Late, Kinds
  <2>2. j \in Jobs
    BY <2>1, JobTyped
  <2>3. j.want = v /\ j.was = 0
    BY <2>1 DEF Jobs
  <2>4. QED
    BY <2>2, <2>3
<1>3. "launched" \in Places \ Holding
  BY DEF Places, Holding, Before
<1> HIDE DEF j
<1>4. QED
  BY <1>1, <1>2, <1>3, Aside DEF Inv, TypeOK

LEMMA ConsideredKeeps ==
  ASSUME Inv, NEW o \in Op, Considered(o) PROVE Inv' /\ DoneStep
<1>1. pc[o] = "considering" /\ UNCHANGED <<service, lock, pointers, files, history, faults>>
  BY DEF Considered
<1>2. job[o] \in Jobs /\ job[o].was = 0 /\ Want(o) \in Version
  BY <1>1 DEF Inv, TypeOK, Sound, Fresh, Aimed, Late
<1>3. {"launched", "over"} \subseteq Places \ Holding
  BY DEF Places, Holding, Before
<1>4. CASE Ends(o, "over") /\ UNCHANGED status
  <2>1. NoJob \in Jobs /\ NoJob.was = 0
    BY JobTyped, <1>2 DEF NoJob
  <2>2. QED
    BY <1>1, <1>3, <1>4, <2>1, Aside DEF Ends, Before, Inv, TypeOK
<1>5. CASE Allowed(o) /\ Launch(o, IF Kind(o) = "rollback" THEN PreviousVersion ELSE Want(o))
  <2> DEFINE v == IF Kind(o) = "rollback" THEN PreviousVersion ELSE Want(o)
             j == [job[o] EXCEPT !.want = v]
  <2>1. v \in Version
    BY <1>2, <1>5, Versions DEF Allowed, Inv
  <2>2. j \in Jobs /\ j.want = v /\ j.was = 0
    <3> HIDE DEF v
    <3>1. j \in Jobs
      BY <1>2, <2>1, JobTyped
    <3>2. j.want = v /\ j.was = 0
      BY <1>2 DEF Jobs
    <3>3. QED
      BY <3>1, <3>2
  <2>3. NoJob \in Jobs /\ NoJob.was = 0
    BY JobTyped, <1>2 DEF NoJob
  <2>4. \/ /\ pc' = [pc EXCEPT ![o] = "launched"] /\ job' = [job EXCEPT ![o] = j]
           /\ status' = [op |-> o, state |-> "starting", target |-> v, overdue |-> FALSE]
        \/ /\ pc' = [pc EXCEPT ![o] = "over"] /\ job' = [job EXCEPT ![o] = NoJob]
           /\ status' = [op |-> o, state |-> "failed", target |-> v, overdue |-> FALSE]
    BY <1>5 DEF Launch, Ends, Inv, TypeOK
  <2> HIDE DEF v, j
  <2>5. /\ status' \in [op : {0} \cup Op, state : States, target : Version, overdue : BOOLEAN]
        /\ status'.state # "done"
    <3>1. \A st \in States :
            [op |-> o, state |-> st, target |-> v, overdue |-> FALSE]
              \in [op : {0} \cup Op, state : States, target : Version, overdue : BOOLEAN]
      BY <2>1
    <3>2. status' = [op |-> o, state |-> "starting", target |-> v, overdue |-> FALSE]
          \/ status' = [op |-> o, state |-> "failed", target |-> v, overdue |-> FALSE]
      BY <2>4
    <3>3. QED
      BY <3>1, <3>2 DEF States
  <2>6. QED
    BY <1>1, <1>3, <2>1, <2>2, <2>3, <2>4, <2>5, Aside DEF Before
<1>6. QED
  BY <1>4, <1>5 DEF Considered

LEMMA ChildExitKeeps == ASSUME Inv, NEW o \in Op, ChildExit(o) PROVE Inv' /\ DoneStep
<1>1. /\ pc[o] = "dying" /\ pc' = [pc EXCEPT ![o] = "over"] /\ job' = [job EXCEPT ![o] = job[o]]
      /\ UNCHANGED <<service, lock, pointers, files, history, faults>>
  BY DEF ChildExit, Inv, TypeOK
<1>2. job[o] \in Jobs /\ job[o].was = 0
  BY <1>1 DEF Inv, TypeOK, Sound, Fresh, Late
<1>3. "over" \in Places \ Holding /\ "over" \notin {"considering"} \cup Before
  BY DEF Places, Holding, Before
<1>4. /\ status' \in [op : {0} \cup Op, state : States, target : Version, overdue : BOOLEAN]
      /\ status' = status \/ status'.state # "done"
  BY DEF ChildExit, Inv, TypeOK, States
<1>5. QED
  BY <1>1, <1>2, <1>3, <1>4, Aside

LEMMA BeginKeeps == ASSUME Inv, NEW o \in Op, Begin(o) PROVE Inv' /\ DoneStep
<1> DEFINE j == [job[o] EXCEPT !.from = ActiveVersion]
<1>1. /\ pc[o] = "launched" /\ pc' = [pc EXCEPT ![o] = "locking"] /\ job' = [job EXCEPT ![o] = j]
      /\ UNCHANGED <<service, lock, pointers, files, status, history, faults>>
  BY DEF Begin, Inv, TypeOK
<1>2. job[o] \in Jobs /\ job[o].was = 0 /\ job[o].want \in Version
  BY <1>1 DEF Inv, TypeOK, Sound, Fresh, Late, Aimed, Before, Want
<1>3. j \in Jobs
  BY <1>2, JobTyped, Versions DEF Inv
<1>4. j.was = 0 /\ j.want \in Version
  BY <1>2 DEF Jobs
<1>5. "locking" \in Places \ Holding
  BY DEF Places, Holding, Before
<1> HIDE DEF j
<1>6. QED
  BY <1>1, <1>3, <1>4, <1>5, Aside DEF Inv, TypeOK

LEMMA Ending ==
  ASSUME NEW o \in Op
  PROVE  /\ Exited(o) \in Places \ Holding /\ Exited(o) \notin {"considering"} \cup Before
         /\ NoJob \in Jobs /\ NoJob.was = 0
BY DEF Exited, Places, Holding, Before, NoJob, Jobs, Kinds

LEMMA LockBusyKeeps == ASSUME Inv, NEW o \in Op, LockBusy(o) PROVE Inv' /\ DoneStep
<1>1. /\ pc[o] = "locking"
      /\ UNCHANGED <<service, lock, pointers, files, status, history, faults>>
  BY DEF LockBusy
<1>2. CASE lock.old
  <2>1. pc' = [pc EXCEPT ![o] = "unlinking"] /\ job' = [job EXCEPT ![o] = job[o]]
    BY <1>2 DEF LockBusy, Inv, TypeOK
  <2>2. job[o] \in Jobs /\ job[o].was = 0 /\ job[o].want \in Version
    BY <1>1 DEF Inv, TypeOK, Sound, Fresh, Late, Aimed, Before, Want
  <2>3. "unlinking" \in Places \ Holding
    BY DEF Places, Holding, Before
  <2>4. QED
    BY <1>1, <2>1, <2>2, <2>3, Aside DEF Inv, TypeOK
<1>3. CASE ~lock.old
  BY <1>1, <1>3, Ending, Aside DEF LockBusy, Ends, Inv, TypeOK
<1>4. QED
  BY <1>2, <1>3

(* Whose lock is removed shows in `broken`.                                *)
LEMMA RemoveStaleKeeps == ASSUME Inv, NEW o \in Op, RemoveStale(o) PROVE Inv' /\ DoneStep
<1>1. /\ pc[o] = "unlinking" /\ pc' = [pc EXCEPT ![o] = "locking"]
      /\ job' = [job EXCEPT ![o] = job[o]] /\ lock' = NoLock
      /\ UNCHANGED <<service, pointers, files, status, torn, faults>>
  BY DEF RemoveStale, Inv, TypeOK
<1>2. broken' \in BOOLEAN /\ (broken => broken')
  BY Zenon DEF RemoveStale, Inv, TypeOK
<1>3. job[o] \in Jobs /\ job[o].was = 0 /\ job[o].want \in Version
  BY <1>1 DEF Inv, TypeOK, Sound, Fresh, Late, Aimed, Before, Want
<1>4. "locking" \in Places \ Holding
  BY DEF Places, Holding, Before
<1>5. lock' \in [owner : {0} \cup Op, old : BOOLEAN] /\ Unowned'
  BY <1>1 DEF NoLock, Unowned
<1>6. ASSUME NEW p \in Op, ~broken', Live(p) PROVE FALSE
  <2>1. ~broken /\ ~(lock # NoLock /\ Live(lock.owner))
    BY <1>2, <1>6 DEF RemoveStale
  <2>2. lock.owner = p
    BY <1>6, <2>1 DEF Inv, Sound, Owns
  <2>3. lock = NoLock /\ p # 0
    BY <1>6, <2>1, <2>2 DEF Op
  <2>4. QED
    BY <2>2, <2>3 DEF NoLock
<1>7. QED
  BY <1>1, <1>2, <1>3, <1>4, <1>5, <1>6, Outside DEF Inv, TypeOK

LEMMA HelperKilledKeeps == ASSUME Inv, NEW o \in Op, HelperKilled(o) PROVE Inv' /\ DoneStep
<1>1. /\ pc' = [pc EXCEPT ![o] = Exited(o)] /\ job' = [job EXCEPT ![o] = NoJob]
      /\ UNCHANGED <<service, lock, pointers, files, status, broken>>
  BY DEF HelperKilled, Ends
<1>2. torn' \in BOOLEAN /\ (torn => torn') /\ (pc[o] = "publishing" => torn')
  BY Zenon DEF HelperKilled, Inv, TypeOK
<1>3. faults' \in 0 .. MaxFaults
  BY BoundsAssumption DEF HelperKilled, Fault, Inv, TypeOK
<1>4. \A p \in Op \ {o} : ~broken' /\ Live(p) => lock'.owner = p
  BY <1>1 DEF Inv, Sound, Owns
<1>5. Unowned'
  BY <1>1 DEF Inv, Unowned
<1>6. QED
  BY <1>1, <1>2, <1>3, <1>4, <1>5, Ending, Outside DEF Inv, TypeOK

(* At most one is at work.                                                 *)
LEMMA Alone ==
  ASSUME Inv, ~broken, NEW o \in Op, Live(o), NEW p \in Op, p # o PROVE ~Live(p)
BY DEF Inv, Sound, Owns

LEMMA UnlockKeeps == ASSUME Inv, NEW o \in Op, Unlock(o) PROVE Inv' /\ DoneStep
<1>1. /\ pc[o] = "failed" /\ lock' = NoLock
      /\ pc' = [pc EXCEPT ![o] = Exited(o)] /\ job' = [job EXCEPT ![o] = NoJob]
      /\ UNCHANGED <<service, pointers, files, status, history, faults>>
  BY DEF Unlock, Ends
<1>2. \A p \in Op \ {o} : ~broken' => ~Live(p)
  BY <1>1, Alone DEF Live, Holding, history
<1>3. lock' \in [owner : {0} \cup Op, old : BOOLEAN] /\ Unowned'
  BY <1>1 DEF NoLock, Unowned
<1>4. broken' \in BOOLEAN /\ torn' \in BOOLEAN /\ broken' = broken /\ torn' = torn
  BY <1>1 DEF Inv, TypeOK, history
<1>5. QED
  BY <1>1, <1>2, <1>3, <1>4, Ending, Outside DEF Inv, TypeOK

-----------------------------------------------------------------------------
(* With the lock.                                                          *)
LEMMA ReportTyped ==
  ASSUME TypeOK, NEW o \in Op, NEW state \in States, Want(o) \in Version, Reports(o, state)
  PROVE  /\ status' \in [op : {0} \cup Op, state : States, target : Version, overdue : BOOLEAN]
         /\ status' = status \/ (Kind(o) # "cli" /\ status'.state = state /\ status'.target = Want(o))
<1>1. CASE Kind(o) = "cli"
  BY <1>1 DEF Reports, TypeOK
<1>2. CASE Kind(o) # "cli"
  BY <1>2 DEF Reports
<1>3. QED
  BY <1>1, <1>2

LEMMA WantTyped ==
  ASSUME Inv, NEW o \in Op, Live(o) \/ pc[o] = "locking" PROVE Want(o) \in Version
BY DEF Inv, Sound, Aimed, Live, Before

(* From the lock to the release, before a pointer is turned.               *)
LEMMA Within ==
  ASSUME Inv, NEW o \in Op, NEW place \in Early, pc[o] = "locking" \/ pc[o] \in Early,
         pc[o] # "publishing", pc' = [pc EXCEPT ![o] = place], Reports(o, "working"),
         UNCHANGED <<service, job, pointers, files, history, faults>>,
         lock' \in [owner : {0} \cup Op, old : BOOLEAN], Unowned',
         ~broken => lock'.owner = o,
         \A p \in Op \ {o} : ~broken => ~Live(p)
  PROVE  Inv' /\ DoneStep
<1>1. place \in Places /\ place \notin Late /\ "working" \in States
  BY DEF Places, Holding, Early, Late, States
<1>2. Want(o) \in Version /\ job[o].was = 0
  BY WantTyped DEF Live, Holding, Early, Late, Inv, Sound, Fresh
<1>3. /\ status' \in [op : {0} \cup Op, state : States, target : Version, overdue : BOOLEAN]
      /\ status' = status \/ status'.state = "working"
  BY <1>1, <1>2, ReportTyped DEF Inv
<1>4. TypeOK'
  BY <1>1, <1>3 DEF Inv, TypeOK, service, pointers, files, history
<1>5. /\ pc'[o] = place /\ \A p \in Op \ {o} : pc'[p] = pc[p] /\ job'[p] = job[p]
      /\ UNCHANGED <<running, current, previous, releases, broken, torn, job>>
  BY DEF Inv, TypeOK, service, pointers, files, history
<1>6. Aimed(o)'
  BY <1>2, <1>5 DEF Aimed, Want
<1>7. Inv'
  BY <1>1, <1>2, <1>4, <1>5, <1>6, QuietOp
<1>8. DoneStep
  BY <1>3 DEF DoneStep
<1>9. QED
  BY <1>7, <1>8

LEMMA TakeLockKeeps == ASSUME Inv, NEW o \in Op, TakeLock(o) PROVE Inv' /\ DoneStep
<1> DEFINE place == IF Reusable(o) THEN "verifying" ELSE "fetching"
<1>1. /\ pc[o] = "locking" /\ lock = NoLock /\ lock' = [owner |-> o, old |-> FALSE]
      /\ pc' = [pc EXCEPT ![o] = place] /\ Reports(o, "working")
      /\ UNCHANGED <<service, job, pointers, files, history, faults>>
  BY DEF TakeLock
<1>2. place \in Early /\ pc[o] # "publishing"
  BY <1>1 DEF Early
<1>3. lock'.owner = o /\ lock' \in [owner : {0} \cup Op, old : BOOLEAN] /\ Unowned'
  BY <1>1 DEF Unowned, Op
<1>4. \A p \in Op \ {o} : ~broken => ~Live(p)
  BY <1>1 DEF Inv, Sound, Owns, NoLock, Op
<1> HIDE DEF place
<1>5. QED
  BY <1>1, <1>2, <1>3, <1>4, Within

LEMMA FetchedKeeps == ASSUME Inv, NEW o \in Op, Fetched(o) \/ Verified(o) PROVE Inv' /\ DoneStep
<1>1. PICK place \in Early : pc' = [pc EXCEPT ![o] = place]
  BY DEF Fetched, Verified, Early
<1>2. /\ pc[o] \in Early /\ pc[o] # "publishing" /\ Live(o) /\ Reports(o, "working")
      /\ UNCHANGED <<service, lock, job, pointers, files, history, faults>>
  BY DEF Fetched, Verified, Early, Live, Holding
<1>3. /\ lock' \in [owner : {0} \cup Op, old : BOOLEAN] /\ Unowned'
      /\ ~broken => lock'.owner = o
  BY <1>2 DEF Inv, TypeOK, Unowned, Sound, Owns
<1>4. \A p \in Op \ {o} : ~broken => ~Live(p)
  BY <1>2, Alone
<1>5. QED
  BY <1>1, <1>2, <1>3, <1>4, Within

(* A helper at work turns a pointer or changes a release: the others have  *)
(* none of it, and only its own stage and `current` are left to see to.    *)
LEMMA Writer ==
  ASSUME Inv, NEW o \in Op, Live(o), NEW place \in Holding,
         pc' = [pc EXCEPT ![o] = place], TypeOK', UNCHANGED <<lock, broken>>,
         Aimed(o)', Fresh(o)', ~broken => Stage(o)', CurrentBoots',
         \A p \in Op \ {o} : job'[p] = job[p]
  PROVE  Inv'
<1>1. pc'[o] = place /\ \A p \in Op \ {o} : pc'[p] = pc[p]
  BY DEF Inv, TypeOK
<1>2. \A p \in Op \ {o} : Sound(p)'
  <2>1. \A p \in Op \ {o} : ~broken' /\ Live(p) => lock'.owner = p
    BY DEF Inv, Sound, Owns
  <2>2. QED
    BY <1>1, <2>1, Apart DEF Inv, TypeOK
<1>3. Sound(o)'
  BY DEF Inv, Sound, Owns
<1>4. Unowned'
  BY DEF Inv, Unowned
<1>5. QED
  BY <1>2, <1>3, <1>4 DEF Inv

LEMMA RemoveOldKeeps == ASSUME Inv, NEW o \in Op, RemoveOld(o) PROVE Inv' /\ DoneStep
<1>1. /\ pc[o] = "replacing" /\ pc' = [pc EXCEPT ![o] = "publishing"]
      /\ releases' = releases \ {Want(o)}
      /\ UNCHANGED <<service, job, lock, pointers, signed, status, history, faults>>
  BY DEF RemoveOld
<1>2. Live(o) /\ "publishing" \in Holding /\ Holding \subseteq Places
  BY <1>1, Places4 DEF Live, Holding
<1>3. TypeOK'
  BY <1>1, <1>2 DEF Inv, TypeOK, service, pointers, history
<1>4. pc'[o] = "publishing"
  BY <1>1 DEF Inv, TypeOK
<1>5. Aimed(o)' /\ Fresh(o)' /\ Stage(o)'
  BY <1>1, <1>2, <1>4, WantTyped DEF Aimed, Fresh, Stage, Late, Want, Inv, Sound
<1>6. CurrentBoots'
  <2> SUFFICES ASSUME ~broken, ~torn, current # Want(o) PROVE current \in releases
    BY <1>1, <1>4 DEF CurrentBoots, Want, pointers, history
  <2>1. \A p \in Op : p # o => pc[p] # "publishing"
    BY <1>2, Alone DEF Live, Holding
  <2>2. QED
    BY <1>1, <2>1 DEF Inv, CurrentBoots
<1>7. QED
  BY <1>1, <1>2, <1>3, <1>5, <1>6, Writer DEF DoneStep, history

LEMMA PublishKeeps == ASSUME Inv, NEW o \in Op, Publish(o) PROVE Inv' /\ DoneStep
<1>1. /\ pc[o] = "publishing" /\ pc' = [pc EXCEPT ![o] = "keeping"]
      /\ releases' = releases \cup {Want(o)} /\ Reports(o, "working")
      /\ UNCHANGED <<service, job, lock, pointers, history, faults>>
  BY DEF Publish
<1>2. Live(o) /\ "keeping" \in Holding /\ Holding \subseteq Places
  BY <1>1, Places4 DEF Live, Holding
<1>3. Want(o) \in Version
  BY <1>2, WantTyped
<1>4. /\ status' \in [op : {0} \cup Op, state : States, target : Version, overdue : BOOLEAN]
      /\ status' = status \/ status'.state = "working"
  BY <1>1, <1>3, ReportTyped DEF Inv, States
<1>5. signed' \subseteq Version
  BY <1>3 DEF Publish, Inv, TypeOK
<1>6. TypeOK'
  BY <1>1, <1>2, <1>3, <1>4, <1>5 DEF Inv, TypeOK, service, pointers, history
<1>7. pc'[o] = "keeping"
  BY <1>1 DEF Inv, TypeOK
<1>8. Aimed(o)' /\ Fresh(o)' /\ Stage(o)'
  BY <1>1, <1>3, <1>7 DEF Aimed, Fresh, Stage, Late, Want, Inv, Sound
<1>9. CurrentBoots'
  <2> SUFFICES ASSUME ~broken, ~torn PROVE current \in releases \cup {Want(o)}
    BY <1>1 DEF CurrentBoots, pointers, history
  <2>1. \A p \in Op : p # o => pc[p] # "publishing"
    BY <1>2, Alone DEF Live, Holding
  <2>2. QED
    BY <1>1, <2>1 DEF Inv, CurrentBoots
<1>10. DoneStep
  BY <1>4 DEF DoneStep
<1>11. QED
  BY <1>1, <1>2, <1>6, <1>8, <1>9, <1>10, Writer DEF history

LEMMA KeepPreviousKeeps == ASSUME Inv, NEW o \in Op, KeepPrevious(o) PROVE Inv' /\ DoneStep
<1> DEFINE j == [job[o] EXCEPT !.was = ActiveVersion]
<1>1. /\ pc[o] = "keeping" /\ pc' = [pc EXCEPT ![o] = "switching"]
      /\ job' = [job EXCEPT ![o] = j]
      /\ previous' = IF ActiveVersion \notin {0, Want(o)} THEN ActiveVersion ELSE previous
      /\ UNCHANGED <<service, lock, current, files, status, history, faults>>
  BY DEF KeepPrevious, Inv, TypeOK
<1>2. Live(o) /\ "switching" \in Holding /\ Holding \subseteq Places
  BY <1>1, Places4 DEF Live, Holding
<1>3. job[o] \in Jobs /\ Want(o) \in Version
  BY <1>2, WantTyped DEF Inv, TypeOK
<1>4. j \in Jobs
  BY <1>3, JobTyped, Versions DEF Inv
<1>5. j.was = ActiveVersion /\ j.want = Want(o)
  BY <1>3 DEF Jobs, Want
<1> HIDE DEF j
<1>6. TypeOK'
  BY <1>1, <1>2, <1>4, Versions DEF Inv, TypeOK, service, files, history
<1>7. /\ pc'[o] = "switching" /\ job'[o] = j
      /\ \A p \in Op \ {o} : pc'[p] = pc[p] /\ job'[p] = job[p]
  BY <1>1 DEF Inv, TypeOK
<1>8. Aimed(o)' /\ Fresh(o)'
  BY <1>3, <1>5, <1>7 DEF Aimed, Fresh, Late, Want
<1>9. Stage(o)'
  <2>1. ActiveVersion # 0 => current = ActiveVersion /\ ActiveVersion \in releases
    BY Versions DEF Inv
  <2>2. QED
    BY <1>1, <1>5, <1>7, <2>1 DEF Stage, Returnable, Elsewhere, Want, files
<1>10. CurrentBoots'
  BY <1>1, <1>7, BootsKept DEF Inv, files, history
<1>11. QED
  BY <1>1, <1>2, <1>6, <1>7, <1>8, <1>9, <1>10, Writer DEF DoneStep, history

LEMMA SwitchKeeps == ASSUME Inv, NEW o \in Op, Switch(o) PROVE Inv' /\ DoneStep
<1> DEFINE place == IF Kind(o) = "cli" THEN "finishing" ELSE "restarting"
<1>1. /\ pc[o] = "switching" /\ Want(o) \in releases /\ pc' = [pc EXCEPT ![o] = place]
      /\ current' = Want(o) /\ Reports(o, "restarting")
      /\ UNCHANGED <<service, job, lock, previous, files, history, faults>>
  BY DEF Switch
<1>2. Live(o) /\ place \in Holding /\ Holding \subseteq Places
  BY <1>1, Places4 DEF Live, Holding
<1>3. Want(o) \in Version
  BY <1>2, WantTyped
<1>4. /\ status' \in [op : {0} \cup Op, state : States, target : Version, overdue : BOOLEAN]
      /\ status' = status \/ status'.state = "restarting"
  BY <1>1, <1>3, ReportTyped DEF Inv, States
<1>5. TypeOK'
  <2> HIDE DEF place
  <2>1. QED
    BY <1>1, <1>2, <1>3, <1>4 DEF Inv, TypeOK, service, files, history
<1>6. pc'[o] = place
  BY <1>1 DEF Inv, TypeOK
<1>7. Aimed(o)' /\ Fresh(o)'
  BY <1>1, <1>3, <1>6 DEF Aimed, Fresh, Late, Want
<1>8. ~broken => Stage(o)'
  BY <1>1, <1>6 DEF Inv, Sound, Stage, Returnable, Elsewhere, Want, Kind, files
<1>9. CurrentBoots'
  BY <1>1 DEF CurrentBoots, files
<1>10. DoneStep
  BY <1>4 DEF DoneStep
<1> HIDE DEF place
<1>11. QED
  BY <1>1, <1>2, <1>5, <1>7, <1>8, <1>9, <1>10, Writer DEF history

LEMMA FinishKeeps == ASSUME Inv, NEW o \in Op, Finish(o) PROVE Inv' /\ DoneStep
<1>1. /\ pc[o] = "finishing" /\ pc' = [pc EXCEPT ![o] = "cleaning"] /\ Reports(o, "done")
      /\ UNCHANGED <<service, job, lock, pointers, files, history, faults>>
  BY DEF Finish
<1>2. Live(o) /\ "cleaning" \in Holding /\ Holding \subseteq Places
  BY <1>1, Places4 DEF Live, Holding
<1>3. Want(o) \in Version
  BY <1>2, WantTyped
<1>4. /\ status' \in [op : {0} \cup Op, state : States, target : Version, overdue : BOOLEAN]
      /\ status' = status \/ (Kind(o) # "cli" /\ status'.target = Want(o))
  BY <1>1, <1>3, ReportTyped DEF Inv, States
<1>5. TypeOK'
  BY <1>1, <1>2, <1>4 DEF Inv, TypeOK, service, pointers, files, history
<1>6. pc'[o] = "cleaning" /\ \A p \in Op \ {o} : pc'[p] = pc[p]
  BY <1>1 DEF Inv, TypeOK
<1>7. Aimed(o)' /\ Fresh(o)'
  BY <1>1, <1>3, <1>6 DEF Aimed, Fresh, Late, Want
<1>8. ~broken => Stage(o)'
  BY <1>1, <1>6 DEF Inv, Sound, Stage, Returnable, Elsewhere, Want, files, pointers
<1>9. CurrentBoots'
  BY <1>1, <1>6, BootsKept DEF Inv, files, pointers, history
<1>10. DoneStep
  BY <1>1, <1>4 DEF DoneStep, Inv, Sound, Stage, service, pointers, history
<1>11. QED
  BY <1>1, <1>2, <1>5, <1>7, <1>8, <1>9, <1>10, Writer DEF history

LEMMA CleanKeeps == ASSUME Inv, NEW o \in Op, Clean(o) PROVE Inv' /\ DoneStep
<1> DEFINE place == IF Kind(o) = "cli" THEN "enabling" ELSE "over"
<1>1. /\ pc[o] = "cleaning" /\ pc' = [pc EXCEPT ![o] = place] /\ job' = [job EXCEPT ![o] = NoJob]
      /\ releases' = releases \cap Kept(o) /\ lock' = NoLock
      /\ UNCHANGED <<service, pointers, signed, status, history, faults>>
  BY DEF Clean, Ends
<1>2. Live(o) /\ place \in Places \ Holding /\ place \notin {"considering"} \cup Before
  BY <1>1 DEF Live, Holding, Places, Before
<1>3. NoJob \in Jobs /\ NoJob.was = 0
  BY Ending
<1>4. TypeOK' /\ Unowned'
  <2> HIDE DEF place
  <2>1. QED
    BY <1>1, <1>2, <1>3 DEF Inv, TypeOK, Unowned, NoLock, service, pointers, history
<1>5. /\ pc'[o] = place /\ job'[o] = NoJob
      /\ \A p \in Op \ {o} : pc'[p] = pc[p] /\ job'[p] = job[p]
  BY <1>1 DEF Inv, TypeOK
<1>6. Sound(o)'
  <2> HIDE DEF place
  <2>1. Live(o)' = FALSE /\ pc'[o] \notin Late
    BY <1>2, <1>5, Places4 DEF Live
  <2>2. QED
    BY <1>2, <1>3, <1>5, <2>1 DEF Sound, Aimed, Fresh, Owns, Stage, Late, Live
<1>7. \A p \in Op \ {o} : Sound(p)'
  <2>1. \A p \in Op \ {o} : ~broken' => ~Live(p)
    BY <1>1, <1>2, Alone DEF history
  <2>2. broken' = broken /\ broken' \in BOOLEAN
    BY <1>1 DEF history, Inv, TypeOK
  <2>3. QED
    BY <1>2, <1>5, <2>1, <2>2, Apart
<1>8. CurrentBoots'
  <2> SUFFICES ASSUME ~broken PROVE current \in releases \cap Kept(o)
    BY <1>1 DEF CurrentBoots, pointers, history
  <2>1. QED
    BY <1>1 DEF Inv, Sound, Stage, Kept
<1>9. DoneStep
  BY <1>1 DEF DoneStep
<1>10. QED
  BY <1>4, <1>6, <1>7, <1>8, <1>9 DEF Inv

(* Where the pointer is turned back to, for a helper that turned it.       *)
LEMMA Return ==
  ASSUME Inv, NEW o \in Op, ~broken, pc[o] \in {"restarting", "finishing", "cleaning"}
  PROVE  /\ Restored \in releases
         /\ IF job[o].was \in {0, Want(o)} THEN Restored \in {Want(o), previous}
            ELSE Restored = job[o].was
<1>1. Returnable(o) /\ current \in releases /\ current = Want(o)
  BY DEF Inv, Sound, Stage
<1>2. QED
  BY <1>1, Versions DEF Inv, Returnable, Elsewhere, Restored, PreviousVersion

LEMMA FailsKeeps == ASSUME Inv, NEW o \in Op, Fails(o) PROVE Inv' /\ DoneStep
<1>1. /\ pc[o] \in Holding \ {"failed"} /\ pc' = [pc EXCEPT ![o] = "failed"]
      /\ current' = IF pc[o] \in {"restarting", "finishing", "cleaning"} THEN Restored ELSE current
      /\ Reports(o, "failed")
      /\ UNCHANGED <<service, job, lock, previous, files, broken, faults>>
  BY DEF Fails
<1>2. torn' \in BOOLEAN /\ (torn => torn') /\ (pc[o] = "publishing" => torn')
  BY Zenon DEF Fails, Inv, TypeOK
<1>3. Live(o) /\ "failed" \in Holding /\ Holding \subseteq Places
  BY <1>1, Places4 DEF Live, Holding
<1>4. Want(o) \in Version
  BY <1>3, WantTyped
<1>5. /\ status' \in [op : {0} \cup Op, state : States, target : Version, overdue : BOOLEAN]
      /\ status' = status \/ status'.state = "failed"
  BY <1>1, <1>4, ReportTyped DEF Inv, States
<1>6. TypeOK'
  BY <1>1, <1>2, <1>3, <1>5, Versions DEF Inv, TypeOK, service, files
<1>7. pc'[o] = "failed" /\ \A p \in Op \ {o} : pc'[p] = pc[p]
  BY <1>1 DEF Inv, TypeOK
<1>8. Aimed(o)' /\ Fresh(o)'
  BY <1>1, <1>4, <1>7 DEF Aimed, Fresh, Late, Want
<1>9. ASSUME ~broken, job[o].was # 0 PROVE Undone(o)'
  <2>1. CASE pc[o] \in Early
    BY <1>9, <2>1 DEF Inv, Sound, Fresh, Early, Late
  <2>2. CASE pc[o] = "switching"
    BY <1>1, <1>9, <2>2 DEF Inv, Sound, Stage, Undone, Want
  <2>3. CASE pc[o] \in {"restarting", "finishing", "cleaning"}
    BY <1>1, <1>9, <2>3, Return DEF Undone, Want
  <2>4. QED
    BY <1>1, <2>1, <2>2, <2>3 DEF Holding, Early
<1>10. ~broken => Stage(o)'
  BY <1>1, <1>7, <1>9 DEF Stage
<1>11. CurrentBoots'
  <2> SUFFICES ASSUME ~broken, ~torn' PROVE current' \in releases
    BY <1>1 DEF CurrentBoots, files
  <2>1. CASE pc[o] \in {"restarting", "finishing", "cleaning"}
    BY <1>1, <2>1, Return
  <2>2. CASE pc[o] \notin {"restarting", "finishing", "cleaning"}
    <3>1. \A p \in Op : pc[p] # "publishing"
      BY <1>2, <1>3, Alone DEF Live, Holding
    <3>2. QED
      BY <1>1, <1>2, <2>2, <3>1 DEF Inv, CurrentBoots
  <2>3. QED
    BY <2>1, <2>2
<1>12. DoneStep
  BY <1>5 DEF DoneStep
<1>13. QED
  BY <1>1, <1>3, <1>6, <1>8, <1>10, <1>11, <1>12, Writer

-----------------------------------------------------------------------------
(* The service.                                                            *)
LEMMA Gone ==
  ASSUME Inv, ServerGone
  PROVE  /\ job' \in [Op -> Jobs] /\ torn' \in BOOLEAN /\ (torn => torn')
         /\ \A p \in Op : Ended(p) => job'[p] = NoJob
         /\ \A p \in Op : ~Ended(p) =>
              /\ job'[p].kind = job[p].kind /\ job'[p].want = job[p].want
              /\ job'[p].was = job[p].was
         /\ \A p \in Op : Ended(p) /\ pc[p] = "publishing" => torn'
<1>1. ASSUME NEW p \in Op
      PROVE  /\ job'[p] \in Jobs /\ (Ended(p) => job'[p] = NoJob)
             /\ ~Ended(p) => /\ job'[p].kind = job[p].kind /\ job'[p].want = job[p].want
                             /\ job'[p].was = job[p].was
  <2>1. job[p] \in Jobs /\ NoJob \in Jobs /\ [job[p] EXCEPT !.orphan = TRUE] \in Jobs
    BY JobTyped DEF Inv, TypeOK
  <2>2. job'[p] = IF Ended(p) THEN NoJob
                  ELSE IF Helper(p) THEN [job[p] EXCEPT !.orphan = TRUE] ELSE job[p]
    BY DEF ServerGone
  <2>3. /\ [job[p] EXCEPT !.orphan = TRUE].kind = job[p].kind
        /\ [job[p] EXCEPT !.orphan = TRUE].want = job[p].want
        /\ [job[p] EXCEPT !.orphan = TRUE].was = job[p].was
    BY <2>1 DEF Jobs
  <2>4. QED
    BY <2>1, <2>2, <2>3
<1>2. job' \in [Op -> Jobs]
  <2>1. job' = [p \in Op |-> job'[p]]
    BY DEF ServerGone
  <2>2. QED
    BY <1>1, <2>1
<1>3. torn' \in BOOLEAN /\ (torn => torn')
  BY Zenon DEF ServerGone, Inv, TypeOK
<1>4. ASSUME NEW p \in Op, Ended(p), pc[p] = "publishing" PROVE torn'
  <2>1. Helper(p) /\ manager = "systemd"
    BY <1>4 DEF Ended
  <2>2. QED
    BY <1>4, <2>1 DEF ServerGone
<1>5. QED
  BY <1>1, <1>2, <1>3, <1>4

LEMMA Survives ==
  ASSUME Inv, ServerGone, NEW p \in Op, pc'[p] = IF Ended(p) THEN "over" ELSE pc[p],
         UNCHANGED <<lock, broken>>,
         ~broken /\ Live(p) => UNCHANGED <<current, previous, releases>>
  PROVE  Sound(p)'
<1>1. CASE Ended(p)
  <2>1. pc'[p] = "over" /\ job'[p].was = 0
    BY <1>1, Gone DEF NoJob
  <2>2. QED
    BY <2>1 DEF Sound, Aimed, Fresh, Owns, Stage, Live, Late, Before, Holding
<1>2. CASE ~Ended(p)
  <2>1. /\ pc'[p] = pc[p] /\ Kind(p)' = Kind(p) /\ Want(p)' = Want(p) /\ job'[p].was = job[p].was
        /\ running' = 0
    BY <1>2, Gone DEF Kind, Want, ServerGone
  <2>2. Aimed(p)' /\ Fresh(p)'
    BY <2>1 DEF Inv, Sound, Aimed, Fresh
  <2>3. ASSUME ~broken PROVE Owns(p)' /\ Stage(p)'
    <3>1. CASE Live(p)
      BY <2>1, <2>3, <3>1 DEF Inv, Sound, Owns, Stage, Returnable, Elsewhere, Undone
    <3>2. CASE ~Live(p)
      BY <2>1, <3>2 DEF Owns, Stage, Live, Holding
    <3>3. QED
      BY <3>1, <3>2
  <2>4. QED
    BY <2>2, <2>3 DEF Sound
<1>3. QED
  BY <1>1, <1>2

(* The server ends and takes with it what ends with it.                    *)
LEMMA Shutdown ==
  ASSUME Inv, ServerGone, NEW S \in SUBSET Op, \A p \in S : pc[p] \notin Holding,
         pc' = [p \in Op |-> IF p \in S \/ Ended(p) THEN "over" ELSE pc[p]],
         UNCHANGED <<manager, lock, pointers, files, status, broken>>,
         loaded' \in BOOLEAN, faults' \in 0 .. MaxFaults
  PROVE  Inv' /\ DoneStep
<1>1. TypeOK'
  <2>1. pc' \in [Op -> Places]
    BY DEF Inv, TypeOK, Places
  <2>2. running' \in {0} \cup Version /\ wedged' \in BOOLEAN
    BY Zenon DEF ServerGone
  <2>3. QED
    BY <2>1, <2>2, Gone DEF Inv, TypeOK, pointers, files
<1>2. ASSUME NEW p \in Op PROVE Sound(p)'
  <2>1. CASE p \in S /\ ~Ended(p)
    <3>1. pc'[p] = "over" /\ job'[p].was = job[p].was
      BY <2>1, Gone
    <3>2. job[p].was = 0
      BY <2>1 DEF Inv, Sound, Fresh, Late, Holding
    <3>3. QED
      BY <3>1, <3>2 DEF Sound, Aimed, Fresh, Owns, Stage, Live, Late, Before, Holding
  <2>2. CASE p \notin S \/ Ended(p)
    BY <2>2, Survives DEF pointers, files
  <2>3. QED
    BY <2>1, <2>2
<1>3. CurrentBoots'
  <2>1. \A p \in Op : pc[p] = "publishing" /\ ~torn' =>
                        pc'[p] = "publishing" /\ job'[p].want = job[p].want
    BY Gone DEF Holding
  <2>2. QED
    BY <2>1, Gone, BootsKept DEF Inv, pointers, files
<1>4. Unowned' /\ DoneStep
  BY DEF Inv, Unowned, DoneStep
<1>5. QED
  BY <1>1, <1>2, <1>3, <1>4 DEF Inv

LEMMA ServerEndsKeeps == ASSUME Inv, WatchdogKills \/ ServerCrash PROVE Inv' /\ DoneStep
<1>1. /\ ServerGone /\ pc' = [p \in Op |-> IF p \in {} \/ Ended(p) THEN "over" ELSE pc[p]]
      /\ UNCHANGED <<manager, loaded, lock, pointers, files, status, broken>>
  BY DEF WatchdogKills, ServerCrash
<1>2. faults' \in 0 .. MaxFaults /\ loaded' \in BOOLEAN
  BY <1>1, BoundsAssumption DEF WatchdogKills, ServerCrash, Fault, Inv, TypeOK
<1>3. QED
  <2>1. {} \in SUBSET Op /\ \A p \in {} : pc[p] \notin Holding
    OBVIOUS
  <2>2. QED
    BY <1>1, <1>2, <2>1, Shutdown

LEMMA EnableKeeps == ASSUME Inv, NEW o \in Op, Enable(o) PROVE Inv' /\ DoneStep
<1>1. /\ pc[o] = "enabling" /\ loaded' = TRUE /\ loaded' \in BOOLEAN
      /\ UNCHANGED <<manager, lock, pointers, files, status, broken, faults>>
  BY Zenon DEF Enable
<1>2. CASE manager = "launchd"
  <2>1. ServerGone /\ pc' = [p \in Op |-> IF p \in {o} \/ Ended(p) THEN "over" ELSE pc[p]]
    BY <1>2 DEF Enable
  <2>2. pc[o] \notin Holding /\ faults' \in 0 .. MaxFaults
    BY <1>1 DEF Holding, Inv, TypeOK
  <2>3. {o} \in SUBSET Op /\ \A p \in {o} : pc[p] \notin Holding
    BY <2>2
  <2>4. QED
    BY <1>1, <2>1, <2>2, <2>3, Shutdown
<1>3. CASE manager # "launchd"
  <2>1. pc' = [pc EXCEPT ![o] = "over"] /\ UNCHANGED <<running, wedged, job, torn>>
    BY <1>3 DEF Enable
  <2>2. TypeOK' /\ Unowned'
    BY <1>1, <2>1 DEF Inv, TypeOK, Unowned, pointers, files, Places
  <2>3. /\ pc'[o] = "over" /\ job'[o].was = 0
        /\ \A p \in Op \ {o} : pc'[p] = pc[p] /\ job'[p] = job[p]
    BY <1>1, <2>1 DEF Inv, TypeOK, Sound, Fresh, Late
  <2>4. \A p \in Op \ {o} : ~broken' /\ Live(p) => lock'.owner = p
    BY <1>1 DEF Inv, Sound, Owns
  <2>5. Aimed(o)'
    BY <2>3 DEF Aimed, Before, Holding
  <2>6. Inv'
    BY <1>1, <2>1, <2>2, <2>3, <2>4, <2>5, QuietOp DEF Late, Holding, pointers, files
  <2>7. QED
    BY <1>1, <2>6 DEF DoneStep
<1>4. QED
  BY <1>2, <1>3

LEMMA RestartKeeps == ASSUME Inv, NEW o \in Op, Restart(o) PROVE Inv' /\ DoneStep
<1>1. /\ pc[o] = "restarting" /\ ServerGone
      /\ pc' = [p \in Op |-> IF Ended(p) THEN "over" ELSE IF p # o THEN pc[p]
                             ELSE IF loaded' THEN "finishing" ELSE "failed"]
      /\ UNCHANGED <<manager, lock, previous, files, broken, faults>>
  BY DEF Restart
<1>2. loaded' \in BOOLEAN /\ running' \in {0} \cup Version /\ wedged' \in BOOLEAN
  BY Zenon DEF Restart, ServerGone, Inv, TypeOK
<1>3. /\ loaded' => UNCHANGED <<current, status>>
      /\ ~loaded' => current' = Restored /\ Reports(o, "failed")
  BY DEF Restart
<1>4. Live(o) /\ Want(o) \in Version
  BY <1>1, WantTyped DEF Live, Holding
<1>5. /\ status' \in [op : {0} \cup Op, state : States, target : Version, overdue : BOOLEAN]
      /\ status' = status \/ status'.state = "failed"
  <2>1. CASE loaded'
    BY <1>3, <2>1 DEF Inv, TypeOK
  <2>2. CASE ~loaded'
    BY <1>3, <1>4, <2>2, ReportTyped DEF Inv, States
  <2>3. QED
    BY <2>1, <2>2
<1>6. TypeOK'
  <2>1. pc' \in [Op -> Places]
    BY <1>1 DEF Inv, TypeOK, Places, Holding
  <2>2. current' \in {0} \cup Version
    BY <1>2, <1>3, Versions DEF Inv, TypeOK
  <2>3. QED
    BY <1>1, <1>2, <1>5, <2>1, <2>2, Gone DEF Inv, TypeOK, files
<1>7. ~broken => Returnable(o) /\ current = Want(o) /\ Want(o) \in releases
  BY <1>1 DEF Inv, Sound, Stage
<1>8. ASSUME ~broken
      PROVE  /\ current' \in releases
             /\ ~loaded' => IF job[o].was \in {0, Want(o)} THEN current' \in {Want(o), previous}
                            ELSE current' = job[o].was
  BY <1>1, <1>2, <1>3, <1>7, <1>8, Return
<1>9. Sound(o)'
  <2>1. CASE Ended(o)
    <3>1. pc'[o] = "over" /\ job'[o].was = 0
      BY <1>1, <2>1, Gone DEF NoJob
    <3>2. QED
      BY <3>1 DEF Sound, Aimed, Fresh, Owns, Stage, Live, Late, Before, Holding
  <2>2. CASE ~Ended(o)
    <3>1. /\ Kind(o)' = Kind(o) /\ Want(o)' = Want(o) /\ job'[o].was = job[o].was
          /\ pc'[o] = IF loaded' THEN "finishing" ELSE "failed"
          /\ running' = 0
      BY <1>1, <2>2, Gone DEF Kind, Want, ServerGone
    <3>2. Aimed(o)' /\ Fresh(o)'
      BY <1>4, <3>1 DEF Aimed, Fresh, Late
    <3>3. ASSUME ~broken PROVE Owns(o)' /\ Stage(o)'
      <4>1. Owns(o)'
        BY <1>1, <1>4, <3>3 DEF Inv, Sound, Owns
      <4>2. ASSUME loaded' PROVE Stage(o)'
        BY <1>1, <1>3, <1>7, <3>1, <3>3, <4>2 DEF Stage, Returnable, Elsewhere, Want, Kind, files
      <4>3. ASSUME ~loaded' PROVE Stage(o)'
        BY <1>1, <1>8, <3>1, <3>3, <4>3 DEF Stage, Undone, Want, Kind
      <4>4. QED
        BY <4>1, <4>2, <4>3
    <3>4. QED
      BY <1>1, <3>2, <3>3 DEF Sound
  <2>3. QED
    BY <2>1, <2>2
<1>10. ASSUME NEW p \in Op, p # o PROVE Sound(p)'
  <2>1. ~broken => ~Live(p)
    BY <1>4, <1>10, Alone
  <2>2. QED
    BY <1>1, <1>10, <2>1, Survives
<1>11. CurrentBoots'
  BY <1>1, <1>8 DEF CurrentBoots, files
<1>12. Unowned' /\ DoneStep
  BY <1>1, <1>5 DEF Inv, Unowned, DoneStep
<1>13. QED
  BY <1>6, <1>9, <1>10, <1>11, <1>12 DEF Inv

(* The launcher follows `current`.                                         *)
LEMMA BootKeeps == ASSUME Inv, Boot PROVE Inv' /\ DoneStep
<1>1. /\ running = 0 /\ ActiveVersion # 0 /\ running' = ActiveVersion
      /\ UNCHANGED <<manager, loaded, wedged, pc, job, lock, pointers, files, history, faults>>
  BY DEF Boot
<1>2. ActiveVersion = current /\ current \in Version
  BY <1>1, Versions DEF Inv
<1>3. /\ status' \in [op : {0} \cup Op, state : States, target : Version, overdue : BOOLEAN]
      /\ status'.state = "done" /\ status.state # "done" => status'.target = ActiveVersion
  BY DEF Boot, Inv, TypeOK, States
<1>4. TypeOK'
  BY <1>1, <1>2, <1>3 DEF Inv, TypeOK, pointers, files, history
<1>5. ASSUME NEW p \in Op PROVE Sound(p)'
  <2>1. Aimed(p)' /\ Fresh(p)'
    BY <1>1 DEF Inv, Sound, Aimed, Fresh, Want
  <2>2. ASSUME ~broken PROVE Owns(p)' /\ Stage(p)'
    BY <1>1, <1>2, <2>2 DEF Inv, Sound, Owns, Live, Stage, Returnable, Elsewhere, Undone, Want, Kind,
       pointers, files
  <2>3. QED
    BY <1>1, <2>1, <2>2 DEF Sound, history
<1>6. Unowned' /\ CurrentBoots'
  BY <1>1 DEF Inv, Unowned, CurrentBoots, Want, pointers, files, history
<1>7. DoneStep
  BY <1>1, <1>2, <1>3 DEF DoneStep, pointers
<1>8. QED
  BY <1>4, <1>5, <1>6, <1>7 DEF Inv

(* Nothing moves: the status is read, or time passes.                      *)
LEMMA Unmoved ==
  ASSUME Inv, TypeOK', lock'.owner = lock.owner, lock = NoLock => lock' = NoLock,
         UNCHANGED <<running, pc, job, pointers, files, history>>
  PROVE  Inv'
<1>1. ASSUME NEW p \in Op PROVE Sound(p)'
  BY DEF Inv, Sound, Aimed, Fresh, Owns, Live, Stage, Returnable, Elsewhere, Undone, Want, Kind,
     pointers, files, history
<1>2. Unowned' /\ CurrentBoots'
  BY DEF Inv, Unowned, CurrentBoots, Want, pointers, files, history
<1>3. QED
  BY <1>1, <1>2 DEF Inv

LEMMA ReadStatusKeeps == ASSUME Inv, ReadStatus PROVE Inv' /\ DoneStep
<1>1. TypeOK'
  BY ReconciledTyped DEF ReadStatus, Inv, TypeOK, service, pointers, files, history
<1>2. Inv'
  BY <1>1, Unmoved DEF ReadStatus, service
<1>3. DoneStep
  BY ReconciledTyped, Versions DEF ReadStatus, DoneStep, Inv, TypeOK, service, pointers
<1>4. QED
  BY <1>2, <1>3

LEMMA TimeKeeps ==
  ASSUME Inv, StatusOverdue \/ LockAges \/ Wedge \/ Recover \/ UNCHANGED vars
  PROVE  Inv' /\ DoneStep
<1>1. UNCHANGED <<running, pc, job, pointers, files, history>> /\ status'.state = status.state
  BY DEF StatusOverdue, LockAges, Wedge, Recover, vars, service, Inv, TypeOK
<1>2. lock'.owner = lock.owner /\ (lock = NoLock => lock' = NoLock)
  BY DEF StatusOverdue, LockAges, Wedge, Recover, vars, Inv, TypeOK
<1>3. TypeOK'
  <2>1. faults' \in 0 .. MaxFaults
    BY BoundsAssumption DEF StatusOverdue, LockAges, Wedge, Recover, Fault, vars, Inv, TypeOK
  <2>2. /\ status' \in [op : {0} \cup Op, state : States, target : Version, overdue : BOOLEAN]
        /\ lock' \in [owner : {0} \cup Op, old : BOOLEAN]
    BY DEF StatusOverdue, LockAges, Wedge, Recover, vars, Inv, TypeOK
  <2>3. manager' \in {"systemd", "launchd"} /\ loaded' \in BOOLEAN /\ wedged' \in BOOLEAN
    <3>1. loaded' = loaded /\ manager' = manager /\ wedged' \in {wedged, TRUE, FALSE}
      BY DEF StatusOverdue, LockAges, Wedge, Recover, vars, service
    <3>2. QED
      BY <3>1 DEF Inv, TypeOK
  <2>4. QED
    BY <1>1, <2>1, <2>2, <2>3 DEF Inv, TypeOK, pointers, files, history
<1>4. QED
  BY <1>1, <1>2, <1>3, Unmoved DEF DoneStep

-----------------------------------------------------------------------------
LEMMA InitInv == Init => Inv
<1> SUFFICES ASSUME Init PROVE Inv
  OBVIOUS
<1>1. 1 \in Version
  BY BoundsAssumption DEF Version
<1>2. /\ manager \in {"systemd", "launchd"} /\ running = 1 /\ lock = NoLock /\ current = 1
      /\ pc = [o \in Op |-> "none"] /\ job = [o \in Op |-> NoJob] /\ previous = 0
      /\ releases = {1} /\ signed = {} /\ faults = 0
      /\ status = [op |-> 0, state |-> "idle", target |-> 1, overdue |-> FALSE]
  BY DEF Init
<1>3. loaded \in BOOLEAN /\ wedged \in BOOLEAN /\ broken \in BOOLEAN /\ torn \in BOOLEAN
  BY Zenon DEF Init
<1>4. TypeOK
  <2>1. NoJob \in Jobs
    BY DEF NoJob, Jobs, Kinds
  <2>2. "none" \in Places /\ "idle" \in States
    BY DEF Places, States
  <2>3. QED
    BY <1>1, <1>2, <1>3, <2>1, <2>2, BoundsAssumption DEF TypeOK, NoLock
<1>5. ASSUME NEW o \in Op PROVE Sound(o)
  <2>1. pc[o] = "none" /\ job[o] = NoJob
    BY <1>2
  <2>2. QED
    BY <2>1 DEF Sound, Aimed, Fresh, Owns, Live, Stage, NoJob, Before, Holding
<1>6. Unowned /\ CurrentBoots
  BY <1>2 DEF Unowned, CurrentBoots
<1>7. QED
  BY <1>4, <1>5, <1>6 DEF Inv

LEMMA StepKeeps == ASSUME Inv, [Next]_vars PROVE Inv' /\ DoneStep
<1>1. ASSUME NEW o \in Op, OpStep(o) PROVE Inv' /\ DoneStep
  <2>1. ASSUME NEW k \in Kinds, NEW v \in Version, Request(o, k, v) PROVE Inv' /\ DoneStep
    BY <2>1, RequestKeeps
  <2>2. ASSUME NEW v \in Version, InstallByHand(o, v) PROVE Inv' /\ DoneStep
    BY <2>2, InstallByHandKeeps
  <2>3. CASE Considered(o) \/ ChildExit(o) \/ Begin(o) \/ LockBusy(o) \/ RemoveStale(o)
    BY <2>3, ConsideredKeeps, ChildExitKeeps, BeginKeeps, LockBusyKeeps, RemoveStaleKeeps
  <2>4. CASE TakeLock(o) \/ Fetched(o) \/ Verified(o) \/ RemoveOld(o) \/ Publish(o)
    BY <2>4, TakeLockKeeps, FetchedKeeps, RemoveOldKeeps, PublishKeeps
  <2>5. CASE KeepPrevious(o) \/ Switch(o) \/ Finish(o) \/ Clean(o) \/ Fails(o)
    BY <2>5, KeepPreviousKeeps, SwitchKeeps, FinishKeeps, CleanKeeps, FailsKeeps
  <2>6. CASE Unlock(o) \/ Restart(o) \/ Enable(o) \/ HelperKilled(o)
    BY <2>6, UnlockKeeps, RestartKeeps, EnableKeeps, HelperKilledKeeps
  <2>7. QED
    BY <1>1, <2>1, <2>2, <2>3, <2>4, <2>5, <2>6, Zenon DEF OpStep
<1>2. CASE ReadStatus \/ Boot \/ WatchdogKills \/ ServerCrash
  BY <1>2, ReadStatusKeeps, BootKeeps, ServerEndsKeeps
<1>3. CASE StatusOverdue \/ LockAges \/ Wedge \/ Recover \/ UNCHANGED vars
  BY <1>3, TimeKeeps
<1>4. QED
  BY <1>1, <1>2, <1>3, Zenon DEF Next

LEMMA InvHolds == Spec => []Inv
<1>1. Inv /\ [Next]_vars => Inv'
  BY StepKeeps
<1>2. QED
  BY InitInv, <1>1, PTL DEF Spec

(* Every reachable state is well formed.                                   *)
THEOREM Typed == Spec => []TypeOK
<1>1. Inv => TypeOK
  BY DEF Inv
<1>2. QED
  BY <1>1, InvHolds, PTL

(* However many installers, requests and crashes: while no lock of one at  *)
(* work is removed, one works at a time, and the lock is its own.          *)
THEOREM OneInstallerHolds == Spec => []OneInstaller
<1>1. Inv => OneInstaller
  BY DEF Inv, Sound, Owns, OneInstaller
<1>2. QED
  BY <1>1, InvHolds, PTL

(* `current` leads to an installed release whatever is interleaved, but    *)
(* while one is replaced by itself.                                        *)
THEOREM CurrentBootsHolds == Spec => []CurrentBoots
<1>1. Inv => CurrentBoots
  BY DEF Inv
<1>2. QED
  BY <1>1, InvHolds, PTL

(* A failed operation does not leave a new release active; a reinstall of  *)
(* the active one that fails may have gone back to the one before it.      *)
THEOREM FailureRestoresHolds == Spec => []FailureRestores
<1>1. Inv => FailureRestores
  BY DEF Inv, Sound, Stage, FailureRestores
<1>2. QED
  BY <1>1, InvHolds, PTL

(* "Done" is never said of a version that is not active, or beside which   *)
(* another runs.                                                           *)
THEOREM DoneIsRunningHolds == Spec => DoneIsRunning
<1>1. Inv /\ [Next]_vars => [DoneStep]_vars
  BY StepKeeps
<1>2. QED
  BY <1>1, InvHolds, PTL DEF Spec, DoneIsRunning, DoneStep
=============================================================================
