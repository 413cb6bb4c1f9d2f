------------------------------ MODULE Updater ------------------------------
(***************************************************************************)
(* The self-update: the server's Updater, the detached helper that         *)
(* installs a release (installManagedRelease, which `roamcode install`     *)
(* also runs), and the service manager and health watchdog that keep one   *)
(* server running from the release `current` points to.                    *)
(*                                                                         *)
(* They share the file system: the lock, the two pointers, the releases    *)
(* and the status file. An operation is numbered; pc says how far it has   *)
(* come, from the request the server is still considering to the helper    *)
(* that is done. A step of the server is what happens between two awaits;  *)
(* a step of a helper, which runs beside it, is what changes one thing     *)
(* others can see. Operations of kind "cli" are installs by hand; they     *)
(* write no status. `inFlight` is left out: whenever it would refuse a     *)
(* request the status does, and whenever it would not it is cleared.       *)
(***************************************************************************)
EXTENDS Naturals

CONSTANTS
  MaxVersion,   \* versions are 1 .. MaxVersion, each of them published
  MaxOps,       \* bound on operations
  MaxFaults     \* bound on crashes, kills and stalls

ASSUME BoundsAssumption ==
  MaxVersion \in Nat \ {0} /\ MaxOps \in Nat /\ MaxFaults \in Nat

Version == 1 .. MaxVersion
Op      == 1 .. MaxOps
Kinds   == {"update", "rollback", "cli"}

VARIABLES
  manager,     \* "systemd", which kills helpers with the server, or "launchd", which does not
  loaded,      \* the service manager knows the service and restarts it
  running,     \* version of the server process, 0 while there is none
  wedged,      \* its event loop is stuck
  pc,          \* where each operation is
  job,         \* its kind and what its process remembers (see NoJob)
  lock,        \* the lock file: whose it is, and whether it is half an hour old
  current, previous,  \* the pointers, 0 if absent
  releases,    \* installed releases
  signed,      \* those whose release.json names an integrity
  status,      \* update-status.json
  broken,      \* history: the lock of a helper at work was removed
  torn,        \* history: a helper ended with a release removed and none put in its place
  faults

service  == <<manager, loaded, running, wedged>>
history  == <<broken, torn>>
pointers == <<current, previous>>
files    == <<releases, signed>>
vars == <<service, pc, job, lock, pointers, files, status, history, faults>>

NoLock == [owner |-> 0, old |-> FALSE]

(* `want` is the target, `from` what was active before the helper looked   *)
(* for the lock, `was` what `current` led to when it turned the pointers;  *)
(* an orphan's server is gone.                                             *)
Jobs  == [kind : Kinds, want : {0} \cup Version, from : {0} \cup Version,
          was : {0} \cup Version, orphan : BOOLEAN]
NoJob == [kind |-> "update", want |-> 0, from |-> 0, was |-> 0, orphan |-> FALSE]

(* Before the lock, and with it.                                           *)
Before   == {"launched", "locking", "unlinking"}
Holding  == {"fetching", "verifying", "replacing", "publishing", "keeping",
             "switching", "restarting", "finishing", "cleaning", "failed"}
Places   == {"none", "considering", "enabling", "dying", "over"}
              \cup Before \cup Holding
States   == {"idle", "starting", "working", "restarting", "done", "failed"}
Settled  == {"idle", "done", "failed"}

TypeOK ==
  /\ manager \in {"systemd", "launchd"} /\ loaded \in BOOLEAN
  /\ running \in {0} \cup Version /\ wedged \in BOOLEAN
  /\ pc \in [Op -> Places] /\ job \in [Op -> Jobs]
  /\ lock \in [owner : {0} \cup Op, old : BOOLEAN]
  /\ current \in {0} \cup Version /\ previous \in {0} \cup Version
  /\ releases \subseteq Version /\ signed \subseteq Version
  /\ status \in [op : {0} \cup Op, state : States, target : Version, overdue : BOOLEAN]
  /\ broken \in BOOLEAN /\ torn \in BOOLEAN /\ faults \in 0 .. MaxFaults

Init ==
  /\ manager \in {"systemd", "launchd"} /\ loaded = TRUE
  /\ running = 1 /\ wedged = FALSE
  /\ pc = [o \in Op |-> "none"] /\ job = [o \in Op |-> NoJob]
  /\ lock = NoLock /\ current = 1 /\ previous = 0
  /\ releases = {1} /\ signed = {}
  /\ status = [op |-> 0, state |-> "idle", target |-> 1, overdue |-> FALSE]
  /\ broken = FALSE /\ torn = FALSE /\ faults = 0

-----------------------------------------------------------------------------
(* Readings of the files.                                                  *)

ActiveVersion   == IF current \in releases THEN current ELSE 0
PreviousVersion == IF previous \in releases THEN previous ELSE 0
InProgress(st)  == st.state \notin Settled
Kind(o)         == job[o].kind
Want(o)         == job[o].want
HasServer       == running # 0 /\ ~wedged
Live(o)         == pc[o] \in Holding

(* A new status. Those of a "cli" operation go to the terminal.            *)
Reports(o, state) ==
  status' = IF Kind(o) = "cli" THEN status
            ELSE [op |-> o, state |-> state, target |-> Want(o), overdue |-> FALSE]

(* readStatus: what the status file becomes when the server reads it. A    *)
(* status is overdue 20 s after it was written if the helper has not       *)
(* reported yet, half an hour after otherwise.                             *)
ReconciledMutant ==   \* only a start that never reported times out
  IF InProgress(status) /\ status.target = ActiveVersion /\ status.target = running
  THEN [status EXCEPT !.state = "done", !.overdue = FALSE]
  ELSE IF status.state = "starting" /\ status.overdue
  THEN [status EXCEPT !.state = "failed", !.overdue = FALSE]
  ELSE status

Reconciled ==
  IF InProgress(status) /\ status.target = ActiveVersion /\ status.target = running
  THEN [status EXCEPT !.state = "done", !.overdue = FALSE]
  ELSE IF InProgress(status) /\ status.overdue
  THEN [status EXCEPT !.state = "failed", !.overdue = FALSE]
  ELSE status

-----------------------------------------------------------------------------
(* The server: GET /update/status, POST /update, POST /update/rollback.    *)

ReadStatus ==
  /\ HasServer /\ status' = Reconciled
  /\ UNCHANGED <<service, pc, job, lock, pointers, files, history, faults>>

IsNext(o) == pc[o] = "none" /\ \A p \in 1 .. o - 1 : pc[p] # "none"

(* startUpdate up to its first await.                                      *)
Request(o, k, v) ==
  /\ HasServer /\ IsNext(o) /\ k # "cli"
  /\ IF k = "rollback" THEN PreviousVersion # 0 /\ v = PreviousVersion ELSE TRUE
  /\ status' = Reconciled /\ ~InProgress(status')
  /\ pc' = [pc EXCEPT ![o] = "considering"]
  /\ job' = [job EXCEPT ![o].kind = k, ![o].want = v]
  /\ UNCHANGED <<service, lock, pointers, files, history, faults>>

Ends(o, place) == pc' = [pc EXCEPT ![o] = place] /\ job' = [job EXCEPT ![o] = NoJob]

(* The request ends with a status and a helper, or the helper cannot be    *)
(* spawned.                                                                *)
Launch(o, v) ==
  \/ /\ pc' = [pc EXCEPT ![o] = "launched"] /\ job' = [job EXCEPT ![o].want = v]
     /\ status' = [op |-> o, state |-> "starting", target |-> v, overdue |-> FALSE]
  \/ /\ Ends(o, "over")
     /\ status' = [op |-> o, state |-> "failed", target |-> v, overdue |-> FALSE]

(* After getVersion and, for an update, the manifest. Without an active    *)
(* release nothing can be updated; an update to what runs already is       *)
(* refused unless something else is active or there is a newer release.    *)
Allowed(o) ==
  /\ ActiveVersion # 0
  /\ IF Kind(o) = "rollback" THEN PreviousVersion # 0
     ELSE Want(o) >= running /\ (Want(o) = running => ActiveVersion # running \/ running < MaxVersion)

Considered(o) ==
  /\ HasServer /\ pc[o] = "considering"
  /\ \/ Allowed(o) /\ Launch(o, IF Kind(o) = "rollback" THEN PreviousVersion ELSE Want(o))
     \/ Ends(o, "over") /\ UNCHANGED status
  /\ UNCHANGED <<service, lock, pointers, files, history, faults>>

(* The server hears that its helper exited with an error.                  *)
ChildExit(o) ==
  /\ HasServer /\ pc[o] = "dying"
  /\ pc' = [pc EXCEPT ![o] = "over"]
  /\ status' = IF status.op = o /\ InProgress(status)
               THEN [status EXCEPT !.state = "failed", !.overdue = FALSE] ELSE status
  /\ UNCHANGED <<service, job, lock, pointers, files, history, faults>>

-----------------------------------------------------------------------------
(* The helper.                                                             *)

Exited(o) == IF job[o].orphan \/ Kind(o) = "cli" THEN "over" ELSE "dying"

(* `roamcode install` of version v.                                        *)
InstallByHand(o, v) ==
  /\ IsNext(o)
  /\ pc' = [pc EXCEPT ![o] = "launched"]
  /\ job' = [job EXCEPT ![o].kind = "cli", ![o].want = v]
  /\ UNCHANGED <<service, lock, pointers, files, status, history, faults>>

Begin(o) ==
  /\ pc[o] = "launched" /\ pc' = [pc EXCEPT ![o] = "locking"]
  /\ job' = [job EXCEPT ![o].from = ActiveVersion]
  /\ UNCHANGED <<service, lock, pointers, files, status, history, faults>>

(* A release already there is used again if it is the one the manifest     *)
(* means; rollbacks and installs by hand have no manifest.                 *)
Reusable(o) == Want(o) \in releases /\ (Kind(o) = "update" => Want(o) \in signed)

(* acquireLock: create the file, or find somebody else's and give up, or   *)
(* find it half an hour old and remove it, whosever it is by then.         *)
TakeLockMutant(o) ==   \* the file is opened, not created exclusively
  /\ pc[o] = "locking"
  /\ lock' = [owner |-> o, old |-> FALSE]
  /\ pc' = [pc EXCEPT ![o] = IF Reusable(o) THEN "verifying" ELSE "fetching"]
  /\ Reports(o, "working")
  /\ UNCHANGED <<service, job, pointers, files, history, faults>>

TakeLock(o) ==
  /\ pc[o] = "locking" /\ lock = NoLock
  /\ lock' = [owner |-> o, old |-> FALSE]
  /\ pc' = [pc EXCEPT ![o] = IF Reusable(o) THEN "verifying" ELSE "fetching"]
  /\ Reports(o, "working")
  /\ UNCHANGED <<service, job, pointers, files, history, faults>>

LockBusy(o) ==
  /\ pc[o] = "locking" /\ lock # NoLock
  /\ IF lock.old THEN pc' = [pc EXCEPT ![o] = "unlinking"] /\ UNCHANGED job
     ELSE Ends(o, Exited(o))
  /\ UNCHANGED <<service, lock, pointers, files, status, history, faults>>

RemoveStale(o) ==
  /\ pc[o] = "unlinking" /\ pc' = [pc EXCEPT ![o] = "locking"]
  /\ lock' = NoLock
  /\ broken' = (broken \/ (lock # NoLock /\ Live(lock.owner)))
  /\ UNCHANGED <<service, job, pointers, files, status, torn, faults>>

(* npm installed it beside the others, and it started up there.            *)
Fetched(o) ==
  /\ pc[o] = "fetching"
  /\ pc' = [pc EXCEPT ![o] = IF Want(o) \in releases THEN "replacing" ELSE "publishing"]
  /\ Reports(o, "working")
  /\ UNCHANGED <<service, job, lock, pointers, files, history, faults>>

RemoveOld(o) ==
  /\ pc[o] = "replacing" /\ pc' = [pc EXCEPT ![o] = "publishing"]
  /\ releases' = releases \ {Want(o)}
  /\ UNCHANGED <<service, job, lock, pointers, signed, status, history, faults>>

Publish(o) ==
  /\ pc[o] = "publishing" /\ pc' = [pc EXCEPT ![o] = "keeping"]
  /\ releases' = releases \cup {Want(o)}
  /\ signed' = IF Kind(o) = "update" THEN signed \cup {Want(o)} ELSE signed \ {Want(o)}
  /\ Reports(o, "working")
  /\ UNCHANGED <<service, job, lock, pointers, history, faults>>

Verified(o) ==
  /\ pc[o] = "verifying" /\ Want(o) \in releases
  /\ pc' = [pc EXCEPT ![o] = "keeping"]
  /\ Reports(o, "working")
  /\ UNCHANGED <<service, job, lock, pointers, files, history, faults>>

KeepPreviousMutant(o) ==   \* the pointer is turned back to where it already was
  /\ pc[o] = "keeping" /\ pc' = [pc EXCEPT ![o] = "switching"]
  /\ job' = [job EXCEPT ![o].was = ActiveVersion]
  /\ previous' = IF previous = 0 THEN ActiveVersion ELSE previous
  /\ UNCHANGED <<service, lock, current, files, status, history, faults>>

KeepPrevious(o) ==
  /\ pc[o] = "keeping" /\ pc' = [pc EXCEPT ![o] = "switching"]
  /\ job' = [job EXCEPT ![o].was = ActiveVersion]
  /\ previous' = IF ActiveVersion \notin {0, Want(o)} THEN ActiveVersion ELSE previous
  /\ UNCHANGED <<service, lock, current, files, status, history, faults>>

Switch(o) ==
  /\ pc[o] = "switching" /\ Want(o) \in releases
  /\ pc' = [pc EXCEPT ![o] = IF Kind(o) = "cli" THEN "finishing" ELSE "restarting"]
  /\ current' = Want(o)
  /\ Reports(o, "restarting")
  /\ UNCHANGED <<service, job, lock, previous, files, history, faults>>

FinishMutant(o) ==   \* done is reported without waiting for the restart
  /\ pc[o] \in {"restarting", "finishing"} /\ pc' = [pc EXCEPT ![o] = "cleaning"]
  /\ Reports(o, "done")
  /\ UNCHANGED <<service, job, lock, pointers, files, history, faults>>

Finish(o) ==
  /\ pc[o] = "finishing" /\ pc' = [pc EXCEPT ![o] = "cleaning"]
  /\ Reports(o, "done")
  /\ UNCHANGED <<service, job, lock, pointers, files, history, faults>>

KeptMutant(o) == {job[o].from}   \* what was just installed is not spared

Kept(o) == {Want(o), job[o].from}

(* The releases nobody needs are removed, and then the lock file, whosever *)
(* it is.                                                                  *)
Clean(o) ==
  /\ pc[o] = "cleaning" /\ Ends(o, IF Kind(o) = "cli" THEN "enabling" ELSE "over")
  /\ releases' = releases \cap Kept(o) /\ lock' = NoLock
  /\ UNCHANGED <<service, pointers, signed, status, history, faults>>

(* An error at any point. After the switch the previous pointer is         *)
(* restored, if it leads anywhere.                                         *)
Restored == IF PreviousVersion # 0 THEN PreviousVersion ELSE current

Fails(o) ==
  /\ pc[o] \in Holding \ {"failed"}
  /\ pc' = [pc EXCEPT ![o] = "failed"]
  /\ current' = IF pc[o] \in {"restarting", "finishing", "cleaning"} THEN Restored ELSE current
  /\ Reports(o, "failed")
  /\ torn' = (torn \/ pc[o] = "publishing")
  /\ UNCHANGED <<service, job, lock, previous, files, broken, faults>>

Unlock(o) ==
  /\ pc[o] = "failed" /\ lock' = NoLock
  /\ Ends(o, Exited(o))
  /\ UNCHANGED <<service, pointers, files, status, history, faults>>

-----------------------------------------------------------------------------
(* The service.                                                            *)

Helper(o) == Kind(o) # "cli" /\ pc[o] \in Before \cup Holding

(* What ends with the server process. Under systemd its helpers do.        *)
Ended(o) == \/ pc[o] \in {"considering", "dying"}
            \/ manager = "systemd" /\ Helper(o)

ServerGone ==
  /\ running' = 0 /\ wedged' = FALSE
  /\ job' = [o \in Op |-> IF Ended(o) THEN NoJob
                         ELSE IF Helper(o) THEN [job[o] EXCEPT !.orphan = TRUE] ELSE job[o]]
  /\ torn' = (torn \/ \E o \in Op : Helper(o) /\ pc[o] = "publishing" /\ manager = "systemd")

(* restartService. Under systemd the helper does not see it return. A      *)
(* launchd service that was taken out and cannot be put in again is gone.  *)
Restart(o) ==
  /\ pc[o] = "restarting" /\ ServerGone
  /\ IF manager = "systemd" THEN loaded' = loaded ELSE loaded' \in BOOLEAN
  /\ pc' = [p \in Op |-> IF Ended(p) THEN "over" ELSE IF p # o THEN pc[p]
                         ELSE IF loaded' THEN "finishing" ELSE "failed"]
  /\ IF loaded' THEN UNCHANGED <<current, status>>
     ELSE current' = Restored /\ Reports(o, "failed")
  /\ UNCHANGED <<manager, lock, previous, files, broken, faults>>

(* The end of `roamcode install`: systemctl enable --now starts a service  *)
(* that is down, launchd's restarts it.                                    *)
Enable(o) ==
  /\ pc[o] = "enabling" /\ loaded' = TRUE
  /\ IF manager = "launchd"
     THEN ServerGone /\ pc' = [p \in Op |-> IF p = o \/ Ended(p) THEN "over" ELSE pc[p]]
     ELSE pc' = [pc EXCEPT ![o] = "over"] /\ UNCHANGED <<running, wedged, job, torn>>
  /\ UNCHANGED <<manager, lock, pointers, files, status, broken, faults>>

(* The launcher follows `current`; the new server closes a status whose    *)
(* restart it is.                                                          *)
Boot ==
  /\ running = 0 /\ loaded /\ ActiveVersion # 0
  /\ running' = ActiveVersion
  /\ status' = IF status.state = "restarting" /\ status.target = ActiveVersion
               THEN [status EXCEPT !.state = "done", !.overdue = FALSE] ELSE status
  /\ UNCHANGED <<manager, loaded, wedged, pc, job, lock, pointers, files, history, faults>>

(* Enough probes of a stuck server have failed in a row.                   *)
WatchdogKills ==
  /\ wedged
  /\ ServerGone /\ pc' = [o \in Op |-> IF Ended(o) THEN "over" ELSE pc[o]]
  /\ UNCHANGED <<manager, loaded, lock, pointers, files, status,
                 broken, faults>>

-----------------------------------------------------------------------------
(* Time and faults.                                                        *)

StatusOverdue ==
  /\ InProgress(status) /\ status' = [status EXCEPT !.overdue = TRUE]
  /\ UNCHANGED <<service, pc, job, lock, pointers, files, history, faults>>

Fault == faults < MaxFaults /\ faults' = faults + 1

(* The lock grows half an hour old: left behind, or, which is a fault, its *)
(* helper is suspended or its npm stuck for that long.                     *)
LockAges ==
  /\ lock # NoLock /\ lock' = [lock EXCEPT !.old = TRUE]
  /\ IF Live(lock.owner) THEN Fault ELSE UNCHANGED faults
  /\ UNCHANGED <<service, pc, job, pointers, files, status, history>>

Wedge ==
  /\ Fault /\ HasServer /\ wedged' = TRUE
  /\ UNCHANGED <<manager, loaded, running, pc, job, lock, pointers, files, status, history>>

Recover ==
  /\ wedged /\ wedged' = FALSE
  /\ UNCHANGED <<manager, loaded, running, pc, job, lock, pointers, files, status,
                 history, faults>>

ServerCrash ==
  /\ Fault /\ running # 0
  /\ ServerGone /\ pc' = [o \in Op |-> IF Ended(o) THEN "over" ELSE pc[o]]
  /\ UNCHANGED <<manager, loaded, lock, pointers, files, status, broken>>

HelperKilled(o) ==
  /\ Fault /\ pc[o] \in Before \cup Holding
  /\ Ends(o, Exited(o))
  /\ torn' = (torn \/ pc[o] = "publishing")
  /\ UNCHANGED <<service, lock, pointers, files, status, broken>>

-----------------------------------------------------------------------------
OpStep(o) ==
  \/ \E k \in Kinds, v \in Version : Request(o, k, v)
  \/ \E v \in Version : InstallByHand(o, v)
  \/ Considered(o) \/ ChildExit(o)
  \/ Begin(o) \/ TakeLock(o) \/ LockBusy(o) \/ RemoveStale(o)
  \/ Fetched(o) \/ RemoveOld(o) \/ Publish(o) \/ Verified(o)
  \/ KeepPrevious(o) \/ Switch(o) \/ Finish(o) \/ Clean(o) \/ Fails(o) \/ Unlock(o)
  \/ Restart(o) \/ Enable(o) \/ HelperKilled(o)

Next ==
  \/ \E o \in Op : OpStep(o)
  \/ ReadStatus \/ Boot \/ WatchdogKills
  \/ StatusOverdue \/ LockAges \/ Wedge \/ Recover \/ ServerCrash

Spec == Init /\ [][Next]_vars

(* Somebody asks for the status now and then, time passes, the watchdog    *)
(* probes and the service manager restarts what has exited. Helpers, npm   *)
(* and users owe nothing.                                                  *)
Fairness ==
  /\ WF_vars(ReadStatus) /\ WF_vars(StatusOverdue) /\ WF_vars(Boot)
  /\ WF_vars(WatchdogKills)

FairSpec == Spec /\ Fairness

-----------------------------------------------------------------------------
(* Properties.                                                             *)

(* At most one helper works on the files, and the lock is its own: the     *)
(* lock excludes unless that of a helper still at work grew half an hour   *)
(* old, or two helpers found the same stale lock, and it was removed.      *)
OneInstaller ==
  ~broken => \A o \in Op : Live(o) => lock.owner = o /\ \A p \in Op : Live(p) => p = o

(* The service manager can start a server at any moment: `current` leads   *)
(* to an installed release, through every interleaving of updates,         *)
(* rollbacks, failures and clean-ups. The exception is a release replaced  *)
(* by another of the same version.                                         *)
CurrentBoots ==
  ~broken /\ ~torn =>
    current \in releases \/ \E o \in Op : pc[o] = "publishing" /\ Want(o) = current

(* A failure after the switch does not leave the new release active: what  *)
(* `current` led to before is active again. Where that was the version     *)
(* being installed, the failure path cannot tell, and what is active is    *)
(* that version or the one that `previous` remembers from before it. (If   *)
(* `current` led nowhere there is nothing to return to.)                   *)
Undone(o) == IF job[o].was # Want(o) THEN current = job[o].was
             ELSE current \in {job[o].was, previous}

FailureRestores ==
  ~broken => \A o \in Op : pc[o] = "failed" /\ job[o].was # 0 => Undone(o)

(* An update reported as done is active, and runs as soon as a server runs.*)
DoneIsRunning ==
  [][status'.state = "done" /\ status.state # "done" /\ ~broken'
       => current' = status'.target /\ running' \in {0, status'.target}]_vars

(* No client is left with "Starting...": an operation's status ends, or    *)
(* another's replaces it, whoever is killed on the way, unless the service *)
(* itself cannot be started any more.                                      *)
StatusSettles ==
  \A o \in Op :
    status.op = o /\ InProgress(status)
      ~> status.op # o \/ ~InProgress(status) \/ ~loaded \/ ActiveVersion = 0
=============================================================================
