---------------------------- MODULE Idempotency ----------------------------
(***************************************************************************)
(* Requests that carry one Idempotency-Key: the hooks around every         *)
(* mutation of the API in packages/server/src/transport.ts and the records *)
(* they keep (idempotency-store.ts).                                       *)
(*                                                                         *)
(* A client that got no answer sends its request again, possibly while the *)
(* first is still running, or to a server that was restarted since. A      *)
(* request is a copy of it, or another request under the same key; what it *)
(* does, and what it answers, is named by the copy that ran.               *)
(***************************************************************************)
EXTENDS Naturals, FiniteSets

CONSTANTS
  Request,
  Operation,   \* what is asked: method, path and body
  None,
  MaxCrashes,
  MaxFaults    \* bound on records that are not kept

ASSUME BoundsAssumption == MaxCrashes \in Nat /\ MaxFaults \in Nat

ASSUME RequestAssumption == IsFiniteSet(Request) /\ None \notin Request

VARIABLES
  serving, crashes, faults,
  fingerprint,  \* of each request
  at,           \* where it is
  answer,       \* the copy whose answer it was given
  reserved,     \* the leader in inFlightIdempotency
  record,       \* the copy whose answer the store has
  ran,          \* history: the copies that were carried out
  excuses       \* history: answers that were not kept, or no longer

server == <<serving, crashes, faults>>
keyVars == <<server, fingerprint, at, answer, reserved, record, ran, excuses>>

KeyInit ==
  /\ serving = TRUE /\ crashes = 0 /\ faults = 0
  /\ fingerprint \in [Request -> Operation]
  /\ at = [r \in Request |-> "new"] /\ answer = [r \in Request |-> None]
  /\ reserved = None /\ record = None /\ ran = {} /\ excuses = 0

Places == {"new", "leads", "follows", "done", "answered", "conflict", "lost"}

KeyTypeOK ==
  /\ serving \in BOOLEAN /\ crashes \in 0 .. MaxCrashes /\ faults \in 0 .. MaxFaults
  /\ fingerprint \in [Request -> Operation] /\ at \in [Request -> Places]
  /\ answer \in [Request -> Request \cup {None}]
  /\ reserved \in Request \cup {None} /\ record \in Request \cup {None}
  /\ ran \subseteq Request /\ excuses \in Nat

Goes(r, place) == at' = [at EXCEPT ![r] = place]

-----------------------------------------------------------------------------
(* The preHandler hook.                                                    *)
Same(r, other) == fingerprint[r] = fingerprint[other]

Replays(r) ==
  IF Same(r, record) THEN Goes(r, "answered") /\ answer' = [answer EXCEPT ![r] = record]
  ELSE Goes(r, "conflict") /\ UNCHANGED answer

JoinsMutant(r) ==   \* whoever leads is not looked for
  Goes(r, "leads") /\ reserved' = r

Joins(r) ==
  IF reserved = None THEN Goes(r, "leads") /\ reserved' = r
  ELSE Goes(r, IF Same(r, reserved) THEN "follows" ELSE "conflict") /\ UNCHANGED reserved

Arrives(r) ==
  /\ serving /\ at[r] = "new"
  /\ \/ record # None /\ Replays(r) /\ UNCHANGED reserved
     \/ record = None /\ Joins(r) /\ UNCHANGED answer
  /\ UNCHANGED <<server, fingerprint, record, ran, excuses>>

(* The handler has done what it was asked.                                 *)
Runs(r) ==
  /\ at[r] = "leads" /\ Goes(r, "done") /\ ran' = ran \cup {r}
  /\ UNCHANGED <<server, fingerprint, answer, reserved, record, excuses>>

(* The onSend hook: the answer is kept, unless it is too large or the      *)
(* store fails, and given to those who wait for it.                        *)
Keeps(r) ==
  \/ record' = (IF record = None THEN r ELSE record) /\ UNCHANGED <<faults, excuses>>
  \/ /\ faults < MaxFaults /\ faults' = faults + 1 /\ excuses' = excuses + 1
     /\ UNCHANGED record

Followers(r) == IF reserved = r THEN {f \in Request : at[f] = "follows"} ELSE {}

OnSend(r) ==
  /\ at[r] = "done" /\ Keeps(r)
  /\ at' = [f \in Request |-> IF f \in Followers(r) \cup {r} THEN "answered" ELSE at[f]]
  /\ answer' = [f \in Request |-> IF f \in Followers(r) \cup {r} THEN r ELSE answer[f]]
  /\ reserved' = IF reserved = r THEN None ELSE reserved
  /\ UNCHANGED <<serving, crashes, fingerprint, ran>>

(* A record is kept for a day.                                             *)
Expires ==
  /\ serving /\ record # None /\ record' = None
  /\ faults < MaxFaults /\ faults' = faults + 1 /\ excuses' = excuses + 1
  /\ UNCHANGED <<serving, crashes, fingerprint, at, answer, reserved, ran>>

(* What was done without being answered is not known to the next server.   *)
Crash ==
  /\ serving /\ serving' = FALSE /\ crashes < MaxCrashes /\ crashes' = crashes + 1
  /\ at' = [r \in Request |-> IF at[r] \in {"leads", "done", "follows"} THEN "lost" ELSE at[r]]
  /\ reserved' = None
  /\ excuses' = excuses + Cardinality({r \in Request : at[r] = "done"})
  /\ UNCHANGED <<faults, fingerprint, answer, record, ran>>

Restart ==
  /\ ~serving /\ serving' = TRUE
  /\ UNCHANGED <<crashes, faults, fingerprint, at, answer, reserved, record, ran, excuses>>

KeyNext ==
  \/ \E r \in Request : Arrives(r) \/ Runs(r) \/ OnSend(r)
  \/ Expires \/ Crash \/ Restart

KeySpec == KeyInit /\ [][KeyNext]_keyVars

-----------------------------------------------------------------------------
(* Properties.                                                             *)

(* However often, whenever and to whichever server a request is sent, it   *)
(* is carried out once: again only for each answer that died with the      *)
(* server, could not be kept or was forgotten. All copies that get an      *)
(* answer get that of a copy that ran, of the same request.                *)
CarriedOutOnce ==
  /\ Cardinality(ran) <= 1 + excuses
  /\ \A r \in Request : at[r] = "answered" => answer[r] \in ran /\ Same(r, answer[r])
=============================================================================
