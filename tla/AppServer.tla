----------------------------- MODULE AppServer -----------------------------
(***************************************************************************)
(* The client of the Codex app-server, a child process that answers        *)
(* questions about accounts, models and threads: CodexAppServerClient in   *)
(* packages/server/src/providers/codex-app-server-client.ts, and its user  *)
(* codexRpc in start.ts, which starts it whenever it asks something.       *)
(*                                                                         *)
(* Each child belongs to a generation. Its process, its pipes, the timers  *)
(* and the promises of its callers are all asynchronous: a step is what    *)
(* the client does on one event, or what one promise's continuation does.  *)
(* A frame counts as handed over when stdin.write is called, and as        *)
(* written when its callback and, if asked for, the drain event have come. *)
(***************************************************************************)
EXTENDS Naturals, Sequences

CONSTANTS
  MaxCalls,   \* calls are 1 .. MaxCalls; each starts one child at most
  MaxStops    \* bound on calls of stop

ASSUME BoundsAssumption == MaxCalls \in Nat \ {0} /\ MaxStops \in Nat

Call == 1 .. MaxCalls
Gen  == 1 .. MaxCalls

(* Frames: the first request, the notification after it, and the calls.    *)
Initialize    == 0
IsInitialized == MaxCalls + 1
Requests == {Initialize} \cup Call
Frames   == Requests \cup {IsInitialized}

VARIABLES
  active,        \* the generation in use, 0 for undefined
  next,          \* nextGeneration
  startPromise,  \* the generation whose start callers share, 0 for undefined
  stopPromise,   \* there is one
  phase,         \* of each generation; "closed" whatever it was before
  pending,       \* requests without a response
  queue,         \* frames not written; the first has been handed over
  inbox,         \* frames the child was handed
  served,        \* requests the child has answered
  child,         \* its process
  call,          \* where each caller is
  via,           \* the generation it waits for, or sent its request to
  stops

promises == <<active, next, startPromise, stopPromise, stops>>
pipes    == <<pending, queue, inbox>>
callers  == <<call, via>>
vars == <<promises, phase, pipes, served, child, callers>>

Waiting == {"stopping", "starting", "started"}

TypeOK ==
  /\ active \in {0} \cup Gen /\ next \in 1 .. MaxCalls + 1
  /\ startPromise \in {0} \cup Gen /\ stopPromise \in BOOLEAN /\ stops \in 0 .. MaxStops
  /\ phase \in [Gen -> {"none", "starting", "running", "closed"}]
  /\ pending \in [Gen -> SUBSET Requests] /\ served \in [Gen -> SUBSET Requests]
  /\ queue \in [Gen -> Seq(Frames)] /\ inbox \in [Gen -> Seq(Frames)]
  /\ child \in [Gen -> {"none", "alive", "gone"}]
  /\ call \in [Call -> {"idle", "sent", "answered", "failed"} \cup Waiting]
  /\ via \in [Call -> {0} \cup Gen]

Init ==
  /\ active = 0 /\ next = 1 /\ startPromise = 0 /\ stopPromise = FALSE /\ stops = 0
  /\ phase = [g \in Gen |-> "none"]
  /\ pending = [g \in Gen |-> {}] /\ served = [g \in Gen |-> {}]
  /\ queue = [g \in Gen |-> << >>] /\ inbox = [g \in Gen |-> << >>]
  /\ child = [g \in Gen |-> "none"]
  /\ call = [c \in Call |-> "idle"] /\ via = [c \in Call |-> 0]

Closed(g) == phase[g] = "closed"
InQueue(g, f) == \E i \in DOMAIN queue[g] : queue[g][i] = f
Handed(g, f)  == \E i \in DOMAIN inbox[g] : inbox[g][i] = f

-----------------------------------------------------------------------------
(* failGeneration: whoever waits for generation g is rejected, its child   *)
(* killed unless it has exited by itself, and its pipes given up.          *)
FailedMutant(g) ==   \* what is pending is dropped, not rejected
  /\ phase' = [phase EXCEPT ![g] = "closed"]
  /\ pending' = [pending EXCEPT ![g] = {}] /\ queue' = [queue EXCEPT ![g] = << >>]
  /\ inbox' = [inbox EXCEPT ![g] = << >>] /\ served' = [served EXCEPT ![g] = {}]
  /\ active' = IF active = g THEN 0 ELSE active
  /\ startPromise' = IF active = g THEN 0 ELSE startPromise
  /\ UNCHANGED callers

Failed(g) ==
  /\ phase' = [phase EXCEPT ![g] = "closed"]
  /\ pending' = [pending EXCEPT ![g] = {}] /\ queue' = [queue EXCEPT ![g] = << >>]
  /\ inbox' = [inbox EXCEPT ![g] = << >>] /\ served' = [served EXCEPT ![g] = {}]
  /\ active' = IF active = g THEN 0 ELSE active
  /\ startPromise' = IF active = g THEN 0 ELSE startPromise
  /\ call' = [c \in Call |-> IF call[c] = "sent" /\ via[c] = g THEN "failed" ELSE call[c]]
  /\ UNCHANGED via

Fails(g) ==
  /\ ~Closed(g) /\ Failed(g)
  /\ child' = [child EXCEPT ![g] = IF @ = "alive" THEN "gone" ELSE @]

(* writeFrame and flushWrites: a frame is handed over once those before it *)
(* are written.                                                            *)
Push(g, f) ==
  /\ queue' = [queue EXCEPT ![g] = Append(@, f)]
  /\ inbox' = [inbox EXCEPT ![g] = IF queue[g] = << >> THEN Append(@, f) ELSE @]

-----------------------------------------------------------------------------
(* start, for the call c. The child may not spawn; the first write to it   *)
(* may throw, which fails the generation before its promise is shared.     *)
Spawn(c) ==
  /\ next \in Gen /\ next' = next + 1
  /\ startPromise' = next
  /\ call' = [call EXCEPT ![c] = "starting"] /\ via' = [via EXCEPT ![c] = next]
  /\ \/ /\ active' = next /\ phase' = [phase EXCEPT ![next] = "starting"]
        /\ pending' = [pending EXCEPT ![next] = {Initialize}]
        /\ queue' = [queue EXCEPT ![next] = <<Initialize>>]
        /\ inbox' = [inbox EXCEPT ![next] = <<Initialize>>]
        /\ child' = [child EXCEPT ![next] = "alive"]
     \/ /\ active' = 0 /\ phase' = [phase EXCEPT ![next] = "closed"]
        /\ child' = [child EXCEPT ![next] = "gone"] /\ UNCHANGED pipes
  /\ UNCHANGED <<stopPromise, stops, served>>

(* A promise of generation g, if there is one to share.                    *)
SharedMutant == {}   \* each caller starts its own

Shared == {startPromise} \ {0}

Waits(c, state, g) ==
  /\ call' = [call EXCEPT ![c] = state] /\ via' = [via EXCEPT ![c] = g]
  /\ UNCHANGED <<promises, phase, pipes, served, child>>

IsRunning == active # 0 /\ phase[active] = "running"

Start(c) ==
  \/ IsRunning /\ Waits(c, "started", 0)
  \/ ~IsRunning /\ \E g \in Shared : Waits(c, "starting", g)
  \/ ~IsRunning /\ Shared = {} /\ stopPromise /\ Waits(c, "stopping", 0)
  \/ ~IsRunning /\ Shared = {} /\ ~stopPromise /\ (Spawn(c) \/ Waits(c, "failed", 0))

(* codexRpc.request: start, and then, with everything that happened in the *)
(* meantime, request.                                                      *)
Ask(c) == call[c] = "idle" /\ Start(c)

(* What was waiting for a stop starts anew.                                *)
Restart(c) == call[c] = "stopping" /\ ~stopPromise /\ Start(c)

Request(c) ==
  /\ call[c] = "started"
  /\ IF IsRunning
     THEN /\ Push(active, c) /\ pending' = [pending EXCEPT ![active] = @ \cup {c}]
          /\ call' = [call EXCEPT ![c] = "sent"] /\ via' = [via EXCEPT ![c] = active]
     ELSE call' = [call EXCEPT ![c] = "failed"] /\ UNCHANGED <<pipes, via>>
  /\ UNCHANGED <<promises, phase, served, child>>

-----------------------------------------------------------------------------
(* The continuations of a start. Once the child has been initialized, it   *)
(* is told so, and only then asked anything.                               *)
Initialized(g) ==
  /\ phase[g] = "starting" /\ ~Handed(g, IsInitialized) /\ ~InQueue(g, IsInitialized)
  /\ Initialize \notin pending[g] /\ ~InQueue(g, Initialize)
  /\ Push(g, IsInitialized)
  /\ UNCHANGED <<promises, phase, pending, served, child, callers>>

RunsMutant(g) ==   \* without waiting for the frame to be written
  /\ phase[g] = "starting" /\ Initialize \notin pending[g]
  /\ phase' = [phase EXCEPT ![g] = "running"]
  /\ UNCHANGED <<promises, pipes, served, child, callers>>

Runs(g) ==
  /\ phase[g] = "starting" /\ Handed(g, IsInitialized) /\ ~InQueue(g, IsInitialized)
  /\ phase' = [phase EXCEPT ![g] = "running"]
  /\ UNCHANGED <<promises, pipes, served, child, callers>>

(* The promise of a start is settled: it is no longer shared, and those    *)
(* who awaited it go on.                                                   *)
StartSettles(g) ==
  /\ phase[g] \in {"running", "closed"}
  /\ startPromise = g \/ \E c \in Call : call[c] = "starting" /\ via[c] = g
  /\ startPromise' = IF startPromise = g THEN 0 ELSE startPromise
  /\ call' = [c \in Call |-> IF call[c] = "starting" /\ via[c] = g
                             THEN IF Closed(g) THEN "failed" ELSE "started" ELSE call[c]]
  /\ UNCHANGED <<active, next, stopPromise, stops, phase, pipes, served, child, via>>

(* stop. Its promise lasts until the continuations of this step have run.  *)
Stop ==
  /\ ~stopPromise /\ stops < MaxStops /\ stops' = stops + 1 /\ stopPromise' = TRUE
  /\ IF active # 0 THEN Fails(active)
     ELSE UNCHANGED <<active, startPromise, phase, pipes, served, child, callers>>
  /\ UNCHANGED next

StopSettles ==
  /\ stopPromise /\ stopPromise' = FALSE
  /\ UNCHANGED <<active, next, startPromise, stops, phase, pipes, served, child, callers>>

-----------------------------------------------------------------------------
(* Events of the pipes.                                                    *)

(* A frame is written, and the next one is handed over.                    *)
Written(g) ==
  /\ ~Closed(g) /\ queue[g] # << >>
  /\ queue' = [queue EXCEPT ![g] = Tail(@)]
  /\ inbox' = [inbox EXCEPT ![g] = IF Len(queue[g]) > 1 THEN Append(@, queue[g][2]) ELSE @]
  /\ call' = [c \in Call |-> IF Head(queue[g]) = c /\ c \notin pending[g] /\ call[c] = "sent"
                             THEN "answered" ELSE call[c]]
  /\ UNCHANGED <<promises, phase, pending, served, child, via>>

(* A response: a result, or an error, or a result of the wrong form. A     *)
(* call whose frame still counts as unwritten is answered when it is not.  *)
OnResponse(g, r) ==
  /\ ~Closed(g) /\ active = g /\ r \in pending[g] /\ r \in served[g]
  /\ \/ /\ pending' = [pending EXCEPT ![g] = @ \ {r}]
        /\ call' = [c \in Call |-> IF c = r /\ ~InQueue(g, r) THEN "answered" ELSE call[c]]
        /\ UNCHANGED <<promises, phase, queue, inbox, served, child, via>>
     \/ /\ r \in Call /\ pending' = [pending EXCEPT ![g] = @ \ {r}]
        /\ call' = [call EXCEPT ![r] = "failed"]
        /\ UNCHANGED <<promises, phase, queue, inbox, served, child, via>>
     \/ /\ r = Initialize /\ Fails(g)
        /\ UNCHANGED <<next, stopPromise, stops>>

(* Its timer fires for a request that has no response, or a frame that is  *)
(* not written; or a pipe fails, or brings something that is no message.   *)
TimeoutMutant(g) ==   \* only requests are timed
  /\ pending[g] # {} /\ Fails(g)
  /\ UNCHANGED <<next, stopPromise, stops>>

Timeout(g) ==
  /\ pending[g] # {} \/ queue[g] # << >>
  /\ Fails(g) /\ UNCHANGED <<next, stopPromise, stops>>

Breaks(g) ==
  /\ phase[g] # "none"
  /\ Fails(g) /\ UNCHANGED <<next, stopPromise, stops>>

(* The child.                                                              *)
Serves(g, r) ==
  /\ child[g] = "alive" /\ Handed(g, r) /\ r \notin served[g]
  /\ served' = [served EXCEPT ![g] = @ \cup {r}]
  /\ UNCHANGED <<promises, phase, pipes, child, callers>>

Exits(g) ==
  /\ child[g] = "alive" /\ child' = [child EXCEPT ![g] = "gone"]
  /\ UNCHANGED <<promises, phase, pipes, served, callers>>

-----------------------------------------------------------------------------
GenStep(g) ==
  \/ Initialized(g) \/ Runs(g) \/ StartSettles(g) \/ Written(g)
  \/ \E r \in Requests : OnResponse(g, r) \/ Serves(g, r)
  \/ Timeout(g) \/ Breaks(g) \/ Exits(g)

Next ==
  \/ \E c \in Call : Ask(c) \/ Restart(c) \/ Request(c)
  \/ \E g \in Gen : GenStep(g)
  \/ Stop \/ StopSettles

Spec == Init /\ [][Next]_vars

(* Continuations run and timers fire. The child and its pipes owe nothing. *)
Fairness ==
  /\ WF_vars(StopSettles)
  /\ \A c \in Call : WF_vars(Restart(c)) /\ WF_vars(Request(c))
  /\ \A g \in Gen : WF_vars(Initialized(g)) /\ WF_vars(Runs(g)) /\ WF_vars(StartSettles(g))
                      /\ WF_vars(Timeout(g))

FairSpec == Spec /\ Fairness

-----------------------------------------------------------------------------
(* Properties.                                                             *)

(* A child that lives is the one in use: none is left behind by a start    *)
(* that raced another, a stop, or a failure.                               *)
NoOrphan == \A g \in Gen : child[g] = "alive" => active = g

(* No child is asked anything before it has answered `initialize` and was  *)
(* told that it is initialized.                                            *)
HandshakeFirst ==
  \A g \in Gen : \A i \in DOMAIN inbox[g] :
    inbox[g][i] \in Call => /\ i > 2 /\ inbox[g][1] = Initialize /\ inbox[g][2] = IsInitialized
                            /\ Initialize \in served[g]

(* To its callers it is RpcCalls: a call is settled once, and a generation *)
(* that fails settles all of its calls in the same step.                   *)
SeenBy(c) == IF call[c] \in Waiting THEN "waiting" ELSE call[c]

Promise == INSTANCE RpcCalls WITH
             Call <- Call, up <- IsRunning, call <- [c \in Call |-> SeenBy(c)]

CallsKept == Promise!Spec

(* Every call is answered or fails, whatever the child does or does not do.*)
CallSettles == \A c \in Call : call[c] # "idle" ~> call[c] \in {"answered", "failed"}
=============================================================================
