--------------------------- MODULE AppServer_proofs ---------------------------
(***************************************************************************)
(* For any number of calls and of stops: the safety of AppServer, and that *)
(* it implements RpcCalls.                                                 *)
(*                                                                         *)
(* The inductive invariant follows a generation through its life. It is    *)
(* the one in use from its spawn until it fails (Lives); the frames of its *)
(* handshake are the first it is handed, in their order (Shakes); and the  *)
(* calls that wait for a response are those of the generation in use, and  *)
(* only once that one runs (Sends).                                        *)
(***************************************************************************)
EXTENDS AppServer, SequenceTheorems, TLAPS

InUse(g) == phase[g] \in {"starting", "running"}

(* There is one generation in use at most, and while it starts its promise *)
(* is there to share; those to come have not begun.                        *)
Lives ==
  /\ active # 0 => InUse(active)
  /\ \A g \in Gen : /\ InUse(g) => active = g
                    /\ phase[g] = "starting" => startPromise = g
                    /\ child[g] = "alive" => InUse(g)
                    /\ g >= next => phase[g] = "none" /\ child[g] = "none"

Shaken(g) == Len(inbox[g]) >= 2 /\ inbox[g][1] = Initialize /\ inbox[g][2] = IsInitialized

Shakes ==
  \A g \in Gen :
    /\ ~InUse(g) => inbox[g] = << >> /\ queue[g] = << >> /\ pending[g] = {}
    /\ phase[g] = "starting" =>
         \/ inbox[g] = <<Initialize>> /\ queue[g] \in {<<Initialize>>, << >>}
         \/ inbox[g] = <<Initialize, IsInitialized>> /\ queue[g] \in {<<IsInitialized>>, << >>}
            /\ Initialize \notin pending[g]
    /\ phase[g] = "running" => Shaken(g) /\ Initialize \notin pending[g]
    /\ InUse(g) /\ Initialize \notin pending[g] => Initialize \in served[g]

Sends ==
  /\ \A c \in Call : call[c] = "sent" => IsRunning /\ via[c] = active
  /\ \A g \in Gen : \A c \in Call : c \in pending[g] => call[c] = "sent" /\ via[c] = g

Inv == TypeOK /\ Lives /\ Shakes /\ Sends

LEMMA Numbers ==
  /\ Gen \subseteq Nat /\ Call \subseteq Nat /\ 0 \notin Gen /\ 0 \notin Call
  /\ Initialize \notin Call /\ IsInitialized \notin Call /\ Initialize # IsInitialized
  /\ Call \subseteq Frames /\ Initialize \in Requests /\ Call \subseteq Requests
  /\ Initialize \in Frames /\ IsInitialized \in Frames /\ Call = Gen
  /\ Requests \subseteq Frames
BY BoundsAssumption DEF Gen, Call, Initialize, IsInitialized, Frames, Requests

LEMMA InitInv == Init => Inv
<1> SUFFICES ASSUME Init PROVE Inv
  OBVIOUS
<1> USE Numbers DEF Init
<1>1. TypeOK
  <2>1. next \in 1 .. MaxCalls + 1 /\ stops \in 0 .. MaxStops
    BY BoundsAssumption
  <2>2. << >> \in Seq(Frames)
    OBVIOUS
  <2>3. QED
    BY <2>1, <2>2 DEF TypeOK, Waiting
<1>2. Lives /\ Shakes /\ Sends
  BY DEF Lives, Shakes, Sends, InUse
<1>3. QED
  BY <1>1, <1>2 DEF Inv

-----------------------------------------------------------------------------
(* A generation that fails takes its calls with it.                        *)
LEMMA FailsKeeps ==
  ASSUME Inv, NEW g \in Gen, Fails(g), phase[g] # "none",
         next' = next, stopPromise' \in BOOLEAN, stops' \in 0 .. MaxStops
  PROVE  Inv'
<1> USE Numbers DEF Inv, Fails, Failed, Closed
<1>1. TypeOK'
  <2>1. /\ active' \in {0} \cup Gen /\ startPromise' \in {0} \cup Gen
        /\ next' \in 1 .. MaxCalls + 1
    BY DEF TypeOK
  <2>2. /\ phase' \in [Gen -> {"none", "starting", "running", "closed"}]
        /\ child' \in [Gen -> {"none", "alive", "gone"}]
    BY DEF TypeOK
  <2>3. pending' \in [Gen -> SUBSET Requests] /\ served' \in [Gen -> SUBSET Requests]
    BY DEF TypeOK
  <2>4. queue' \in [Gen -> Seq(Frames)] /\ inbox' \in [Gen -> Seq(Frames)]
    <3>1. << >> \in Seq(Frames)
      OBVIOUS
    <3>2. QED
      BY <3>1 DEF TypeOK
  <2>5. call' \in [Call -> {"idle", "sent", "answered", "failed"} \cup Waiting]
    BY DEF TypeOK
  <2>6. via' \in [Call -> {0} \cup Gen]
    BY DEF TypeOK
  <2>7. QED
    BY <2>1, <2>2, <2>3, <2>4, <2>5, <2>6 DEF TypeOK
<1>2. \A h \in Gen : h # g => /\ phase'[h] = phase[h] /\ pending'[h] = pending[h]
                              /\ queue'[h] = queue[h] /\ inbox'[h] = inbox[h]
                              /\ served'[h] = served[h] /\ child'[h] = child[h]
  BY DEF TypeOK
<1>3. /\ phase'[g] = "closed" /\ pending'[g] = {} /\ inbox'[g] = << >> /\ queue'[g] = << >>
      /\ child'[g] # "alive"
  BY DEF TypeOK
<1>4. Lives'
  BY <1>2, <1>3 DEF Lives, InUse, TypeOK
<1>5. Shakes'
  BY <1>2, <1>3 DEF Shakes, Shaken, InUse
<1>6. Sends'
  <2>1. \A c \in Call : call'[c] = "sent" => call[c] = "sent" /\ via[c] # g /\ via'[c] = via[c]
    BY DEF TypeOK
  <2>2. \A c \in Call : call'[c] = "sent" => active # g /\ active' = active /\ IsRunning /\ via[c] = active
    BY <2>1 DEF Sends
  <2>3. \A c \in Call : call'[c] = "sent" => IsRunning' /\ via'[c] = active'
    BY <2>1, <2>2, <1>2 DEF IsRunning, TypeOK
  <2>4. \A h \in Gen : \A c \in Call : c \in pending'[h] => call'[c] = "sent" /\ via'[c] = h
    BY <1>2, <1>3 DEF Sends, TypeOK
  <2>5. QED
    BY <2>3, <2>4 DEF Sends
<1>7. QED
  BY <1>1, <1>4, <1>5, <1>6

(* Pushing a frame lengthens the queue, and what the child was handed by   *)
(* no more than the frame.                                                 *)
LEMMA PushTypes ==
  ASSUME TypeOK, NEW g \in Gen, NEW f \in Frames, Push(g, f)
  PROVE  /\ queue' \in [Gen -> Seq(Frames)] /\ inbox' \in [Gen -> Seq(Frames)]
         /\ \A h \in Gen : h # g => queue'[h] = queue[h] /\ inbox'[h] = inbox[h]
         /\ inbox'[g] = IF queue[g] = << >> THEN Append(inbox[g], f) ELSE inbox[g]
         /\ queue'[g] = Append(queue[g], f)
BY DEF Push, TypeOK

LEMMA SeqUpdate ==
  ASSUME NEW q \in [Gen -> Seq(Frames)], NEW s \in Seq(Frames)
  PROVE  \A g \in Gen : [q EXCEPT ![g] = s] \in [Gen -> Seq(Frames)]
OBVIOUS

LEMMA AppendKeeps ==
  ASSUME NEW q \in Seq(Frames), NEW f \in Frames
  PROVE  /\ Len(Append(q, f)) = Len(q) + 1
         /\ \A i \in 1 .. Len(q) : Append(q, f)[i] = q[i]
         /\ Append(q, f)[Len(q) + 1] = f
OBVIOUS

LEMMA Appends ==
  ASSUME NEW e \in Frames, NEW f \in Frames
  PROVE  Append(<< >>, f) = <<f>> /\ Append(<<e>>, f) = <<e, f>>
<1>1. << >> \in Seq(Frames) /\ <<e>> \in Seq(Frames)
  OBVIOUS
<1>2. Append(<< >>, f) = <<f>>
  BY <1>1
<1>3. Append(<<e>>, f) = <<e, f>>
  <2>1. Append(<<e>>, f) \in Seq(Frames) /\ <<e, f>> \in Seq(Frames)
    BY <1>1, AppendProperties
  <2>2. Len(Append(<<e>>, f)) = 2 /\ Append(<<e>>, f)[1] = e /\ Append(<<e>>, f)[2] = f
    BY <1>1, AppendKeeps
  <2>3. \A i \in 1 .. 2 : Append(<<e>>, f)[i] = <<e, f>>[i]
    <3>1. \A i \in 1 .. 2 : i = 1 \/ i = 2
      OBVIOUS
    <3>2. QED
      BY <2>2, <3>1
  <2>4. QED
    BY <2>1, <2>2, <2>3, SeqEqual
<1>4. QED
  BY <1>2, <1>3

(* What a continuation of a caller does when it neither spawns nor sends.  *)
LEMMA WaitsKeeps ==
  ASSUME Inv, NEW c \in Call, call[c] \in {"idle", "stopping"},
         NEW s \in Waiting \cup {"failed"}, NEW g \in {0} \cup Gen, Waits(c, s, g)
  PROVE  Inv'
<1> USE Numbers DEF Inv, Waits, promises, pipes
<1>1. TypeOK'
  BY DEF TypeOK, Waiting
<1>2. Lives' /\ Shakes'
  BY DEF Lives, Shakes, InUse, Shaken
<1>3. Sends'
  <2>1. call[c] # "sent" /\ s # "sent"
    BY DEF Waiting
  <2>2. \A d \in Call : call'[d] = "sent" => d # c /\ call[d] = "sent" /\ via'[d] = via[d]
    BY <2>1 DEF TypeOK
  <2>3. \A d \in Call : call[d] = "sent" => call'[d] = "sent" /\ via'[d] = via[d]
    BY <2>1 DEF TypeOK
  <2>4. QED
    BY <2>2, <2>3 DEF Sends, IsRunning
<1>4. QED
  BY <1>1, <1>2, <1>3

LEMMA SpawnKeeps ==
  ASSUME Inv, NEW c \in Call, call[c] \in {"idle", "stopping"},
         ~IsRunning, Shared = {}, Spawn(c)
  PROVE  Inv'
<1> USE Numbers DEF Inv, Spawn, pipes
<1>1. active = 0 /\ startPromise = 0
  BY DEF Shared, TypeOK, Lives, InUse, IsRunning
<1>2. \A h \in Gen : ~InUse(h) /\ child[h] # "alive"
  BY <1>1 DEF Lives
<1>3. \A d \in Call : call[d] # "sent" /\ call'[d] # "sent"
  BY DEF Sends, TypeOK
<1>4. TypeOK'
  <2>1. next' \in 1 .. MaxCalls + 1 /\ startPromise' \in {0} \cup Gen /\ active' \in {0} \cup Gen
    <3>1. next \in Gen /\ next' = next + 1 /\ startPromise' = next
      OBVIOUS
    <3>2. next' \in 1 .. MaxCalls + 1
      BY <3>1, BoundsAssumption DEF Gen
    <3>3. active' \in {0, next}
      OBVIOUS
    <3>4. QED
      BY <3>1, <3>2, <3>3
  <2>2. call' \in [Call -> {"idle", "sent", "answered", "failed"} \cup Waiting]
    BY DEF TypeOK, Waiting
  <2>3. via' \in [Call -> {0} \cup Gen]
    BY DEF TypeOK
  <2>4. phase' \in [Gen -> {"none", "starting", "running", "closed"}]
        /\ child' \in [Gen -> {"none", "alive", "gone"}]
    BY DEF TypeOK
  <2>5. pending' \in [Gen -> SUBSET Requests] /\ served' \in [Gen -> SUBSET Requests]
    <3>1. pending' = pending \/ pending' = [pending EXCEPT ![next] = {Initialize}]
      BY Zenon
    <3>2. QED
      BY <3>1 DEF TypeOK
  <2>6. <<Initialize>> \in Seq(Frames)
    OBVIOUS
  <2>7. queue' \in [Gen -> Seq(Frames)] /\ inbox' \in [Gen -> Seq(Frames)]
    <3>1. queue' = queue \/ queue' = [queue EXCEPT ![next] = <<Initialize>>]
      BY Zenon
    <3>2. inbox' = inbox \/ inbox' = [inbox EXCEPT ![next] = <<Initialize>>]
      BY Zenon
    <3>3. /\ queue \in [Gen -> Seq(Frames)] /\ inbox \in [Gen -> Seq(Frames)]
          /\ next \in Gen
      BY DEF TypeOK
    <3>4. /\ [queue EXCEPT ![next] = <<Initialize>>] \in [Gen -> Seq(Frames)]
          /\ [inbox EXCEPT ![next] = <<Initialize>>] \in [Gen -> Seq(Frames)]
      BY <2>6, <3>3, SeqUpdate, Zenon
    <3>5. QED
      BY <3>1, <3>2, <3>3, <3>4, Zenon
  <2>8. stopPromise' \in BOOLEAN /\ stops' \in 0 .. MaxStops
    BY DEF TypeOK
  <2>9. QED
    BY <2>1, <2>2, <2>3, <2>4, <2>5, <2>7, <2>8 DEF TypeOK
<1>5. \A h \in Gen : h # next => /\ phase'[h] = phase[h] /\ pending'[h] = pending[h]
                                 /\ queue'[h] = queue[h] /\ inbox'[h] = inbox[h]
                                 /\ served'[h] = served[h] /\ child'[h] = child[h]
  BY DEF TypeOK
<1>6. \/ /\ active' = next /\ phase'[next] = "starting" /\ pending'[next] = {Initialize}
         /\ queue'[next] = <<Initialize>> /\ inbox'[next] = <<Initialize>>
      \/ /\ active' = 0 /\ phase'[next] = "closed" /\ child'[next] = "gone"
         /\ pending'[next] = {} /\ inbox'[next] = << >> /\ queue'[next] = << >>
  BY <1>2 DEF Shakes, TypeOK
<1>7. Lives'
  BY <1>2, <1>5, <1>6 DEF Lives, InUse, TypeOK
<1>8. Shakes'
  BY <1>2, <1>5, <1>6 DEF Shakes, InUse
<1>9. Sends'
  <2>1. \A h \in Gen : \A d \in Call : d \notin pending'[h]
    BY <1>2, <1>5, <1>6 DEF Shakes
  <2>2. QED
    BY <2>1, <1>3 DEF Sends
<1>10. QED
  BY <1>4, <1>7, <1>8, <1>9

LEMMA StartKeeps ==
  ASSUME Inv, NEW c \in Call, call[c] \in {"idle", "stopping"}, Start(c)
  PROVE  Inv'
<1>1. CASE Waits(c, "started", 0) \/ Waits(c, "stopping", 0) \/ Waits(c, "failed", 0)
  BY <1>1, WaitsKeeps DEF Waiting
<1>2. CASE \E g \in Shared : Waits(c, "starting", g)
  <2>1. Shared \subseteq {0} \cup Gen
    BY DEF Shared, Inv, TypeOK
  <2>2. QED
    BY <1>2, <2>1, WaitsKeeps DEF Waiting
<1>3. CASE ~IsRunning /\ Shared = {} /\ Spawn(c)
  BY <1>3, SpawnKeeps
<1>4. QED
  BY <1>1, <1>2, <1>3 DEF Start

LEMMA RequestKeeps == ASSUME Inv, NEW c \in Call, Request(c) PROVE Inv'
<1> USE Numbers DEF Inv, Request, promises
<1>1. CASE ~IsRunning
  <2>1. TypeOK'
    BY <1>1 DEF TypeOK, pipes
  <2>2. Lives' /\ Shakes'
    BY <1>1 DEF Lives, Shakes, InUse, Shaken, pipes
  <2>3. Sends'
    BY <1>1 DEF Sends, IsRunning, TypeOK, pipes
  <2>4. QED
    BY <2>1, <2>2, <2>3
<1>2. CASE IsRunning
  <2>1. active \in Gen /\ phase[active] = "running" /\ c \in Frames /\ Push(active, c)
    BY <1>2 DEF IsRunning, TypeOK
  <2>2. /\ queue' \in [Gen -> Seq(Frames)] /\ inbox' \in [Gen -> Seq(Frames)]
        /\ \A h \in Gen : h # active => queue'[h] = queue[h] /\ inbox'[h] = inbox[h]
        /\ inbox'[active] = IF queue[active] = << >> THEN Append(inbox[active], c) ELSE inbox[active]
    BY <2>1, PushTypes
  <2>3. TypeOK'
    <3>1. pending' \in [Gen -> SUBSET Requests]
      BY <1>2 DEF TypeOK
    <3>2. call' = [call EXCEPT ![c] = "sent"] /\ via' = [via EXCEPT ![c] = active]
      BY <1>2, Zenon
    <3>3. call' \in [Call -> {"idle", "sent", "answered", "failed"} \cup Waiting]
      BY <3>2 DEF TypeOK
    <3>4. via' \in [Call -> {0} \cup Gen]
      BY <3>2 DEF TypeOK
    <3>5. QED
      BY <2>2, <3>1, <3>3, <3>4 DEF TypeOK
  <2>4. Lives'
    BY DEF Lives, InUse
  <2>5. \A h \in Gen : h # active => pending'[h] = pending[h]
    BY <1>2 DEF TypeOK
  <2>6. pending'[active] = pending[active] \cup {c}
    BY <1>2, <2>1 DEF TypeOK
  <2>7. Shaken(active)'
    <3>1. Shaken(active) /\ inbox[active] \in Seq(Frames)
      BY <2>1 DEF Shakes, TypeOK
    <3>2. QED
      BY <2>1, <2>2, <3>1, AppendKeeps DEF Shaken
  <2>8. Shakes'
    <3>1. phase' = phase /\ served' = served
      OBVIOUS
    <3>2. Initialize \notin pending'[active] /\ Initialize \in served'[active]
      BY <2>1, <2>6, <3>1 DEF Shakes, InUse
    <3>3. \A h \in Gen : h # active => InUse(h)' = InUse(h) /\ Shaken(h)' = Shaken(h)
      BY <2>2, <3>1 DEF InUse, Shaken
    <3>4. \A h \in Gen : h # active =>
            /\ inbox'[h] = inbox[h] /\ queue'[h] = queue[h] /\ pending'[h] = pending[h]
            /\ phase'[h] = phase[h] /\ served'[h] = served[h]
      BY <2>2, <2>5, <3>1
    <3>5. phase'[active] = "running"
      BY <2>1, <3>1
    <3>6. QED
      BY <2>7, <3>2, <3>3, <3>4, <3>5 DEF Shakes, InUse
  <2>9. Sends'
    <3>1. IsRunning' /\ active' = active
      BY <1>2 DEF IsRunning
    <3>2. call'[c] = "sent" /\ via'[c] = active
      BY <1>2 DEF TypeOK
    <3>3. \A d \in Call : d # c => call'[d] = call[d] /\ via'[d] = via[d]
      BY <1>2 DEF TypeOK
    <3>4. call[c] # "sent"
      OBVIOUS
    <3>5. QED
      BY <2>5, <2>6, <3>1, <3>2, <3>3, <3>4 DEF Sends
  <2>10. QED
    BY <2>3, <2>4, <2>8, <2>9
<1>3. QED
  BY <1>1, <1>2

-----------------------------------------------------------------------------
LEMMA InitializedKeeps == ASSUME Inv, NEW g \in Gen, Initialized(g) PROVE Inv'
<1> USE Numbers DEF Inv, Initialized, promises, callers
<1>1. Push(g, IsInitialized)
  OBVIOUS
<1>2. /\ queue' \in [Gen -> Seq(Frames)] /\ inbox' \in [Gen -> Seq(Frames)]
      /\ \A h \in Gen : h # g => queue'[h] = queue[h] /\ inbox'[h] = inbox[h]
      /\ inbox'[g] = IF queue[g] = << >> THEN Append(inbox[g], IsInitialized) ELSE inbox[g]
      /\ queue'[g] = Append(queue[g], IsInitialized)
  BY <1>1, PushTypes
<1>3. inbox[g] = <<Initialize>> /\ queue[g] = << >>
  <2>1. inbox[g] # <<Initialize, IsInitialized>>
    BY DEF Handed
  <2>2. queue[g] # <<Initialize>>
    BY DEF InQueue
  <2>3. QED
    BY <2>1, <2>2 DEF Shakes
<1>4. inbox'[g] = <<Initialize, IsInitialized>> /\ queue'[g] = <<IsInitialized>>
  <2>1. inbox'[g] = Append(<<Initialize>>, IsInitialized)
    BY <1>2, <1>3
  <2>2. queue'[g] = Append(<< >>, IsInitialized)
    BY <1>2, <1>3
  <2>3. QED
    BY <2>1, <2>2, Appends
<1>5. TypeOK'
  BY <1>2 DEF TypeOK
<1>6. Lives' /\ Sends'
  BY DEF Lives, Sends, InUse, IsRunning
<1>7. Shakes'
  BY <1>2, <1>4 DEF Shakes, InUse, Shaken
<1>8. QED
  BY <1>5, <1>6, <1>7

LEMMA RunsKeeps == ASSUME Inv, NEW g \in Gen, Runs(g) PROVE Inv'
<1> USE Numbers DEF Inv, Runs, promises, pipes, callers
<1>1. TypeOK'
  BY DEF TypeOK
<1>2. phase'[g] = "running" /\ \A h \in Gen : h # g => phase'[h] = phase[h]
  BY DEF TypeOK
<1>3. Lives'
  BY <1>2 DEF Lives, InUse, TypeOK
<1>4. Shaken(g) /\ Initialize \notin pending[g]
  <2>1. inbox[g] # <<Initialize>>
    BY DEF Handed
  <2>2. QED
    BY <2>1 DEF Shakes, Shaken
<1>5. Shakes'
  BY <1>2, <1>4 DEF Shakes, InUse, Shaken
<1>6. Sends'
  BY <1>2 DEF Sends, IsRunning, Lives, InUse, TypeOK
<1>7. QED
  BY <1>1, <1>3, <1>5, <1>6

LEMMA StartSettlesKeeps == ASSUME Inv, NEW g \in Gen, StartSettles(g) PROVE Inv'
<1> USE Numbers DEF Inv, StartSettles, pipes
<1>1. TypeOK'
  <2>1. call' \in [Call -> {"idle", "sent", "answered", "failed"} \cup Waiting]
    BY DEF TypeOK, Waiting
  <2>2. startPromise' \in {0} \cup Gen
    BY DEF TypeOK
  <2>3. QED
    BY <2>1, <2>2 DEF TypeOK
<1>2. Lives'
  BY DEF Lives, InUse, TypeOK
<1>3. Shakes'
  BY DEF Shakes, InUse, Shaken
<1>4. Sends'
  <2>1. \A c \in Call : call'[c] = "sent" <=> call[c] = "sent"
    BY DEF TypeOK, Waiting
  <2>2. QED
    BY <2>1 DEF Sends, IsRunning
<1>5. QED
  BY <1>1, <1>2, <1>3, <1>4

LEMMA WrittenKeeps == ASSUME Inv, NEW g \in Gen, Written(g) PROVE Inv'
<1> USE Numbers DEF Inv, Written, Closed, promises
<1>1. InUse(g) /\ queue[g] \in Seq(Frames) /\ inbox[g] \in Seq(Frames)
  BY DEF Shakes, TypeOK
<1>2. Tail(queue[g]) \in Seq(Frames) /\ (Len(queue[g]) > 1 => queue[g][2] \in Frames)
  BY <1>1
<1>3. queue' = [queue EXCEPT ![g] = Tail(queue[g])]
  OBVIOUS
<1>4. \/ inbox' = inbox
      \/ Len(queue[g]) > 1 /\ inbox' = [inbox EXCEPT ![g] = Append(inbox[g], queue[g][2])]
  BY DEF TypeOK
<1>5. TypeOK'
  <2>1. queue' \in [Gen -> Seq(Frames)]
    BY <1>2, <1>3, SeqUpdate DEF TypeOK
  <2>2. inbox' \in [Gen -> Seq(Frames)]
    <3>1. Len(queue[g]) > 1 => Append(inbox[g], queue[g][2]) \in Seq(Frames)
      BY <1>1, <1>2
    <3>2. inbox \in [Gen -> Seq(Frames)]
      BY DEF TypeOK
    <3>3. QED
      BY <1>4, <3>1, <3>2, SeqUpdate, Zenon
  <2>3. call' \in [Call -> {"idle", "sent", "answered", "failed"} \cup Waiting]
    BY DEF TypeOK
  <2>4. QED
    BY <2>1, <2>2, <2>3 DEF TypeOK
<1>6. Lives'
  BY DEF Lives, InUse
<1>7. \A h \in Gen : h # g => queue'[h] = queue[h] /\ inbox'[h] = inbox[h]
  BY <1>4 DEF TypeOK
<1>8. queue'[g] = Tail(queue[g])
      /\ (inbox'[g] = inbox[g]
          \/ (Len(queue[g]) > 1 /\ inbox'[g] = Append(inbox[g], queue[g][2])))
  BY <1>4 DEF TypeOK
<1>9. Shakes'
  <2>1. phase' = phase /\ pending' = pending /\ served' = served
    OBVIOUS
  <2>2. CASE phase[g] = "starting"
    <3>1. PICK f \in Frames : queue[g] = <<f>>
      BY <2>2 DEF Shakes
    <3>2. queue'[g] = << >> /\ inbox'[g] = inbox[g]
      BY <1>8, <3>1
    <3>3. QED
      BY <1>7, <2>1, <2>2, <3>2 DEF Shakes, InUse, Shaken
  <2>3. CASE phase[g] = "running"
    <3>1. Shaken(g)
      BY <2>3 DEF Shakes
    <3>2. Shaken(g)'
      BY <1>1, <1>2, <1>8, <3>1, AppendKeeps DEF Shaken
    <3>3. QED
      BY <1>7, <2>1, <2>3, <3>2 DEF Shakes, InUse, Shaken
  <2>4. QED
    BY <1>1, <2>2, <2>3 DEF InUse
<1>10. Sends'
  <2>1. \A c \in Call : call'[c] = "sent" => call[c] = "sent"
    BY DEF TypeOK
  <2>2. \A h \in Gen : \A c \in Call : c \in pending[h] => call[c] = "sent" /\ via[c] = h /\ h = g
    BY <1>1 DEF Sends, IsRunning, Lives
  <2>3. \A c \in Call : c \in pending[g] => call'[c] = call[c]
    BY DEF TypeOK
  <2>4. QED
    BY <2>1, <2>2, <2>3 DEF Sends, IsRunning
<1>11. QED
  BY <1>5, <1>6, <1>9, <1>10

LEMMA OnResponseKeeps ==
  ASSUME Inv, NEW g \in Gen, NEW r \in Requests, OnResponse(g, r)
  PROVE  Inv'
<1> USE Numbers DEF Inv, OnResponse
<1>1. InUse(g)
  BY DEF Lives
<1>2. CASE r = Initialize /\ Fails(g) /\ UNCHANGED <<next, stopPromise, stops>>
  <2>1. phase[g] # "none" /\ stopPromise' \in BOOLEAN /\ stops' \in 0 .. MaxStops /\ next' = next
    BY <1>1, <1>2 DEF InUse, TypeOK
  <2>2. QED
    BY <1>2, <2>1, FailsKeeps
<1>3. ASSUME /\ pending' = [pending EXCEPT ![g] = @ \ {r}]
             /\ \/ call' = [c \in Call |-> IF c = r /\ ~InQueue(g, r) THEN "answered" ELSE call[c]]
                \/ r \in Call /\ call' = [call EXCEPT ![r] = "failed"]
             /\ UNCHANGED <<promises, phase, queue, inbox, served, child, via>>
      PROVE  Inv'
  <2>1. TypeOK'
    <3>1. call' \in [Call -> {"idle", "sent", "answered", "failed"} \cup Waiting]
      BY <1>3 DEF TypeOK
    <3>2. pending' \in [Gen -> SUBSET Requests]
      BY <1>3 DEF TypeOK
    <3>3. QED
      BY <1>3, <3>1, <3>2 DEF TypeOK, promises
  <2>2. Lives'
    BY <1>3 DEF Lives, InUse, promises
  <2>3. \A h \in Gen : pending'[h] = IF h = g THEN pending[h] \ {r} ELSE pending[h]
    BY <1>3 DEF TypeOK
  <2>4. Shakes'
    <3>1. r \in served[g]
      OBVIOUS
    <3>2. phase' = phase /\ served' = served /\ queue' = queue /\ inbox' = inbox
      BY <1>3
    <3>3. QED
      BY <2>3, <3>1, <3>2, <1>1 DEF Shakes, InUse, Shaken
  <2>5. Sends'
    <3>1. \A c \in Call : c # r => call'[c] = call[c]
      BY <1>3 DEF TypeOK
    <3>2. \A c \in Call : call'[c] = "sent" => call[c] = "sent"
      BY <1>3 DEF TypeOK
    <3>3. phase' = phase /\ active' = active /\ via' = via
      BY <1>3 DEF promises
    <3>4. \A h \in Gen : \A c \in Call : c \in pending'[h] => c \in pending[h] /\ c # r
      <4>1. \A h \in Gen : r \in pending[h] /\ r \in Call => h = g
        BY DEF Sends
      <4> SUFFICES ASSUME NEW h \in Gen, NEW c \in Call, c \in pending'[h]
                   PROVE  c \in pending[h] /\ c # r
        OBVIOUS
      <4>4. CASE h = g
        <5>1. pending'[h] = pending[h] \ {r}
          BY <2>3, <4>4
        <5>2. QED
          BY <5>1
      <4>5. CASE h # g
        <5>1. pending'[h] = pending[h]
          BY <2>3, <4>5
        <5>2. QED
          BY <4>1, <4>5, <5>1
      <4>6. QED
        BY <4>4, <4>5
    <3>5. QED
      BY <3>1, <3>2, <3>3, <3>4 DEF Sends, IsRunning
  <2>6. QED
    BY <2>1, <2>2, <2>4, <2>5
<1>4. QED
  BY <1>2, <1>3

LEMMA ChildKeeps ==
  ASSUME Inv, NEW g \in Gen, (\E r \in Requests : Serves(g, r)) \/ Exits(g)
  PROVE  Inv'
<1> USE Numbers DEF Inv, Serves, Exits
<1>1. UNCHANGED <<promises, phase, pipes, callers>>
  BY Zenon
<1>2. /\ served' \in [Gen -> SUBSET Requests] /\ child' \in [Gen -> {"none", "alive", "gone"}]
      /\ \A h \in Gen : served[h] \subseteq served'[h]
      /\ \A h \in Gen : child'[h] = "alive" => child[h] = "alive"
      /\ \A h \in Gen : child[h] = "none" => child'[h] = "none"
  <2>1. CASE Exits(g)
    BY <2>1 DEF TypeOK
  <2>2. ASSUME NEW r \in Requests, Serves(g, r)
        PROVE  /\ served' \in [Gen -> SUBSET Requests] /\ child' = child
               /\ \A h \in Gen : served[h] \subseteq served'[h]
    BY <2>2 DEF TypeOK
  <2>3. QED
    BY <2>1, <2>2 DEF TypeOK
<1> HIDE DEF Serves, Exits
<1>3. TypeOK'
  BY <1>1, <1>2 DEF TypeOK, promises, pipes, callers
<1>4. Lives'
  BY <1>1, <1>2 DEF Lives, InUse, promises
<1>5. Shakes'
  BY <1>1, <1>2 DEF Shakes, InUse, Shaken, pipes
<1>6. Sends'
  BY <1>1 DEF Sends, IsRunning, promises, pipes, callers
<1>7. QED
  BY <1>3, <1>4, <1>5, <1>6

LEMMA StopKeeps == ASSUME Inv, Stop \/ StopSettles PROVE Inv'
<1> USE Numbers DEF Inv
<1>1. CASE Stop /\ active # 0
  <2>1. active \in Gen /\ phase[active] # "none" /\ Fails(active) /\ next' = next
    BY <1>1 DEF Stop, TypeOK, Lives, InUse
  <2>2. stopPromise' \in BOOLEAN /\ stops' \in 0 .. MaxStops
    BY <1>1, BoundsAssumption DEF Stop, TypeOK
  <2>3. QED
    BY <2>1, <2>2, FailsKeeps
<1>2. CASE (Stop /\ active = 0) \/ StopSettles
  <2>1. UNCHANGED <<active, next, startPromise, phase, pipes, served, child, callers>>
    BY <1>2 DEF Stop, StopSettles
  <2>2. stopPromise' \in BOOLEAN /\ stops' \in 0 .. MaxStops
    <3>1. CASE Stop
      BY <3>1, BoundsAssumption DEF Stop, TypeOK
    <3>2. CASE StopSettles
      BY <3>2 DEF StopSettles, TypeOK
    <3>3. QED
      BY <1>2, <3>1, <3>2
  <2>3. TypeOK'
    BY <2>1, <2>2 DEF TypeOK, pipes, callers
  <2>4. Lives' /\ Sends'
    BY <2>1 DEF Lives, Sends, InUse, IsRunning, pipes, callers
  <2>5. Shakes'
    BY <2>1 DEF Shakes, InUse, Shaken, pipes
  <2>6. QED
    BY <2>3, <2>4, <2>5
<1>3. QED
  BY <1>1, <1>2

LEMMA StepInv == ASSUME Inv, [Next]_vars PROVE Inv'
<1>1. ASSUME NEW c \in Call, Ask(c) \/ Restart(c) \/ Request(c) PROVE Inv'
  BY <1>1, StartKeeps, RequestKeeps DEF Ask, Restart
<1>2. ASSUME NEW g \in Gen, GenStep(g) PROVE Inv'
  <2>1. CASE Initialized(g) \/ Runs(g) \/ StartSettles(g) \/ Written(g)
    BY <2>1, InitializedKeeps, RunsKeeps, StartSettlesKeeps, WrittenKeeps
  <2>2. CASE \E r \in Requests : OnResponse(g, r)
    BY <2>2, OnResponseKeeps
  <2>3. CASE (\E r \in Requests : Serves(g, r)) \/ Exits(g)
    BY <2>3, ChildKeeps
  <2>4. CASE Timeout(g) \/ Breaks(g)
    <3>1. phase[g] # "none"
      BY <2>4 DEF Timeout, Breaks, Inv, Shakes, InUse
    <3>2. Fails(g) /\ next' = next /\ stopPromise' \in BOOLEAN /\ stops' \in 0 .. MaxStops
      BY <2>4 DEF Timeout, Breaks, Inv, TypeOK
    <3>3. QED
      BY <3>1, <3>2, FailsKeeps
  <2>5. QED
    BY <1>2, <2>1, <2>2, <2>3, <2>4 DEF GenStep
<1>3. CASE Stop \/ StopSettles
  BY <1>3, StopKeeps
<1>4. CASE UNCHANGED vars
  <2>1. TypeOK'
    BY <1>4 DEF Inv, TypeOK, vars, promises, pipes, callers
  <2>2. Lives' /\ Sends'
    BY <1>4 DEF Inv, Lives, Sends, InUse, IsRunning, vars, promises, pipes, callers
  <2>3. Shakes'
    BY <1>4 DEF Inv, Shakes, InUse, Shaken, vars, pipes
  <2>4. QED
    BY <2>1, <2>2, <2>3 DEF Inv
<1>5. QED
  BY <1>1, <1>2, <1>3, <1>4 DEF Next

(* The invariant holds in every state: one generation in use, its frames   *)
(* in order, its calls its own.                                            *)
THEOREM InvHolds == Spec => []Inv
<1>1. Init => Inv
  BY InitInv
<1>2. Inv /\ [Next]_vars => Inv'
  BY StepInv
<1>3. QED
  BY <1>1, <1>2, PTL DEF Spec

(* Every variable keeps its type.                                          *)
THEOREM TypesHold == Spec => []TypeOK
<1>1. Inv => TypeOK
  BY DEF Inv
<1>2. QED
  BY <1>1, InvHolds, PTL

(* No child outlives the generation in use, however starts, stops, timers  *)
(* and failures fall (failGeneration, codex-app-server-client.ts).         *)
THEOREM NoOrphanHolds == Spec => []NoOrphan
<1>1. Inv => NoOrphan
  BY DEF Inv, Lives, NoOrphan
<1>2. QED
  BY <1>1, InvHolds, PTL

(* No child is asked anything before its handshake is over (start).        *)
THEOREM HandshakeFirstHolds == Spec => []HandshakeFirst
<1>1. Inv => HandshakeFirst
  <2> SUFFICES ASSUME Inv, NEW g \in Gen, NEW i \in DOMAIN inbox[g], inbox[g][i] \in Call
               PROVE  /\ i > 2 /\ inbox[g][1] = Initialize /\ inbox[g][2] = IsInitialized
                      /\ Initialize \in served[g]
    BY DEF HandshakeFirst
  <2>1. inbox[g] \in Seq(Frames) /\ i \in 1 .. Len(inbox[g])
    BY DEF Inv, TypeOK
  <2>2. phase[g] = "running"
    <3>1. inbox[g] # << >> /\ inbox[g] # <<Initialize>> /\ inbox[g] # <<Initialize, IsInitialized>>
      <4>1. ASSUME inbox[g] = << >> PROVE FALSE
        BY <2>1, <4>1
      <4>2. ASSUME inbox[g] = <<Initialize>> PROVE FALSE
        <5>1. i = 1
          BY <2>1, <4>2
        <5>2. inbox[g][i] = Initialize
          BY <4>2, <5>1
        <5>3. QED
          BY <5>2, Numbers
      <4>3. ASSUME inbox[g] = <<Initialize, IsInitialized>> PROVE FALSE
        <5>1. i = 1 \/ i = 2
          BY <2>1, <4>3
        <5>2. inbox[g][i] \in {Initialize, IsInitialized}
          BY <4>3, <5>1
        <5>3. QED
          BY <5>2, Numbers
      <4>4. QED
        BY <4>1, <4>2, <4>3
    <3>2. QED
      BY <3>1 DEF Inv, Shakes, InUse, TypeOK
  <2>3. Shaken(g) /\ Initialize \in served[g]
    BY <2>2 DEF Inv, Shakes, InUse
  <2>4. i # 1 /\ i # 2
    BY <2>3, Numbers DEF Shaken
  <2>5. QED
    BY <2>1, <2>3, <2>4 DEF Shaken
<1>2. QED
  BY <1>1, InvHolds, PTL

-----------------------------------------------------------------------------
(* The refinement. What the callers see of each step is a step of RpcCalls *)
(* or none.                                                                *)
Seen == [c \in Call |-> SeenBy(c)]


LEMMA InitSeen == Init => Promise!Init
BY Numbers DEF Init, Promise!Init, IsRunning, SeenBy, Waiting

(* A failing generation is RpcCalls's Down when it ran, and otherwise      *)
(* nobody's loss.                                                          *)
LEMMA FailsSeen ==
  ASSUME Inv, NEW g \in Gen, Fails(g)
  PROVE  Promise!Down \/ (IsRunning' = IsRunning /\ Seen' = Seen)
<1> USE Numbers DEF Inv, Fails, Failed, Closed, Seen
<1>1. CASE IsRunning /\ active = g
  <2>1. IsRunning' = FALSE
    BY <1>1 DEF IsRunning, TypeOK
  <2>2. \A c \in Call : call'[c] = IF call[c] = "sent" THEN "failed" ELSE call[c]
    BY <1>1 DEF Sends, TypeOK
  <2>3. \A c \in Call : SeenBy(c)' = IF SeenBy(c) = "sent" THEN "failed" ELSE SeenBy(c)
    BY <2>2 DEF SeenBy, Waiting
  <2>4. [c \in Call |-> SeenBy(c)]'
        = [c \in Call |-> IF [d \in Call |-> SeenBy(d)][c] = "sent" THEN "failed"
                           ELSE [d \in Call |-> SeenBy(d)][c]]
    BY <2>3
  <2>5. Promise!Down
    BY <1>1, <2>1, <2>4, Zenon DEF Promise!Down
  <2>6. QED
    BY <2>5
<1>2. CASE ~(IsRunning /\ active = g)
  <2>1. \A c \in Call : ~(call[c] = "sent" /\ via[c] = g)
    BY <1>2 DEF Sends
  <2>2. \A c \in Call : call'[c] = call[c]
    BY <2>1 DEF TypeOK
  <2>3. IsRunning' = IsRunning
    <3>1. CASE active = g
      BY <1>2, <3>1 DEF IsRunning, TypeOK
    <3>2. CASE active # g
      BY <3>2 DEF IsRunning, TypeOK, Lives
    <3>3. QED
      BY <3>1, <3>2
  <2>4. QED
    BY <2>2, <2>3 DEF SeenBy
<1>3. QED
  BY <1>1, <1>2

LEMMA StartSeen ==
  ASSUME Inv, NEW c \in Call, call[c] \in {"idle", "stopping"}, Start(c)
  PROVE  IsRunning' = IsRunning /\ (Promise!Fail \/ Promise!Ask(c) \/ Seen' = Seen)
<1> USE Numbers DEF Inv, Seen
<1>1. \/ \E s \in Waiting \cup {"failed"} : \E g \in {0} \cup Gen : Waits(c, s, g)
      \/ ~IsRunning /\ Shared = {} /\ Spawn(c)
  BY DEF Start, Shared, TypeOK, Waiting
<1>2. IsRunning' = IsRunning
  <2>1. CASE \E s \in Waiting \cup {"failed"} : \E g \in {0} \cup Gen : Waits(c, s, g)
    BY <2>1 DEF Waits, IsRunning, promises
  <2>2. CASE ~IsRunning /\ Shared = {} /\ Spawn(c)
    BY <2>2 DEF Spawn, IsRunning, TypeOK
  <2>3. QED
    BY <1>1, <2>1, <2>2
<1>3. PICK s \in Waiting \cup {"failed"} : call' = [call EXCEPT ![c] = s]
  BY <1>1 DEF Waits, Spawn, Waiting
<1>4. \A d \in Call : SeenBy(d)' = IF d # c THEN SeenBy(d)
                                   ELSE IF s = "failed" THEN "failed" ELSE "waiting"
  BY <1>3 DEF SeenBy, Waiting, TypeOK
<1>5. SeenBy(c) = IF call[c] = "idle" THEN "idle" ELSE "waiting"
  BY DEF SeenBy, Waiting
<1>6. CASE s = "failed"
  <2>1. {c} \in SUBSET {d \in Call : Seen[d] \in Promise!Open}
    BY <1>5 DEF Promise!Open
  <2>2. Seen' = [d \in Call |-> IF d \in {c} THEN "failed" ELSE Seen[d]]
    BY <1>4, <1>6
  <2>3. Promise!Fail
    BY <1>2, <2>1, <2>2 DEF Promise!Fail
  <2>4. QED
    BY <1>2, <2>3
<1>7. CASE s # "failed"
  <2>1. CASE call[c] = "idle"
    <3>1. Seen[c] = "idle" /\ Seen' = [Seen EXCEPT ![c] = "waiting"]
      BY <1>4, <1>5, <1>7, <2>1
    <3>2. QED
      BY <1>2, <3>1 DEF Promise!Ask
  <2>2. CASE call[c] # "idle"
    BY <1>2, <1>4, <1>5, <1>7, <2>2
  <2>3. QED
    BY <2>1, <2>2
<1>8. QED
  BY <1>6, <1>7

LEMMA RequestSeen ==
  ASSUME Inv, NEW c \in Call, Request(c)
  PROVE  IsRunning' = IsRunning /\ (Promise!Fail \/ Promise!Send(c))
<1> USE Numbers DEF Inv, Seen
<1>1. SeenBy(c) = "waiting" /\ IsRunning' = IsRunning
  BY DEF Request, SeenBy, Waiting, IsRunning, promises
<1>2. CASE IsRunning
  <2>1. call' = [call EXCEPT ![c] = "sent"]
    BY <1>2 DEF Request
  <2>2. \A d \in Call : SeenBy(d)' = IF d = c THEN "sent" ELSE SeenBy(d)
    BY <2>1 DEF SeenBy, Waiting, TypeOK
  <2>3. QED
    BY <1>1, <1>2, <2>2 DEF Promise!Send
<1>3. CASE ~IsRunning
  <2>1. call' = [call EXCEPT ![c] = "failed"]
    BY <1>3 DEF Request
  <2>2. \A d \in Call : SeenBy(d)' = IF d = c THEN "failed" ELSE SeenBy(d)
    BY <2>1 DEF SeenBy, Waiting, TypeOK
  <2>3. {c} \in SUBSET {d \in Call : Seen[d] \in Promise!Open}
    BY <1>1 DEF Promise!Open
  <2>4. Seen' = [d \in Call |-> IF d \in {c} THEN "failed" ELSE Seen[d]]
    BY <2>2
  <2>5. QED
    BY <1>1, <2>3, <2>4 DEF Promise!Fail
<1>4. QED
  BY <1>2, <1>3

LEMMA RunsSeen == ASSUME Inv, NEW g \in Gen, Runs(g) PROVE Promise!Up
<1> USE Numbers DEF Inv, Runs, Seen
<1>1. active = g /\ ~IsRunning
  BY DEF Lives, InUse, IsRunning
<1>2. IsRunning'
  BY <1>1 DEF IsRunning, promises, TypeOK
<1>3. Seen' = Seen
  BY DEF SeenBy, callers
<1>4. QED
  BY <1>1, <1>2, <1>3 DEF Promise!Up

LEMMA StartSettlesSeen ==
  ASSUME Inv, NEW g \in Gen, StartSettles(g) PROVE Promise!Fail \/ (IsRunning' = IsRunning /\ Seen' = Seen)
<1> USE Numbers DEF Inv, StartSettles, Seen
<1> DEFINE Waiters == {c \in Call : call[c] = "starting" /\ via[c] = g}
<1>1. IsRunning' = IsRunning
  BY DEF IsRunning
<1>2. \A c \in Call : call'[c] = IF c \in Waiters THEN IF Closed(g) THEN "failed" ELSE "started"
                                 ELSE call[c]
  BY DEF TypeOK
<1>3. \A c \in Waiters : SeenBy(c) = "waiting"
  BY DEF SeenBy, Waiting
<1>4. CASE Closed(g)
  <2>1. \A c \in Call : SeenBy(c)' = IF c \in Waiters THEN "failed" ELSE SeenBy(c)
    BY <1>2, <1>4 DEF SeenBy, Waiting
  <2>2. Waiters \in SUBSET {c \in Call : Seen[c] \in Promise!Open}
    BY <1>3 DEF Promise!Open
  <2>3. Seen' = [c \in Call |-> IF c \in Waiters THEN "failed" ELSE Seen[c]]
    BY <2>1
  <2>4. QED
    BY <1>1, <2>2, <2>3 DEF Promise!Fail
<1>5. CASE ~Closed(g)
  <2>1. \A c \in Call : SeenBy(c)' = SeenBy(c)
    BY <1>2, <1>5 DEF SeenBy, Waiting
  <2>2. QED
    BY <1>1, <2>1
<1>6. QED
  BY <1>4, <1>5

(* Of a caller that is sent: an answer.                                    *)
LEMMA AnswerSeen ==
  ASSUME Inv, NEW c \in Call, call[c] = "sent", UNCHANGED <<active, phase>>,
         \A d \in Call : call'[d] = IF d = c THEN "answered" ELSE call[d]
  PROVE  Promise!Answer(c)
<1> USE Numbers DEF Inv, Seen
<1>1. IsRunning /\ IsRunning' = IsRunning /\ SeenBy(c) = "sent"
  BY DEF Sends, IsRunning, SeenBy, Waiting
<1>2. \A d \in Call : SeenBy(d)' = IF d = c THEN "answered" ELSE SeenBy(d)
  BY DEF SeenBy, Waiting
<1>3. QED
  BY <1>1, <1>2 DEF Promise!Answer

LEMMA WrittenSeen ==
  ASSUME Inv, NEW g \in Gen, Written(g)
  PROVE  (\E c \in Call : Promise!Answer(c)) \/ (IsRunning' = IsRunning /\ Seen' = Seen)
<1> USE Numbers DEF Written
<1>1. UNCHANGED <<active, phase>>
  BY DEF promises
<1>2. CASE \E c \in Call : Head(queue[g]) = c /\ c \notin pending[g] /\ call[c] = "sent"
  <2>1. PICK c \in Call : Head(queue[g]) = c /\ c \notin pending[g] /\ call[c] = "sent"
    BY <1>2
  <2>2. \A d \in Call : call'[d] = IF d = c THEN "answered" ELSE call[d]
    BY <2>1
  <2>3. QED
    BY <1>1, <2>1, <2>2, AnswerSeen
<1>3. CASE ~ \E c \in Call : Head(queue[g]) = c /\ c \notin pending[g] /\ call[c] = "sent"
  <2>1. \A d \in Call : call'[d] = call[d]
    BY <1>3
  <2>2. QED
    BY <1>1, <2>1 DEF IsRunning, Seen, SeenBy
<1>4. QED
  BY <1>2, <1>3

LEMMA OnResponseSeen ==
  ASSUME Inv, NEW g \in Gen, NEW r \in Requests, OnResponse(g, r)
  PROVE  \/ \E c \in Call : Promise!Answer(c)
         \/ Promise!Fail \/ Promise!Down \/ (IsRunning' = IsRunning /\ Seen' = Seen)
<1> USE Numbers DEF Inv
<1>1. r \in Call => call[r] = "sent"
  BY DEF OnResponse, Sends
<1>2. CASE Fails(g)
  BY <1>2, FailsSeen
<1>3. CASE /\ call' = [c \in Call |-> IF c = r /\ ~InQueue(g, r) THEN "answered" ELSE call[c]]
           /\ UNCHANGED <<promises, phase>>
  <2>1. UNCHANGED <<active, phase>>
    BY <1>3 DEF promises
  <2>2. CASE r \in Call /\ ~InQueue(g, r)
    <3>1. \A d \in Call : call'[d] = IF d = r THEN "answered" ELSE call[d]
      BY <1>3, <2>2
    <3>2. QED
      BY <1>1, <2>1, <2>2, <3>1, AnswerSeen
  <2>3. CASE ~(r \in Call /\ ~InQueue(g, r))
    <3>1. \A d \in Call : call'[d] = call[d]
      BY <1>3, <2>3
    <3>2. QED
      BY <2>1, <3>1 DEF IsRunning, Seen, SeenBy
  <2>4. QED
    BY <2>2, <2>3
<1>4. CASE /\ r \in Call /\ call' = [call EXCEPT ![r] = "failed"]
           /\ UNCHANGED <<promises, phase>>
  <2>1. IsRunning' = IsRunning
    BY <1>4 DEF IsRunning, promises
  <2>2. Seen[r] = "sent"
    BY <1>1, <1>4 DEF Seen, SeenBy, Waiting
  <2>3. \A d \in Call : SeenBy(d)' = IF d = r THEN "failed" ELSE SeenBy(d)
    BY <1>4 DEF SeenBy, Waiting, TypeOK
  <2>4. {r} \in SUBSET {c \in Call : Seen[c] \in Promise!Open}
    BY <1>4, <2>2 DEF Promise!Open, Seen
  <2>5. Seen' = [d \in Call |-> IF d \in {r} THEN "failed" ELSE Seen[d]]
    BY <2>3 DEF Seen
  <2>6. Promise!Fail
    BY <2>1, <2>4, <2>5 DEF Promise!Fail, Seen
  <2>7. QED
    BY <2>6
<1>5. QED
  BY <1>2, <1>3, <1>4 DEF OnResponse

LEMMA StepSeen ==
  ASSUME Inv, [Next]_vars
  PROVE  [Promise!Next]_<<IsRunning, Seen>>
<1> USE DEF Promise!Next
<1>1. ASSUME NEW c \in Call, Ask(c) \/ Restart(c)
      PROVE  [Promise!Next]_<<IsRunning, Seen>>
  BY <1>1, StartSeen DEF Ask, Restart
<1>2. ASSUME NEW c \in Call, Request(c)
      PROVE  [Promise!Next]_<<IsRunning, Seen>>
  BY <1>2, RequestSeen
<1>3. ASSUME NEW g \in Gen, GenStep(g)
      PROVE  [Promise!Next]_<<IsRunning, Seen>>
  <2>1. CASE Initialized(g) \/ Exits(g) \/ \E r \in Requests : Serves(g, r)
    BY <2>1 DEF Initialized, Exits, Serves, promises, callers, IsRunning, Seen, SeenBy
  <2>2. CASE Runs(g)
    BY <2>2, RunsSeen
  <2>3. CASE StartSettles(g)
    BY <2>3, StartSettlesSeen
  <2>4. CASE Written(g)
    BY <2>4, WrittenSeen
  <2>5. CASE \E r \in Requests : OnResponse(g, r)
    BY <2>5, OnResponseSeen
  <2>6. CASE Timeout(g) \/ Breaks(g)
    BY <2>6, FailsSeen DEF Timeout, Breaks
  <2>7. QED
    BY <1>3, <2>1, <2>2, <2>3, <2>4, <2>5, <2>6 DEF GenStep
<1>4. CASE Stop \/ StopSettles
  <2>1. CASE Stop /\ active # 0
    <3>1. active \in Gen /\ Fails(active)
      BY <2>1 DEF Stop, Inv, TypeOK
    <3>2. QED
      BY <3>1, FailsSeen
  <2>2. CASE (Stop /\ active = 0) \/ StopSettles
    BY <2>2 DEF Stop, StopSettles, callers, IsRunning, Seen, SeenBy
  <2>3. QED
    BY <1>4, <2>1, <2>2
<1>5. CASE UNCHANGED vars
  BY <1>5 DEF vars, promises, callers, IsRunning, Seen, SeenBy
<1>6. QED
  BY <1>1, <1>2, <1>3, <1>4, <1>5 DEF Next

(* The client keeps what RpcCalls promises to the users of codexRpc: a     *)
(* call is settled once, and a generation settles all of its calls as it   *)
(* fails.                                                                  *)
THEOREM CallsKeptHolds == Spec => CallsKept
<1>1. Init => Promise!Init
  BY InitSeen
<1>2. Inv /\ [Next]_vars => [Promise!Next]_<<IsRunning, [c \in Call |-> SeenBy(c)]>>
  BY StepSeen DEF Seen
<1>3. QED
  BY <1>1, <1>2, InvHolds, PTL DEF Spec, CallsKept, Promise!Spec
=============================================================================
