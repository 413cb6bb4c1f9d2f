------------------------------ MODULE RpcCalls ------------------------------
(***************************************************************************)
(* What the users of the Codex app-server are promised (codexRpc in        *)
(* packages/server/src/start.ts): a call is sent to the server that is up, *)
(* and that one answers it or it fails; a server that goes down takes all  *)
(* the calls it was sent with it; what is settled stays so.                *)
(***************************************************************************)
CONSTANT Call

VARIABLES up, call

Open == {"idle", "waiting", "sent"}

Init == up = FALSE /\ call = [c \in Call |-> "idle"]

Up == ~up /\ up' = TRUE /\ UNCHANGED call

Down ==
  /\ up /\ up' = FALSE
  /\ call' = [c \in Call |-> IF call[c] = "sent" THEN "failed" ELSE call[c]]

Ask(c) == call[c] = "idle" /\ call' = [call EXCEPT ![c] = "waiting"] /\ UNCHANGED up

Send(c) == up /\ call[c] = "waiting" /\ call' = [call EXCEPT ![c] = "sent"] /\ UNCHANGED up

Answer(c) == up /\ call[c] = "sent" /\ call' = [call EXCEPT ![c] = "answered"] /\ UNCHANGED up

(* Those who wait for the same start fail together.                        *)
Fail ==
  /\ \E C \in SUBSET {c \in Call : call[c] \in Open} :
       call' = [c \in Call |-> IF c \in C THEN "failed" ELSE call[c]]
  /\ UNCHANGED up

Next == Up \/ Down \/ Fail \/ \E c \in Call : Ask(c) \/ Send(c) \/ Answer(c)

Spec == Init /\ [][Next]_<<up, call>>
=============================================================================
