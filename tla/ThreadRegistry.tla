--------------------------- MODULE ThreadRegistry ---------------------------
(***************************************************************************)
(* What Codex identity discovery promises its users: a conversation        *)
(* (thread) becomes the exact identity of at most one session, at most     *)
(* once, and a session keeps its identity until it is started afresh or    *)
(* deleted.                                                                *)
(***************************************************************************)
EXTENDS Naturals

CONSTANTS
  Session,  \* Codex sessions of one directory
  Thread    \* conversations, numbered from 1

VARIABLES
  exact,    \* the session's exact thread, 0 if it has none
  given     \* threads that were ever somebody's

Init == exact = [s \in Session |-> 0] /\ given = {}

Assign(s, t) ==
  /\ exact[s] = 0 /\ t \notin given
  /\ exact' = [exact EXCEPT ![s] = t]
  /\ given' = given \cup {t}

Retire(s) ==
  /\ exact' = [exact EXCEPT ![s] = 0]
  /\ UNCHANGED given

Next == \E s \in Session : Retire(s) \/ \E t \in Thread : Assign(s, t)

Spec == Init /\ [][Next]_<<exact, given>>
=============================================================================
