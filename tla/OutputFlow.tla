----------------------------- MODULE OutputFlow -----------------------------
(***************************************************************************)
(* Back-pressure from the browsers of one terminal session to its PTY.     *)
(*                                                                         *)
(* Each browser's socket handler (transport.ts) owns a FlowWindow and a    *)
(* subscription on the session's record (terminal-manager.ts).  The record *)
(* pauses the PTY while some subscriber that is being looked at has a full *)
(* window, so one stuck browser stops the output of every browser: the     *)
(* module is about who may hold the PTY and for how long.                  *)
(***************************************************************************)
EXTENDS FlowWindow

CONSTANTS
  Client,       \* browser sockets
  ChunkSizes,   \* sizes of a PTY chunk, in bytes
  ReplaySizes,  \* sizes of the replay a joining browser is sent; 0 is none
  MaxOffered    \* bound: bytes fanned out to one connection

ASSUME SizesAssumption ==
  /\ ChunkSizes \subseteq Nat \ {0}
  /\ ReplaySizes \subseteq Nat
  /\ MaxOffered \in Nat

VARIABLES
  phase,        \* handler: "none", "joining" (attach pending) or "live"
  up,           \* socket.readyState = OPEN, as the server sees it
  win,          \* the handler's flow window; NewWindow stands for undefined
  want,         \* currentViewing: the last visibility the browser reported
  subViewing,   \* TermSub.viewing
  subPressured, \* TermSub.outputPressured
  alive,        \* the record has a PTY process
  paused,       \* that PTY's output is paused
  offered       \* history: data bytes handed to the connection so far

vars == <<phase, up, win, want, subViewing, subPressured, alive, paused, offered>>

Phases == {"none", "joining", "live"}
Wants == {"unset", "shown", "hidden"}

TypeOK ==
  /\ phase \in [Client -> Phases]
  /\ up \in [Client -> BOOLEAN]
  /\ win \in [Client -> Window]
  /\ want \in [Client -> Wants]
  /\ subViewing \in [Client -> BOOLEAN]
  /\ subPressured \in [Client -> BOOLEAN]
  /\ alive \in BOOLEAN
  /\ paused \in BOOLEAN
  /\ offered \in [Client -> Nat]

Joined(c) == phase[c] # "none"
Seen(w) == w # "hidden"

Init ==
  /\ phase = [c \in Client |-> "none"]
  /\ up = [c \in Client |-> FALSE]
  /\ win = [c \in Client |-> NewWindow]
  /\ want = [c \in Client |-> "unset"]
  /\ subViewing = [c \in Client |-> FALSE]
  /\ subPressured = [c \in Client |-> FALSE]
  /\ alive = TRUE
  /\ paused = FALSE
  /\ offered = [c \in Client |-> 0]

-----------------------------------------------------------------------------
(* syncOutputPressure, for the subscriptions a step leaves behind.         *)
ShouldPause(viewing, pressured) == \E c \in Client : viewing[c] /\ pressured[c]

SyncOutputPressure(running) ==
  paused' = (running /\ ShouldPause(subViewing', subPressured'))

(* The callbacks a step's windows make: onPressure reaches the             *)
(* subscription once the handler has one, and a window that closed itself  *)
(* takes its connection down (closeSafely, detach).  V, T and O are the    *)
(* subscriptions' viewing, the reported visibility and the bytes offered   *)
(* as the step sets them: a handler's locals end with it.  The record      *)
(* syncs the PTY whenever a subscription changed.                          *)
Gone(W) == {c \in Client : Joined(c) /\ ~IsOpen(W[c])}

Settle(W, V, T, O) ==
  /\ win' = [c \in Client |-> IF c \in Gone(W) THEN NewWindow ELSE W[c]]
  /\ phase' = [c \in Client |-> IF c \in Gone(W) THEN "none" ELSE phase[c]]
  /\ up' = [c \in Client |-> up[c] /\ c \notin Gone(W)]
  /\ subViewing' = [c \in Client |-> V[c] /\ c \notin Gone(W)]
  /\ subPressured' = [c \in Client |-> phase[c] = "live" /\ W[c].pressured]
  /\ want' = [c \in Client |-> IF c \in Gone(W) THEN "unset" ELSE T[c]]
  /\ offered' = [c \in Client |-> IF c \in Gone(W) THEN 0 ELSE O[c]]
  /\ IF subViewing' # subViewing \/ subPressured' # subPressured
     THEN SyncOutputPressure(alive)
     ELSE UNCHANGED paused

-----------------------------------------------------------------------------
(* A browser opens the socket: the handler makes a window, announces the   *)
(* protocol, and calls attach, which subscribes at once and replays the    *)
(* session so far between two markers.  A record without a process starts  *)
(* one, whose replay is empty.                                             *)
Replay(w, r) ==
  IF r = 0 THEN w
  ELSE EnqueueControl(EnqueueData(EnqueueControl(w, 1, TRUE), r, TRUE), 1, TRUE)

Connect(c) ==
  /\ phase[c] = "none"
  /\ \E r \in ReplaySizes :
       LET hello == EnqueueControl(NewWindow, 1, TRUE)
           w     == IF alive THEN Replay(hello, r) ELSE hello
       IN  /\ IsOpen(w)
           /\ win' = [win EXCEPT ![c] = w]
           /\ offered' = [offered EXCEPT ![c] = IF alive THEN r ELSE 0]
  /\ phase' = [phase EXCEPT ![c] = "joining"]
  /\ up' = [up EXCEPT ![c] = TRUE]
  /\ alive' = TRUE
  /\ UNCHANGED <<want, subViewing, subPressured, paused>>

(* attach's promise resolves: the handler applies the visibility and the   *)
(* pressure it has recorded since.                                         *)
Attached(c) ==
  /\ phase[c] = "joining" /\ up[c]
  /\ phase' = [phase EXCEPT ![c] = "live"]
  /\ subViewing' = [subViewing EXCEPT ![c] = want[c] = "shown"]
  /\ subPressured' = [subPressured EXCEPT ![c] = win[c].pressured]
  /\ SyncOutputPressure(alive)
  /\ UNCHANGED <<up, win, want, alive, offered>>

(* A {t:"v"} frame: the window first, then the subscription.               *)
Visibility(c) ==
  /\ Joined(c) /\ up[c]
  /\ \E v \in {"shown", "hidden"} :
       LET W == [win EXCEPT ![c] = SetViewing(@, v = "shown", TRUE)]
           V == [subViewing EXCEPT ![c] = phase[c] = "live" /\ v = "shown"]
       IN  Settle(W, V, [want EXCEPT ![c] = v], offered)
  /\ UNCHANGED alive

(* A {t:"a"} frame.  A count the server never sent closes the connection.  *)
Ack(c) ==
  /\ Joined(c) /\ up[c]
  /\ \E n \in win[c].acked + 1 .. win[c].sent + 1 :
       Settle([win EXCEPT ![c] = IF AckIsValid(@, n) THEN Acknowledge(@, n, TRUE)
                                                     ELSE Close(@, "protocol")],
              subViewing, want, offered)
  /\ UNCHANGED alive

(* The PTY is read and the chunk is fanned out to every subscriber.        *)
Output ==
  /\ alive /\ ~paused
  /\ \E n \in ChunkSizes :
       /\ \A c \in Client : offered[c] + n <= MaxOffered
       /\ Settle([c \in Client |-> IF Joined(c) THEN EnqueueData(win[c], n, up[c]) ELSE win[c]],
                 subViewing, want,
                 [c \in Client |-> IF Joined(c) THEN offered[c] + n ELSE 0])
  /\ UNCHANGED alive

(* The stall timer: nothing was acknowledged for stallMs under pressure.   *)
StallTimeout(c) ==
  /\ Joined(c) /\ win[c].stall
  /\ Settle([win EXCEPT ![c] = Stall(@)], subViewing, want, offered)
  /\ UNCHANGED alive

(* The network takes the socket out of OPEN, and its close event follows.  *)
Drop(c) ==
  /\ Joined(c) /\ up[c]
  /\ up' = [up EXCEPT ![c] = FALSE]
  /\ UNCHANGED <<phase, win, want, subViewing, subPressured, alive, paused, offered>>

SocketClosed(c) ==
  /\ Joined(c) /\ ~up[c]
  /\ Settle([win EXCEPT ![c] = Dispose(@)], subViewing, want, offered)
  /\ UNCHANGED alive

(* The process exits: every subscriber is told and detached.               *)
Exit ==
  /\ alive
  /\ alive' = FALSE
  /\ win' = [c \in Client |-> NewWindow]
  /\ phase' = [c \in Client |-> "none"]
  /\ up' = [c \in Client |-> FALSE]
  /\ subViewing' = [c \in Client |-> FALSE]
  /\ subPressured' = [c \in Client |-> FALSE]
  /\ want' = [c \in Client |-> "unset"]
  /\ offered' = [c \in Client |-> 0]
  /\ SyncOutputPressure(FALSE)

Next ==
  \/ \E c \in Client : Connect(c)
  \/ \E c \in Client : Attached(c)
  \/ \E c \in Client : Visibility(c)
  \/ \E c \in Client : Ack(c)
  \/ Output
  \/ \E c \in Client : StallTimeout(c)
  \/ \E c \in Client : Drop(c)
  \/ \E c \in Client : SocketClosed(c)
  \/ Exit

(* The timers of the runtime fire, and a dead socket's close event comes.  *)
Fairness ==
  \A c \in Client : WF_vars(StallTimeout(c)) /\ WF_vars(SocketClosed(c))

Spec == Init /\ [][Next]_vars
FairSpec == Spec /\ Fairness

-----------------------------------------------------------------------------
(* The PTY is paused only on behalf of a browser that can release it: one  *)
(* that is attached, in front, behind on its window, and on the clock of   *)
(* the stall timer.  syncOutputPressure and TerminalFlowWindow keep two    *)
(* copies of viewing and of pressured, updated by different callbacks.     *)
PausedForLiveViewer ==
  paused => /\ alive
            /\ \E c \in Client :
                 /\ phase[c] = "live"
                 /\ win[c].viewing /\ win[c].pressured /\ win[c].stall
                 /\ Unacked(win[c]) > Low \/ win[c].queue # << >>

(* And conversely a browser in front with a full window has the PTY        *)
(* paused: output cannot run ahead of the slowest viewer.                  *)
FullViewerPauses ==
  \A c \in Client :
    phase[c] = "live" /\ want[c] = "shown" /\ Unacked(win[c]) >= High => paused

(* Bytes wait in a window only behind a full wire, and only for a browser  *)
(* in front whose stall timer is armed: a hidden one drops them instead.   *)
QueuedOnlyUnderPressure ==
  \A c \in Client :
    Joined(c) /\ win[c].queue # << >>
      => /\ Unacked(win[c]) = High
         /\ win[c].viewing /\ win[c].pressured /\ win[c].stall

(* What a browser has been sent is a prefix of what the session produced,  *)
(* and the rest is queued: once bytes were dropped nothing more is sent on *)
(* that connection, which ends when the browser comes to the front.        *)
StreamHasNoGap ==
  \A c \in Client :
    Joined(c) /\ ~win[c].replay => win[c].sent + DataIn(win[c].queue) = offered[c]

(* No browser holds the PTY for ever: it catches up, is hidden, or the     *)
(* stall timer closes it.                                                  *)
ViewerReleasesPty ==
  \A c \in Client :
    (subViewing[c] /\ subPressured[c]) ~> ~(subViewing[c] /\ subPressured[c])
=============================================================================
