----------------------------- MODULE FlowWindow -----------------------------
(***************************************************************************)
(* The per-browser output window of a terminal socket:                     *)
(* TerminalFlowWindow in packages/server/src/terminal-flow.ts.             *)
(*                                                                         *)
(* A window is a value and each method of the class is an operator from a  *)
(* window to the window the call leaves behind: a JavaScript method runs   *)
(* to completion, so nothing is ever seen between its statements.  The     *)
(* calls it makes on the socket and on the terminal manager are read off   *)
(* the result: bytes sent (sent), pressure (pressured), closing (status).  *)
(***************************************************************************)
EXTENDS Integers, Sequences

CONSTANTS
  High,        \* highWatermarkBytes: unacknowledged bytes allowed on the wire
  Low,         \* lowWatermarkBytes: pressure is released at or below it
  MaxPending   \* maxPendingBytes: bytes queued behind a full window

ASSUME FlowAssumption ==
  /\ High \in Nat \ {0}
  /\ Low \in Nat
  /\ Low < High
  /\ MaxPending \in Nat

CloseReasons == {"protocol", "stalled", "overflow", "replay-required", "transport"}

Item == [kind : {"data", "text"}, bytes : Nat \ {0}]

Window ==
  [queue     : Seq(Item),   \* frames accepted and not yet written
   sent      : Nat,         \* data bytes written to the socket
   acked     : Nat,         \* data bytes the browser says it has parsed
   pending   : Int,         \* the running byte count of the queue
   pressured : BOOLEAN,
   viewing   : BOOLEAN,
   replay    : BOOLEAN,     \* a hidden window dropped bytes
   stall     : BOOLEAN,     \* the stall timer is armed
   status    : {"open", "disposed"} \cup CloseReasons]

NewWindow ==
  [queue |-> << >>, sent |-> 0, acked |-> 0, pending |-> 0, pressured |-> FALSE,
   viewing |-> TRUE, replay |-> FALSE, stall |-> FALSE, status |-> "open"]

IsOpen(w) == w.status = "open"
Unacked(w) == w.sent - w.acked
Room(w) == High - Unacked(w)

\* Data bytes among the first k frames of a queue, and all bytes of a queue.
DataUpTo(q) ==
  LET sum[k \in 0..Len(q)] ==
        IF k = 0 THEN 0
        ELSE sum[k - 1] + (IF q[k].kind = "data" THEN q[k].bytes ELSE 0)
  IN  sum
DataIn(q) == DataUpTo(q)[Len(q)]
BytesIn(q) ==
  LET sum[k \in 0..Len(q)] == IF k = 0 THEN 0 ELSE sum[k - 1] + q[k].bytes
  IN  sum[Len(q)]

-----------------------------------------------------------------------------
(* Operators named ...Mutant are plausible slips of the definition they    *)
(* precede; nothing uses them, and each breaks a property of a run.        *)
SetPressureMutant(w, p) == [w EXCEPT !.pressured = p]   \* timer never armed

(* setPressure, with armStallTimer and clearStallTimer.                    *)
SetPressure(w, p) ==
  IF w.pressured = p THEN w ELSE [w EXCEPT !.pressured = p, !.stall = p]

(* updatePressure: the window raises pressure when it is full and lowers   *)
(* it once the queue is empty and the browser has caught up to Low.        *)
UpdatePressure(w) ==
  CASE ~w.viewing -> SetPressure(w, FALSE)
    [] w.viewing /\ ~w.pressured /\ Unacked(w) >= High -> SetPressure(w, TRUE)
    [] w.viewing /\ w.pressured /\ w.queue = << >> /\ Unacked(w) <= Low
         -> SetPressure(w, FALSE)
    [] OTHER -> w

ClearQueue(w) == [w EXCEPT !.queue = << >>, !.pending = 0]

Close(w, reason) ==
  IF ~IsOpen(w) THEN w
  ELSE SetPressure([ClearQueue(w) EXCEPT !.status = reason, !.stall = FALSE], FALSE)

Dispose(w) == Close(w, "disposed")

RequireReplayMutant2(w) == UpdatePressure(ClearQueue(w))   \* forgets the gap
RequireReplay(w) == UpdatePressure(ClearQueue([w EXCEPT !.replay = TRUE]))

-----------------------------------------------------------------------------
(* One pass of drain's loop writes text frames freely and data frames only *)
(* while the window has room.  It stops at the first data frame that does  *)
(* not fit whole, having written as much of it as there was room for.      *)
WriteAll(w) ==
  [w EXCEPT !.queue = << >>, !.pending = @ - BytesIn(w.queue), !.sent = @ + DataIn(w.queue)]

WriteRoom(w) ==
  LET upTo == DataUpTo(w.queue)
      k    == CHOOSE i \in 1..Len(w.queue) :
                upTo[i] > Room(w) /\ upTo[i - 1] <= Room(w)
      left == [w.queue[k] EXCEPT !.bytes = upTo[k] - Room(w)]
      rest == <<left>> \o SubSeq(w.queue, k + 1, Len(w.queue))
  IN  [w EXCEPT !.queue = rest, !.sent = @ + Room(w),
                  !.pending = @ - (BytesIn(w.queue) - BytesIn(rest))]

(* The first frame drain would write, if it would write at all: a send on  *)
(* a socket that is no longer open throws.                                 *)
WouldSend(w) ==
  /\ w.queue # << >>
  /\ Head(w.queue).kind = "text" \/ Room(w) > 0

Drain(w, up) ==
  CASE ~IsOpen(w) \/ w.replay -> w
    [] IsOpen(w) /\ ~w.replay /\ ~up /\ WouldSend(w) -> Close(w, "transport")
    [] IsOpen(w) /\ ~w.replay /\ (up \/ ~WouldSend(w))
         /\ DataIn(w.queue) \in 0..Room(w) -> UpdatePressure(WriteAll(w))
    [] OTHER -> IF w.viewing THEN UpdatePressure(WriteRoom(w))
                             ELSE UpdatePressure(RequireReplay(WriteRoom(w)))

-----------------------------------------------------------------------------
(* The methods the socket handler calls.  up says whether the socket is    *)
(* still OPEN: the callbacks throw when it is not.                         *)
EnqueueData(w, n, up) ==
  CASE ~IsOpen(w) \/ w.replay -> w
    [] IsOpen(w) /\ ~w.replay /\ w.pending + n > MaxPending + (IF Room(w) > 0 THEN Room(w) ELSE 0)
         -> Close(w, "overflow")
    [] OTHER -> Drain([w EXCEPT !.queue = Append(@, [kind |-> "data", bytes |-> n]),
                                !.pending = @ + n], up)

EnqueueControl(w, n, up) ==
  CASE ~IsOpen(w) \/ w.replay -> w
    [] IsOpen(w) /\ ~w.replay /\ w.queue # << >> /\ w.pending + n > MaxPending
         -> Close(w, "overflow")
    [] OTHER -> Drain([w EXCEPT !.queue = Append(@, [kind |-> "text", bytes |-> n]),
                                !.pending = @ + n], up)

AckIsValid(w, n) == n \in 0..w.sent

Acknowledge(w, n, up) ==
  IF ~AckIsValid(w, n) \/ n <= w.acked THEN w
  ELSE LET d == Drain([w EXCEPT !.acked = n], up)
       IN  IF IsOpen(d) /\ d.pressured THEN [d EXCEPT !.stall = TRUE] ELSE d

SetViewing(w, v, up) ==
  CASE ~IsOpen(w) \/ w.viewing = v -> w
    [] IsOpen(w) /\ w.viewing /\ ~v ->
         LET h == [w EXCEPT !.viewing = FALSE]
         IN  IF w.queue # << >> THEN UpdatePressure(RequireReplay(h)) ELSE UpdatePressure(h)
    [] OTHER ->
         LET s == [w EXCEPT !.viewing = TRUE]
         IN  IF w.replay THEN Close(s, "replay-required") ELSE Drain(s, up)

Stall(w) == Close(w, "stalled")
=============================================================================
