-------------------------- MODULE Transport_proofs --------------------------
(***************************************************************************)
(* What is proved of two parts of the transport, for every value of their  *)
(* constants. They share no state.                                         *)
(*                                                                         *)
(* OutputFlow: a PTY is paused exactly for a live viewer with a full       *)
(* window, bytes are queued only under that pressure, and the stream a     *)
(* browser is sent has no gap. A window's invariant WindowOK is closed     *)
(* under each method of the class (the lemmas); the composition adds that  *)
(* the copies of viewing and pressure kept by the record agree with the    *)
(* handlers' (FlowInv). The stream is counted on top of that: each method  *)
(* sends or queues exactly what it is given (Fed), so what a browser was   *)
(* offered is what it was sent and what is queued (StreamInv).             *)
(*                                                                         *)
(* Idempotency: what is sent under one key is carried out once. The        *)
(* argument is a count. Every copy that was carried out is still waiting   *)
(* to answer, is on record, or was excused, and there is room for one copy *)
(* only in the first two: a copy that runs holds the reservation, and      *)
(* while it does there is no record (KeyInv).                              *)
(***************************************************************************)
EXTENDS OutputFlow, Idempotency, FiniteSetTheorems, SequenceTheorems, WellFoundedInduction, TLAPS

(* A window is a record of these nine fields.                              *)
IsWindow(w) ==
  w = [queue |-> w.queue, sent |-> w.sent, acked |-> w.acked, pending |-> w.pending,
       pressured |-> w.pressured, viewing |-> w.viewing, replay |-> w.replay,
       stall |-> w.stall, status |-> w.status]

(* Two windows that agree outside the fields of F. The byte count pending  *)
(* is left out: nothing proved here depends on it.                         *)
SameBut(x, w, F) ==
  /\ IsWindow(x)
  /\ "queue" \in F \/ x.queue = w.queue
  /\ "sent" \in F \/ x.sent = w.sent
  /\ "acked" \in F \/ x.acked = w.acked
  /\ "pressured" \in F \/ x.pressured = w.pressured
  /\ "viewing" \in F \/ x.viewing = w.viewing
  /\ "replay" \in F \/ x.replay = w.replay
  /\ "stall" \in F \/ x.stall = w.stall
  /\ "status" \in F \/ x.status = w.status

(* What holds of a window in the middle of a method, before updatePressure *)
(* and drain have run. The queue has no type yet: until bytes are counted, *)
(* only whether it is empty matters.                                       *)
WindowSound(w) ==
  /\ IsWindow(w)
  /\ w.sent \in Nat /\ w.acked \in Nat
  /\ w.pressured \in BOOLEAN /\ w.viewing \in BOOLEAN /\ w.replay \in BOOLEAN
  /\ w.acked <= w.sent /\ Unacked(w) <= High
  /\ w.stall = w.pressured
  /\ w.pressured => IsOpen(w)

WindowOK(w) ==
  /\ WindowSound(w)
  /\ w.pressured => w.viewing /\ (w.queue # << >> \/ Unacked(w) > Low)
  /\ IsOpen(w) /\ w.viewing /\ Unacked(w) >= High => w.pressured
  /\ w.queue # << >> => Unacked(w) = High /\ w.viewing /\ IsOpen(w)
  /\ w.replay /\ IsOpen(w) => ~w.viewing

(* The invariant of the composition.                                       *)
FlowInv ==
  /\ phase \in [Client -> Phases]
  /\ up \in [Client -> BOOLEAN]
  /\ want \in [Client -> Wants]
  /\ subViewing \in [Client -> BOOLEAN]
  /\ subPressured \in [Client -> BOOLEAN]
  /\ alive \in BOOLEAN
  /\ win = [c \in Client |-> win[c]]
  /\ \A c \in Client :
       /\ WindowOK(win[c]) /\ IsOpen(win[c])
       /\ Joined(c) => alive
       /\ phase[c] = "none" => want[c] = "unset"
       /\ want[c] = "shown" => win[c].viewing
       /\ (subViewing[c] <=> phase[c] = "live" /\ want[c] = "shown")
       /\ (subPressured[c] <=> phase[c] = "live" /\ win[c].pressured)
  /\ (paused <=> alive /\ ShouldPause(subViewing, subPressured))

-----------------------------------------------------------------------------
(* The fields each kind of update leaves alone.                            *)
LEMMA SetPressureFields ==
  ASSUME NEW w, IsWindow(w), NEW p, NEW x, x = SetPressure(w, p)
  PROVE  /\ SameBut(x, w, {"pressured", "stall"})
         /\ x.pressured = p
         /\ w.stall \in {w.pressured, p} => x.stall = p
BY DEF IsWindow, SameBut, SetPressure

LEMMA ClearQueueFields ==
  ASSUME NEW w, IsWindow(w), NEW x, x = ClearQueue(w)
  PROVE  SameBut(x, w, {"queue"}) /\ x.queue = << >>
BY DEF IsWindow, SameBut, ClearQueue

LEMMA WriteAllFields ==
  ASSUME NEW w, IsWindow(w), NEW x, x = WriteAll(w)
  PROVE  /\ SameBut(x, w, {"queue", "sent"})
         /\ x.queue = << >>
         /\ x.sent = w.sent + DataIn(w.queue)
BY DEF IsWindow, SameBut, WriteAll

LEMMA WriteRoomFields ==
  ASSUME NEW w, IsWindow(w), NEW x, x = WriteRoom(w)
  PROVE  SameBut(x, w, {"queue", "sent"}) /\ x.sent = w.sent + Room(w)
<1>1. ASSUME NEW q, NEW n, NEW s, x = [w EXCEPT !.queue = q, !.sent = s, !.pending = n]
      PROVE  SameBut(x, w, {"queue", "sent"}) /\ x.sent = s
  BY <1>1 DEF IsWindow, SameBut
<1>2. PICK q, n : x = [w EXCEPT !.queue = q, !.sent = w.sent + Room(w), !.pending = n]
  BY DEF WriteRoom
<1>3. QED
  BY <1>1, <1>2

LEMMA ReplayFields ==
  ASSUME NEW w, IsWindow(w), NEW x, x = [w EXCEPT !.replay = TRUE]
  PROVE  SameBut(x, w, {"replay"}) /\ x.replay = TRUE
BY DEF IsWindow, SameBut

(* updatePressure restores the pressure conjuncts of WindowOK.             *)
LEMMA UpdatePressureOK ==
  ASSUME NEW w, WindowSound(w), IsOpen(w),
         w.queue # << >> => Unacked(w) = High /\ w.viewing,
         w.replay => ~w.viewing
  PROVE  /\ WindowOK(UpdatePressure(w))
         /\ SameBut(UpdatePressure(w), w, {"pressured", "stall"})
<1> DEFINE x == UpdatePressure(w)
<1>1. IsWindow(w) /\ SameBut(w, w, {})
  BY DEF WindowSound, SameBut
<1>2. /\ SameBut(x, w, {"pressured", "stall"})
      /\ x.stall = x.pressured
      /\ \/ ~w.viewing /\ x.pressured = FALSE
         \/ w.viewing /\ Unacked(w) >= High /\ x.pressured = TRUE
         \/ w.viewing /\ w.queue = << >> /\ Unacked(w) <= Low /\ x.pressured = FALSE
         \/ /\ w.viewing /\ x.pressured = w.pressured
            /\ w.pressured => w.queue # << >> \/ Unacked(w) > Low
            /\ ~w.pressured => Unacked(w) < High
  <2>1. ASSUME NEW p \in BOOLEAN, x = SetPressure(w, p)
        PROVE  SameBut(x, w, {"pressured", "stall"}) /\ x.pressured = p /\ x.stall = p
    <3> HIDE DEF x
    <3> QED BY <1>1, <2>1, SetPressureFields DEF WindowSound
  <2>2. Unacked(w) \in Int /\ High \in Int /\ Low \in Int
    BY FlowAssumption DEF WindowSound, Unacked
  <2>3. CASE ~w.viewing
    <3>1. x = SetPressure(w, FALSE)
      BY <2>3 DEF UpdatePressure
    <3>2. QED
      BY <2>1, <2>3, <3>1
  <2>4. CASE w.viewing /\ ~w.pressured /\ Unacked(w) >= High
    <3>1. x = SetPressure(w, TRUE)
      BY <2>4 DEF UpdatePressure
    <3>2. QED
      BY <2>1, <2>4, <3>1
  <2>5. CASE w.viewing /\ w.pressured /\ w.queue = << >> /\ Unacked(w) <= Low
    <3>1. x = SetPressure(w, FALSE)
      BY <2>5 DEF UpdatePressure
    <3>2. QED
      BY <2>1, <2>5, <3>1
  <2>6. CASE /\ w.viewing
             /\ w.pressured => w.queue # << >> \/ Unacked(w) > Low
             /\ ~w.pressured => Unacked(w) < High
    <3>1. /\ ~(w.viewing /\ ~w.pressured /\ Unacked(w) >= High)
          /\ ~(w.viewing /\ w.pressured /\ w.queue = << >> /\ Unacked(w) <= Low)
      BY <2>2, <2>6
    <3>2. x = w
      BY <2>6, <3>1, Zenon DEF UpdatePressure
    <3>3. SameBut(x, w, {"pressured", "stall"}) /\ x.stall = x.pressured
      BY <3>2 DEF WindowSound, SameBut
    <3>4. QED
      BY <2>6, <3>2, <3>3
  <2>7. w.pressured \in BOOLEAN /\ w.viewing \in BOOLEAN
    BY DEF WindowSound
  <2>8. \/ ~w.viewing
        \/ w.viewing /\ ~w.pressured /\ Unacked(w) >= High
        \/ w.viewing /\ w.pressured /\ w.queue = << >> /\ Unacked(w) <= Low
        \/ /\ w.viewing
           /\ w.pressured => w.queue # << >> \/ Unacked(w) > Low
           /\ ~w.pressured => Unacked(w) < High
    BY <2>2, <2>7
  <2>9. QED
    <3> HIDE DEF x
    <3> QED BY <2>3, <2>4, <2>5, <2>6, <2>8, Zenon
<1>3. QED
  <2> HIDE DEF x
  <2>1. /\ IsWindow(x) /\ x.queue = w.queue /\ x.sent = w.sent /\ x.acked = w.acked
        /\ x.viewing = w.viewing /\ x.replay = w.replay /\ x.status = w.status
        /\ x.stall = x.pressured
    BY <1>2 DEF SameBut
  <2>2. x.pressured \in BOOLEAN
    BY <1>2 DEF WindowSound
  <2>3. WindowSound(x)
    BY <2>1, <2>2 DEF WindowSound, IsOpen, Unacked
  <2>4. WindowOK(x)
    BY <1>2, <2>1, <2>2, <2>3, FlowAssumption DEF WindowOK, WindowSound, IsOpen, Unacked
  <2>5. QED
    BY <1>2, <2>4 DEF x

(* A window that closes itself lets go of the PTY.                         *)
LEMMA CloseOK ==
  ASSUME NEW w, WindowSound(w), IsOpen(w), NEW r, r # "open"
  PROVE  WindowOK(Close(w, r)) /\ ~IsOpen(Close(w, r)) /\ ~Close(w, r).pressured
<1> DEFINE q == ClearQueue(w)
           s == [q EXCEPT !.status = r, !.stall = FALSE]
           x == SetPressure(s, FALSE)
<1>1. SameBut(q, w, {"queue"}) /\ q.queue = << >>
  <2> HIDE DEF q
  <2> QED BY ClearQueueFields DEF WindowSound, q
<1>2. SameBut(s, q, {"status", "stall"}) /\ s.status = r /\ s.stall = FALSE
  <2> HIDE DEF q
  <2>1. IsWindow(q)
    BY <1>1 DEF SameBut
  <2>2. ASSUME NEW y, y = s
        PROVE  SameBut(y, q, {"status", "stall"}) /\ y.status = r /\ y.stall = FALSE
    BY <2>1, <2>2 DEF IsWindow, SameBut
  <2>3. QED
    BY <2>2
<1>3. SameBut(x, s, {"pressured", "stall"}) /\ x.pressured = FALSE /\ x.stall = FALSE
  <2> HIDE DEF s
  <2>1. IsWindow(s)
    BY <1>2 DEF SameBut
  <2>2. SameBut(x, s, {"pressured", "stall"}) /\ x.pressured = FALSE
    BY <2>1, SetPressureFields
  <2>3. x.stall = FALSE
    BY <1>2, <2>1, SetPressureFields
  <2>4. QED
    BY <2>2, <2>3
<1>4. x = Close(w, r)
  BY DEF Close
<1>5. WindowOK(x) /\ ~IsOpen(x)
  <2> HIDE DEF q, s, x
  <2> QED BY <1>1, <1>2, <1>3, FlowAssumption
          DEF SameBut, WindowOK, WindowSound, IsOpen, Unacked
<1>6. QED
  BY <1>3, <1>4, <1>5

(* A hidden window that drops its queue holds nothing and owes a replay.   *)
LEMMA RequireReplayOK ==
  ASSUME NEW w, WindowSound(w), IsOpen(w), ~w.viewing
  PROVE  /\ WindowOK(RequireReplay(w))
         /\ SameBut(RequireReplay(w), w, {"queue", "replay", "pressured", "stall"})
         /\ RequireReplay(w).queue = << >>
<1> DEFINE m == [w EXCEPT !.replay = TRUE]
           r == ClearQueue(m)
<1>1. SameBut(m, w, {"replay"}) /\ m.replay = TRUE
  BY ReplayFields DEF WindowSound
<1>2. SameBut(r, m, {"queue"}) /\ r.queue = << >>
  <2> HIDE DEF m
  <2> QED BY <1>1, ClearQueueFields DEF SameBut
<1>3. WindowSound(r) /\ IsOpen(r) /\ ~r.viewing
  <2> HIDE DEF m, r
  <2> QED BY <1>1, <1>2 DEF SameBut, WindowSound, IsOpen, Unacked
<1>4. WindowOK(UpdatePressure(r)) /\ SameBut(UpdatePressure(r), r, {"pressured", "stall"})
  <2> HIDE DEF r
  <2> QED BY <1>2, <1>3, UpdatePressureOK
<1>5. RequireReplay(w) = UpdatePressure(r)
  BY DEF RequireReplay
<1>6. QED
  <2> HIDE DEF m, r
  <2> QED BY <1>1, <1>2, <1>4, <1>5 DEF SameBut

(* drain leaves either an empty queue or an exhausted window.              *)
LEMMA DrainOK ==
  ASSUME NEW w, WindowSound(w), IsOpen(w), ~w.replay, NEW u \in BOOLEAN
  PROVE  /\ WindowOK(Drain(w, u))
         /\ IsOpen(Drain(w, u)) => Drain(w, u).viewing = w.viewing
<1> DEFINE all == WriteAll(w)
           room == WriteRoom(w)
<1>0. Unacked(w) \in Int /\ Room(w) \in Nat /\ High \in Nat
  BY FlowAssumption DEF WindowSound, Unacked, Room
<1>1. CASE ~u /\ WouldSend(w)
  <2>1. Drain(w, u) = Close(w, "transport")
    BY <1>1 DEF Drain
  <2>2. QED
    BY <2>1, CloseOK
<1>2. CASE (u \/ ~WouldSend(w)) /\ DataIn(w.queue) \in 0..Room(w)
  <2>1. Drain(w, u) = UpdatePressure(all)
    BY <1>2 DEF Drain
  <2>2. SameBut(all, w, {"queue", "sent"}) /\ all.queue = << >>
        /\ all.sent = w.sent + DataIn(w.queue)
    BY WriteAllFields DEF WindowSound
  <2>3. WindowSound(all) /\ IsOpen(all)
    <3> HIDE DEF all
    <3> QED BY <1>0, <1>2, <2>2 DEF SameBut, WindowSound, IsOpen, Unacked, Room
  <2>4. QED
    <3> HIDE DEF all
    <3> QED BY <2>1, <2>2, <2>3, UpdatePressureOK DEF SameBut
<1>3. CASE (u \/ ~WouldSend(w)) /\ DataIn(w.queue) \notin 0..Room(w)
  <2>1. Drain(w, u) = IF w.viewing THEN UpdatePressure(room)
                                   ELSE UpdatePressure(RequireReplay(room))
    BY <1>3 DEF Drain
  <2>2. SameBut(room, w, {"queue", "sent"}) /\ room.sent = w.sent + Room(w)
    BY WriteRoomFields DEF WindowSound
  <2>3. WindowSound(room) /\ IsOpen(room) /\ Unacked(room) = High
    <3> HIDE DEF room
    <3> QED BY <1>0, <2>2, FlowAssumption DEF SameBut, WindowSound, IsOpen, Unacked, Room
  <2>4. CASE w.viewing
    <3> HIDE DEF room
    <3> QED BY <2>1, <2>2, <2>3, <2>4, UpdatePressureOK DEF SameBut
  <2>5. CASE ~w.viewing
    <3> DEFINE hid == RequireReplay(room)
    <3> HIDE DEF room
    <3>1. WindowOK(hid) /\ hid.queue = << >>
          /\ SameBut(hid, room, {"queue", "replay", "pressured", "stall"})
      BY <2>2, <2>3, <2>5, RequireReplayOK DEF SameBut
    <3>2. WindowSound(hid) /\ IsOpen(hid) /\ ~hid.viewing
      <4> HIDE DEF hid
      <4> QED BY <2>2, <2>3, <2>5, <3>1 DEF SameBut, WindowOK, IsOpen
    <3>3. QED
      <4> HIDE DEF hid
      <4>1. /\ WindowOK(UpdatePressure(hid))
            /\ SameBut(UpdatePressure(hid), hid, {"pressured", "stall"})
        BY <3>1, <3>2, UpdatePressureOK
      <4>2. Drain(w, u) = UpdatePressure(hid)
        BY <2>1, <2>5 DEF hid
      <4>3. QED
        BY <2>2, <3>1, <4>1, <4>2 DEF SameBut
  <2>6. QED
    BY <2>4, <2>5 DEF WindowSound
<1>4. QED
  BY <1>1, <1>2, <1>3

-----------------------------------------------------------------------------
(* Every method of the class keeps WindowOK, and only setViewing changes   *)
(* the visibility of a window that stays open.                             *)
LEMMA EnqueueOK ==
  ASSUME NEW w, WindowOK(w), NEW n, NEW u \in BOOLEAN,
         NEW x, x = EnqueueData(w, n, u) \/ x = EnqueueControl(w, n, u)
  PROVE  /\ WindowOK(x)
         /\ IsOpen(x) => x.viewing = w.viewing
<1>1. CASE ~IsOpen(w) \/ w.replay
  <2>1. x = w
    BY <1>1 DEF EnqueueData, EnqueueControl
  <2>2. QED
    BY <2>1
<1>2. CASE IsOpen(w) /\ ~w.replay /\ x = Close(w, "overflow")
  BY <1>2, CloseOK DEF WindowOK
<1>3. ASSUME NEW k \in {"data", "text"},
             IsOpen(w), ~w.replay,
             x = Drain([w EXCEPT !.queue = Append(@, [kind |-> k, bytes |-> n]),
                                 !.pending = @ + n], u)
      PROVE  WindowOK(x) /\ (IsOpen(x) => x.viewing = w.viewing)
  <2>1. PICK y : y = [w EXCEPT !.queue = Append(@, [kind |-> k, bytes |-> n]),
                               !.pending = @ + n]
    OBVIOUS
  <2>2. SameBut(y, w, {"queue"})
    BY <2>1 DEF SameBut, IsWindow, WindowOK, WindowSound
  <2>3. WindowSound(y) /\ IsOpen(y) /\ ~y.replay /\ y.viewing = w.viewing
    BY <1>3, <2>2 DEF SameBut, WindowOK, WindowSound, IsOpen, Unacked
  <2>4. QED
    BY <1>3, <2>1, <2>3, DrainOK
<1>4. CASE IsOpen(w) /\ ~w.replay /\ x # Close(w, "overflow")
  <2>1. \E k \in {"data", "text"} :
          x = Drain([w EXCEPT !.queue = Append(@, [kind |-> k, bytes |-> n]),
                              !.pending = @ + n], u)
    BY <1>4 DEF EnqueueData, EnqueueControl
  <2>2. QED
    BY <1>3, <1>4, <2>1
<1>5. QED
  BY <1>1, <1>2, <1>4

LEMMA AcknowledgeOK ==
  ASSUME NEW w, WindowOK(w), IsOpen(w), NEW n \in Int, AckIsValid(w, n), n > w.acked,
         NEW u \in BOOLEAN
  PROVE  /\ WindowOK(Acknowledge(w, n, u))
         /\ IsOpen(Acknowledge(w, n, u)) => Acknowledge(w, n, u).viewing = w.viewing
<1>1. PICK y : y = [w EXCEPT !.acked = n]
  OBVIOUS
<1>2. SameBut(y, w, {"acked"}) /\ y.acked = n
  BY <1>1 DEF SameBut, IsWindow, WindowOK, WindowSound
<1>3. n \in Nat /\ n <= w.sent /\ w.acked \in Nat /\ w.sent \in Nat /\ High \in Nat
  BY FlowAssumption DEF AckIsValid, WindowOK, WindowSound
<1>4. WindowSound(y) /\ IsOpen(y) /\ y.viewing = w.viewing
  BY <1>2, <1>3 DEF SameBut, WindowOK, WindowSound, IsOpen, Unacked
<1>5. PICK d : d = Drain(y, u)
  OBVIOUS
<1>6. WindowOK(d) /\ (IsOpen(d) => d.viewing = w.viewing)
  <2>1. CASE w.replay
    <3>1. d = y
      BY <1>2, <1>5, <2>1 DEF Drain, SameBut
    <3>2. ~w.viewing /\ ~w.pressured /\ w.queue = << >>
      BY <2>1 DEF WindowOK
    <3>3. QED
      BY <1>2, <1>4, <3>1, <3>2 DEF WindowOK, SameBut
  <2>2. CASE ~w.replay
    BY <1>2, <1>4, <1>5, <2>2, DrainOK DEF SameBut
  <2>3. QED
    BY <2>1, <2>2 DEF WindowOK, WindowSound
<1>7. PICK x : x = Acknowledge(w, n, u)
  OBVIOUS
<1>8. x = IF IsOpen(d) /\ d.pressured THEN [d EXCEPT !.stall = TRUE] ELSE d
  BY <1>1, <1>3, <1>5, <1>7 DEF Acknowledge
<1>9. IF IsOpen(d) /\ d.pressured THEN SameBut(x, d, {"stall"}) /\ x.stall = TRUE ELSE x = d
  BY <1>6, <1>8 DEF SameBut, IsWindow, WindowOK, WindowSound
<1>10. WindowOK(x) /\ (IsOpen(x) => x.viewing = w.viewing)
  BY <1>6, <1>9 DEF SameBut, WindowOK, WindowSound, IsOpen, Unacked
<1>11. QED
  BY <1>7, <1>10

LEMMA SetViewingOK ==
  ASSUME NEW w, WindowOK(w), IsOpen(w), NEW v \in BOOLEAN, NEW u \in BOOLEAN
  PROVE  /\ WindowOK(SetViewing(w, v, u))
         /\ IsOpen(SetViewing(w, v, u)) => SetViewing(w, v, u).viewing = v
<1>0. w.viewing \in BOOLEAN /\ w.replay \in BOOLEAN
  BY DEF WindowOK, WindowSound
<1>1. PICK x, y : x = SetViewing(w, v, u) /\ y = [w EXCEPT !.viewing = v]
  OBVIOUS
<1>2. SameBut(y, w, {"viewing"}) /\ y.viewing = v
  BY <1>1 DEF SameBut, IsWindow, WindowOK, WindowSound
<1>3. WindowSound(y) /\ IsOpen(y)
  BY <1>2 DEF SameBut, WindowOK, WindowSound, IsOpen, Unacked
<1>4. CASE w.viewing = v
  <2>1. x = w
    BY <1>1, <1>4 DEF SetViewing
  <2>2. QED
    BY <1>1, <1>4, <2>1
<1>5. CASE w.viewing /\ ~v /\ w.queue = << >>
  <2>1. x = UpdatePressure(y)
    BY <1>1, <1>5 DEF SetViewing
  <2>2. y.queue = << >> /\ ~y.viewing
    BY <1>2, <1>5 DEF SameBut
  <2>3. WindowOK(x) /\ SameBut(x, y, {"pressured", "stall"})
    BY <1>3, <2>1, <2>2, UpdatePressureOK
  <2>4. x.viewing = v
    BY <1>2, <2>3 DEF SameBut
  <2>5. QED
    BY <1>1, <2>3, <2>4
<1>6. CASE w.viewing /\ ~v /\ w.queue # << >>
  <2>1. x = UpdatePressure(RequireReplay(y))
    BY <1>1, <1>6 DEF SetViewing
  <2>2. PICK h : h = RequireReplay(y)
    OBVIOUS
  <2>3. /\ WindowOK(h) /\ h.queue = << >>
        /\ SameBut(h, y, {"queue", "replay", "pressured", "stall"})
    BY <1>2, <1>3, <1>6, <2>2, RequireReplayOK
  <2>4. WindowSound(h) /\ IsOpen(h) /\ ~h.viewing /\ h.viewing = v
    BY <1>2, <1>3, <1>6, <2>3 DEF SameBut, WindowOK, IsOpen
  <2>5. QED
    BY <1>1, <2>1, <2>2, <2>3, <2>4, UpdatePressureOK DEF SameBut
<1>7. CASE ~w.viewing /\ v /\ w.replay
  <2>1. x = Close(y, "replay-required")
    BY <1>1, <1>7 DEF SetViewing
  <2>2. QED
    BY <1>1, <1>3, <2>1, CloseOK
<1>8. CASE ~w.viewing /\ v /\ ~w.replay
  <2>1. x = Drain(y, u)
    BY <1>1, <1>8 DEF SetViewing
  <2>2. ~y.replay
    BY <1>2, <1>8 DEF SameBut
  <2>3. WindowOK(x) /\ (IsOpen(x) => x.viewing = y.viewing)
    BY <1>3, <2>1, <2>2, DrainOK
  <2>4. QED
    BY <1>1, <1>2, <2>3
<1>9. QED
  BY <1>0, <1>4, <1>5, <1>6, <1>7, <1>8

-----------------------------------------------------------------------------
LEMMA NewWindowOK == WindowOK(NewWindow) /\ IsOpen(NewWindow) /\ NewWindow.viewing
BY FlowAssumption DEF NewWindow, WindowOK, WindowSound, IsWindow, IsOpen, Unacked

(* A step that gives every browser a sound window, and a closed one only   *)
(* to a browser it disconnects, keeps the composition's invariant.         *)
LEMMA SettleOK ==
  ASSUME FlowInv, NEW W, NEW V, NEW T, NEW O, Settle(W, V, T, O), alive' = alive,
         V \in [Client -> BOOLEAN], T \in [Client -> Wants],
         \A c \in Client :
           /\ WindowOK(W[c])
           /\ ~Joined(c) => IsOpen(W[c]) /\ T[c] = "unset"
           /\ IsOpen(W[c]) /\ T[c] = "shown" => W[c].viewing
           /\ (V[c] <=> phase[c] = "live" /\ T[c] = "shown")
  PROVE  FlowInv'
<1>1. /\ phase' \in [Client -> Phases] /\ up' \in [Client -> BOOLEAN]
      /\ want' \in [Client -> Wants] /\ subViewing' \in [Client -> BOOLEAN]
      /\ alive' \in BOOLEAN
  BY DEF FlowInv, Settle, Phases, Wants
<1>2. \A c \in Client : W[c].pressured \in BOOLEAN /\ (W[c].pressured => IsOpen(W[c]))
  BY DEF WindowOK, WindowSound
<1>3. subPressured' \in [Client -> BOOLEAN]
  BY <1>2 DEF Settle
<1>4. win' = [c \in Client |-> win'[c]]
  BY DEF Settle
<1>5. ASSUME NEW c \in Client
      PROVE  /\ WindowOK(win'[c]) /\ IsOpen(win'[c])
             /\ phase'[c] # "none" => alive'
             /\ phase'[c] = "none" => want'[c] = "unset"
             /\ want'[c] = "shown" => win'[c].viewing
             /\ (subViewing'[c] <=> phase'[c] = "live" /\ want'[c] = "shown")
             /\ (subPressured'[c] <=> phase'[c] = "live" /\ win'[c].pressured)
  <2>1. CASE c \in Gone(W)
    <3>1. win'[c] = NewWindow /\ phase'[c] = "none" /\ want'[c] = "unset"
          /\ subViewing'[c] = FALSE /\ (subPressured'[c] <=> phase[c] = "live" /\ W[c].pressured)
      BY <2>1 DEF Settle
    <3>2. ~IsOpen(W[c])
      BY <2>1 DEF Gone
    <3>3. subPressured'[c] = FALSE
      BY <1>2, <3>1, <3>2
    <3>4. QED
      BY <3>1, <3>3, NewWindowOK
  <2>2. CASE c \notin Gone(W)
    <3>1. win'[c] = W[c] /\ phase'[c] = phase[c] /\ want'[c] = T[c]
          /\ subViewing'[c] = V[c] /\ (subPressured'[c] <=> phase[c] = "live" /\ W[c].pressured)
      BY <2>2 DEF Settle
    <3>2. IsOpen(W[c])
      BY <2>2 DEF Gone
    <3>3. phase[c] # "none" => alive
      BY DEF FlowInv, Joined
    <3>4. QED
      BY <3>1, <3>2, <3>3 DEF Joined
  <2>3. QED
    BY <2>1, <2>2
<1>6. (paused' <=> alive' /\ ShouldPause(subViewing', subPressured'))
  BY DEF Settle, SyncOutputPressure, FlowInv, ShouldPause
<1>7. QED
  BY <1>1, <1>3, <1>4, <1>5, <1>6 DEF FlowInv, Joined

-----------------------------------------------------------------------------
LEMMA InitFlowInv == Init => FlowInv
<1> SUFFICES ASSUME Init PROVE FlowInv
  OBVIOUS
<1>1. \A c \in Client : win[c] = NewWindow
  BY DEF Init
<1>2. QED
  BY <1>1, NewWindowOK DEF Init, FlowInv, Phases, Wants, Joined, ShouldPause

(* The window a joining browser ends up with.                              *)
LEMMA ReplayOK ==
  ASSUME NEW r, NEW x, x = Replay(EnqueueControl(NewWindow, 1, TRUE), r)
                       \/ x = EnqueueControl(NewWindow, 1, TRUE),
         IsOpen(x)
  PROVE  WindowOK(x) /\ x.viewing
<1>1. \A w, n : WindowOK(w) /\ (IsOpen(w) => w.viewing)
        => LET d == EnqueueData(w, n, TRUE)
               e == EnqueueControl(w, n, TRUE)
           IN  /\ WindowOK(d) /\ (IsOpen(d) => d.viewing)
               /\ WindowOK(e) /\ (IsOpen(e) => e.viewing)
  <2> SUFFICES ASSUME NEW w, NEW n, WindowOK(w), IsOpen(w) => w.viewing,
                      NEW y, y = EnqueueData(w, n, TRUE) \/ y = EnqueueControl(w, n, TRUE)
               PROVE  WindowOK(y) /\ (IsOpen(y) => y.viewing)
    OBVIOUS
  <2>1. CASE IsOpen(w)
    BY <2>1, EnqueueOK
  <2>2. CASE ~IsOpen(w)
    <3>1. y = w
      BY <2>2 DEF EnqueueData, EnqueueControl
    <3>2. QED
      BY <3>1
  <2>3. QED
    BY <2>1, <2>2
<1>2. PICK hello : hello = EnqueueControl(NewWindow, 1, TRUE)
  OBVIOUS
<1>3. WindowOK(hello) /\ (IsOpen(hello) => hello.viewing)
  BY <1>1, <1>2, NewWindowOK
<1>4. CASE x = hello
  BY <1>3, <1>4
<1>5. CASE x = Replay(hello, r) /\ x # hello
  <2>1. x = EnqueueControl(EnqueueData(EnqueueControl(hello, 1, TRUE), r, TRUE), 1, TRUE)
    BY <1>5 DEF Replay
  <2>2. QED
    BY <1>1, <1>3, <2>1
<1>6. QED
  BY <1>2, <1>4, <1>5

LEMMA NextFlowInv == FlowInv /\ [Next]_vars => FlowInv'
<1> SUFFICES ASSUME FlowInv, [Next]_vars PROVE FlowInv'
  OBVIOUS
<1>0. /\ \A c \in Client : WindowOK(win[c]) /\ IsOpen(win[c])
      /\ \A c \in Client : phase[c] \in Phases /\ want[c] \in Wants
      /\ want \in [Client -> Wants] /\ subViewing \in [Client -> BOOLEAN]
      /\ \A c \in Client :
           /\ phase[c] # "none" => alive
           /\ phase[c] = "none" => want[c] = "unset"
           /\ want[c] = "shown" => win[c].viewing
           /\ (subViewing[c] <=> phase[c] = "live" /\ want[c] = "shown")
           /\ (subPressured[c] <=> phase[c] = "live" /\ win[c].pressured)
  BY DEF FlowInv, Joined
<1>1. ASSUME NEW c \in Client, Connect(c) PROVE FlowInv'
  <2>1. PICK w : /\ win' = [win EXCEPT ![c] = w] /\ IsOpen(w)
                 /\ WindowOK(w) /\ w.viewing
    <3>1. PICK r, w :
            /\ w = (IF alive THEN Replay(EnqueueControl(NewWindow, 1, TRUE), r)
                             ELSE EnqueueControl(NewWindow, 1, TRUE))
            /\ IsOpen(w) /\ win' = [win EXCEPT ![c] = w]
      BY <1>1 DEF Connect
    <3>2. QED
      BY <3>1, ReplayOK
  <2>2. /\ phase[c] = "none" /\ phase' = [phase EXCEPT ![c] = "joining"]
        /\ up' = [up EXCEPT ![c] = TRUE] /\ alive' = TRUE
        /\ UNCHANGED <<want, subViewing, subPressured, paused>>
    BY <1>1 DEF Connect
  <2>3. win' = [d \in Client |-> win'[d]]
        /\ \A d \in Client : win'[d] = IF d = c THEN w ELSE win[d]
    BY <2>1 DEF FlowInv
  <2>4. (paused' <=> alive' /\ ShouldPause(subViewing', subPressured'))
    BY <2>2 DEF FlowInv, ShouldPause, Joined
  <2>5. \A d \in Client : phase'[d] = IF d = c THEN "joining" ELSE phase[d]
    BY <2>2 DEF FlowInv
  <2>6. QED
    BY <2>1, <2>2, <2>3, <2>4, <2>5 DEF FlowInv, Phases, Joined
<1>2. ASSUME NEW c \in Client, Attached(c) PROVE FlowInv'
  <2>1. /\ phase'[c] = "live" /\ (subViewing'[c] <=> want[c] = "shown")
        /\ subPressured'[c] = win[c].pressured
        /\ \A d \in Client : d # c => /\ phase'[d] = phase[d]
                                      /\ subViewing'[d] = subViewing[d]
                                      /\ subPressured'[d] = subPressured[d]
    BY <1>2 DEF Attached, FlowInv
  <2>2. win[c].pressured \in BOOLEAN
    BY <1>0 DEF WindowOK, WindowSound
  <2>3. phase' \in [Client -> Phases] /\ subViewing' \in [Client -> BOOLEAN]
        /\ subPressured' \in [Client -> BOOLEAN]
    BY <1>2, <2>2 DEF Attached, FlowInv, Phases
  <2>4. (paused' <=> alive' /\ ShouldPause(subViewing', subPressured'))
        /\ UNCHANGED <<up, win, want, alive>> /\ phase[c] = "joining"
    BY <1>2 DEF Attached, SyncOutputPressure
  <2>5. ASSUME NEW d \in Client
        PROVE  /\ phase'[d] # "none" => alive'
               /\ phase'[d] = "none" => want'[d] = "unset"
               /\ want'[d] = "shown" => win'[d].viewing
               /\ (subViewing'[d] <=> phase'[d] = "live" /\ want'[d] = "shown")
               /\ (subPressured'[d] <=> phase'[d] = "live" /\ win'[d].pressured)
    <3>1. CASE d = c
      BY <1>0, <2>1, <2>2, <2>4, <3>1
    <3>2. CASE d # c
      BY <1>0, <2>1, <2>4, <3>2
    <3>3. QED
      BY <3>1, <3>2
  <2>6. QED
    BY <1>0, <2>3, <2>4, <2>5 DEF FlowInv, Joined
<1>3. ASSUME NEW c \in Client, Visibility(c) PROVE FlowInv'
  <2>1. PICK v \in {"shown", "hidden"} :
          Settle([win EXCEPT ![c] = SetViewing(@, v = "shown", TRUE)],
                 [subViewing EXCEPT ![c] = phase[c] = "live" /\ v = "shown"],
                 [want EXCEPT ![c] = v], offered)
    BY <1>3 DEF Visibility
  <2>2. PICK x : x = SetViewing(win[c], v = "shown", TRUE)
    OBVIOUS
  <2>3. WindowOK(x) /\ (IsOpen(x) => x.viewing = (v = "shown"))
    BY <1>0, <2>2, SetViewingOK
  <2>4. PICK W, V, T : /\ W = [win EXCEPT ![c] = x]
                       /\ V = [subViewing EXCEPT ![c] = phase[c] = "live" /\ v = "shown"]
                       /\ T = [want EXCEPT ![c] = v]
    OBVIOUS
  <2>5. /\ W[c] = x /\ (V[c] <=> phase[c] = "live" /\ v = "shown") /\ T[c] = v
        /\ \A d \in Client : d # c => /\ W[d] = win[d] /\ V[d] = subViewing[d]
                                      /\ T[d] = want[d]
    BY <2>4 DEF FlowInv
  <2>6. V \in [Client -> BOOLEAN] /\ T \in [Client -> Wants]
    BY <2>4 DEF FlowInv, Wants
  <2>7. Settle(W, V, T, offered) /\ alive' = alive /\ Joined(c)
    BY <1>3, <2>1, <2>2, <2>4 DEF Visibility
  <2>8. ASSUME NEW d \in Client
        PROVE  /\ WindowOK(W[d])
               /\ ~Joined(d) => IsOpen(W[d]) /\ T[d] = "unset"
               /\ IsOpen(W[d]) /\ T[d] = "shown" => W[d].viewing
               /\ (V[d] <=> phase[d] = "live" /\ T[d] = "shown")
    <3>1. CASE d = c
      BY <2>3, <2>5, <2>7, <3>1
    <3>2. CASE d # c
      BY <1>0, <2>5, <3>2 DEF Joined
    <3>3. QED
      BY <3>1, <3>2
  <2>9. QED
    BY <2>6, <2>7, <2>8, SettleOK
<1>4. ASSUME NEW W, NEW O, Settle(W, subViewing, want, O), alive' = alive,
             \A d \in Client : /\ WindowOK(W[d])
                               /\ IsOpen(W[d]) => W[d].viewing = win[d].viewing
                               /\ ~Joined(d) => IsOpen(W[d])
      PROVE  FlowInv'
  <2>1. ASSUME NEW d \in Client
        PROVE  /\ WindowOK(W[d])
               /\ ~Joined(d) => IsOpen(W[d]) /\ want[d] = "unset"
               /\ IsOpen(W[d]) /\ want[d] = "shown" => W[d].viewing
               /\ (subViewing[d] <=> phase[d] = "live" /\ want[d] = "shown")
    <3>1. IsOpen(W[d]) => W[d].viewing = win[d].viewing
      BY <1>4
    <3>2. want[d] = "shown" => win[d].viewing
      BY <1>0
    <3>3. IsOpen(W[d]) /\ want[d] = "shown" => W[d].viewing
      BY <3>1, <3>2
    <3>4. QED
      BY <1>0, <1>4, <3>3 DEF Joined
  <2>2. Settle(W, subViewing, want, O) /\ alive' = alive
    BY <1>4
  <2>3. QED
    BY <1>0, <2>1, <2>2, SettleOK
<1>5. ASSUME NEW c \in Client, NEW x, Joined(c), alive' = alive,
             Settle([win EXCEPT ![c] = x], subViewing, want, offered),
             WindowOK(x), IsOpen(x) => x.viewing = win[c].viewing
      PROVE  FlowInv'
  <2>1. PICK W : W = [win EXCEPT ![c] = x]
    OBVIOUS
  <2>2. W[c] = x /\ \A d \in Client : d # c => W[d] = win[d]
    BY <2>1 DEF FlowInv
  <2>3. ASSUME NEW d \in Client
        PROVE  /\ WindowOK(W[d])
               /\ IsOpen(W[d]) => W[d].viewing = win[d].viewing
               /\ ~Joined(d) => IsOpen(W[d])
    <3>1. CASE d = c
      BY <1>5, <2>2, <3>1
    <3>2. CASE d # c
      BY <1>0, <2>2, <3>2
    <3>3. QED
      BY <3>1, <3>2
  <2>4. Settle(W, subViewing, want, offered) /\ alive' = alive
    BY <1>5, <2>1
  <2>5. QED
    BY <1>4, <2>3, <2>4
<1>6. ASSUME NEW c \in Client, Ack(c) PROVE FlowInv'
  <2>1. win[c].acked \in Nat /\ win[c].sent \in Nat
    BY <1>0 DEF WindowOK, WindowSound
  <2>2. PICK n \in win[c].acked + 1 .. win[c].sent + 1 :
          Settle([win EXCEPT ![c] = IF AckIsValid(win[c], n) THEN Acknowledge(win[c], n, TRUE)
                                                   ELSE Close(win[c], "protocol")],
                 subViewing, want, offered)
    BY <1>6 DEF Ack, FlowInv
  <2>3. PICK x : x = IF AckIsValid(win[c], n) THEN Acknowledge(win[c], n, TRUE)
                                              ELSE Close(win[c], "protocol")
    OBVIOUS
  <2>4. WindowOK(x) /\ (IsOpen(x) => x.viewing = win[c].viewing)
    <3>1. CASE AckIsValid(win[c], n)
      <4>1. n \in Int /\ n > win[c].acked
        BY <2>1
      <4>2. QED
        BY <1>0, <2>3, <3>1, <4>1, AcknowledgeOK
    <3>2. CASE ~AckIsValid(win[c], n)
      BY <1>0, <2>3, <3>2, CloseOK DEF WindowOK
    <3>3. QED
      BY <3>1, <3>2
  <2>5. QED
    BY <1>5, <1>6, <2>2, <2>3, <2>4 DEF Ack
<1>7. ASSUME Output PROVE FlowInv'
  <2>1. PICK n, W, O :
          /\ W = [c \in Client |-> IF Joined(c) THEN EnqueueData(win[c], n, up[c]) ELSE win[c]]
          /\ Settle(W, subViewing, want, O)
    BY <1>7 DEF Output
  <2>2. ASSUME NEW d \in Client
        PROVE  /\ WindowOK(W[d]) /\ (IsOpen(W[d]) => W[d].viewing = win[d].viewing)
               /\ ~Joined(d) => IsOpen(W[d])
    <3>1. up[d] \in BOOLEAN
      BY DEF FlowInv
    <3>2. CASE Joined(d)
      <4>1. W[d] = EnqueueData(win[d], n, up[d])
        BY <2>1, <3>2
      <4>2. QED
        BY <1>0, <3>1, <3>2, <4>1, EnqueueOK
    <3>3. CASE ~Joined(d)
      BY <1>0, <2>1, <3>3
    <3>4. QED
      BY <3>2, <3>3
  <2>3. QED
    BY <1>4, <1>7, <2>1, <2>2 DEF Output
<1>8. ASSUME NEW c \in Client, StallTimeout(c) \/ SocketClosed(c) PROVE FlowInv'
  <2>1. PICK x : /\ x = Close(win[c], "stalled") \/ x = Close(win[c], "disposed")
                 /\ Settle([win EXCEPT ![c] = x], subViewing, want, offered)
    BY <1>8 DEF StallTimeout, SocketClosed, Stall, Dispose, FlowInv
  <2>2. WindowOK(x) /\ ~IsOpen(x)
    BY <1>0, <2>1, CloseOK DEF WindowOK
  <2>3. QED
    BY <1>5, <1>8, <2>1, <2>2 DEF StallTimeout, SocketClosed
<1>9. ASSUME NEW c \in Client, Drop(c) PROVE FlowInv'
  BY <1>9 DEF Drop, FlowInv, Joined
<1>10. ASSUME Exit PROVE FlowInv'
  <2>1. \A c \in Client : win'[c] = NewWindow
    BY <1>10 DEF Exit
  <2>2. (paused' <=> alive' /\ ShouldPause(subViewing', subPressured'))
    BY <1>10 DEF Exit, SyncOutputPressure
  <2>3. QED
    BY <1>10, <2>1, <2>2, NewWindowOK DEF Exit, FlowInv, Joined, Phases, Wants
<1>11. CASE UNCHANGED vars
  BY <1>11 DEF vars, FlowInv, Joined, ShouldPause
<1>12. QED
  BY <1>1, <1>2, <1>3, <1>6, <1>7, <1>8, <1>9, <1>10, <1>11 DEF Next

THEOREM FlowInvariant == Spec => []FlowInv
BY InitFlowInv, NextFlowInv, PTL DEF Spec

(* The PTY is paused only for a browser that is attached, in front, behind *)
(* on its window and on the stall timer (syncOutputPressure).              *)
THEOREM PausedOnlyForLiveViewer == Spec => []PausedForLiveViewer
<1>1. FlowInv => PausedForLiveViewer
  BY DEF FlowInv, PausedForLiveViewer, ShouldPause, WindowOK, WindowSound
<1>2. QED
  BY <1>1, FlowInvariant, PTL

(* A browser in front with a full window has the PTY paused.               *)
THEOREM FullViewerAlwaysPauses == Spec => []FullViewerPauses
<1>1. FlowInv => FullViewerPauses
  BY DEF FlowInv, FullViewerPauses, ShouldPause, WindowOK, Joined
<1>2. QED
  BY <1>1, FlowInvariant, PTL

(* Bytes wait in a window only behind a full wire, for a browser in front  *)
(* whose stall timer is armed (drain, requireReplay).                      *)
THEOREM QueueMeansPressure == Spec => []QueuedOnlyUnderPressure
<1>1. FlowInv => QueuedOnlyUnderPressure
  BY FlowAssumption DEF FlowInv, QueuedOnlyUnderPressure, WindowOK, WindowSound, Unacked
<1>2. QED
  BY <1>1, FlowInvariant, PTL

-----------------------------------------------------------------------------
-----------------------------------------------------------------------------
(* Running sums. DataUpTo is defined by recursion on the number of frames; *)
(* what it is for every queue follows from the least number of frames for  *)
(* which it would not be that.                                             *)
Amount(x) == IF x.kind = "data" THEN x.bytes ELSE 0

IsSum(f, q) == f = [k \in 0 .. Len(q) |-> IF k = 0 THEN 0 ELSE f[k - 1] + Amount(q[k])]

(* A set of numbers has a least one.                                       *)
LEMMA LeastNumber ==
  ASSUME NEW S \in SUBSET Nat, S # {}
  PROVE  \E n \in S : \A m \in S : n <= m
<1>1. PICK n \in S : \A m \in S : <<m, n>> \notin OpToRel(<, Nat)
  BY WFMin, NatLessThanWellFounded, Zenon
<1>2. \A m \in S : ~(m < n)
  BY <1>1, Zenon DEF OpToRel
<1>3. \A m \in S : n <= m
  BY <1>2
<1>4. QED
  BY <1>3

LEMMA AmountNat ==
  ASSUME NEW q \in Seq(Item), NEW k \in 1 .. Len(q)
  PROVE  q[k] \in Item /\ Amount(q[k]) \in Nat
<1>1. q[k] \in Item
  OBVIOUS
<1>2. q[k].bytes \in Nat
  BY <1>1 DEF Item
<1>3. QED
  BY <1>1, <1>2 DEF Amount

(* There is such a sum.                                                    *)
LEMMA SumExists ==
  ASSUME NEW q \in Seq(Item)
  PROVE  \E f : IsSum(f, q)
<1> DEFINE Part(n, f) == /\ f \in [0 .. n -> Nat] /\ f[0] = 0
                         /\ \A k \in 1 .. n : f[k] = f[k - 1] + Amount(q[k])
           Bad == {n \in 0 .. Len(q) : ~ \E f : Part(n, f)}
<1>1. Bad = {}
  <2>1. SUFFICES ASSUME Bad # {} PROVE FALSE
    OBVIOUS
  <2>2. PICK n \in Bad : \A m \in Bad : n <= m
    <3>1. Bad \in SUBSET Nat
      OBVIOUS
    <3>2. QED
      BY <2>1, <3>1, LeastNumber
  <2>3. n \in 0 .. Len(q) /\ ~ \E f : Part(n, f)
    BY <2>2
  <2>4. n # 0
    <3>1. PICK z : z \in Nat /\ z = 0
      OBVIOUS
    <3>2. PICK f : f = [k \in 0 .. z |-> z]
      OBVIOUS
    <3>3. Part(0, f)
      BY <3>1, <3>2
    <3>4. QED
      BY <2>3, <3>3
  <2>5. PICK f : Part(n - 1, f)
    <3>1. n - 1 \in 0 .. Len(q) /\ ~(n <= n - 1)
      BY <2>3, <2>4
    <3>2. n - 1 \notin Bad
      BY <2>2, <3>1
    <3>3. QED
      BY <3>1, <3>2
  <2>6. PICK a \in Nat : a = f[n - 1] + Amount(q[n])
    <3>1. n \in 1 .. Len(q) /\ n - 1 \in 0 .. n - 1
      BY <2>3, <2>4
    <3>2. f[n - 1] \in Nat /\ Amount(q[n]) \in Nat
      BY <2>5, <3>1, AmountNat
    <3>3. QED
      BY <3>2
  <2>7. PICK g : g = [k \in 0 .. n |-> IF k = n THEN a ELSE f[k]]
    OBVIOUS
  <2>8. Part(n, g)
    BY <2>3, <2>4, <2>5, <2>6, <2>7
  <2>9. QED
    BY <2>3, <2>8
<1>2. Len(q) \in 0 .. Len(q)
  OBVIOUS
<1>3. PICK f : Part(Len(q), f)
  BY <1>1, <1>2
<1>4. IsSum(f, q)
  <2>1. f = [k \in 0 .. Len(q) |-> f[k]]
    BY <1>3
  <2>2. \A k \in 0 .. Len(q) : f[k] = IF k = 0 THEN 0 ELSE f[k - 1] + Amount(q[k])
    BY <1>3
  <2>3. QED
    BY <2>1, <2>2 DEF IsSum
<1>5. QED
  BY <1>4

(* What the model's recursive definition is: its values are numbers.       *)
LEMMA DataUpToIs ==
  ASSUME NEW q \in Seq(Item), NEW f, f = DataUpTo(q)
  PROVE  /\ f \in [0 .. Len(q) -> Nat] /\ f[0] = 0
         /\ \A k \in 1 .. Len(q) : f[k] = f[k - 1] + Amount(q[k])
<1>1. IsSum(f, q)
  <2>1. DataUpTo(q) = CHOOSE g : IsSum(g, q)
    BY DEF DataUpTo, IsSum, Amount
  <2>2. QED
    BY <2>1, SumExists
<1>2. /\ f[0] = 0 /\ DOMAIN f = 0 .. Len(q)
      /\ \A k \in 1 .. Len(q) : f[k] = f[k - 1] + Amount(q[k])
  BY <1>1 DEF IsSum
<1> DEFINE Bad == {n \in 0 .. Len(q) : f[n] \notin Nat}
<1>3. Bad = {}
  <2>1. SUFFICES ASSUME Bad # {} PROVE FALSE
    OBVIOUS
  <2>2. PICK n \in Bad : \A m \in Bad : n <= m
    <3>1. Bad \in SUBSET Nat
      OBVIOUS
    <3>2. QED
      BY <2>1, <3>1, LeastNumber
  <2>3. n \in 1 .. Len(q) /\ n - 1 \in 0 .. Len(q) /\ ~(n <= n - 1)
    BY <1>2, <2>2
  <2>4. f[n - 1] \in Nat
    BY <2>2, <2>3
  <2>5. Amount(q[n]) \in Nat
    BY <2>3, AmountNat
  <2>6. f[n] \in Nat
    BY <1>2, <2>3, <2>4, <2>5
  <2>7. QED
    BY <2>2, <2>6
<1>4. f = [k \in 0 .. Len(q) |-> f[k]]
  BY <1>1 DEF IsSum
<1>5. QED
  BY <1>2, <1>3, <1>4

(* Sums that take the same steps stay the same distance apart.             *)
Together(f, g, n, d, i) ==
  /\ \A k \in 0 .. n : f[k] \in Int /\ g[k + i] \in Int
  /\ g[i] = f[0] + d
  /\ \A k \in 1 .. n : g[k + i] - g[k + i - 1] = f[k] - f[k - 1]

Apart(f, g, n, d, i) == g[n + i] = f[n] + d

LEMMA SumsMoveTogether ==
  ASSUME NEW f, NEW g, NEW n \in Nat, NEW d \in Int, NEW i \in Int, Together(f, g, n, d, i)
  PROVE  Apart(f, g, n, d, i)
<1>0. /\ \A k \in 0 .. n : f[k] \in Int /\ g[k + i] \in Int
      /\ g[i] = f[0] + d
      /\ \A k \in 1 .. n : g[k + i] - g[k + i - 1] = f[k] - f[k - 1]
  BY DEF Together
<1> DEFINE Bad == {k \in 0 .. n : g[k + i] # f[k] + d}
<1>1. Bad = {}
  <2>1. SUFFICES ASSUME Bad # {} PROVE FALSE
    OBVIOUS
  <2>2. PICK k \in Bad : \A m \in Bad : k <= m
    <3>1. Bad \in SUBSET Nat
      OBVIOUS
    <3>2. QED
      BY <2>1, <3>1, LeastNumber
  <2>3. k # 0
    <3>1. 0 + i = i
      OBVIOUS
    <3>2. QED
      BY <1>0, <2>2, <3>1
  <2>4. k \in 1 .. n /\ k - 1 \in 0 .. n /\ ~(k <= k - 1) /\ (k - 1) + i = k + i - 1
    BY <2>2, <2>3
  <2>5. g[k + i - 1] = f[k - 1] + d
    <3>1. k - 1 \notin Bad
      BY <2>2, <2>4
    <3>2. g[(k - 1) + i] = f[k - 1] + d
      BY <2>4, <3>1
    <3>3. QED
      BY <2>4, <3>2
  <2>6. f[k] \in Int /\ f[k - 1] \in Int /\ g[k + i] \in Int /\ g[k + i - 1] \in Int
        /\ g[k + i] - g[k + i - 1] = f[k] - f[k - 1]
    <3>1. k \in 0 .. n
      BY <2>4
    <3>2. g[(k - 1) + i] \in Int
      BY <1>0, <2>4
    <3>3. QED
      BY <1>0, <2>4, <3>1, <3>2
  <2>7. g[k + i] = f[k] + d
    BY <2>5, <2>6
  <2>8. QED
    BY <2>2, <2>7
<1>2. n \in 0 .. n
  OBVIOUS
<1>3. QED
  BY <1>1, <1>2 DEF Apart

-----------------------------------------------------------------------------
(* The bytes of a queue, as frames come and go.                            *)
LEMMA DataInEmpty == DataIn(<< >>) = 0
<1>1. << >> \in Seq(Item) /\ Len(<< >>) = 0
  OBVIOUS
<1>2. QED
  BY <1>1, DataUpToIs DEF DataIn

LEMMA DataInNat ==
  ASSUME NEW q \in Seq(Item)
  PROVE  DataIn(q) \in Nat
<1>1. DataUpTo(q) \in [0 .. Len(q) -> Nat] /\ Len(q) \in 0 .. Len(q)
  BY DataUpToIs
<1>2. QED
  BY <1>1 DEF DataIn

LEMMA DataInAppend ==
  ASSUME NEW q \in Seq(Item), NEW x \in Item
  PROVE  Append(q, x) \in Seq(Item) /\ DataIn(Append(q, x)) = DataIn(q) + Amount(x)
<1>1. PICK p : p = Append(q, x)
  OBVIOUS
<1>2. PICK n \in Nat : n = Len(q)
  OBVIOUS
<1>3. p \in Seq(Item) /\ Len(p) = n + 1 /\ p[n + 1] = x /\ \A k \in 1 .. n : p[k] = q[k]
  BY <1>1, <1>2
<1>4. PICK f, g : f = DataUpTo(q) /\ g = DataUpTo(p)
  OBVIOUS
<1>5. f \in [0 .. n -> Nat] /\ f[0] = 0 /\ \A k \in 1 .. n : f[k] = f[k - 1] + Amount(q[k])
  BY <1>2, <1>4, DataUpToIs
<1>6. g \in [0 .. n + 1 -> Nat] /\ g[0] = 0
      /\ \A k \in 1 .. n + 1 : g[k] = g[k - 1] + Amount(p[k])
  <2>1. g \in [0 .. Len(p) -> Nat] /\ g[0] = 0
        /\ \A k \in 1 .. Len(p) : g[k] = g[k - 1] + Amount(p[k])
    BY <1>3, <1>4, DataUpToIs
  <2>2. QED
    BY <1>3, <2>1
<1>7. \A k \in 1 .. n : Amount(p[k]) = Amount(q[k]) /\ Amount(q[k]) \in Nat
  BY <1>2, <1>3, AmountNat
<1>8. g[n] = f[n]
  <2>1. PICK z \in Int : z = 0
    OBVIOUS
  <2>2. \A k \in 0 .. n : f[k] \in Int /\ g[k + z] \in Int /\ k + z = k
    BY <1>5, <1>6, <2>1
  <2>3. \A k \in 1 .. n : g[k + z] - g[k + z - 1] = f[k] - f[k - 1]
    <3>1. ASSUME NEW k \in 1 .. n PROVE g[k + z] - g[k + z - 1] = f[k] - f[k - 1]
      <4>1. k + z = k /\ k + z - 1 = k - 1 /\ k - 1 \in 0 .. n /\ k \in 1 .. n + 1
        BY <2>1
      <4>2. f[k - 1] \in Int /\ g[k - 1] \in Int /\ Amount(q[k]) \in Int
        BY <1>5, <1>6, <1>7, <4>1
      <4>3. f[k] = f[k - 1] + Amount(q[k]) /\ g[k] = g[k - 1] + Amount(q[k])
        BY <1>5, <1>6, <1>7, <4>1
      <4>4. QED
        BY <4>1, <4>2, <4>3
    <3>2. QED
      BY <3>1
  <2>4. g[z] = f[0] + z
    BY <1>5, <1>6, <2>1
  <2>5. g[n + z] = f[n] + z
    <3>1. Together(f, g, n, z, z)
      BY <2>2, <2>3, <2>4 DEF Together
    <3>2. QED
      BY <2>1, <3>1, SumsMoveTogether DEF Apart
  <2>6. QED
    BY <1>5, <2>1, <2>5
<1>9. DataIn(p) = g[n + 1] /\ DataIn(q) = f[n]
  BY <1>2, <1>3, <1>4 DEF DataIn
<1>10. n + 1 \in 1 .. n + 1 /\ (n + 1) - 1 = n
  OBVIOUS
<1>11. g[n + 1] = g[n] + Amount(x)
  BY <1>3, <1>6, <1>10
<1>12. QED
  BY <1>1, <1>3, <1>8, <1>9, <1>11

(* A queue of which room bytes were written, the last frame in part: which *)
(* frame that is,                                                          *)
CutAt(q, room) ==
  CHOOSE i \in 1 .. Len(q) : DataUpTo(q)[i] > room /\ DataUpTo(q)[i - 1] <= room

LEMMA CutFrame ==
  ASSUME NEW q \in Seq(Item), NEW room \in Nat, DataIn(q) > room, NEW k, k = CutAt(q, room)
  PROVE  k \in 1 .. Len(q) /\ DataUpTo(q)[k] > room /\ DataUpTo(q)[k - 1] <= room
<1>1. PICK f : f = DataUpTo(q)
  OBVIOUS
<1>2. PICK n \in Nat : n = Len(q)
  OBVIOUS
<1>3. /\ f \in [0 .. n -> Nat] /\ f[0] = 0
      /\ \A i \in 1 .. n : f[i] = f[i - 1] + Amount(q[i])
  BY <1>1, <1>2, DataUpToIs
<1>4. f[n] > room
  BY <1>1, <1>2 DEF DataIn
<1> DEFINE Over == {i \in 0 .. n : f[i] > room}
<1>5. PICK i \in Over : \A m \in Over : i <= m
  <2>1. Over \in SUBSET Nat /\ n \in Over
    BY <1>4
  <2>2. QED
    BY <2>1, LeastNumber
<1>6. i \in 1 .. n /\ i - 1 \in 0 .. n /\ ~(i <= i - 1)
  BY <1>3, <1>5
<1>7. f[i] > room /\ f[i - 1] <= room
  BY <1>3, <1>5, <1>6
<1>8. \E j \in 1 .. Len(q) : DataUpTo(q)[j] > room /\ DataUpTo(q)[j - 1] <= room
  BY <1>1, <1>2, <1>6, <1>7
<1>9. QED
  BY <1>8 DEF CutAt

(* what is left of it,                                                     *)
LEMMA CutItem ==
  ASSUME NEW x \in Item, NEW b \in Nat \ {0}, NEW y, y = [x EXCEPT !.bytes = b], x.kind = "data"
  PROVE  y \in Item /\ Amount(y) = b
<1>1. y \in Item /\ y.kind = "data" /\ y.bytes = b
  BY DEF Item
<1>2. QED
  BY <1>1 DEF Amount

(* and what follows it.                                                    *)
CutOff(p, q, k, x) ==
  /\ p \in Seq(Item) /\ Len(p) = Len(q) - k + 1 /\ p[1] = x
  /\ \A i \in 2 .. Len(p) : p[i] = q[k + i - 1]

LEMMA CutTail ==
  ASSUME NEW q \in Seq(Item), NEW k \in 1 .. Len(q), NEW x \in Item,
         NEW p, p = << x >> \o SubSeq(q, k + 1, Len(q))
  PROVE  CutOff(p, q, k, x)
<1>1. PICK r : r = SubSeq(q, k + 1, Len(q))
  OBVIOUS
<1>2. r \in Seq(Item) /\ Len(r) = Len(q) - k /\ \A i \in 1 .. Len(r) : r[i] = q[k + i]
  <2>1. Len(q) \in Nat /\ k \in Nat /\ k + 1 \in Int
    OBVIOUS
  <2>2. \A i \in k + 1 .. Len(q) : q[i] \in Item
    BY <2>1
  <2>3. /\ r \in Seq(Item)
        /\ Len(r) = IF k + 1 <= Len(q) THEN Len(q) - (k + 1) + 1 ELSE 0
        /\ \A i \in 1 .. Len(q) - (k + 1) + 1 : r[i] = q[k + 1 + i - 1]
    BY <1>1, <2>1, <2>2, SubSeqProperties
  <2>4. Len(r) = Len(q) - k
    BY <2>1, <2>3
  <2>5. ASSUME NEW i \in 1 .. Len(r) PROVE r[i] = q[k + i]
    <3>1. i \in 1 .. Len(q) - (k + 1) + 1 /\ k + 1 + i - 1 = k + i
      BY <2>1, <2>4
    <3>2. QED
      BY <2>3, <3>1
  <2>6. QED
    BY <2>3, <2>4, <2>5
<1>3. PICK e : e = << x >>
  OBVIOUS
<1>4. e \in Seq(Item) /\ Len(e) = 1 /\ e[1] = x /\ p = e \o r
  BY <1>1, <1>3
<1>5. /\ p \in Seq(Item) /\ Len(p) = 1 + Len(r)
      /\ \A i \in 1 .. 1 + Len(r) : p[i] = IF i <= 1 THEN e[i] ELSE r[i - 1]
  <2>1. e \in Seq(Item) /\ r \in Seq(Item)
    BY <1>2, <1>4
  <2>2. /\ e \o r \in Seq(Item) /\ Len(e \o r) = Len(e) + Len(r)
        /\ \A i \in 1 .. Len(e) + Len(r) :
             (e \o r)[i] = IF i <= Len(e) THEN e[i] ELSE r[i - Len(e)]
    BY <2>1, ConcatProperties
  <2>3. QED
    BY <1>4, <2>2
<1>6. Len(r) \in Nat /\ Len(q) \in Nat /\ k \in Nat
  BY <1>2
<1>7. p[1] = x
  BY <1>4, <1>5, <1>6
<1>8. ASSUME NEW i \in 2 .. Len(p) PROVE p[i] = q[k + i - 1]
  <2>1. i \in 1 .. 1 + Len(r) /\ ~(i <= 1) /\ i - 1 \in 1 .. Len(r) /\ k + (i - 1) = k + i - 1
    BY <1>5, <1>6
  <2>2. QED
    BY <1>2, <1>5, <2>1
<1>9. QED
  BY <1>2, <1>5, <1>6, <1>7, <1>8 DEF CutOff

LEMMA CutSum ==
  ASSUME NEW q \in Seq(Item), NEW room \in Nat, NEW k \in 1 .. Len(q), NEW x, NEW p,
         CutOff(p, q, k, x), Amount(x) = DataUpTo(q)[k] - room
  PROVE  DataIn(p) = DataIn(q) - room
<1>1. PICK f : f = DataUpTo(q)
  OBVIOUS
<1>2. PICK n \in Nat : n = Len(q)
  OBVIOUS
<1>3. PICK g : g = DataUpTo(p)
  OBVIOUS
<1>4. PICK m \in Nat : m = n - k
  <2>1. n - k \in Nat
    BY <1>2
  <2>2. QED
    BY <2>1
<1>5. f \in [0 .. n -> Nat] /\ \A i \in 1 .. n : f[i] = f[i - 1] + Amount(q[i])
  BY <1>1, <1>2, DataUpToIs
<1>6. p \in Seq(Item) /\ Len(p) = m + 1 /\ p[1] = x
  BY <1>2, <1>4 DEF CutOff
<1>7. /\ g \in [0 .. m + 1 -> Nat] /\ g[0] = 0
      /\ \A i \in 1 .. m + 1 : g[i] = g[i - 1] + Amount(p[i])
  <2>1. g \in [0 .. Len(p) -> Nat] /\ g[0] = 0
        /\ \A i \in 1 .. Len(p) : g[i] = g[i - 1] + Amount(p[i])
    BY <1>3, <1>6, DataUpToIs
  <2>2. QED
    BY <1>6, <2>1
<1>8. k \in 0 .. n /\ f[k] \in Nat /\ k \in Nat
  BY <1>2, <1>5
<1>9. g[1] = f[k] - room
  <2>1. 1 \in 1 .. m + 1 /\ 1 - 1 = 0
    OBVIOUS
  <2>2. g[1] = g[0] + Amount(p[1])
    BY <1>7, <2>1
  <2>3. Amount(p[1]) = f[k] - room
    BY <1>1, <1>6
  <2>4. QED
    BY <1>7, <1>8, <2>2, <2>3
<1>10. PICK h : h = [i \in 0 .. m |-> f[k + i]]
  OBVIOUS
<1>11. PICK d \in Int : d = 0 - room
  OBVIOUS
<1>12. ASSUME NEW i \in 0 .. m PROVE h[i] = f[k + i] /\ h[i] \in Int /\ g[i + 1] \in Int
  <2>1. k + i \in 0 .. n /\ i + 1 \in 0 .. m + 1
    BY <1>4, <1>8
  <2>2. QED
    BY <1>5, <1>7, <1>10, <2>1
<1>13. g[1] = h[0] + d
  <2>1. 0 \in 0 .. m /\ k + 0 = k
    BY <1>8
  <2>2. h[0] = f[k]
    BY <1>12, <2>1
  <2>3. QED
    BY <1>8, <1>9, <1>11, <2>2
<1>14. ASSUME NEW i \in 1 .. m PROVE g[i + 1] - g[i + 1 - 1] = h[i] - h[i - 1]
  <2>1. /\ i + 1 \in 2 .. m + 1 /\ i + 1 \in 1 .. m + 1 /\ k + (i + 1) - 1 = k + i
        /\ k + i \in 1 .. n /\ i \in 0 .. m /\ i - 1 \in 0 .. m /\ k + (i - 1) = (k + i) - 1
        /\ i + 1 - 1 = i /\ (i - 1) + 1 = i
    BY <1>4, <1>8
  <2>2. p[i + 1] = q[k + i]
    BY <1>6, <2>1 DEF CutOff
  <2>3. Amount(q[k + i]) \in Nat
    BY <1>2, <2>1, AmountNat
  <2>4. g[i + 1] = g[i] + Amount(q[k + i])
    BY <1>7, <2>1, <2>2
  <2>5. h[i] = f[k + i] /\ h[i - 1] = f[(k + i) - 1]
    BY <1>12, <2>1
  <2>6. f[k + i] = f[(k + i) - 1] + Amount(q[k + i])
    BY <1>5, <2>1
  <2>7. g[i] \in Int /\ h[i - 1] \in Int
    BY <1>12, <2>1
  <2>8. QED
    BY <2>1, <2>3, <2>4, <2>5, <2>6, <2>7
<1>15. g[m + 1] = h[m] + d
  <2>1. PICK e \in Int : e = 1
    OBVIOUS
  <2>2. \A i \in 0 .. m : h[i] \in Int /\ g[i + 1] \in Int
    BY <1>12
  <2>3. \A i \in 1 .. m : g[i + 1] - g[i + 1 - 1] = h[i] - h[i - 1]
    BY <1>14
  <2>4. QED
    <3>1. Together(h, g, m, d, e)
      BY <1>13, <2>1, <2>2, <2>3 DEF Together
    <3>2. g[m + e] = h[m] + d
      <4>1. m \in Nat /\ d \in Int /\ e \in Int
        OBVIOUS
      <4>3. Apart(h, g, m, d, e)
        BY <3>1, <4>1, SumsMoveTogether, Zenon
      <4>2. QED
        BY <3>1, <4>1, <4>3, Zenon DEF Apart
    <3>3. QED
      BY <2>1, <3>2
<1>16. DataIn(p) = g[m + 1] /\ DataIn(q) = f[n]
  BY <1>1, <1>2, <1>3, <1>6 DEF DataIn
<1>17. h[m] = f[n] /\ h[m] \in Int
  <2>1. m \in 0 .. m /\ k + m = n
    BY <1>4, <1>8
  <2>2. QED
    BY <1>12, <2>1
<1>18. QED
  BY <1>11, <1>15, <1>16, <1>17

-----------------------------------------------------------------------------
(* Every method of the class hands on what it was given: n bytes more than *)
(* before were sent or are queued, unless the window closed or owes a      *)
(* replay.                                                                 *)
Fed(x, w, n) ==
  IsOpen(x) /\ ~x.replay =>
    /\ ~w.replay
    /\ x.queue \in Seq(Item)
    /\ x.sent + DataIn(x.queue) = w.sent + DataIn(w.queue) + n

Flowing(w) == WindowSound(w) /\ IsOpen(w) /\ (~w.replay => w.queue \in Seq(Item))

LEMMA UpdatePressureSame ==
  ASSUME NEW w, IsWindow(w), NEW x, x = UpdatePressure(w)
  PROVE  SameBut(x, w, {"pressured", "stall"})
<1>1. x = w \/ x = SetPressure(w, TRUE) \/ x = SetPressure(w, FALSE)
  BY DEF UpdatePressure
<1>2. CASE x = w
  BY <1>2 DEF SameBut
<1>3. CASE \E p : x = SetPressure(w, p)
  BY <1>3, SetPressureFields
<1>4. QED
  BY <1>1, <1>2, <1>3

LEMMA RequireReplayOwes ==
  ASSUME NEW w, IsWindow(w), NEW x, x = RequireReplay(w) \/ x = UpdatePressure(RequireReplay(w))
  PROVE  x.replay = TRUE
<1>1. PICK m, r : m = [w EXCEPT !.replay = TRUE] /\ r = ClearQueue(m)
  OBVIOUS
<1>2. PICK y : y = UpdatePressure(r)
  OBVIOUS
<1>3. IsWindow(m) /\ m.replay = TRUE
  BY <1>1, ReplayFields DEF SameBut
<1>4. IsWindow(r) /\ r.replay = TRUE
  BY <1>1, <1>3, ClearQueueFields DEF SameBut
<1>5. IsWindow(y) /\ y.replay = TRUE
  BY <1>2, <1>4, UpdatePressureSame DEF SameBut
<1>6. y = RequireReplay(w)
  BY <1>1, <1>2 DEF RequireReplay
<1>7. x = y \/ SameBut(x, y, {"pressured", "stall"})
  BY <1>5, <1>6, UpdatePressureSame
<1>8. QED
  BY <1>5, <1>7 DEF SameBut

LEMMA WriteRoomRest ==
  ASSUME NEW w, IsWindow(w), w.queue \in Seq(Item), Room(w) \in Nat, DataIn(w.queue) > Room(w),
         NEW x, x = WriteRoom(w)
  PROVE  x.queue \in Seq(Item) /\ DataIn(x.queue) = DataIn(w.queue) - Room(w)
<1>1. PICK q \in Seq(Item) : q = w.queue
  OBVIOUS
<1>2. PICK room \in Nat : room = Room(w)
  OBVIOUS
<1>3. PICK k : k = CutAt(q, room)
  OBVIOUS
<1>4. k \in 1 .. Len(q) /\ DataUpTo(q)[k] > room /\ DataUpTo(q)[k - 1] <= room
  BY <1>1, <1>2, <1>3, CutFrame
<1>5. PICK b \in Nat \ {0} : b = DataUpTo(q)[k] - room
  <2>1. DataUpTo(q) \in [0 .. Len(q) -> Nat] /\ k \in 0 .. Len(q)
    BY <1>4, DataUpToIs
  <2>2. DataUpTo(q)[k] \in Nat
    BY <2>1
  <2>3. DataUpTo(q)[k] - room \in Nat \ {0}
    BY <1>4, <2>2
  <2>4. QED
    BY <2>3
<1>6. PICK y : y = [q[k] EXCEPT !.bytes = b]
  OBVIOUS
<1>7. y \in Item /\ Amount(y) = b
  <2>1. PICK z : z = q[k]
    OBVIOUS
  <2>2. z \in Item /\ y = [z EXCEPT !.bytes = b]
    BY <1>4, <1>6, <2>1, AmountNat
  <2>3. z.kind = "data"
    <3>1. PICK f : f = DataUpTo(q)
      OBVIOUS
    <3>2. f[k] = f[k - 1] + Amount(z) /\ f \in [0 .. Len(q) -> Nat] /\ k - 1 \in 0 .. Len(q)
      BY <1>4, <2>1, <3>1, DataUpToIs
    <3>3. f[k] > room /\ f[k - 1] <= room /\ f[k - 1] \in Nat
      BY <1>4, <3>1, <3>2
    <3>4. Amount(z) # 0
      BY <3>2, <3>3
    <3>5. QED
      BY <3>4 DEF Amount
  <2>4. QED
    BY <2>2, <2>3, CutItem
<1>8. PICK p : p = << y >> \o SubSeq(q, k + 1, Len(q))
  OBVIOUS
<1>9. x.queue = p
  <2>1. ASSUME NEW s, NEW n, x = [w EXCEPT !.queue = p, !.sent = s, !.pending = n]
        PROVE  x.queue = p
    BY <2>1 DEF IsWindow
  <2>2. \E s, n : x = [w EXCEPT !.queue = p, !.sent = s, !.pending = n]
    BY <1>1, <1>2, <1>3, <1>5, <1>6, <1>8, Zenon DEF WriteRoom, CutAt
  <2>3. QED
    BY <2>1, <2>2
<1>10. CutOff(p, q, k, y)
  BY <1>4, <1>7, <1>8, CutTail
<1>11. DataIn(p) = DataIn(q) - room
  BY <1>4, <1>5, <1>7, <1>10, CutSum
<1>12. QED
  BY <1>1, <1>2, <1>9, <1>10, <1>11 DEF CutOff

LEMMA DrainFed ==
  ASSUME NEW w, Flowing(w), ~w.replay, NEW u \in BOOLEAN, NEW x, x = Drain(w, u)
  PROVE  Fed(x, w, 0)
<1>0. /\ WindowSound(w) /\ IsOpen(w) /\ IsWindow(w) /\ w.queue \in Seq(Item)
      /\ w.sent \in Nat /\ Room(w) \in Nat /\ DataIn(w.queue) \in Nat
  BY FlowAssumption, DataInNat DEF Flowing, WindowSound, Unacked, Room
<1>1. CASE ~u /\ WouldSend(w)
  <2>1. x = Close(w, "transport")
    BY <1>0, <1>1 DEF Drain
  <2>2. ~IsOpen(x)
    BY <1>0, <2>1, CloseOK
  <2>3. QED
    BY <2>2 DEF Fed
<1>2. CASE (u \/ ~WouldSend(w)) /\ DataIn(w.queue) \in 0 .. Room(w)
  <2>1. PICK y : y = WriteAll(w)
    OBVIOUS
  <2>2. x = UpdatePressure(y)
    BY <1>0, <1>2, <2>1 DEF Drain
  <2>3. IsWindow(y) /\ y.queue = << >> /\ y.sent = w.sent + DataIn(w.queue)
    BY <1>0, <2>1, WriteAllFields DEF SameBut
  <2>4. x.queue = << >> /\ x.sent = w.sent + DataIn(w.queue)
    BY <2>2, <2>3, UpdatePressureSame DEF SameBut
  <2>5. << >> \in Seq(Item)
    OBVIOUS
  <2>6. QED
    BY <1>0, <2>4, <2>5, DataInEmpty DEF Fed
<1>3. CASE (u \/ ~WouldSend(w)) /\ DataIn(w.queue) \notin 0 .. Room(w)
  <2>1. PICK y : y = WriteRoom(w)
    OBVIOUS
  <2>2. x = IF w.viewing THEN UpdatePressure(y) ELSE UpdatePressure(RequireReplay(y))
    BY <1>0, <1>3, <2>1 DEF Drain
  <2>3. IsWindow(y) /\ y.sent = w.sent + Room(w)
    BY <1>0, <2>1, WriteRoomFields DEF SameBut
  <2>4. DataIn(w.queue) > Room(w)
    BY <1>0, <1>3
  <2>5. y.queue \in Seq(Item) /\ DataIn(y.queue) = DataIn(w.queue) - Room(w)
    BY <1>0, <2>1, <2>4, WriteRoomRest
  <2>6. CASE w.viewing
    <3>1. x.queue = y.queue /\ x.sent = y.sent
      BY <2>2, <2>3, <2>6, UpdatePressureSame DEF SameBut
    <3>2. QED
      BY <1>0, <2>3, <2>5, <3>1 DEF Fed
  <2>7. CASE ~w.viewing
    BY <2>2, <2>3, <2>7, RequireReplayOwes DEF Fed
  <2>8. QED
    BY <2>6, <2>7
<1>4. QED
  BY <1>1, <1>2, <1>3

LEMMA EnqueueFed ==
  ASSUME NEW w, Flowing(w), NEW n \in Nat \ {0}, NEW u \in BOOLEAN, NEW x
  PROVE  /\ x = EnqueueData(w, n, u) => Fed(x, w, n)
         /\ x = EnqueueControl(w, n, u) => Fed(x, w, 0)
<1>0. WindowSound(w) /\ IsWindow(w) /\ IsOpen(w) /\ w.sent \in Nat /\ w.replay \in BOOLEAN
  BY DEF Flowing, WindowSound
<1>1. CASE w.replay
  BY <1>1 DEF EnqueueData, EnqueueControl, Fed
<1>2. CASE ~w.replay /\ x = Close(w, "overflow")
  <2>1. ~IsOpen(x)
    BY <1>0, <1>2, CloseOK
  <2>2. QED
    BY <2>1 DEF Fed
<1>3. ASSUME NEW kind \in {"data", "text"}, ~w.replay,
             x = Drain([w EXCEPT !.queue = Append(@, [kind |-> kind, bytes |-> n]),
                                 !.pending = @ + n], u)
      PROVE  Fed(x, w, IF kind = "data" THEN n ELSE 0)
  <2>1. PICK f : f = [kind |-> kind, bytes |-> n]
    OBVIOUS
  <2>2. PICK y : y = [w EXCEPT !.queue = Append(@, f), !.pending = @ + n]
    OBVIOUS
  <2>3. SameBut(y, w, {"queue"}) /\ y.queue = Append(w.queue, f)
    BY <1>0, <2>2 DEF SameBut, IsWindow
  <2>4. f \in Item /\ Amount(f) = IF kind = "data" THEN n ELSE 0
    BY <2>1 DEF Item, Amount
  <2>5. w.queue \in Seq(Item)
    BY <1>3 DEF Flowing
  <2>6. y.queue \in Seq(Item) /\ DataIn(y.queue) = DataIn(w.queue) + Amount(f)
    BY <2>3, <2>4, <2>5, DataInAppend
  <2>7. Flowing(y) /\ ~y.replay /\ y.sent = w.sent
    BY <1>0, <1>3, <2>3, <2>6 DEF SameBut, Flowing, WindowSound, IsOpen, Unacked
  <2>8. x = Drain(y, u)
    BY <1>3, <2>1, <2>2
  <2>9. Fed(x, y, 0)
    BY <2>7, <2>8, DrainFed
  <2>10. DataIn(w.queue) \in Nat /\ DataIn(y.queue) \in Nat /\ Amount(f) \in Nat
    BY <2>4, <2>5, <2>6, DataInNat
  <2>11. y.sent + DataIn(y.queue) + 0 = w.sent + DataIn(w.queue) + (IF kind = "data" THEN n ELSE 0)
    BY <1>0, <2>4, <2>6, <2>7, <2>10
  <2>12. QED
    BY <1>3, <2>9, <2>11 DEF Fed
<1>4. CASE ~w.replay /\ x # Close(w, "overflow")
  <2>1. x = EnqueueData(w, n, u)
          => x = Drain([w EXCEPT !.queue = Append(@, [kind |-> "data", bytes |-> n]),
                                 !.pending = @ + n], u)
    BY <1>0, <1>4 DEF EnqueueData
  <2>2. x = EnqueueControl(w, n, u)
          => x = Drain([w EXCEPT !.queue = Append(@, [kind |-> "text", bytes |-> n]),
                                 !.pending = @ + n], u)
    BY <1>0, <1>4 DEF EnqueueControl
  <2>3. x = EnqueueData(w, n, u) => Fed(x, w, n)
    BY <1>3, <1>4, <2>1
  <2>4. x = EnqueueControl(w, n, u) => Fed(x, w, 0)
    BY <1>3, <1>4, <2>2
  <2>5. QED
    BY <2>3, <2>4
<1>5. QED
  BY <1>0, <1>1, <1>2, <1>4

LEMMA AcknowledgeFed ==
  ASSUME NEW w, Flowing(w), NEW n \in Int, AckIsValid(w, n), n > w.acked, NEW u \in BOOLEAN,
         NEW x, x = Acknowledge(w, n, u)
  PROVE  Fed(x, w, 0)
<1>0. WindowSound(w) /\ IsWindow(w) /\ IsOpen(w) /\ w.replay \in BOOLEAN /\ w.sent \in Nat
  BY DEF Flowing, WindowSound
<1>1. PICK y : y = [w EXCEPT !.acked = n]
  OBVIOUS
<1>2. SameBut(y, w, {"acked"}) /\ y.acked = n
  BY <1>0, <1>1 DEF SameBut, IsWindow
<1>3. n \in Nat /\ n <= w.sent /\ w.acked \in Nat /\ High \in Nat
  BY FlowAssumption DEF AckIsValid, Flowing, WindowSound
<1>4. Flowing(y)
  BY <1>2, <1>3 DEF SameBut, Flowing, WindowSound, IsOpen, Unacked
<1>5. PICK d : d = Drain(y, u)
  OBVIOUS
<1>6. Fed(d, y, 0) /\ IsWindow(d)
  <2>1. CASE y.replay
    <3>1. d = y
      BY <1>5, <2>1 DEF Drain
    <3>2. QED
      BY <1>4, <2>1, <3>1 DEF Fed, Flowing, WindowSound
  <2>2. CASE ~y.replay
    <3>1. Fed(d, y, 0)
      BY <1>4, <1>5, <2>2, DrainFed
    <3>2. WindowOK(d)
      BY <1>4, <1>5, <2>2, DrainOK DEF Flowing
    <3>3. QED
      BY <3>1, <3>2 DEF WindowOK, WindowSound
  <2>3. QED
    BY <2>1, <2>2
<1>7. x = IF IsOpen(d) /\ d.pressured THEN [d EXCEPT !.stall = TRUE] ELSE d
  BY <1>1, <1>3, <1>5 DEF Acknowledge
<1>8. x.queue = d.queue /\ x.sent = d.sent /\ x.replay = d.replay /\ x.status = d.status
  BY <1>6, <1>7 DEF IsWindow
<1>9. y.queue = w.queue /\ y.sent = w.sent /\ y.replay = w.replay
  BY <1>2 DEF SameBut
<1>10. QED
  BY <1>6, <1>8, <1>9 DEF Fed, IsOpen

LEMMA SetViewingFed ==
  ASSUME NEW w, Flowing(w), NEW v \in BOOLEAN, NEW u \in BOOLEAN,
         NEW x, x = SetViewing(w, v, u)
  PROVE  Fed(x, w, 0)
<1>0. /\ WindowSound(w) /\ IsWindow(w) /\ IsOpen(w) /\ w.viewing \in BOOLEAN
      /\ w.replay \in BOOLEAN /\ w.sent \in Nat
  BY DEF Flowing, WindowSound
<1>1. PICK y : y = [w EXCEPT !.viewing = v]
  OBVIOUS
<1>2. SameBut(y, w, {"viewing"}) /\ y.viewing = v
  BY <1>0, <1>1 DEF SameBut, IsWindow
<1>3. Flowing(y) /\ WindowSound(y) /\ IsWindow(y) /\ IsOpen(y)
  BY <1>2 DEF SameBut, Flowing, WindowSound, IsOpen, Unacked
<1>4. y.queue = w.queue /\ y.sent = w.sent /\ y.replay = w.replay
  BY <1>2 DEF SameBut
<1>5. ~w.replay => DataIn(w.queue) \in Nat /\ w.queue \in Seq(Item)
  BY DataInNat DEF Flowing
<1>6. CASE w.viewing = v
  <2>1. x = w
    BY <1>6 DEF SetViewing
  <2>2. QED
    BY <1>0, <1>5, <2>1 DEF Fed
<1>7. CASE w.viewing /\ ~v /\ w.queue = << >>
  <2>1. x = UpdatePressure(y)
    BY <1>0, <1>1, <1>7 DEF SetViewing
  <2>2. SameBut(x, y, {"pressured", "stall"})
    BY <1>3, <2>1, UpdatePressureSame
  <2>3. x.queue = w.queue /\ x.sent = w.sent /\ x.replay = w.replay
    BY <1>4, <2>2 DEF SameBut
  <2>4. QED
    BY <1>0, <1>5, <2>3 DEF Fed
<1>8. CASE w.viewing /\ ~v /\ w.queue # << >>
  <2>1. x = UpdatePressure(RequireReplay(y))
    BY <1>0, <1>1, <1>8 DEF SetViewing
  <2>2. x.replay = TRUE
    BY <1>3, <2>1, RequireReplayOwes
  <2>3. QED
    BY <2>2 DEF Fed
<1>9. CASE ~w.viewing /\ v /\ w.replay
  <2>1. x = Close(y, "replay-required")
    BY <1>0, <1>1, <1>9 DEF SetViewing
  <2>2. ~IsOpen(x)
    BY <1>3, <2>1, CloseOK
  <2>3. QED
    BY <2>2 DEF Fed
<1>10. CASE ~w.viewing /\ v /\ ~w.replay
  <2>1. x = Drain(y, u)
    BY <1>0, <1>1, <1>10 DEF SetViewing
  <2>2. Fed(x, y, 0)
    BY <1>3, <1>4, <1>10, <2>1, DrainFed
  <2>3. QED
    BY <1>4, <2>2 DEF Fed
<1>11. QED
  BY <1>0, <1>6, <1>7, <1>8, <1>9, <1>10

-----------------------------------------------------------------------------
(* What was handed to a window was sent or is queued.                      *)
Carries(w, a) ==
  IsOpen(w) /\ ~w.replay => w.queue \in Seq(Item) /\ w.sent + DataIn(w.queue) = a

LEMMA CarriesFlowing ==
  ASSUME NEW w, WindowOK(w), IsOpen(w), NEW a, Carries(w, a)
  PROVE  Flowing(w)
BY DEF WindowOK, Carries, Flowing

LEMMA CarriesMore ==
  ASSUME NEW w, IsOpen(w), NEW a \in Nat, Carries(w, a), NEW n \in Nat, NEW x, Fed(x, w, n)
  PROVE  Carries(x, a + n)
BY DEF Carries, Fed

LEMMA EnqueueCarries ==
  ASSUME NEW w, WindowOK(w), NEW a \in Nat, Carries(w, a), NEW n \in Nat \ {0},
         NEW u \in BOOLEAN, NEW x
  PROVE  /\ x = EnqueueData(w, n, u) => WindowOK(x) /\ Carries(x, a + n)
         /\ x = EnqueueControl(w, n, u) => WindowOK(x) /\ Carries(x, a)
<1>1. CASE ~IsOpen(w)
  BY <1>1 DEF EnqueueData, EnqueueControl, Carries
<1>2. CASE IsOpen(w)
  <2>1. Flowing(w)
    BY <1>2, CarriesFlowing
  <2>2. /\ x = EnqueueData(w, n, u) => Fed(x, w, n)
        /\ x = EnqueueControl(w, n, u) => Fed(x, w, 0)
    BY <2>1, EnqueueFed
  <2>3. Fed(x, w, n) => Carries(x, a + n)
    BY <1>2, CarriesMore
  <2>4. Fed(x, w, 0) => Carries(x, a)
    BY <1>2, CarriesMore
  <2>5. x = EnqueueData(w, n, u) \/ x = EnqueueControl(w, n, u) => WindowOK(x)
    BY EnqueueOK
  <2>6. QED
    BY <2>2, <2>3, <2>4, <2>5
<1>3. QED
  BY <1>1, <1>2

(* A joining browser carries the replay it was sent.                       *)
Joining(w, a) == WindowOK(w) /\ Carries(w, a)

LEMMA MarkerCarries ==
  ASSUME NEW w, NEW a \in Nat, Joining(w, a), NEW x, x = EnqueueControl(w, 1, TRUE)
  PROVE  Joining(x, a)
<1>1. PICK n \in Nat \ {0} : n = 1
  OBVIOUS
<1>2. TRUE \in BOOLEAN /\ WindowOK(w) /\ Carries(w, a) /\ x = EnqueueControl(w, n, TRUE)
  BY <1>1 DEF Joining
<1>3. WindowOK(x) /\ Carries(x, a)
  BY <1>2, EnqueueCarries
<1>4. QED
  BY <1>3 DEF Joining

LEMMA ChunkCarries ==
  ASSUME NEW w, NEW a \in Nat, Joining(w, a), NEW n \in Nat \ {0}, NEW u \in BOOLEAN,
         NEW x, x = EnqueueData(w, n, u)
  PROVE  Joining(x, a + n)
BY EnqueueCarries DEF Joining

LEMMA ReplayCarries ==
  ASSUME NEW r \in Nat, NEW hello, hello = EnqueueControl(NewWindow, 1, TRUE)
  PROVE  Carries(hello, 0) /\ Carries(Replay(hello, r), r)
<1>1. PICK q \in Seq(Item), z \in Nat : q = << >> /\ z = 0
  <2>1. << >> \in Seq(Item) /\ 0 \in Nat
    OBVIOUS
  <2>2. QED
    BY <2>1, Zenon
<1>2. NewWindow.queue = q /\ NewWindow.sent = z
  BY <1>1 DEF NewWindow
<1>3. DataIn(q) = z
  BY <1>1, DataInEmpty
<1>4. Joining(NewWindow, z)
  <2>1. z + z = z
    BY <1>1
  <2>2. Carries(NewWindow, z)
    BY <1>1, <1>2, <1>3, <2>1, Zenon DEF Carries
  <2>3. QED
    BY <2>2, NewWindowOK DEF Joining
<1>5. Joining(hello, z)
  BY <1>4, MarkerCarries
<1>6. CASE r = 0
  BY <1>1, <1>5, <1>6 DEF Replay, Joining
<1>7. CASE r # 0
  <2>1. PICK s, d, e : /\ s = EnqueueControl(hello, 1, TRUE)
                       /\ d = EnqueueData(s, r, TRUE)
                       /\ e = EnqueueControl(d, 1, TRUE)
    OBVIOUS
  <2>2. Joining(s, z)
    BY <1>5, <2>1, MarkerCarries
  <2>3. Joining(d, z + r)
    BY <1>7, <2>1, <2>2, ChunkCarries
  <2>4. z + r = r
    BY <1>1
  <2>5. Joining(e, r)
    BY <2>1, <2>3, <2>4, MarkerCarries
  <2>6. Replay(hello, r) = e
    BY <1>7, <2>1 DEF Replay
  <2>7. QED
    BY <1>1, <1>5, <2>5, <2>6 DEF Joining
<1>8. QED
  BY <1>6, <1>7

-----------------------------------------------------------------------------
StreamInv ==
  /\ offered \in [Client -> Nat]
  /\ \A c \in Client : Joined(c) => Carries(win[c], offered[c])

LEMMA SettleStream ==
  ASSUME NEW W, NEW V, NEW T, NEW O, Settle(W, V, T, O), O \in [Client -> Nat],
         \A c \in Client : Joined(c) => Carries(W[c], O[c])
  PROVE  StreamInv'
<1>1. ASSUME NEW c \in Client PROVE offered'[c] \in Nat
  BY DEF Settle
<1>2. offered' = [c \in Client |-> offered'[c]]
  BY DEF Settle
<1>3. ASSUME NEW c \in Client, phase'[c] # "none" PROVE Carries(win'[c], offered'[c])
  <2>1. c \notin Gone(W) /\ phase[c] # "none"
    BY <1>3 DEF Settle
  <2>2. win'[c] = W[c] /\ offered'[c] = O[c]
    BY <2>1 DEF Settle
  <2>3. QED
    BY <2>1, <2>2 DEF Joined
<1>4. QED
  BY <1>1, <1>2, <1>3 DEF StreamInv, Joined

LEMMA InitStreamInv == Init => StreamInv
<1> SUFFICES ASSUME Init PROVE StreamInv
  OBVIOUS
<1>1. PICK z \in Nat : z = 0
  OBVIOUS
<1>2. offered = [c \in Client |-> z] /\ \A c \in Client : phase[c] = "none"
  BY <1>1 DEF Init
<1>3. QED
  BY <1>2 DEF StreamInv, Joined

LEMMA NextStreamInv == FlowInv /\ StreamInv /\ [Next]_vars => StreamInv'
<1> SUFFICES ASSUME FlowInv, StreamInv, [Next]_vars PROVE StreamInv'
  OBVIOUS
<1>0. /\ \A c \in Client : WindowOK(win[c]) /\ IsOpen(win[c]) /\ up[c] \in BOOLEAN
      /\ offered \in [Client -> Nat] /\ win = [c \in Client |-> win[c]]
      /\ \A c \in Client : Joined(c) => Carries(win[c], offered[c])
  BY DEF FlowInv, StreamInv
<1>1. ASSUME NEW c \in Client, Connect(c) PROVE StreamInv'
  <2>1. PICK r, hello, w :
          /\ r \in ReplaySizes
          /\ hello = EnqueueControl(NewWindow, 1, TRUE)
          /\ w = IF alive THEN Replay(hello, r) ELSE hello
          /\ win' = [win EXCEPT ![c] = w]
          /\ offered' = [offered EXCEPT ![c] = IF alive THEN r ELSE 0]
    BY <1>1 DEF Connect
  <2>2. r \in Nat
    BY <2>1, SizesAssumption
  <2>3. PICK a \in Nat : a = IF alive THEN r ELSE 0
    BY <2>2
  <2>4. Carries(w, a)
    BY <2>1, <2>2, <2>3, ReplayCarries
  <2>5. offered' = [offered EXCEPT ![c] = a] /\ phase' = [phase EXCEPT ![c] = "joining"]
    BY <1>1, <2>1, <2>3 DEF Connect
  <2>6. offered' \in [Client -> Nat]
    BY <1>0, <2>5
  <2>7. ASSUME NEW d \in Client, phase'[d] # "none" PROVE Carries(win'[d], offered'[d])
    <3>1. CASE d = c
      BY <1>0, <2>1, <2>4, <2>5, <3>1
    <3>2. CASE d # c
      BY <1>0, <2>1, <2>5, <2>7, <3>2 DEF FlowInv, Joined
    <3>3. QED
      BY <3>1, <3>2
  <2>8. QED
    BY <2>6, <2>7 DEF StreamInv, Joined
<1>2. ASSUME NEW c \in Client, Attached(c) PROVE StreamInv'
  BY <1>2 DEF Attached, FlowInv, StreamInv, Joined
<1>3. ASSUME NEW c \in Client, Joined(c), NEW x, NEW V, NEW T,
             Settle([win EXCEPT ![c] = x], V, T, offered), Fed(x, win[c], 0)
      PROVE  StreamInv'
  <2>1. PICK W : W = [win EXCEPT ![c] = x]
    OBVIOUS
  <2>2. W[c] = x /\ \A d \in Client : d # c => W[d] = win[d]
    BY <1>0, <2>1
  <2>3. Carries(x, offered[c])
    <3>1. PICK a \in Nat : a = offered[c]
      BY <1>0
    <3>2. PICK z \in Nat : z = 0
      OBVIOUS
    <3>3. IsOpen(win[c]) /\ Carries(win[c], a) /\ Fed(x, win[c], z)
      BY <1>0, <1>3, <3>1, <3>2
    <3>4. Carries(x, a + z)
      BY <3>3, CarriesMore
    <3>5. a + z = a
      BY <3>2
    <3>6. QED
      BY <3>1, <3>4, <3>5
  <2>4. \A d \in Client : Joined(d) => Carries(W[d], offered[d])
    BY <1>0, <2>2, <2>3
  <2>5. Settle(W, V, T, offered)
    BY <1>3, <2>1
  <2>6. QED
    BY <1>0, <2>4, <2>5, SettleStream
<1>4. ASSUME NEW c \in Client, Joined(c), NEW x, ~IsOpen(x)
      PROVE  Fed(x, win[c], 0)
  BY <1>4 DEF Fed
<1>5. ASSUME NEW c \in Client, Joined(c), ~win[c].replay PROVE Flowing(win[c])
  BY <1>0, <1>5, CarriesFlowing
<1>6. ASSUME NEW c \in Client, Joined(c) PROVE Flowing(win[c])
  BY <1>0, <1>6, CarriesFlowing
<1>7. ASSUME NEW c \in Client, Visibility(c) PROVE StreamInv'
  <2>1. PICK v \in {"shown", "hidden"} :
          \E V, T : Settle([win EXCEPT ![c] = SetViewing(@, v = "shown", TRUE)], V, T, offered)
    BY <1>7 DEF Visibility
  <2>2. PICK x : x = SetViewing(win[c], v = "shown", TRUE)
    OBVIOUS
  <2>3. Joined(c)
    BY <1>7 DEF Visibility
  <2>4. Fed(x, win[c], 0)
    BY <1>6, <2>2, <2>3, SetViewingFed
  <2>5. PICK V, T : Settle([win EXCEPT ![c] = x], V, T, offered)
    BY <2>1, <2>2
  <2>6. QED
    BY <1>3, <2>3, <2>4, <2>5
<1>8. ASSUME NEW c \in Client, Ack(c) PROVE StreamInv'
  <2>1. win[c].acked \in Nat /\ win[c].sent \in Nat /\ WindowSound(win[c]) /\ Joined(c)
    BY <1>0, <1>8 DEF Ack, WindowOK, WindowSound
  <2>2. PICK n \in win[c].acked + 1 .. win[c].sent + 1 :
          Settle([win EXCEPT ![c] = IF AckIsValid(win[c], n) THEN Acknowledge(win[c], n, TRUE)
                                                   ELSE Close(win[c], "protocol")],
                 subViewing, want, offered)
    BY <1>8 DEF Ack, FlowInv
  <2>3. PICK x : x = IF AckIsValid(win[c], n) THEN Acknowledge(win[c], n, TRUE)
                                              ELSE Close(win[c], "protocol")
    OBVIOUS
  <2>4. CASE AckIsValid(win[c], n)
    <3>1. n \in Int /\ n > win[c].acked
      BY <2>1
    <3>2. Flowing(win[c])
      BY <1>6, <2>1
    <3>3. Fed(x, win[c], 0)
      BY <2>3, <2>4, <3>1, <3>2, AcknowledgeFed
    <3>4. QED
      BY <1>3, <2>1, <2>2, <2>3, <3>3
  <2>5. CASE ~AckIsValid(win[c], n)
    <3>1. ~IsOpen(x)
      BY <1>0, <2>1, <2>3, <2>5, CloseOK
    <3>2. QED
      BY <1>3, <1>4, <2>1, <2>2, <2>3, <3>1
  <2>6. QED
    BY <2>4, <2>5
<1>9. ASSUME Output PROVE StreamInv'
  <2>1. PICK n, W, O :
          /\ n \in ChunkSizes
          /\ W = [c \in Client |-> IF Joined(c) THEN EnqueueData(win[c], n, up[c]) ELSE win[c]]
          /\ O = [c \in Client |-> IF Joined(c) THEN offered[c] + n ELSE 0]
          /\ Settle(W, subViewing, want, O)
    BY <1>9 DEF Output
  <2>2. n \in Nat \ {0}
    BY <2>1, SizesAssumption
  <2>3. ASSUME NEW c \in Client PROVE O[c] \in Nat
    <3>1. offered[c] \in Nat
      BY <1>0
    <3>2. QED
      BY <2>1, <2>2, <3>1
  <2>4. O = [c \in Client |-> O[c]]
    BY <2>1
  <2>5. O \in [Client -> Nat]
    BY <2>3, <2>4
  <2>6. ASSUME NEW c \in Client, Joined(c) PROVE Carries(W[c], O[c])
    <3>1. PICK a \in Nat : a = offered[c]
      BY <1>0
    <3>2. W[c] = EnqueueData(win[c], n, up[c]) /\ O[c] = a + n
      BY <2>1, <2>6, <3>1
    <3>3. Joining(win[c], a) /\ up[c] \in BOOLEAN
      BY <1>0, <2>6, <3>1 DEF Joining
    <3>4. Joining(W[c], a + n)
      BY <2>2, <3>2, <3>3, ChunkCarries
    <3>5. QED
      BY <3>2, <3>4 DEF Joining
  <2>7. QED
    BY <2>1, <2>5, <2>6, SettleStream
<1>10. ASSUME NEW c \in Client, StallTimeout(c) \/ SocketClosed(c) PROVE StreamInv'
  <2>1. PICK x : /\ x = Close(win[c], "stalled") \/ x = Close(win[c], "disposed")
                 /\ Settle([win EXCEPT ![c] = x], subViewing, want, offered)
    BY <1>10 DEF StallTimeout, SocketClosed, Stall, Dispose, FlowInv
  <2>2. ~IsOpen(x)
    BY <1>0, <2>1, CloseOK DEF WindowOK
  <2>3. QED
    BY <1>3, <1>4, <1>10, <2>1, <2>2 DEF StallTimeout, SocketClosed
<1>11. ASSUME NEW c \in Client, Drop(c) PROVE StreamInv'
  BY <1>11 DEF Drop, StreamInv, Joined
<1>12. ASSUME Exit PROVE StreamInv'
  <2>1. PICK z \in Nat : z = 0
    OBVIOUS
  <2>2. offered' = [c \in Client |-> z] /\ \A c \in Client : phase'[c] = "none"
    BY <1>12, <2>1 DEF Exit
  <2>3. QED
    BY <2>2 DEF StreamInv, Joined
<1>13. CASE UNCHANGED vars
  BY <1>13 DEF vars, StreamInv, Joined
<1>14. QED
  BY <1>1, <1>2, <1>7, <1>8, <1>9, <1>10, <1>11, <1>12, <1>13 DEF Next

(* What a browser was sent is a prefix of what was fanned out to it, and   *)
(* the rest is queued, until a hidden window drops bytes (drain).          *)
THEOREM NoGapInStream == Spec => []StreamHasNoGap
<1>1. FlowInv /\ StreamInv => StreamHasNoGap
  BY DEF FlowInv, StreamInv, StreamHasNoGap, Carries
<1>2. QED
  BY <1>1, InitStreamInv, NextStreamInv, FlowInvariant, PTL DEF Spec

-----------------------------------------------------------------------------
(* The copy that holds the reservation has run, and not answered yet.      *)
Unanswered == reserved # None /\ at[reserved] = "done"

Accounted ==
  /\ \A r \in Request : at[r] \in {"leads", "done"} <=> r = reserved
  /\ reserved # None => record = None
  /\ \A r \in Request : at[r] = "follows" => reserved # None /\ Same(r, reserved)
  /\ \A r \in Request : at[r] = "done" => r \in ran
  /\ record # None => record \in ran
  /\ \A r \in Request : at[r] = "answered" => answer[r] \in ran /\ Same(r, answer[r])
  /\ ~serving => reserved = None
  /\ Cardinality(ran) <= excuses + (IF record # None \/ Unanswered THEN 1 ELSE 0)

KeyInv == KeyTypeOK /\ Accounted

(* What has run can be counted, and so can one more.                       *)
LEMMA Counting ==
  ASSUME KeyTypeOK
  PROVE  /\ IsFiniteSet(ran) /\ Cardinality(ran) \in Nat
         /\ \A r : IsFiniteSet(ran \cup {r}) /\ Cardinality(ran \cup {r}) <= Cardinality(ran) + 1
<1>1. IsFiniteSet(ran)
  BY FS_Subset, RequestAssumption DEF KeyTypeOK
<1>2. Cardinality(ran) \in Nat
  BY <1>1, FS_CardinalityType
<1>3. ASSUME NEW r PROVE IsFiniteSet(ran \cup {r}) /\ Cardinality(ran \cup {r}) <= Cardinality(ran) + 1
  BY <1>1, <1>2, FS_AddElement
<1>4. QED
  BY <1>1, <1>2, <1>3

(* A crash excuses what has run and not answered: one copy, or none.       *)
LEMMA DoneOnes ==
  ASSUME KeyInv
  PROVE  Cardinality({r \in Request : at[r] = "done"}) = IF Unanswered THEN 1 ELSE 0
<1>1. CASE Unanswered
  <2>1. reserved \in Request
    BY <1>1 DEF KeyInv, KeyTypeOK, Unanswered
  <2>2. {r \in Request : at[r] = "done"} = {reserved}
    BY <1>1, <2>1 DEF KeyInv, Accounted, Unanswered
  <2>3. QED
    BY <1>1, <2>2, FS_Singleton
<1>2. CASE ~Unanswered
  <2>1. {r \in Request : at[r] = "done"} = {}
    BY <1>2, RequestAssumption DEF KeyInv, Accounted, Unanswered
  <2>2. QED
    BY <1>2, <2>1, FS_EmptySet
<1>3. QED
  BY <1>1, <1>2

LEMMA KeyInitInv == KeyInit => KeyInv
<1> SUFFICES ASSUME KeyInit PROVE KeyInv
  OBVIOUS
<1>2. Cardinality(ran) = 0
  BY FS_EmptySet DEF KeyInit
<1>3. KeyTypeOK
  BY BoundsAssumption DEF KeyInit, KeyTypeOK, Places
<1>4. Accounted
  BY <1>2, RequestAssumption DEF KeyInit, Accounted, Unanswered
<1>5. QED
  BY <1>3, <1>4 DEF KeyInv

LEMMA ArrivesKeeps == ASSUME KeyInv, NEW r \in Request, Arrives(r) PROVE KeyInv'
<1> USE RequestAssumption DEF KeyInv, server
<1>1. KeyTypeOK'
  BY DEF Arrives, Replays, Joins, Goes, KeyTypeOK, Places
<1>2. at[r] = "new" /\ r # reserved /\ serving
  BY DEF Arrives, Accounted
<1>3. CASE record # None /\ Replays(r) /\ UNCHANGED reserved
  <2>1. at' = [at EXCEPT ![r] = "answered"] \/ at' = [at EXCEPT ![r] = "conflict"]
    BY <1>3 DEF Replays, Goes
  <2>2. at'[r] = "answered" => Same(r, record) /\ answer' = [answer EXCEPT ![r] = record]
    BY <1>3 DEF Replays, Goes, KeyTypeOK
  <2>3. \A f \in Request : f # r => at'[f] = at[f] /\ answer'[f] = answer[f]
    BY <1>3 DEF Replays, Goes, KeyTypeOK
  <2>4. reserved = None
    BY <1>3 DEF Accounted
  <2>5. Accounted'
    BY <1>1, <1>2, <1>3, <2>1, <2>2, <2>3, <2>4
    DEF Arrives, Accounted, Unanswered, KeyTypeOK, Same
  <2>6. QED
    BY <1>1, <2>5
<1>4. CASE record = None /\ Joins(r) /\ UNCHANGED answer
  <2>1. CASE reserved = None
    <3>1. at' = [at EXCEPT ![r] = "leads"] /\ reserved' = r
      BY <1>4, <2>1 DEF Joins, Goes
    <3>2. Accounted'
      BY <1>1, <1>2, <1>4, <2>1, <3>1 DEF Arrives, Accounted, Unanswered, KeyTypeOK, Same
    <3>3. QED
      BY <1>1, <3>2
  <2>2. CASE reserved # None
    <3>1. /\ reserved' = reserved
          /\ \/ at' = [at EXCEPT ![r] = "follows"] /\ Same(r, reserved)
             \/ at' = [at EXCEPT ![r] = "conflict"]
      BY <1>4, <2>2 DEF Joins, Goes
    <3>2. Accounted'
      BY <1>1, <1>2, <1>4, <2>2, <3>1 DEF Arrives, Accounted, Unanswered, KeyTypeOK, Same
    <3>3. QED
      BY <1>1, <3>2
  <2>3. QED
    BY <2>1, <2>2
<1>5. QED
  BY <1>3, <1>4 DEF Arrives

LEMMA RunsKeeps == ASSUME KeyInv, NEW r \in Request, Runs(r) PROVE KeyInv'
<1> USE RequestAssumption DEF KeyInv, server
<1>1. KeyTypeOK'
  BY DEF Runs, Goes, KeyTypeOK, Places
<1>2. reserved = r /\ ~Unanswered /\ record = None
  BY DEF Runs, Accounted, Unanswered
<1>3. Unanswered' /\ at' = [at EXCEPT ![r] = "done"] /\ UNCHANGED <<reserved, record, excuses>>
  BY <1>2 DEF Runs, Goes, Unanswered, KeyTypeOK
<1>4. Cardinality(ran') <= excuses + 1
  <2>1. ran' = ran \cup {r} /\ Cardinality(ran) <= excuses
    BY <1>2, Counting DEF Runs, Accounted, KeyTypeOK
  <2>2. Cardinality(ran) \in Nat /\ Cardinality(ran \cup {r}) <= Cardinality(ran) + 1
    BY Counting
  <2>3. Cardinality(ran \cup {r}) \in Nat
    BY Counting, FS_CardinalityType
  <2>4. QED
    BY <2>1, <2>2, <2>3 DEF KeyTypeOK
<1>5. \A s \in Request : s \in ran => s \in ran'
  BY DEF Runs
<1>6. Accounted'
  BY <1>1, <1>2, <1>3, <1>4, <1>5 DEF Runs, Accounted, KeyTypeOK, Same
<1>7. QED
  BY <1>1, <1>6

LEMMA OnSendKeeps == ASSUME KeyInv, NEW r \in Request, OnSend(r) PROVE KeyInv'
<1> USE RequestAssumption DEF KeyInv
<1>1. reserved = r /\ record = None /\ Unanswered /\ r \in ran
  BY DEF OnSend, Accounted, Unanswered
<1>2. KeyTypeOK'
  BY <1>1, BoundsAssumption DEF OnSend, Keeps, Followers, KeyTypeOK, Places
<1>3. /\ reserved' = None /\ ~Unanswered'
      /\ \A f \in Request : IF f = r \/ at[f] = "follows"
                            THEN at'[f] = "answered" /\ answer'[f] = r
                            ELSE at'[f] = at[f] /\ answer'[f] = answer[f]
  BY <1>1 DEF OnSend, Followers, Unanswered
<1>4. Cardinality(ran') <= excuses' + (IF record' # None \/ Unanswered' THEN 1 ELSE 0)
  BY <1>1, <1>3, Counting DEF OnSend, Keeps, Accounted, KeyTypeOK
<1>5. record' # None => record' = r
  BY <1>1 DEF OnSend, Keeps
<1>6. Accounted'
  BY <1>1, <1>2, <1>3, <1>4, <1>5 DEF OnSend, Accounted, Same
<1>7. QED
  BY <1>2, <1>6

LEMMA ExpiresKeeps == ASSUME KeyInv, Expires PROVE KeyInv'
<1> USE RequestAssumption DEF KeyInv
<1>1. KeyTypeOK'
  BY BoundsAssumption DEF Expires, KeyTypeOK
<1>2. ~Unanswered /\ ~Unanswered'
  BY DEF Expires, Accounted, Unanswered
<1>3. Cardinality(ran') <= excuses' + (IF record' # None \/ Unanswered' THEN 1 ELSE 0)
  BY <1>2, Counting DEF Expires, Accounted, KeyTypeOK
<1>4. Accounted'
  BY <1>2, <1>3 DEF Expires, Accounted, Same
<1>5. QED
  BY <1>1, <1>4

LEMMA CrashKeeps == ASSUME KeyInv, Crash PROVE KeyInv'
<1> USE RequestAssumption DEF KeyInv
<1>1. excuses' = excuses + (IF Unanswered THEN 1 ELSE 0)
  BY DoneOnes DEF Crash
<1>2. KeyTypeOK'
  <2>1. crashes' \in 0 .. MaxCrashes /\ excuses' \in Nat /\ reserved' = None
    BY <1>1, BoundsAssumption DEF Crash, KeyTypeOK
  <2>2. at' \in [Request -> Places]
    BY DEF Crash, KeyTypeOK, Places
  <2>3. QED
    BY <2>1, <2>2 DEF Crash, KeyTypeOK
<1>3. reserved' = None /\ ~Unanswered' /\ (record # None => ~Unanswered)
  BY DEF Crash, Unanswered, Accounted
<1>4. Cardinality(ran') <= excuses' + (IF record' # None \/ Unanswered' THEN 1 ELSE 0)
  BY <1>1, <1>3, Counting DEF Crash, Accounted, KeyTypeOK
<1>5. \A r \in Request : /\ at'[r] \notin {"leads", "done", "follows"}
                         /\ at'[r] = "answered" => at[r] = "answered"
  BY DEF Crash, KeyTypeOK, Places
<1>6. Accounted'
  BY <1>3, <1>4, <1>5 DEF Crash, Accounted, Same
<1>7. QED
  BY <1>2, <1>6

LEMMA KeyStep == KeyInv /\ [KeyNext]_keyVars => KeyInv'
<1>1. SUFFICES ASSUME KeyInv, [KeyNext]_keyVars PROVE KeyInv'
  OBVIOUS
<1>2. CASE \E r \in Request : Arrives(r) \/ Runs(r) \/ OnSend(r)
  BY <1>1, <1>2, ArrivesKeeps, RunsKeeps, OnSendKeeps
<1>3. CASE Expires \/ Crash
  BY <1>1, <1>3, ExpiresKeeps, CrashKeeps
<1>4. CASE Restart \/ UNCHANGED keyVars
  BY <1>1, <1>4 DEF Restart, KeyInv, KeyTypeOK, Accounted, Unanswered, Same, keyVars, server
<1>5. QED
  BY <1>1, <1>2, <1>3, <1>4 DEF KeyNext

(* What the argument counts is always so.                                  *)
THEOREM KeyInvariant == KeySpec => []KeyInv
BY KeyInitInv, KeyStep, PTL DEF KeySpec

(* The variables of Idempotency have their types.                          *)
THEOREM KeyTypes == KeySpec => []KeyTypeOK
<1>1. KeyInv => KeyTypeOK
  BY DEF KeyInv
<1>2. QED
  BY <1>1, KeyInvariant, PTL

(* A request is carried out once, and again only for an answer that was    *)
(* lost with the server, not kept or forgotten: for any number of copies.  *)
THEOREM CarriedOutOnceHolds == KeySpec => []CarriedOutOnce
<1>1. KeyInv => CarriedOutOnce
  BY Counting DEF KeyInv, Accounted, CarriedOutOnce, KeyTypeOK
<1>2. QED
  BY <1>1, KeyInvariant, PTL
=============================================================================
