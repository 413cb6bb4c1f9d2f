------------------------- MODULE Connections_proofs -------------------------
(***************************************************************************)
(* What is proved of the two connections a browser keeps open, for every   *)
(* value of their constants. They share no state.                          *)
(*                                                                         *)
(* TerminalSocket: its three safety invariants. They are inductive one by  *)
(* one, given what connects a socket's state to the life of its handlers   *)
(* (Handlers): they have counted nothing before the socket opens, and      *)
(* nothing is handed to the view before the server has offered to be told. *)
(*                                                                         *)
(* CommandCenter: its three safety invariants, with a crash between any two*)
(* writes of a handler. The tables are Sound in the middle of one if the   *)
(* workspaces, places, agents and items agree with each other and if the   *)
(* events, told one by one to whoever knew the tables before the handler,  *)
(* let him know the tables of now, but for what is silent (Narrates). Every*)
(* statement, transaction and fold over sessions keeps that. What there is *)
(* to know is then a set of views, as those who resume at one event need   *)
(* not know the same of what is silent; there is a history of such sets    *)
(* (Explains), of which the log tells the last steps; and each subscriber's*)
(* copy is one of those at its cursor, with the steps since, or a snapshot *)
(* and the steps since it, on its wire (Informed). Who was told of a       *)
(* transaction that was undone is left out, until it is sent a snapshot    *)
(* because the log no longer reaches its cursor.                           *)
(***************************************************************************)
EXTENDS TerminalSocket, CommandCenter, FiniteSetTheorems, SequenceTheorems,
        WellFoundedInduction, TLAPS

-----------------------------------------------------------------------------
(* TerminalSocket.                                                         *)

(* What connects a socket to the life of its handlers.                     *)
Handlers ==
  /\ ws # 0 => ready[ws] # "none"
  /\ \A s \in Socket :
       /\ ready[s] \in {"none", "connecting"} =>
            peer[s] # "up" /\ sent[s] = 0 /\ received[s] = 0
       /\ received[s] > 0 => flowEnabled[s]

SocketInv == SocketTypeOK /\ Handlers /\ AcksOwnBytes /\ NeverStranded /\ VisibilityTold

LEMMA Sockets == 0 \notin Socket /\ Socket \subseteq Nat
BY SocketAssumption DEF Socket

LEMMA InitSocket == SocketInit => SocketInv
<1> SUFFICES ASSUME SocketInit PROVE SocketInv
  OBVIOUS
<1> USE Sockets DEF SocketInit
<1>1. SocketTypeOK
  <2>1. taps \in 0 .. MaxTaps /\ faults \in 0 .. MaxFaults
    BY SocketAssumption
  <2>2. /\ ready \in [Socket -> {"none", "connecting", "open", "closing", "closed"}]
        /\ peer \in [Socket -> {"none", "up"} \cup Ends]
    BY DEF Ends
  <2>3. /\ received \in [Socket -> Nat] /\ parsed \in [Socket -> Nat]
        /\ parsedBytes \in [Socket -> Nat] /\ sent \in [Socket -> Nat] /\ acked \in [Socket -> Nat]
        /\ flowEnabled \in [Socket -> BOOLEAN] /\ told \in [Socket -> BOOLEAN]
    OBVIOUS
  <2>4. QED
    BY <2>1, <2>2, <2>3 DEF SocketTypeOK
<1>2. Handlers /\ AcksOwnBytes
  BY DEF Handlers, AcksOwnBytes, Current
<1>3. NeverStranded /\ VisibilityTold
  BY DEF NeverStranded, VisibilityTold, Current
<1>4. QED
  BY <1>1, <1>2, <1>3 DEF SocketInv

-----------------------------------------------------------------------------
LEMMA RetryKeeps == ASSUME SocketInv, Retry PROVE SocketInv'
<1> USE Sockets DEF SocketInv, Retry, page, counts
<1>1. SocketTypeOK'
  <2>1. urls' \in Nat
    BY DEF SocketTypeOK
  <2>2. CASE retryTimer /\ retryTimer' = FALSE /\ UNCHANGED timers
    <3>1. timers' \in Nat /\ retryTimer' \in BOOLEAN
      BY <2>2, Zenon DEF SocketTypeOK
    <3>2. QED
      BY <2>1, <3>1, Zenon DEF SocketTypeOK
  <2>3. CASE timers > 0 /\ timers' = timers - 1 /\ UNCHANGED retryTimer
    <3>1. timers' \in Nat
      BY <2>3 DEF SocketTypeOK
    <3>2. retryTimer' \in BOOLEAN
      BY <2>3, Zenon DEF SocketTypeOK
    <3>3. QED
      BY <2>1, <3>1, <3>2, Zenon DEF SocketTypeOK
  <2>4. QED
    BY <2>2, <2>3, Zenon
<1>2. Handlers' /\ AcksOwnBytes' /\ VisibilityTold'
  BY DEF Handlers, AcksOwnBytes, VisibilityTold, Current
<1>3. NeverStranded'
  BY DEF NeverStranded, SocketTypeOK
<1>4. QED
  BY <1>1, <1>2, <1>3

LEMMA OpenKeeps == ASSUME SocketInv, NEW s \in Socket, Open(s) PROVE SocketInv'
<1> USE Sockets DEF SocketInv
<1>1. SocketTypeOK'
  BY DEF Open, SocketTypeOK, page, counts
<1>2. \A t \in Socket : t # s => ready'[t] = ready[t]
  BY DEF Open, SocketTypeOK
<1>3. ready[s] = "none" /\ ready'[s] \in {"none", "connecting"}
  BY DEF Open, SocketTypeOK
<1>4. Handlers'
  BY <1>2, <1>3 DEF Open, Handlers, SocketTypeOK, page, counts
<1>5. AcksOwnBytes'
  BY <1>2, <1>3 DEF Open, Handlers, AcksOwnBytes, Current, SocketTypeOK, page, counts
<1>6. NeverStranded'
  BY <1>2, <1>3 DEF Open, NeverStranded, SocketTypeOK, page, counts
<1>7. VisibilityTold'
  BY <1>2, <1>3 DEF Open, VisibilityTold, Current, SocketTypeOK, page, counts
<1>8. QED
  BY <1>1, <1>4, <1>5, <1>6, <1>7

LEMMA UrlFailsKeeps == ASSUME SocketInv, UrlFails PROVE SocketInv'
<1> USE Sockets DEF SocketInv, UrlFails, ScheduleRetry, counts
<1>1. SocketTypeOK'
  <2>1. urls' \in Nat /\ faults' \in 0 .. MaxFaults
    BY SocketAssumption DEF SocketTypeOK, Fault
  <2>2. CASE closedByCaller
    BY <2>1, <2>2 DEF SocketTypeOK
  <2>3. CASE ~closedByCaller
    BY <2>1, <2>3 DEF SocketTypeOK
  <2>4. QED
    BY <2>2, <2>3
<1>2. Handlers' /\ AcksOwnBytes' /\ VisibilityTold'
  BY DEF Handlers, AcksOwnBytes, VisibilityTold, Current
<1>3. NeverStranded'
  BY DEF NeverStranded
<1>4. QED
  BY <1>1, <1>2, <1>3

(* reconnect and close let go of the socket that counts.                   *)
LEMMA ShutIs ==
  ASSUME SocketTypeOK
  PROVE  /\ Shut(ws) \in [Socket -> {"none", "connecting", "open", "closing", "closed"}]
         /\ \A s \in Socket : Shut(ws)[s] = ready[s] \/ (s = ws /\ Shut(ws)[s] = "closing")
BY Sockets DEF Shut, SocketTypeOK

LEMMA ReconnectKeeps == ASSUME SocketInv, Reconnect PROVE SocketInv'
<1> USE Sockets DEF SocketInv
<1>1. SocketTypeOK'
  <2>1. taps' \in 0 .. MaxTaps /\ urls' \in Nat
    BY SocketAssumption DEF Reconnect, SocketTypeOK
  <2>2. QED
    BY <2>1, ShutIs DEF Reconnect, SocketTypeOK, counts
<1>2. \A s \in Socket : ready'[s] = ready[s] \/ ready'[s] = "closing"
  BY ShutIs DEF Reconnect
<1>3. Handlers' /\ AcksOwnBytes' /\ NeverStranded' /\ VisibilityTold'
  BY <1>2 DEF Reconnect, Handlers, AcksOwnBytes, NeverStranded, VisibilityTold, Current,
              SocketTypeOK, counts
<1>4. QED
  BY <1>1, <1>3

LEMMA CloseViewKeeps == ASSUME SocketInv, CloseView PROVE SocketInv'
<1> USE Sockets DEF SocketInv
<1>1. SocketTypeOK'
  BY ShutIs DEF CloseView, SocketTypeOK, counts
<1>2. \A s \in Socket : ready'[s] = ready[s] \/ ready'[s] = "closing"
  BY ShutIs DEF CloseView
<1>3. Handlers' /\ AcksOwnBytes' /\ NeverStranded' /\ VisibilityTold'
  BY <1>2 DEF CloseView, Handlers, AcksOwnBytes, NeverStranded, VisibilityTold, Current,
              SocketTypeOK, counts
<1>4. QED
  BY <1>1, <1>3

LEMMA OnOpenKeeps == ASSUME SocketInv, NEW s \in Socket, OnOpen(s) PROVE SocketInv'
BY Sockets
DEF OnOpen, SocketInv, SocketTypeOK, Handlers, AcksOwnBytes, NeverStranded, VisibilityTold, Current,
    attempts, counts

LEMMA ConfirmedKeeps == ASSUME SocketInv, NEW s \in Socket, Confirmed(s) PROVE SocketInv'
BY Sockets
DEF Confirmed, SocketInv, SocketTypeOK, Handlers, AcksOwnBytes, NeverStranded, VisibilityTold, Current,
    attempts, page

LEMMA OnDataKeeps == ASSUME SocketInv, NEW s \in Socket, OnData(s) PROVE SocketInv'
BY Sockets
DEF OnData, SocketInv, SocketTypeOK, Handlers, AcksOwnBytes, NeverStranded, VisibilityTold, Current,
    attempts, page

(* What is parsed was handed over, so the server had offered to be told.   *)
LEMMA OnParsedKeeps == ASSUME SocketInv, NEW s \in Socket, OnParsed(s) PROVE SocketInv'
<1> USE Sockets DEF SocketInv
<1>1. SocketTypeOK' /\ Handlers' /\ NeverStranded' /\ VisibilityTold'
  BY DEF OnParsed, Acked, SocketTypeOK, Handlers, NeverStranded, VisibilityTold, Current,
         attempts, page
<1>2. flowEnabled[s]
  BY DEF OnParsed, Handlers, SocketTypeOK
<1>3. AcksOwnBytes'
  BY <1>2 DEF OnParsed, Acked, AcksOwnBytes, SocketTypeOK, Current, attempts, page
<1>4. QED
  BY <1>1, <1>3

LEMMA OnCloseKeeps == ASSUME SocketInv, NEW s \in Socket, OnClose(s) PROVE SocketInv'
<1> USE Sockets DEF SocketInv
<1>1. /\ status' \in {"connecting", "open", "reconnecting", "ended"}
      /\ retryTimer' \in BOOLEAN /\ timers' \in Nat
      /\ retryTimer \/ timers > 0 => retryTimer' \/ timers' > 0
  <2>1. CASE ScheduleRetry
    BY <2>1 DEF ScheduleRetry, SocketTypeOK
  <2>2. CASE status' \in {status, "ended"} /\ UNCHANGED <<retryTimer, timers>>
    BY <2>2 DEF SocketTypeOK
  <2>3. QED
    BY <2>1, <2>2 DEF OnClose
<1>2. SocketTypeOK'
  BY <1>1 DEF OnClose, Forgets, SocketTypeOK, Ends
<1>3. \A t \in Socket : t # s => /\ ready'[t] = ready[t] /\ peer'[t] = peer[t]
                                 /\ told'[t] = told[t] /\ flowEnabled'[t] = flowEnabled[t]
                                 /\ received'[t] = received[t] /\ parsed'[t] = parsed[t]
                                 /\ parsedBytes'[t] = parsedBytes[t]
                                 /\ sent'[t] = sent[t] /\ acked'[t] = acked[t]
  BY DEF OnClose, Forgets, SocketTypeOK
<1>4. /\ ready'[s] = "closed" /\ peer'[s] \in Ends /\ (peer[s] = "fatal" => peer'[s] = "fatal")
      /\ received'[s] = 0 /\ parsed'[s] = 0 /\ parsedBytes'[s] = 0
      /\ sent'[s] = 0 /\ acked'[s] = 0
  BY DEF OnClose, Forgets, SocketTypeOK, Ends
<1>5. Handlers' /\ AcksOwnBytes' /\ VisibilityTold'
  BY <1>3, <1>4 DEF OnClose, Handlers, AcksOwnBytes, VisibilityTold, Current, SocketTypeOK
<1>6. NeverStranded'
  <2>1. CASE Current(s) /\ peer[s] # "fatal"
    BY <2>1 DEF OnClose, ScheduleRetry, NeverStranded
  <2>2. CASE Current(s) /\ peer[s] = "fatal"
    BY <2>2, <1>4 DEF OnClose, NeverStranded, Current, SocketTypeOK
  <2>3. CASE ~Current(s)
    BY <2>3, <1>1, <1>3 DEF OnClose, NeverStranded, Current, SocketTypeOK
  <2>4. QED
    BY <2>1, <2>2, <2>3
<1>7. QED
  BY <1>2, <1>5, <1>6

LEMMA SetVisibilityKeeps == ASSUME SocketInv, SetVisibility PROVE SocketInv'
BY Sockets
DEF SetVisibility, SocketInv, SocketTypeOK, Handlers, AcksOwnBytes, NeverStranded, VisibilityTold,
    Current, attempts, counts

LEMMA ServerKeeps ==
  ASSUME SocketInv, NEW s \in Socket,
         ServerSends(s) \/ ServerHears(s) \/ Stalls(s) \/ ServerEnds(s) \/ Breaks(s)
  PROVE  SocketInv'
<1> USE Sockets DEF SocketInv
<1>1. CASE ServerSends(s)
  BY <1>1 DEF ServerSends, SocketTypeOK, Handlers, AcksOwnBytes, NeverStranded, VisibilityTold,
              Current, attempts, page
<1>2. CASE ServerHears(s)
  BY <1>2 DEF ServerHears, SocketTypeOK, Handlers, AcksOwnBytes, NeverStranded, VisibilityTold,
              Current, attempts, page, Ends
<1>3. CASE Stalls(s) \/ ServerEnds(s) \/ Breaks(s)
  <2>1. faults' \in 0 .. MaxFaults
    BY <1>3, SocketAssumption DEF Stalls, ServerEnds, Breaks, Fault, SocketTypeOK
  <2>2. /\ UNCHANGED <<attempts, page, ready, counts, told>>
        /\ peer' = [peer EXCEPT ![s] = "lost"] \/ peer' = [peer EXCEPT ![s] = "fatal"]
        /\ peer[s] # "fatal"
    BY <1>3 DEF Stalls, ServerEnds, Breaks
  <2>3. QED
    BY <2>1, <2>2 DEF SocketTypeOK, Handlers, AcksOwnBytes, NeverStranded, VisibilityTold, Current,
                      attempts, page, counts, Ends
<1>4. QED
  BY <1>1, <1>2, <1>3

LEMMA StepKeepsSocket == SocketInv /\ [SocketNext]_socketVars => SocketInv'
<1> SUFFICES ASSUME SocketInv, [SocketNext]_socketVars PROVE SocketInv'
  OBVIOUS
<1>1. CASE \E s \in Socket : SocketStep(s)
  BY <1>1, OpenKeeps, OnOpenKeeps, ConfirmedKeeps, OnDataKeeps, OnParsedKeeps, OnCloseKeeps,
     ServerKeeps
  DEF SocketStep
<1>2. CASE Retry \/ UrlFails \/ Reconnect \/ CloseView \/ SetVisibility
  BY <1>2, RetryKeeps, UrlFailsKeeps, ReconnectKeeps, CloseViewKeeps, SetVisibilityKeeps
<1>3. CASE UNCHANGED socketVars
  BY <1>3 DEF SocketInv, SocketTypeOK, Handlers, AcksOwnBytes, NeverStranded, VisibilityTold, Current,
              socketVars, attempts, page, counts
<1>4. QED
  BY <1>1, <1>2, <1>3 DEF SocketNext

-----------------------------------------------------------------------------
(* The three invariants and what they rest on are always so.               *)
THEOREM SocketInvariant == SocketSpec => []SocketInv
BY InitSocket, StepKeepsSocket, PTL DEF SocketSpec

(* The variables of TerminalSocket have their types.                       *)
THEOREM SocketTypes == SocketSpec => []SocketTypeOK
<1>1. SocketInv => SocketTypeOK
  BY DEF SocketInv
<1>2. QED
  BY <1>1, SocketInvariant, PTL

(* Each connection acknowledges its own chunks, no more than were parsed   *)
(* and, while it is current, no less.                                      *)
THEOREM AcksHold == SocketSpec => []AcksOwnBytes
<1>1. SocketInv => AcksOwnBytes
  BY DEF SocketInv
<1>2. QED
  BY <1>1, SocketInvariant, PTL

(* No view is left with nothing that will bring its connection back.       *)
THEOREM NeverStrandedHolds == SocketSpec => []NeverStranded
<1>1. SocketInv => NeverStranded
  BY DEF SocketInv
<1>2. QED
  BY <1>1, SocketInvariant, PTL

(* The server knows by the current connection whether the page is seen.    *)
THEOREM VisibilityHolds == SocketSpec => []VisibilityTold
<1>1. SocketInv => VisibilityTold
  BY DEF SocketInv
<1>2. QED
  BY <1>1, SocketInvariant, PTL

-----------------------------------------------------------------------------
(* CommandCenter.                                                          *)

(* The tables, and in the middle of a handler what it has appended.        *)
Tables ==
  [ws    : [Dir -> Workspaces \cup {NoWorkspace}],
   place : [Session -> Dir \cup {None}],
   agent : [Session -> Activity \cup {None}],
   items : SUBSET Session, silent : SUBSET Topics,
   events : Seq(Events), undone : Seq(Events), uncut : BOOLEAN, left : Nat]

(* Whatever a subscriber may know of the tables is right, but for what is  *)
(* silent; and K has room for whoever is told the tables themselves.       *)
Knows(K, T) ==
  /\ K \in SUBSET Views /\ View(T) \in K
  /\ \A v \in K : Agrees(v, View(T), T.silent)

(* Who knew something of J is told e, and knows something of K.            *)
Hears(K, J, e) == \A v \in J : Told(v, e) \in K

(* What subscribers who knew V are told by the events comes to T.          *)
Narrates(h, V, T) ==
  /\ h \in [0 .. Len(T.events) -> SUBSET Views]
  /\ V \subseteq h[0] /\ Knows(h[Len(T.events)], T)
  /\ \A i \in 1 .. Len(T.events) : Hears(h[i], h[i - 1], T.events[i])

Logged(T, V) == T \in Tables /\ \E h : Narrates(h, V, T)

(* The tables are as in M.                                                 *)
Same(U, M) == U.ws = M.ws /\ U.place = M.place /\ U.agent = M.agent /\ U.items = M.items

(* As in M, with as many writes left, and the events tell of it.           *)
Records(U, M, V) == Logged(U, V) /\ Same(U, M) /\ U.left = M.left

(* Nothing differs between two views but `what`, which in w is `is`.       *)
Changes(v, w, what, is) ==
  /\ what \in Topics
  /\ \A d \in Dir \ {what} : d \in v.dirs <=> d \in w.dirs
  /\ \A s \in Session \ {what} : v.agents[s] = w.agents[s]
  /\ what \in Dir => is \in BOOLEAN /\ (what \in w.dirs <=> is)
  /\ what \in Session => is \in Activity \cup {None} /\ w.agents[what] = is
  /\ what = None => is = None

(* A subscriber can know the tables, whatever they are.                    *)
LEMMA ViewType ==
  ASSUME NEW T \in Tables
  PROVE  View(T) \in Views
BY DEF Tables, View, Views

(* A row that is written before its event is silent; the event tells it.   *)
LEMMA RowAgrees ==
  ASSUME NEW v, NEW w, NEW what, NEW is, Changes(v, w, what, is), NEW x, NEW silent,
         Agrees(x, v, silent), NEW more, more = silent \cup {what}
  PROVE  Agrees(x, w, more)
BY DEF Changes, Agrees

LEMMA ToldAgrees ==
  ASSUME NEW v, NEW w, NEW what, NEW is, Changes(v, w, what, is), NEW x \in Views, NEW silent,
         Agrees(x, v, silent), NEW less, less = silent \ {what},
         NEW e, e = [what |-> what, is |-> is]
  PROVE  Told(x, e) \in Views /\ Agrees(Told(x, e), w, less)
<1>1. e.what = what /\ e.is = is
  OBVIOUS
<1>2. x.dirs \in SUBSET Dir /\ x.agents \in [Session -> Activity \cup {None}]
      /\ x = [dirs |-> x.dirs, agents |-> x.agents]
  BY DEF Views
<1>3. CASE what \in Dir
  <2>1. what \notin Session /\ is \in BOOLEAN /\ (what \in w.dirs <=> is)
    BY <1>3, SessionAssumption DEF Changes
  <2>2. PICK y : y = IF is THEN x.dirs \cup {what} ELSE x.dirs \ {what}
    OBVIOUS
  <2>3. Told(x, e) = [dirs |-> y, agents |-> x.agents]
    <3>1. Told(x, e) = [x EXCEPT !.dirs = IF e.is THEN @ \cup {e.what} ELSE @ \ {e.what}]
      BY <1>1, <1>3, <2>1 DEF Told
    <3>2. QED
      BY <1>1, <1>2, <2>2, <3>1
  <2>4. \A d \in Dir \ less : d \in y <=> d \in w.dirs
    BY <2>1, <2>2 DEF Changes, Agrees
  <2>5. \A s \in Session \ less : x.agents[s] = w.agents[s]
    BY <2>1 DEF Changes, Agrees
  <2>6. y \in SUBSET Dir
    BY <1>2, <1>3, <2>2
  <2>7. QED
    BY <1>2, <2>3, <2>4, <2>5, <2>6 DEF Agrees, Views
<1>4. CASE what \in Session
  <2>1. what \notin Dir /\ is \in Activity \cup {None} /\ w.agents[what] = is
    BY <1>4, SessionAssumption DEF Changes
  <2>2. PICK y : y = [x.agents EXCEPT ![what] = is]
    OBVIOUS
  <2>3. Told(x, e) = [dirs |-> x.dirs, agents |-> y]
    <3>1. Told(x, e) = [x EXCEPT !.agents[e.what] = e.is]
      BY <1>1, <1>4, <2>1 DEF Told
    <3>2. QED
      BY <1>1, <1>2, <2>2, <3>1
  <2>4. /\ y \in [Session -> Activity \cup {None}] /\ y[what] = is
        /\ \A s \in Session \ {what} : y[s] = x.agents[s]
    BY <1>2, <1>4, <2>1, <2>2
  <2>5. \A s \in Session \ less : y[s] = w.agents[s]
    BY <2>1, <2>4 DEF Changes, Agrees
  <2>6. \A d \in Dir \ less : d \in x.dirs <=> d \in w.dirs
    BY <2>1 DEF Changes, Agrees
  <2>7. QED
    BY <1>2, <2>3, <2>4, <2>5, <2>6 DEF Agrees, Views
<1>5. CASE what \notin Dir \cup Session
  <2>1. Told(x, e) = x
    BY <1>1, <1>5 DEF Told
  <2>2. QED
    BY <1>5, <2>1 DEF Changes, Agrees
<1>6. QED
  BY <1>3, <1>4, <1>5

(* Nothing but places, items and the writes that are left changes.         *)
LEMMA LoggedSame ==
  ASSUME NEW V, NEW T, Logged(T, V), NEW U \in Tables, U.ws = T.ws, U.agent = T.agent,
         U.silent = T.silent, U.events = T.events
  PROVE  Logged(U, V)
<1>1. PICK h : Narrates(h, V, T)
  BY DEF Logged
<1>2. View(U) = View(T)
  BY DEF View
<1>3. Narrates(h, V, U)
  BY <1>1, <1>2 DEF Narrates, Knows
<1>4. QED
  BY <1>3 DEF Logged

(* A row without its event: whoever asks for the tables now knows it.      *)
LEMMA RowLogged ==
  ASSUME NEW V, NEW T, Logged(T, V), NEW M \in Tables, M.events = T.events,
         NEW what, NEW is, Changes(View(T), View(M), what, is), M.silent = T.silent \cup {what}
  PROVE  Logged(M, V)
<1>1. PICK h : Narrates(h, V, T)
  BY DEF Logged
<1>2. PICK n \in Nat : n = Len(T.events)
  BY DEF Logged, Tables
<1>3. /\ h \in [0 .. n -> SUBSET Views] /\ V \subseteq h[0]
      /\ View(T) \in h[n] /\ \A v \in h[n] : Agrees(v, View(T), T.silent)
      /\ \A i \in 1 .. n : Hears(h[i], h[i - 1], T.events[i])
  BY <1>1, <1>2 DEF Narrates, Knows
<1>4. PICK g : g = [i \in 0 .. n |-> IF i = n THEN h[n] \cup {View(M)} ELSE h[i]]
  OBVIOUS
<1>5. View(M) \in Views
  BY ViewType
<1>6. n \in 0 .. n /\ 0 \in 0 .. n
  OBVIOUS
<1>7. /\ g \in [0 .. n -> SUBSET Views] /\ g[n] = h[n] \cup {View(M)}
      /\ \A i \in 0 .. n : h[i] \subseteq g[i] /\ (i # n => g[i] = h[i])
  BY <1>3, <1>4, <1>5, <1>6
<1>8. \A v \in h[n] : Agrees(v, View(M), M.silent)
  BY <1>3, RowAgrees
<1>9. Agrees(View(M), View(M), M.silent)
  BY DEF Agrees
<1>10. Knows(g[n], M)
  BY <1>6, <1>7, <1>8, <1>9 DEF Knows
<1>11. ASSUME NEW i \in 1 .. n PROVE Hears(g[i], g[i - 1], M.events[i])
  <2>1. i \in 0 .. n /\ i - 1 \in 0 .. n /\ i - 1 # n
    OBVIOUS
  <2>2. Hears(h[i], h[i - 1], T.events[i])
    BY <1>3
  <2>3. QED
    BY <1>7, <2>1, <2>2 DEF Hears
<1>12. Narrates(g, V, M)
  BY <1>2, <1>3, <1>6, <1>7, <1>10, <1>11 DEF Narrates
<1>13. QED
  BY <1>12 DEF Logged

(* One more event, which tells what changed.                               *)
LEMMA EventLogged ==
  ASSUME NEW V, NEW T, Logged(T, V), NEW M \in Tables, M.events = T.events, M.silent = T.silent,
         NEW what, NEW is, Changes(View(T), View(M), what, is),
         NEW U, U = Event(M, what, is)
  PROVE  Records(U, M, V)
<1>1. PICK e \in Events : e = [what |-> what, is |-> is]
  <2>1. \/ what \in Dir /\ is \in BOOLEAN
        \/ what \in Session /\ is \in Activity \cup {None}
        \/ what \in {None} /\ is \in {None}
    BY DEF Changes, Topics
  <2>2. QED
    BY <2>1, Zenon DEF Events
<1>2. PICK q \in Seq(Events) : q = T.events
  BY DEF Logged, Tables
<1>3. PICK p \in Seq(Events) : p = Append(q, e)
  <2>1. Append(q, e) \in Seq(Events)
    BY AppendProperties, Zenon
  <2>2. QED
    BY <2>1, Zenon
<1>4. PICK less : less = M.silent \ {what}
  OBVIOUS
<1>5. /\ U \in Tables /\ Same(U, M) /\ U.left = M.left /\ U.events = p /\ U.silent = less
  <2>1. U = [M EXCEPT !.events = p, !.silent = less]
    BY <1>1, <1>2, <1>3, <1>4 DEF Event, Tables
  <2>2. less \in SUBSET Topics
    BY <1>4 DEF Tables
  <2>3. QED
    BY <2>1, <2>2 DEF Tables, Same
<1>6. View(U) = View(M) /\ View(U) \in Views
  BY <1>5, ViewType DEF View, Same
<1>7. PICK h : Narrates(h, V, T)
  BY DEF Logged
<1>8. PICK n \in Nat : n = Len(q)
  OBVIOUS
<1>9. Len(p) = n + 1 /\ p[n + 1] = e /\ \A i \in 1 .. n : p[i] = q[i]
  BY <1>3, <1>8
<1>10. /\ h \in [0 .. n -> SUBSET Views] /\ V \subseteq h[0]
       /\ h[n] \in SUBSET Views /\ \A v \in h[n] : Agrees(v, View(T), T.silent)
       /\ \A i \in 1 .. n : Hears(h[i], h[i - 1], q[i])
  BY <1>2, <1>7, <1>8 DEF Narrates, Knows
<1>11. PICK K : K = {Told(v, e) : v \in h[n]} \cup {View(U)}
  OBVIOUS
<1>12. \A v \in h[n] : Told(v, e) \in Views /\ Agrees(Told(v, e), View(U), less)
  <2>1. TAKE v \in h[n]
  <2>2. v \in Views /\ Agrees(v, View(T), T.silent)
    BY <1>10
  <2>3. less = T.silent \ {what}
    BY <1>4
  <2>4. Told(v, e) \in Views /\ Agrees(Told(v, e), View(M), less)
    BY <1>1, <2>2, <2>3, ToldAgrees
  <2>5. QED
    BY <1>6, <2>4
<1>13. Knows(K, U)
  <2>1. Agrees(View(U), View(U), less)
    BY DEF Agrees
  <2>2. \A v \in K : v \in Views /\ Agrees(v, View(U), less)
    BY <1>6, <1>11, <1>12, <2>1, Zenon
  <2>3. K \in SUBSET Views
    BY <2>2
  <2>4. View(U) \in K
    BY <1>11
  <2>5. QED
    BY <1>5, <2>2, <2>3, <2>4 DEF Knows
<1>14. PICK g : g = [i \in 0 .. n + 1 |-> IF i <= n THEN h[i] ELSE K]
  OBVIOUS
<1>15. K \in SUBSET Views
  BY <1>13 DEF Knows
<1>16. /\ g \in [0 .. n + 1 -> SUBSET Views] /\ V \subseteq g[0] /\ g[n + 1] = K
       /\ \A i \in 0 .. n : g[i] = h[i]
  BY <1>10, <1>14, <1>15
<1>17. ASSUME NEW i \in 1 .. n + 1 PROVE Hears(g[i], g[i - 1], p[i])
  <2>1. CASE i = n + 1
    <3>1. i - 1 = n /\ g[i - 1] = h[n] /\ p[i] = e /\ g[i] = K
      BY <1>9, <1>16, <2>1
    <3>2. Hears(K, h[n], e)
      BY <1>11, Zenon DEF Hears
    <3>3. QED
      BY <3>1, <3>2
  <2>2. CASE i \in 1 .. n
    <3>1. i - 1 \in 0 .. n /\ i \in 0 .. n
      BY <2>2
    <3>2. g[i] = h[i] /\ g[i - 1] = h[i - 1] /\ p[i] = q[i]
      BY <1>9, <1>16, <2>2, <3>1
    <3>3. QED
      BY <1>10, <2>2, <3>2
  <2>3. QED
    BY <2>1, <2>2
<1>18. Narrates(g, V, U)
  BY <1>5, <1>9, <1>13, <1>16, <1>17 DEF Narrates
<1>19. QED
  BY <1>5, <1>18 DEF Logged, Records

(* What nobody but the store needs to know.                                *)
LEMMA QuietLogged ==
  ASSUME NEW V, NEW T, Logged(T, V), NEW M \in Tables, M.events = T.events, M.silent = T.silent,
         M.ws = T.ws, M.agent = T.agent, NEW U, U = Event(M, None, None)
  PROVE  Records(U, M, V)
<1>1. View(M) = View(T)
  BY DEF View
<1>2. Changes(View(T), View(M), None, None)
  BY <1>1, NoneAssumption DEF Changes, Topics
<1>3. QED
  BY <1>2, EventLogged

(* What an event says of a workspace.                                      *)
Shown(w, is) == is \in BOOLEAN /\ is = ~w.archived

(* M is T with another workspace for d.                                    *)
Renewed(M, T, d, w) ==
  /\ M \in Tables /\ M.events = T.events /\ M.silent = T.silent /\ M.left = T.left
  /\ M.ws[d] = w /\ \A b \in Dir \ {d} : M.ws[b] = T.ws[b]
  /\ M.place = T.place /\ M.agent = T.agent /\ M.items = T.items

(* A workspace changes, or comes into being.                               *)
LEMMA WorkspaceChanges ==
  ASSUME NEW T \in Tables, NEW d \in Dir, NEW w \in Workspaces, NEW is, Shown(w, is),
         NEW M, M = [T EXCEPT !.ws[d] = w]
  PROVE  Changes(View(T), View(M), d, is) /\ Renewed(M, T, d, w)
<1>1. /\ M \in Tables /\ M.events = T.events /\ M.silent = T.silent /\ M.left = T.left
      /\ M.ws = [T.ws EXCEPT ![d] = w]
      /\ M.place = T.place /\ M.agent = T.agent /\ M.items = T.items
  BY DEF Tables
<1>2. M.ws[d] = w /\ \A b \in Dir \ {d} : M.ws[b] = T.ws[b]
  BY <1>1 DEF Tables
<1>3. w # NoWorkspace /\ is \in BOOLEAN
  BY DEF Workspaces, NoWorkspace, Shown
<1>4. /\ \A b \in Dir \ {d} : b \in View(T).dirs <=> b \in View(M).dirs
      /\ d \in View(M).dirs <=> is
      /\ View(M).agents = View(T).agents
  BY <1>1, <1>2, <1>3 DEF View, Shown
<1>5. d \notin Session /\ d # None /\ d \in Topics
  BY SessionAssumption, NoneAssumption DEF Topics
<1>6. Changes(View(T), View(M), d, is)
  BY <1>3, <1>4, <1>5 DEF Changes
<1>7. QED
  BY <1>1, <1>2, <1>6 DEF Renewed

(* So does what an agent is doing; the placement and the items may go with *)
(* it.                                                                     *)
LEMMA AgentChanges ==
  ASSUME NEW T \in Tables, NEW s \in Session, NEW a \in Activity \cup {None},
         NEW M, M.ws = T.ws, M.agent = [T.agent EXCEPT ![s] = a]
  PROVE  Changes(View(T), View(M), s, a)
<1>1. M.agent[s] = a /\ \A r \in Session \ {s} : M.agent[r] = T.agent[r]
  BY DEF Tables
<1>2. View(M).dirs = View(T).dirs /\ View(M).agents = M.agent /\ View(T).agents = T.agent
  BY DEF View
<1>3. s \notin Dir /\ s # None /\ s \in Topics
  BY SessionAssumption, NoneAssumption DEF Topics
<1>4. QED
  BY <1>1, <1>2, <1>3 DEF Changes

WorkspacesShown(T) ==
  \A d \in Dir : T.ws[d].origin = "session" => (T.ws[d].archived <=> Empty(T, d))

NeedsBelong(T) ==
  \A s \in Session : /\ s \in T.items => T.agent[s] # None
                     /\ T.agent[s] # None => T.place[s] # None

(* Tables between two operations of a handler that began at view V.        *)
Sound(T, V) == Logged(T, V) /\ WorkspacesShown(T) /\ NeedsBelong(T)

LEMMA SoundTables ==
  ASSUME NEW V, NEW T, Sound(T, V)
  PROVE  T \in Tables
BY DEF Sound, Logged

LEMMA SoundSame ==
  ASSUME NEW V, NEW T, WorkspacesShown(T), NeedsBelong(T), NEW U, Logged(U, V), Same(U, T)
  PROVE  Sound(U, V)
<1>1. \A d \in Dir : Empty(U, d) <=> Empty(T, d)
  BY DEF Empty, Same
<1>2. WorkspacesShown(U)
  BY <1>1 DEF WorkspacesShown, Same
<1>3. NeedsBelong(U)
  BY DEF NeedsBelong, Same
<1>4. QED
  BY <1>2, <1>3 DEF Sound

(* An operation that comes to T or to R; if the process has outlived it, it*)
(* came to R.                                                              *)
Outlived(U, T, R) ==
  /\ Same(U, T) \/ Same(U, R)
  /\ U.left # 0 => T.left # 0 /\ Same(U, R)

(* A transaction is done whole, or not at all.                             *)
LEMMA TransactionSound ==
  ASSUME NEW V, NEW T, Sound(T, V), NEW R, Sound(R, V), R.left = T.left,
         NEW U, U = Transaction(T, R)
  PROVE  Sound(U, V) /\ Outlived(U, T, R)
<1>1. T \in Tables /\ R \in Tables /\ Logged(T, V) /\ Logged(R, V)
  BY DEF Sound, Logged
<1>2. PICK l \in Nat : l = T.left
  BY <1>1 DEF Tables
<1>3. CASE l = 0
  <2>1. U = T
    BY <1>2, <1>3 DEF Transaction
  <2>2. QED
    BY <1>2, <1>3, <2>1 DEF Outlived, Same
<1>4. CASE l = 1
  <2>1. PICK q : q = SubSeq(R.events, Len(T.events) + 1, Len(R.events))
    OBVIOUS
  <2>2. q \in Seq(Events)
    <3>1. PICK e \in Seq(Events) : e = R.events
      BY <1>1 DEF Tables
    <3>2. PICK i, j \in Nat : i = Len(T.events) + 1 /\ j = Len(e)
      BY <1>1 DEF Tables
    <3>3. i >= 1
      BY <1>1, <3>2 DEF Tables
    <3>4. SubSeq(e, i, j) \in Seq(Events)
      BY <3>1, <3>2, <3>3
    <3>5. QED
      BY <2>1, <3>1, <3>2, <3>4
  <2>3. PICK z \in Nat : z = 0
    OBVIOUS
  <2>4. U = [T EXCEPT !.left = z, !.undone = q]
    BY <1>2, <1>4, <2>1, <2>3 DEF Transaction
  <2>5. /\ U \in Tables /\ U.ws = T.ws /\ U.place = T.place /\ U.agent = T.agent
        /\ U.items = T.items /\ U.silent = T.silent /\ U.events = T.events /\ U.left = 0
    BY <1>1, <2>2, <2>3, <2>4 DEF Tables
  <2>6. Logged(U, V) /\ Same(U, T)
    BY <1>1, <2>5, LoggedSame DEF Same
  <2>7. QED
    BY <2>5, <2>6, SoundSame DEF Sound, Outlived
<1>5. CASE l # 0 /\ l # 1
  <2>1. PICK k \in Nat : k = l - 2
    BY <1>5
  <2>2. U = [R EXCEPT !.left = k]
    BY <1>1, <1>2, <1>5, <2>1 DEF Transaction, Tables
  <2>3. /\ U \in Tables /\ U.ws = R.ws /\ U.place = R.place /\ U.agent = R.agent
        /\ U.items = R.items /\ U.silent = R.silent /\ U.events = R.events
    BY <1>1, <2>2 DEF Tables
  <2>4. Logged(U, V) /\ Same(U, R)
    BY <1>1, <2>3, LoggedSame DEF Same
  <2>5. QED
    BY <1>2, <1>5, <2>4, SoundSame DEF Sound, Outlived
<1>6. QED
  BY <1>3, <1>4, <1>5

(* A statement of its own is done, or not.                                 *)
LEMMA WriteIs ==
  ASSUME NEW T \in Tables, NEW R \in Tables, R.left = T.left, NEW U, U = Write(T, R)
  PROVE  \/ T.left = 0 /\ U = T
         \/ /\ T.left # 0 /\ Same(U, R)
            /\ U \in Tables /\ U.events = R.events /\ U.silent = R.silent
<1>1. PICK l \in Nat : l = T.left
  BY DEF Tables
<1>2. CASE l = 0
  BY <1>1, <1>2 DEF Write
<1>3. CASE l # 0
  <2>1. PICK k \in Nat : k = l - 1
    BY <1>3
  <2>2. U = [R EXCEPT !.left = k]
    BY <1>1, <1>3, <2>1 DEF Write, Tables
  <2>3. QED
    BY <1>1, <1>3, <2>2 DEF Tables, Same
<1>4. QED
  BY <1>2, <1>3

(* A row, its event and the pruning: the tables are sound whenever they    *)
(* break off.                                                              *)
LEMMA OneByOneSound ==
  ASSUME NEW V, NEW T, Sound(T, V), NEW M \in Tables, M.events = T.events, M.silent = T.silent,
         M.left = T.left, NEW what, NEW is, Changes(View(T), View(M), what, is),
         WorkspacesShown(M), NeedsBelong(M),
         NEW U, U = OneByOne(T, M, what, is)
  PROVE  Sound(U, V) /\ Outlived(U, T, M)
<1>1. T \in Tables /\ Logged(T, V)
  BY DEF Sound, Logged
<1>2. PICK R : R = [M EXCEPT !.silent = @ \cup {what}]
  OBVIOUS
<1>3. /\ R \in Tables /\ Same(R, M) /\ R.events = T.events /\ R.silent = T.silent \cup {what}
      /\ R.left = T.left
  <2>1. PICK more : more = T.silent \cup {what}
    OBVIOUS
  <2>2. more \in SUBSET Topics
    BY <1>1, <2>1 DEF Tables, Changes
  <2>3. R = [M EXCEPT !.silent = more]
    BY <1>2, <2>1 DEF Tables
  <2>4. QED
    BY <2>1, <2>2, <2>3 DEF Tables, Same
<1>4. View(R) = View(M)
  BY <1>3 DEF View, Same
<1>5. Logged(R, V)
  BY <1>1, <1>3, <1>4, RowLogged
<1>6. PICK W : W = Write(T, R)
  OBVIOUS
<1>7. \/ T.left = 0 /\ W = T
      \/ /\ T.left # 0 /\ Same(W, R)
         /\ W \in Tables /\ W.events = R.events /\ W.silent = R.silent
  BY <1>1, <1>3, <1>6, WriteIs
<1>8. W \in Tables /\ Logged(W, V)
  <2>1. CASE T.left = 0 /\ W = T
    BY <1>1, <2>1
  <2>2. CASE /\ T.left # 0 /\ Same(W, R)
             /\ W \in Tables /\ W.events = R.events /\ W.silent = R.silent
    BY <1>5, <2>2, LoggedSame DEF Same
  <2>3. QED
    BY <1>7, <2>1, <2>2
<1>9. (W = T /\ T.left = 0) \/ (T.left # 0 /\ Same(W, M))
  BY <1>3, <1>7 DEF Same
<1>10. PICK Q : Q = Event(W, what, is)
  OBVIOUS
<1>11. Changes(View(W), View(W), what, is) \/ W.left = 0
  <2>1. CASE T.left # 0 /\ Same(W, M)
    <3>1. View(W) = View(M)
      BY <2>1 DEF View, Same
    <3>2. QED
      BY <3>1 DEF Changes
  <2>2. QED
    BY <1>9, <2>1
<1>12. PICK Z : Z = [Q EXCEPT !.uncut = TRUE]
  OBVIOUS
<1>13. PICK E : E = Write(W, Z)
  OBVIOUS
<1>14. CASE W.left = 0
  <2>1. E = W
    BY <1>13, <1>14 DEF Write
  <2>2. U = Write(E, [E EXCEPT !.uncut = FALSE])
    BY <1>2, <1>6, <1>10, <1>12, <1>13 DEF OneByOne
  <2>3. U = W
    BY <1>14, <2>1, <2>2 DEF Write
  <2>4. Same(U, T) \/ Same(U, M)
    BY <1>9, <2>3 DEF Same
  <2>5. Sound(U, V)
    BY <1>8, <2>3, <2>4, SoundSame DEF Sound
  <2>6. QED
    BY <1>14, <2>3, <2>4, <2>5 DEF Outlived
<1>15. CASE W.left # 0
  <2>1. T.left # 0 /\ Same(W, M)
    BY <1>9, <1>15
  <2>2. Records(Q, W, V)
    <3>1. Changes(View(W), View(W), what, is)
      BY <1>11, <1>15
    <3>2. QED
      BY <1>8, <1>10, <3>1, EventLogged
  <2>3. Q \in Tables /\ Logged(Q, V) /\ Same(Q, M) /\ Q.left = W.left
    BY <2>1, <2>2 DEF Records, Logged, Same
  <2>4. PICK b \in BOOLEAN : b = TRUE
    OBVIOUS
  <2>5. Z = [Q EXCEPT !.uncut = b]
    BY <1>12, <2>4
  <2>6. /\ Z \in Tables /\ Z.events = Q.events /\ Z.silent = Q.silent /\ Z.left = W.left
        /\ Z.ws = Q.ws /\ Z.place = Q.place /\ Z.agent = Q.agent /\ Z.items = Q.items
    BY <2>3, <2>5 DEF Tables
  <2>7. Logged(Z, V) /\ Same(Z, M)
    BY <2>3, <2>6, LoggedSame DEF Same
  <2>8. /\ Same(E, Z) /\ E \in Tables /\ E.events = Z.events /\ E.silent = Z.silent
    BY <1>8, <1>13, <1>15, <2>6, WriteIs
  <2>9. Logged(E, V) /\ Same(E, M)
    BY <2>7, <2>8, LoggedSame DEF Same
  <2>10. PICK c \in BOOLEAN : c = FALSE
    OBVIOUS
  <2>11. PICK F : F = [E EXCEPT !.uncut = c]
    OBVIOUS
  <2>12. /\ F \in Tables /\ F.events = E.events /\ F.silent = E.silent /\ F.left = E.left
         /\ F.ws = E.ws /\ F.place = E.place /\ F.agent = E.agent /\ F.items = E.items
    BY <2>8, <2>11 DEF Tables
  <2>13. Logged(F, V) /\ Same(F, M)
    BY <2>9, <2>12, LoggedSame DEF Same
  <2>14. U = Write(E, F)
    BY <1>2, <1>6, <1>10, <1>12, <1>13, <2>10, <2>11 DEF OneByOne
  <2>15. \/ E.left = 0 /\ U = E
         \/ /\ E.left # 0 /\ Same(U, F)
            /\ U \in Tables /\ U.events = F.events /\ U.silent = F.silent
    BY <2>8, <2>12, <2>14, WriteIs
  <2>16. Logged(U, V) /\ Same(U, M)
    <3>1. CASE U = E
      BY <2>9, <3>1
    <3>2. CASE Same(U, F) /\ U \in Tables /\ U.events = F.events /\ U.silent = F.silent
      BY <2>13, <3>2, LoggedSame DEF Same
    <3>3. QED
      BY <2>15, <3>1, <3>2
  <2>17. QED
    BY <2>1, <2>16, SoundSame DEF Outlived
<1>16. QED
  BY <1>14, <1>15

(* What createWorkspace makes of a workspace; one for sessions is shown.   *)
LEMMA MadeIs ==
  ASSUME NEW w \in Workspaces \cup {NoWorkspace}, NEW origin \in {"explicit", "session"},
         NEW made, made = Made(w, origin)
  PROVE  /\ made \in Workspaces
         /\ made.origin = "session" => origin = "session" /\ ~made.archived
<1>1. CASE w = NoWorkspace
  BY <1>1 DEF Workspaces, Made
<1>2. CASE w \in Workspaces
  <2>1. w # NoWorkspace
    BY <1>2 DEF Workspaces, NoWorkspace
  <2>2. w.origin \in {"explicit", "session"} /\ w.archived \in BOOLEAN
    BY <1>2 DEF Workspaces
  <2>3. (w.archived /\ ~Restores(w, origin)) \in BOOLEAN
    BY <2>2 DEF Restores
  <2>4. /\ made.origin = IF "explicit" \in {w.origin, origin} THEN "explicit" ELSE "session"
        /\ made.archived = (w.archived /\ ~Restores(w, origin))
        /\ made \in Workspaces
    BY <2>1, <2>2 DEF Workspaces, Restores, Made
  <2>5. QED
    BY <2>2, <2>4 DEF Restores
<1>3. QED
  BY <1>1, <1>2

(* A workspace is there for d, and one for its sessions is shown.          *)
Opened(U, T, d, V) ==
  /\ Logged(U, V) /\ U.place = T.place /\ U.agent = T.agent /\ U.items = T.items
  /\ U.left = T.left
  /\ \A b \in Dir \ {d} : U.ws[b] = T.ws[b]
  /\ U.ws[d].origin = "session" => ~U.ws[d].archived

LEMMA CreateWorkspaceLogged ==
  ASSUME NEW V, NEW T, Logged(T, V), NEW d \in Dir,
         NEW U, U = CreateWorkspace(T, d, "session")
  PROVE  Opened(U, T, d, V)
<1>1. T \in Tables
  BY DEF Logged
<1>2. PICK origin \in {"explicit", "session"} : origin = "session"
  OBVIOUS
<1>3. PICK w \in Workspaces \cup {NoWorkspace} : w = T.ws[d]
  BY <1>1 DEF Tables
<1>4. PICK made : made = Made(w, origin)
  OBVIOUS
<1>5. made \in Workspaces /\ (made.origin = "session" => ~made.archived)
  BY <1>4, MadeIs
<1>6. PICK M : M = [T EXCEPT !.ws[d] = made]
  OBVIOUS
<1>7. U = IF made = w THEN T ELSE Event(M, d, ~made.archived)
  BY <1>2, <1>3, <1>4, <1>6, Zenon DEF CreateWorkspace
<1>8. CASE made = w
  BY <1>3, <1>5, <1>7, <1>8 DEF Opened
<1>9. CASE made # w
  <2>1. PICK is : is = ~made.archived /\ Shown(made, is)
    BY <1>5 DEF Shown, Workspaces
  <2>2. /\ Changes(View(T), View(M), d, is)
        /\ M \in Tables /\ M.events = T.events /\ M.silent = T.silent /\ M.left = T.left
        /\ M.ws[d] = made /\ \A b \in Dir \ {d} : M.ws[b] = T.ws[b]
        /\ M.place = T.place /\ M.agent = T.agent /\ M.items = T.items
    <3>1. Changes(View(T), View(M), d, is) /\ Renewed(M, T, d, made)
      BY <1>1, <1>5, <1>6, <2>1, WorkspaceChanges
    <3>2. QED
      BY <3>1 DEF Renewed
  <2>3. U = Event(M, d, is)
    BY <1>7, <1>9, <2>1
  <2>4. Records(U, M, V)
    BY <2>2, <2>3, EventLogged
  <2>5. QED
    BY <1>5, <2>2, <2>4 DEF Records, Same, Opened
<1>10. QED
  BY <1>8, <1>9

(* An item is resolved.                                                    *)
LEMMA ResolveSound ==
  ASSUME NEW V, NEW T, Sound(T, V), NEW s \in Session, NEW U, U = Resolve(T, s)
  PROVE  /\ Sound(U, V) /\ U.ws = T.ws /\ U.place = T.place /\ U.agent = T.agent
         /\ U.items = T.items \ {s} /\ U.left = T.left
<1>1. T \in Tables /\ Logged(T, V)
  BY DEF Sound, Logged
<1>2. CASE s \in T.items
  <2>1. PICK M : M = [T EXCEPT !.items = @ \ {s}]
    OBVIOUS
  <2>2. /\ M \in Tables /\ M.events = T.events /\ M.silent = T.silent /\ M.ws = T.ws
        /\ M.place = T.place /\ M.agent = T.agent /\ M.items = T.items \ {s} /\ M.left = T.left
    BY <1>1, <2>1 DEF Tables
  <2>3. U = Event(M, None, None)
    BY <1>2, <2>1 DEF Resolve
  <2>4. M \in Tables /\ M.events = T.events /\ M.silent = T.silent /\ M.ws = T.ws /\ M.agent = T.agent
    BY <2>2
  <2>5. Records(U, M, V)
    BY <1>1, <2>3, <2>4, QuietLogged, Zenon
  <2>6. /\ Logged(U, V) /\ U.ws = T.ws /\ U.place = T.place /\ U.agent = T.agent
        /\ U.items = T.items \ {s} /\ U.left = T.left
    BY <2>2, <2>5 DEF Records, Same
  <2>7. QED
    BY <2>6 DEF Sound, WorkspacesShown, NeedsBelong, Empty
<1>3. CASE s \notin T.items
  <2>1. U = T /\ T.items = T.items \ {s}
    BY <1>3 DEF Resolve
  <2>2. QED
    BY <2>1
<1>4. QED
  BY <1>2, <1>3

(* Items come and go on their own.                                         *)
LEMMA ItemsSound ==
  ASSUME NEW V, NEW T, Sound(T, V), NEW items \in SUBSET Session,
         \A s \in items : T.agent[s] # None,
         NEW U, U = OneByOne(T, [T EXCEPT !.items = items], None, None)
  PROVE  Sound(U, V) /\ U.place = T.place
<1>1. T \in Tables /\ WorkspacesShown(T) /\ NeedsBelong(T)
  BY DEF Sound, Logged
<1>2. PICK M : M = [T EXCEPT !.items = items]
  OBVIOUS
<1>3. /\ M \in Tables /\ M.events = T.events /\ M.silent = T.silent /\ M.left = T.left
      /\ M.ws = T.ws /\ M.place = T.place /\ M.agent = T.agent /\ M.items = items
  BY <1>1, <1>2 DEF Tables
<1>4. WorkspacesShown(M) /\ NeedsBelong(M)
  BY <1>1, <1>3 DEF WorkspacesShown, NeedsBelong, Empty
<1>5. Changes(View(T), View(M), None, None)
  <2>1. View(M) = View(T)
    BY <1>3 DEF View
  <2>2. QED
    BY <2>1, NoneAssumption DEF Changes, Topics
<1>6. Sound(U, V) /\ Outlived(U, T, M)
  BY <1>2, <1>3, <1>4, <1>5, OneByOneSound
<1>7. QED
  BY <1>3, <1>6 DEF Outlived, Same

LEMMA ResolveItemSound ==
  ASSUME NEW V, NEW T, Sound(T, V), NEW s \in Session, NEW U, U = ResolveItem(T, s)
  PROVE  Sound(U, V) /\ U.place = T.place
<1>1. CASE s \notin T.items
  BY <1>1 DEF ResolveItem
<1>2. CASE s \in T.items
  <2>1. PICK items : items = T.items \ {s}
    OBVIOUS
  <2>2. items \in SUBSET Session /\ \A r \in items : T.agent[r] # None
    BY <2>1, SoundTables DEF Tables, Sound, NeedsBelong
  <2>3. U = OneByOne(T, [T EXCEPT !.items = items], None, None)
    BY <1>2, <2>1 DEF ResolveItem
  <2>4. QED
    BY <2>2, <2>3, ItemsSound
<1>3. QED
  BY <1>1, <1>2

LEMMA RecordItemSound ==
  ASSUME NEW V, NEW T, Sound(T, V), NEW s \in Session, T.agent[s] # None,
         NEW U, U = RecordItem(T, s)
  PROVE  Sound(U, V) /\ U.place = T.place
<1>1. PICK items : items = T.items \cup {s}
  OBVIOUS
<1>2. items \in SUBSET Session /\ \A r \in items : T.agent[r] # None
  BY <1>1, SoundTables DEF Tables, Sound, NeedsBelong
<1>3. U = OneByOne(T, [T EXCEPT !.items = items], None, None)
  BY <1>1 DEF RecordItem
<1>4. QED
  BY <1>2, <1>3, ItemsSound

(* A session is placed, unless it has a place.                             *)
LEMMA PlaceSound ==
  ASSUME NEW V, NEW T, Sound(T, V), NEW s \in Session, NEW d \in Dir,
         NEW U, U = Place(T, s, d)
  PROVE  /\ Sound(U, V) /\ U.left = T.left /\ U.place[s] # None
         /\ \A r \in Session \ {s} : U.place[r] = T.place[r]
<1>1. T \in Tables /\ Logged(T, V)
  BY DEF Sound, Logged
<1>2. CASE T.place[s] # None
  BY <1>2, U = T DEF Place
<1>3. CASE T.place[s] = None
  <2>1. PICK C : C = CreateWorkspace(T, d, "session")
    OBVIOUS
  <2>2. /\ Logged(C, V) /\ C.place = T.place /\ C.agent = T.agent /\ C.items = T.items
        /\ C.left = T.left
        /\ \A b \in Dir \ {d} : C.ws[b] = T.ws[b]
        /\ C.ws[d].origin = "session" => ~C.ws[d].archived
    <3>1. Opened(C, T, d, V)
      BY <1>1, <2>1, CreateWorkspaceLogged
    <3>2. QED
      BY <3>1 DEF Opened
  <2>3. PICK M : M = [C EXCEPT !.place[s] = d]
    OBVIOUS
  <2>4. C \in Tables
    BY <2>2 DEF Logged
  <2>5. /\ M \in Tables /\ M.events = C.events /\ M.silent = C.silent /\ M.ws = C.ws
        /\ M.agent = C.agent /\ M.items = C.items /\ M.place = [C.place EXCEPT ![s] = d]
        /\ M.left = C.left
    BY <2>3, <2>4 DEF Tables
  <2>6. U = Event(M, None, None)
    BY <1>3, <2>1, <2>3 DEF Place
  <2>7. Records(U, M, V)
    <3>1. /\ M \in Tables /\ M.events = C.events /\ M.silent = C.silent /\ M.ws = C.ws
          /\ M.agent = C.agent
      BY <2>5
    <3>2. Logged(C, V)
      BY <2>2
    <3>3. QED
      BY <2>6, <3>1, <3>2, QuietLogged, Zenon
  <2>8. /\ Logged(U, V) /\ U.ws = C.ws /\ U.agent = T.agent /\ U.items = T.items
        /\ U.place = [T.place EXCEPT ![s] = d] /\ U.left = T.left
    BY <2>2, <2>5, <2>7 DEF Records, Same
  <2>9. /\ U.place[s] = d /\ d # None
        /\ \A r \in Session \ {s} : U.place[r] = T.place[r]
    BY <1>1, <2>8, NoneAssumption DEF Tables
  <2>10. WorkspacesShown(U)
    <3>1. SUFFICES ASSUME NEW b \in Dir, U.ws[b].origin = "session"
                   PROVE  U.ws[b].archived <=> Empty(U, b)
      BY DEF WorkspacesShown
    <3>2. CASE b = d
      <4>1. ~U.ws[b].archived
        BY <2>2, <2>8, <3>1, <3>2
      <4>2. ~Empty(U, b)
        BY <2>9, <3>2 DEF Empty
      <4>3. QED
        BY <4>1, <4>2
    <3>3. CASE b # d
      <4>1. U.ws[b] = T.ws[b]
        BY <2>2, <2>8, <3>3
      <4>2. Empty(U, b) <=> Empty(T, b)
        BY <1>3, <2>9, <3>3, NoneAssumption DEF Empty
      <4>3. T.ws[b].archived <=> Empty(T, b)
        BY <3>1, <4>1 DEF Sound, WorkspacesShown
      <4>4. QED
        BY <4>1, <4>2, <4>3
    <3>4. QED
      BY <3>2, <3>3
  <2>11. NeedsBelong(U)
    BY <2>8, <2>9 DEF Sound, NeedsBelong
  <2>12. QED
    BY <2>8, <2>9, <2>10, <2>11 DEF Sound
<1>4. QED
  BY <1>2, <1>3

(* ensureSession: a process that has outlived it has placed the session.   *)
LEMMA EnsureSound ==
  ASSUME NEW V, NEW T, Sound(T, V), NEW s \in Session, NEW d \in Dir,
         NEW U, U = EnsureSession(T, s, d)
  PROVE  /\ Sound(U, V) /\ \A r \in Session \ {s} : U.place[r] = T.place[r]
         /\ U.left # 0 => T.left # 0 /\ U.place[s] # None
<1>1. PICK P : P = Place(T, s, d)
  OBVIOUS
<1>2. /\ Sound(P, V) /\ P.left = T.left /\ P.place[s] # None
      /\ \A r \in Session \ {s} : P.place[r] = T.place[r]
  BY <1>1, PlaceSound
<1>3. Sound(U, V) /\ Outlived(U, T, P)
  <2>1. U = Transaction(T, P)
    BY <1>1 DEF EnsureSession
  <2>2. QED
    BY <1>2, <2>1, TransactionSound
<1>4. QED
  BY <1>2, <1>3 DEF Outlived, Same

(* What becomes of the agent of a session that has a place.                *)
LEMMA UpsertSound ==
  ASSUME NEW V, NEW T, Sound(T, V), NEW s \in Session, T.left # 0 => T.place[s] # None,
         NEW a \in Activity, NEW U, U = UpsertAgent(T, s, a)
  PROVE  Sound(U, V) /\ U.place = T.place /\ (U.left # 0 => T.left # 0)
<1>1. T \in Tables /\ WorkspacesShown(T) /\ NeedsBelong(T)
  BY DEF Sound, Logged
<1>2. CASE T.agent[s] = a
  BY <1>2, U = T DEF UpsertAgent
<1>3. CASE T.agent[s] # a
  <2>1. PICK M : M = [T EXCEPT !.agent[s] = a]
    OBVIOUS
  <2>2. /\ M \in Tables /\ M.events = T.events /\ M.silent = T.silent /\ M.left = T.left
        /\ M.ws = T.ws /\ M.place = T.place
        /\ M.agent = [T.agent EXCEPT ![s] = a] /\ M.items = T.items
    BY <1>1, <2>1 DEF Tables
  <2>3. U = OneByOne(T, M, s, a)
    BY <1>3, <2>1 DEF UpsertAgent
  <2>4. CASE T.left = 0
    <3>1. U = T
      BY <2>3, <2>4 DEF OneByOne, Write
    <3>2. QED
      BY <3>1
  <2>5. CASE T.left # 0
    <3>1. Changes(View(T), View(M), s, a)
      BY <1>1, <2>2, AgentChanges
    <3>2. WorkspacesShown(M)
      BY <1>1, <2>2 DEF WorkspacesShown, Empty
    <3>3. NeedsBelong(M)
      <4>1. M.agent[s] = a /\ \A r \in Session \ {s} : M.agent[r] = T.agent[r]
        BY <1>1, <2>2 DEF Tables
      <4>2. a # None /\ T.place[s] # None
        BY <2>5, NoneAssumption
      <4>3. QED
        BY <1>1, <2>2, <4>1, <4>2 DEF NeedsBelong
    <3>4. Sound(U, V) /\ Outlived(U, T, M)
      BY <2>2, <2>3, <3>1, <3>2, <3>3, OneByOneSound
    <3>5. QED
      BY <2>2, <2>5, <3>4 DEF Outlived, Same
  <2>6. QED
    BY <2>4, <2>5
<1>4. QED
  BY <1>2, <1>3

(* An agent goes, and what it needed.                                      *)
LEMMA RemoveAgentSound ==
  ASSUME NEW V, NEW T, Sound(T, V), NEW s \in Session, NEW U, U = RemoveAgent(T, s)
  PROVE  Sound(U, V) /\ U.place = T.place /\ (U.left # 0 => T.left # 0)
<1>1. PICK D : D = DropAgent(T, s)
  OBVIOUS
<1>2. Sound(D, V) /\ D.place = T.place /\ D.left = T.left
  <2>1. CASE T.agent[s] = None
    BY <1>1, <2>1 DEF DropAgent
  <2>2. CASE T.agent[s] # None
    <3>1. PICK R : R = Resolve(T, s)
      OBVIOUS
    <3>2. /\ Sound(R, V) /\ R.ws = T.ws /\ R.place = T.place /\ R.agent = T.agent
          /\ R.items = T.items \ {s} /\ R.left = T.left
      BY <3>1, ResolveSound
    <3>3. PICK M : M = [R EXCEPT !.agent[s] = None]
      OBVIOUS
    <3>4. R \in Tables /\ Logged(R, V)
      BY <3>2 DEF Sound, Logged
    <3>5. /\ M \in Tables /\ M.events = R.events /\ M.silent = R.silent /\ M.ws = R.ws
          /\ M.place = R.place /\ M.agent = [R.agent EXCEPT ![s] = None] /\ M.items = R.items
          /\ M.left = R.left
      BY <3>3, <3>4 DEF Tables
    <3>6. PICK a \in Activity \cup {None} : a = None
      OBVIOUS
    <3>7. Changes(View(R), View(M), s, a)
      BY <3>4, <3>5, <3>6, AgentChanges
    <3>8. D = Event(M, s, a)
      BY <1>1, <2>2, <3>1, <3>3, <3>6 DEF DropAgent
    <3>9. Records(D, M, V)
      BY <3>4, <3>5, <3>7, <3>8, EventLogged
    <3>10. /\ Logged(D, V) /\ D.ws = T.ws /\ D.place = T.place /\ D.items = T.items \ {s}
           /\ \A r \in Session \ {s} : D.agent[r] = T.agent[r]
           /\ D.agent[s] = None /\ D.left = T.left
      BY <3>2, <3>4, <3>5, <3>9 DEF Records, Same, Tables
    <3>11. NeedsBelong(D)
      BY <3>10 DEF Sound, NeedsBelong
    <3>12. WorkspacesShown(D)
      BY <3>10 DEF Sound, WorkspacesShown, Empty
    <3>13. QED
      BY <3>10, <3>11, <3>12 DEF Sound
  <2>3. QED
    BY <2>1, <2>2
<1>3. Sound(U, V) /\ Outlived(U, T, D)
  <2>1. U = Transaction(T, D)
    BY <1>1 DEF RemoveAgent
  <2>2. QED
    BY <1>2, <2>1, TransactionSound
<1>4. QED
  BY <1>2, <1>3 DEF Outlived, Same

(* A session of the manager is told to the store.                          *)
LEMMA SyncSound ==
  ASSUME NEW V, NEW T, Sound(T, V), NEW s \in Session, NEW d \in Dir,
         NEW a \in Activity \cup {None}, NEW U, U = SyncAs(T, s, d, a)
  PROVE  /\ Sound(U, V) /\ \A r \in Session \ {s} : U.place[r] = T.place[r]
         /\ U.left # 0 => T.left # 0
<1>1. PICK P : P = EnsureSession(T, s, d)
  OBVIOUS
<1>2. /\ Sound(P, V) /\ \A r \in Session \ {s} : P.place[r] = T.place[r]
      /\ P.left # 0 => T.left # 0 /\ P.place[s] # None
  BY <1>1, EnsureSound
<1>3. U = IF a = None THEN RemoveAgent(P, s) ELSE UpsertAgent(P, s, a)
  BY <1>1 DEF SyncAs
<1>4. Sound(U, V) /\ U.place = P.place /\ (U.left # 0 => P.left # 0)
  <2>1. Sound(P, V) /\ (P.left # 0 => P.place[s] # None)
    BY <1>2
  <2>2. CASE a = None
    <3>1. U = RemoveAgent(P, s)
      BY <1>3, <2>2
    <3>2. QED
      BY <2>1, <3>1, RemoveAgentSound
  <2>3. CASE a # None
    <3>1. U = UpsertAgent(P, s, a) /\ a \in Activity
      BY <1>3, <2>3
    <3>2. QED
      BY <2>1, <3>1, UpsertSound
  <2>4. QED
    BY <2>2, <2>3
<1>5. QED
  BY <1>2, <1>4

(* A workspace that is the user's, whatever it was.                        *)
LEMMA ExplicitSound ==
  ASSUME NEW V, NEW T, Sound(T, V), NEW d \in Dir, NEW w \in Workspaces, w.origin # "session",
         NEW is, Shown(w, is), NEW U, U = OneByOne(T, [T EXCEPT !.ws[d] = w], d, is)
  PROVE  Sound(U, V) /\ U.place = T.place
<1>1. T \in Tables /\ WorkspacesShown(T) /\ NeedsBelong(T)
  BY DEF Sound, Logged
<1>2. PICK M : M = [T EXCEPT !.ws[d] = w]
  OBVIOUS
<1>3. /\ Changes(View(T), View(M), d, is)
      /\ M \in Tables /\ M.events = T.events /\ M.silent = T.silent /\ M.left = T.left
      /\ M.ws[d] = w /\ \A b \in Dir \ {d} : M.ws[b] = T.ws[b]
      /\ M.place = T.place /\ M.agent = T.agent /\ M.items = T.items
  <2>1. Changes(View(T), View(M), d, is) /\ Renewed(M, T, d, w)
    BY <1>1, <1>2, WorkspaceChanges
  <2>2. QED
    BY <2>1 DEF Renewed
<1>4. NeedsBelong(M)
  BY <1>1, <1>3 DEF NeedsBelong
<1>5. WorkspacesShown(M)
  <2>1. \A b \in Dir : M.ws[b].origin = "session" => b # d
    BY <1>3
  <2>2. \A b \in Dir : Empty(M, b) <=> Empty(T, b)
    BY <1>3 DEF Empty
  <2>3. QED
    BY <1>1, <1>3, <2>1, <2>2 DEF WorkspacesShown
<1>6. Sound(U, V) /\ Outlived(U, T, M)
  BY <1>2, <1>3, <1>4, <1>5, OneByOneSound
<1>7. QED
  BY <1>3, <1>6 DEF Outlived, Same

(* The user asks for a workspace.                                          *)
LEMMA AddSound ==
  ASSUME NEW V, NEW T, Sound(T, V), NEW d \in Dir, NEW U, U = AddWorkspace(T, d)
  PROVE  Sound(U, V) /\ U.place = T.place
<1>1. T \in Tables
  BY SoundTables
<1>2. PICK origin \in {"explicit", "session"} : origin = "explicit"
  OBVIOUS
<1>3. PICK w \in Workspaces \cup {NoWorkspace} : w = T.ws[d]
  BY <1>1 DEF Tables
<1>4. PICK made : made = Made(w, origin)
  OBVIOUS
<1>5. made \in Workspaces /\ made.origin # "session"
  BY <1>2, <1>4, MadeIs
<1>6. U = IF made = w THEN T ELSE OneByOne(T, [T EXCEPT !.ws[d] = made], d, ~made.archived)
  BY <1>2, <1>3, <1>4, Zenon DEF AddWorkspace
<1>7. CASE made = w
  BY <1>6, <1>7
<1>8. CASE made # w
  <2>1. PICK is : is = ~made.archived /\ Shown(made, is)
    BY <1>5 DEF Shown, Workspaces
  <2>2. U = OneByOne(T, [T EXCEPT !.ws[d] = made], d, is)
    BY <1>6, <1>8, <2>1
  <2>3. QED
    BY <1>5, <2>1, <2>2, ExplicitSound
<1>9. QED
  BY <1>7, <1>8

(* The user edits a workspace, which is his own from then on.              *)
LEMMA UpdateSound ==
  ASSUME NEW V, NEW T, Sound(T, V), NEW d \in Dir, NEW archived \in BOOLEAN,
         NEW U, U = UpdateWorkspace(T, d, archived)
  PROVE  Sound(U, V) /\ U.place = T.place
<1>1. PICK w \in Workspaces : w = [origin |-> "explicit", archived |-> archived]
  BY DEF Workspaces
<1>2. PICK is \in BOOLEAN : is = ~archived
  OBVIOUS
<1>3. U = OneByOne(T, [T EXCEPT !.ws[d] = w], d, is) /\ Shown(w, is) /\ w.origin # "session"
  BY <1>1, <1>2 DEF UpdateWorkspace, Shown
<1>4. QED
  BY <1>3, ExplicitSound

LEMMA RemoveSound ==
  ASSUME NEW V, NEW T, Sound(T, V), NEW s \in Session, NEW U, U = RemoveSession(T, s)
  PROVE  /\ Sound(U, V) /\ U.left = T.left /\ U.place[s] = None
         /\ \A r \in Session \ {s} : U.place[r] = T.place[r]
<1>1. T \in Tables /\ Logged(T, V)
  BY DEF Sound, Logged
<1>2. CASE T.place[s] = None /\ T.agent[s] = None /\ s \notin T.items
  BY <1>2, U = T DEF RemoveSession
<1>3. CASE ~(T.place[s] = None /\ T.agent[s] = None /\ s \notin T.items)
  <2>1. PICK Q : Q = Resolve(T, s)
    OBVIOUS
  <2>2. /\ Sound(Q, V) /\ Q.ws = T.ws /\ Q.place = T.place /\ Q.agent = T.agent
        /\ Q.items = T.items \ {s} /\ Q.left = T.left
    BY <2>1, ResolveSound
  <2>3. Q \in Tables /\ Logged(Q, V)
    BY <2>2 DEF Sound, Logged
  <2>4. PICK M : M = [Q EXCEPT !.place[s] = None, !.agent[s] = None]
    OBVIOUS
  <2>5. /\ M \in Tables /\ M.events = Q.events /\ M.silent = Q.silent /\ M.left = Q.left
        /\ M.ws = Q.ws /\ M.items = Q.items
        /\ M.place = [Q.place EXCEPT ![s] = None] /\ M.agent = [Q.agent EXCEPT ![s] = None]
    BY <2>3, <2>4 DEF Tables
  <2>6. PICK a \in Activity \cup {None} : a = None
    OBVIOUS
  <2>7. PICK R : R = Event(M, s, a)
    OBVIOUS
  <2>8. Records(R, M, V)
    <3>1. Changes(View(Q), View(M), s, a)
      BY <2>3, <2>5, <2>6, AgentChanges
    <3>2. QED
      BY <2>3, <2>5, <2>7, <3>1, EventLogged
  <2>9. /\ Logged(R, V) /\ R.left = T.left /\ R.ws = T.ws /\ R.items = T.items \ {s}
        /\ R.place = [T.place EXCEPT ![s] = None] /\ R.agent = [T.agent EXCEPT ![s] = None]
    BY <2>2, <2>5, <2>8 DEF Records, Same
  <2>10. /\ R.place[s] = None /\ \A r \in Session \ {s} : R.place[r] = T.place[r]
         /\ R.agent[s] = None /\ \A r \in Session \ {s} : R.agent[r] = T.agent[r]
    BY <1>1, <2>9 DEF Tables
  <2>11. NeedsBelong(R)
    BY <2>9, <2>10 DEF Sound, NeedsBelong
  <2>12. CASE T.place[s] = None
    <3>1. U = R
      BY <1>3, <2>1, <2>4, <2>6, <2>7, <2>12 DEF RemoveSession
    <3>2. WorkspacesShown(R)
      <4>1. WorkspacesShown(T)
        BY DEF Sound
      <4>2. \A b \in Dir : Empty(R, b) <=> Empty(T, b)
        BY <2>10, <2>12, NoneAssumption DEF Empty
      <4>3. QED
        BY <2>9, <4>1, <4>2 DEF WorkspacesShown
    <3>3. QED
      BY <2>9, <2>10, <2>11, <3>1, <3>2 DEF Sound
  <2>13. CASE T.place[s] # None
    <3>1. PICK d \in Dir : d = T.place[s]
      BY <1>1, <2>13 DEF Tables
    <3>2. U = ArchiveIfEmpty(R, d)
      BY <1>3, <2>1, <2>4, <2>6, <2>7, <2>13, <3>1 DEF RemoveSession
    <3>3. \A b \in Dir \ {d} : R.ws[b].origin = "session" => (R.ws[b].archived <=> Empty(R, b))
      <4>1. WorkspacesShown(T)
        BY DEF Sound
      <4>2. \A b \in Dir \ {d} : Empty(R, b) <=> Empty(T, b)
        BY <2>10, <3>1, NoneAssumption DEF Empty
      <4>3. QED
        BY <2>9, <4>1, <4>2 DEF WorkspacesShown
    <3>4. R.ws[d].origin = "session" => ~R.ws[d].archived
      <4>1. ~Empty(T, d)
        BY <3>1 DEF Empty
      <4>2. QED
        BY <2>9, <4>1 DEF Sound, WorkspacesShown
    <3>5. R \in Tables
      BY <2>9 DEF Logged
    <3>6. CASE R.ws[d].origin # "session" \/ R.ws[d].archived \/ ~Empty(R, d)
      <4>1. U = R
        BY <3>2, <3>6 DEF ArchiveIfEmpty
      <4>2. R.ws[d].origin = "session" => (R.ws[d].archived <=> Empty(R, d))
        BY <3>4, <3>6
      <4>3. WorkspacesShown(R)
        BY <3>3, <4>2 DEF WorkspacesShown
      <4>4. QED
        BY <2>9, <2>10, <2>11, <4>1, <4>3 DEF Sound
    <3>7. CASE R.ws[d].origin = "session" /\ ~R.ws[d].archived /\ Empty(R, d)
      <4>1. PICK w \in Workspaces : w = [origin |-> "session", archived |-> TRUE]
        BY DEF Workspaces
      <4>2. R.ws[d] \in Workspaces
        BY <3>5, <3>7 DEF Tables, NoWorkspace
      <4>3. [R.ws[d] EXCEPT !.archived = TRUE] = w
        BY <3>7, <4>1, <4>2 DEF Workspaces
      <4>4. PICK X : X = [R EXCEPT !.ws[d] = w]
        OBVIOUS
      <4>5. PICK is : is = FALSE /\ Shown(w, is)
        BY <4>1 DEF Shown
      <4>6. U = Event(X, d, is)
        <5>1. [R EXCEPT !.ws[d].archived = TRUE] = X
          BY <3>5, <4>2, <4>3, <4>4 DEF Tables
        <5>2. QED
          BY <3>2, <3>7, <4>5, <5>1 DEF ArchiveIfEmpty
      <4>7. Records(U, X, V)
        <5>1. Changes(View(R), View(X), d, is) /\ Renewed(X, R, d, w)
          BY <3>5, <4>4, <4>5, WorkspaceChanges
        <5>2. X \in Tables /\ X.events = R.events /\ X.silent = R.silent
          BY <5>1 DEF Renewed
        <5>3. QED
          BY <2>9, <4>6, <5>1, <5>2, EventLogged
      <4>8. /\ Logged(U, V) /\ U.left = R.left /\ U.place = R.place /\ U.agent = R.agent /\ U.items = R.items
            /\ U.ws[d].archived /\ \A b \in Dir \ {d} : U.ws[b] = R.ws[b]
        BY <3>5, <4>1, <4>4, <4>7 DEF Records, Same, Tables
      <4>9. WorkspacesShown(U)
        <5>1. \A b \in Dir : Empty(U, b) <=> Empty(R, b)
          BY <4>8 DEF Empty
        <5>2. QED
          BY <3>3, <3>7, <4>8, <5>1 DEF WorkspacesShown
      <4>10. NeedsBelong(U)
        BY <2>11, <4>8 DEF NeedsBelong
      <4>11. QED
        BY <2>9, <2>10, <4>8, <4>9, <4>10 DEF Sound
    <3>8. QED
      BY <3>6, <3>7
  <2>14. QED
    BY <2>12, <2>13
<1>4. QED
  BY <1>2, <1>3

(* A session is deleted, in a transaction.                                 *)
LEMMA DeleteSound ==
  ASSUME NEW V, NEW T, Sound(T, V), NEW s \in Session,
         NEW U, U = Transaction(T, RemoveSession(T, s))
  PROVE  /\ Sound(U, V)
         /\ U.left # 0 => U.place[s] = None
         /\ \A r \in Session \ {s} : U.place[r] = T.place[r]
<1>1. PICK R : R = RemoveSession(T, s)
  OBVIOUS
<1>2. /\ Sound(R, V) /\ R.left = T.left /\ R.place[s] = None
      /\ \A r \in Session \ {s} : R.place[r] = T.place[r]
  BY <1>1, RemoveSound
<1>3. Sound(U, V) /\ Outlived(U, T, R)
  BY <1>1, <1>2, TransactionSound
<1>4. QED
  BY <1>2, <1>3 DEF Outlived, Same

-----------------------------------------------------------------------------
(* A set of numbers has a least one.                                       *)
LEMMA LeastNumber ==
  ASSUME NEW S \in SUBSET Nat, S # {}
  PROVE  \E n \in S : \A m \in S : n <= m
<1>1. PICK n \in S : \A m \in S : <<m, n>> \notin OpToRel(<, Nat)
  BY WFMin, NatLessThanWellFounded, Zenon
<1>2. \A m \in S : ~(m < n)
  BY <1>1, Zenon DEF OpToRel
<1>3. \A m \in S : n <= m
  BY <1>2
<1>4. QED
  BY <1>3

(* The two folds of the model, over the sessions to remove and over those  *)
(* to bring in step, take the sessions one by one.                         *)
Pick(s) == CHOOSE x \in s : TRUE

Turn(removes, U, x, says) == IF removes THEN RemoveSession(U, x) ELSE SyncAs(U, x, cwd[x], says[x])

IsFold(f, D, removes, T, says) ==
  f = [s \in D |-> IF s = {} THEN T ELSE Turn(removes, f[s \ {Pick(s)}], Pick(s), says)]

(* Sessions are finitely many, so taking one leaves fewer.                 *)
LEMMA PickOne ==
  ASSUME NEW S \in SUBSET Session, NEW s \in SUBSET S, s # {}
  PROVE  /\ Pick(s) \in s /\ s \ {Pick(s)} \in SUBSET S
         /\ Cardinality(s) \in Nat /\ Cardinality(s \ {Pick(s)}) = Cardinality(s) - 1
         /\ Cardinality(s) # 0
<1>1. Pick(s) \in s
  BY DEF Pick
<1>2. IsFiniteSet(s)
  BY SessionAssumption, FS_Subset
<1>3. Cardinality(s) \in Nat /\ Cardinality(s \ {Pick(s)}) = Cardinality(s) - 1
  BY <1>1, <1>2, FS_CardinalityType, FS_RemoveElement
<1>4. Cardinality(s) # 0
  BY <1>2, FS_EmptySet
<1>5. QED
  BY <1>1, <1>3, <1>4

(* There is such a fold: it is built for sets of at most n sessions, for   *)
(* the least n for which that failed it could be built from the one        *)
(* before.                                                                 *)
LEMMA FoldExists ==
  ASSUME NEW S \in SUBSET Session, NEW removes, NEW T, NEW says
  PROVE  \E f : IsFold(f, SUBSET S, removes, T, says)
<1> DEFINE Upto(n) == {s \in SUBSET S : Cardinality(s) <= n}
           Bad == {n \in Nat : ~ \E f : IsFold(f, Upto(n), removes, T, says)}
<1>0. \A s \in SUBSET S : Cardinality(s) \in Nat /\ (Cardinality(s) = 0 <=> s = {})
  BY SessionAssumption, FS_Subset, FS_CardinalityType, FS_EmptySet
<1>1. Bad = {}
  <2>1. SUFFICES ASSUME Bad # {} PROVE FALSE
    OBVIOUS
  <2>2. PICK n \in Bad : \A m \in Bad : n <= m
    <3>1. Bad \in SUBSET Nat
      OBVIOUS
    <3>2. QED
      BY <2>1, <3>1, LeastNumber
  <2>3. n \in Nat /\ ~ \E f : IsFold(f, Upto(n), removes, T, says)
    BY <2>2
  <2>4. CASE n = 0
    <3>1. PICK f : f = [s \in Upto(n) |-> T]
      OBVIOUS
    <3>2. \A s \in Upto(n) : s = {}
      BY <1>0, <2>4
    <3>3. IsFold(f, Upto(n), removes, T, says)
      BY <3>1, <3>2 DEF IsFold
    <3>4. QED
      BY <2>3, <3>3
  <2>5. CASE n # 0
    <3>1. PICK k \in Nat : k = n - 1
      BY <2>3, <2>5
    <3>2. PICK f : IsFold(f, Upto(k), removes, T, says)
      <4>1. ~(n <= k)
        BY <2>3, <3>1
      <4>2. k \notin Bad
        BY <2>2, <4>1
      <4>3. QED
        BY <3>1, <4>2
    <3>3. PICK g : g = [s \in Upto(n) |-> IF s = {} THEN T ELSE Turn(removes, f[s \ {Pick(s)}], Pick(s), says)]
      OBVIOUS
    <3>4. \A s \in Upto(k) : s \in Upto(n) /\ g[s] = f[s]
      <4>1. SUFFICES ASSUME NEW s \in Upto(k) PROVE s \in Upto(n) /\ g[s] = f[s]
        OBVIOUS
      <4>2. s \in Upto(n)
        BY <1>0, <2>3, <3>1
      <4>3. f[s] = IF s = {} THEN T ELSE Turn(removes, f[s \ {Pick(s)}], Pick(s), says)
        BY <3>2, Zenon DEF IsFold
      <4>4. QED
        BY <3>3, <4>2, <4>3, Zenon
    <3>5. \A s \in Upto(n) : s # {} => s \ {Pick(s)} \in Upto(k)
      <4>1. SUFFICES ASSUME NEW s \in Upto(n), s # {} PROVE s \ {Pick(s)} \in Upto(k)
        OBVIOUS
      <4>2. s \in SUBSET S /\ Cardinality(s) <= n
        OBVIOUS
      <4>3. /\ s \ {Pick(s)} \in SUBSET S
            /\ Cardinality(s) \in Nat /\ Cardinality(s \ {Pick(s)}) = Cardinality(s) - 1
        BY <4>1, <4>2, PickOne
      <4>4. QED
        BY <2>3, <3>1, <4>2, <4>3
    <3>6. \A s \in Upto(n) : s # {} => f[s \ {Pick(s)}] = g[s \ {Pick(s)}]
      BY <3>4, <3>5
    <3>7. IsFold(g, Upto(n), removes, T, says)
      <4>1. \A s \in Upto(n) :
              (IF s = {} THEN T ELSE Turn(removes, f[s \ {Pick(s)}], Pick(s), says))
                = IF s = {} THEN T ELSE Turn(removes, g[s \ {Pick(s)}], Pick(s), says)
        BY <3>6
      <4>2. g = [s \in Upto(n) |-> IF s = {} THEN T ELSE Turn(removes, g[s \ {Pick(s)}], Pick(s), says)]
        BY <3>3, <4>1
      <4>3. QED
        BY <4>2 DEF IsFold
    <3>8. QED
      BY <2>3, <3>7
  <2>6. QED
    BY <2>4, <2>5
<1>2. PICK n \in Nat : n = Cardinality(S)
  BY <1>0
<1>3. PICK f : IsFold(f, Upto(n), removes, T, says)
  BY <1>1, <1>2
<1>4. Upto(n) = SUBSET S
  BY <1>2, SessionAssumption, FS_Subset
<1>5. IsFold(f, SUBSET S, removes, T, says)
  BY <1>3, <1>4
<1>6. QED
  BY <1>5

(* Every turn leaves the tables sound, and of the others' places as they   *)
(* were.                                                                   *)
TurnsSound(f, s, removes, T, V) ==
  /\ Sound(f[s], V)
  /\ \A r \in Session \ s : f[s].place[r] = T.place[r]
  /\ removes => f[s].left = T.left /\ \A r \in s : f[s].place[r] = None
  /\ f[s].left # 0 => T.left # 0

(* Whatever the order, the least set for which it is otherwise would be    *)
(* one session more than a set for which it is so.                         *)
LEMMA FoldSound ==
  ASSUME NEW S \in SUBSET Session, NEW removes \in BOOLEAN, NEW V, NEW T, Sound(T, V), NEW says,
         ~removes => \A r \in S : cwd[r] \in Dir /\ says[r] \in Activity \cup {None},
         NEW f, IsFold(f, SUBSET S, removes, T, says)
  PROVE  TurnsSound(f, S, removes, T, V)
<1> DEFINE Bad == {n \in Nat : \E s \in SUBSET S : Cardinality(s) = n /\ ~TurnsSound(f, s, removes, T, V)}
<1>0. \A s \in SUBSET S : f[s] = IF s = {} THEN T ELSE Turn(removes, f[s \ {Pick(s)}], Pick(s), says)
  BY Zenon DEF IsFold
<1>1. Bad = {}
  <2>1. SUFFICES ASSUME Bad # {} PROVE FALSE
    OBVIOUS
  <2>2. PICK n \in Bad : \A m \in Bad : n <= m
    <3>1. Bad \in SUBSET Nat
      OBVIOUS
    <3>2. QED
      BY <2>1, <3>1, LeastNumber
  <2>3. PICK s \in SUBSET S : Cardinality(s) = n /\ ~TurnsSound(f, s, removes, T, V)
    BY <2>2
  <2>4. CASE s = {}
    <3>1. f[s] = T
      BY <1>0, <2>4
    <3>2. QED
      BY <2>3, <2>4, <3>1 DEF TurnsSound
  <2>5. CASE s # {}
    <3>1. PICK x, r : x = Pick(s) /\ r = s \ {x}
      OBVIOUS
    <3>2. /\ x \in s /\ r \in SUBSET S
          /\ n \in Nat /\ Cardinality(r) = n - 1 /\ n # 0
      BY <2>3, <2>5, <3>1, PickOne
    <3>3. TurnsSound(f, r, removes, T, V)
      <4>1. n - 1 \in Nat /\ ~(n <= n - 1)
        BY <3>2
      <4>2. n - 1 \notin Bad
        BY <2>2, <4>1
      <4>3. QED
        BY <3>2, <4>1, <4>2
    <3>4. PICK P, U : P = f[r] /\ U = f[s]
      OBVIOUS
    <3>5. U = Turn(removes, P, x, says)
      BY <1>0, <2>5, <3>1, <3>4
    <3>6. /\ Sound(P, V) /\ x \in Session
          /\ \A q \in Session \ r : P.place[q] = T.place[q]
          /\ removes => P.left = T.left /\ \A q \in r : P.place[q] = None
          /\ P.left # 0 => T.left # 0
      BY <3>2, <3>3, <3>4 DEF TurnsSound
    <3>7. /\ Sound(U, V)
          /\ removes => U.left = P.left /\ U.place[x] = None
          /\ U.left # 0 => P.left # 0
          /\ \A q \in Session \ {x} : U.place[q] = P.place[q]
      <4>1. CASE removes
        <5>1. U = RemoveSession(P, x)
          BY <3>5, <4>1 DEF Turn
        <5>2. QED
          BY <3>6, <5>1, RemoveSound
      <4>2. CASE ~removes
        <5>1. PICK d \in Dir, a \in Activity \cup {None} : d = cwd[x] /\ a = says[x]
          BY <3>2, <4>2
        <5>2. U = SyncAs(P, x, d, a)
          BY <3>5, <4>2, <5>1 DEF Turn
        <5>3. QED
          BY <3>6, <4>2, <5>2, SyncSound
      <4>3. QED
        BY <4>1, <4>2
    <3>8. \A q \in Session \ s : U.place[q] = T.place[q]
      BY <3>1, <3>2, <3>6, <3>7
    <3>9. removes => U.left = T.left /\ \A q \in s : U.place[q] = None
      BY <3>1, <3>2, <3>6, <3>7
    <3>10. QED
      BY <2>3, <3>4, <3>6, <3>7, <3>8, <3>9 DEF TurnsSound
  <2>6. QED
    BY <2>4, <2>5
<1>2. Cardinality(S) \in Nat
  BY SessionAssumption, FS_Subset, FS_CardinalityType
<1>3. QED
  BY <1>1, <1>2

(* reconcileSessions: whoever is not active has no place.                  *)
LEMMA RemoveAllSound ==
  ASSUME NEW V, NEW T, Sound(T, V), NEW active \in SUBSET Session, NEW U, U = RemoveAll(T, active)
  PROVE  Sound(U, V) /\ U.left = T.left /\ \A r \in Session \ active : U.place[r] = None
<1>1. PICK S : S = {s \in Session \ active : T.place[s] # None \/ T.agent[s] # None}
  OBVIOUS
<1>2. PICK f : f = CHOOSE g : IsFold(g, SUBSET S, TRUE, T, {})
  OBVIOUS
<1>3. IsFold(f, SUBSET S, TRUE, T, {})
  BY <1>1, <1>2, FoldExists
<1>4. U = f[S]
  <2>1. RemoveAll(T, active)
          = (CHOOSE g : g = [s \in SUBSET S |-> IF s = {} THEN T
                              ELSE RemoveSession(g[s \ {CHOOSE x \in s : TRUE}], CHOOSE x \in s : TRUE)])[S]
    BY <1>1, Zenon DEF RemoveAll, FoldSet, MapThenFoldSet
  <2>2. QED
    BY <1>2, <2>1, ZenonT(90) DEF IsFold, Turn, Pick
<1>5. TurnsSound(f, S, TRUE, T, V)
  BY <1>1, <1>3, FoldSound
<1>6. QED
  BY <1>1, <1>4, <1>5 DEF TurnsSound

LEMMA ReconcileSound ==
  ASSUME NEW V, NEW T, Sound(T, V), NEW active \in SUBSET Session, NEW U, U = Reconcile(T, active)
  PROVE  Sound(U, V) /\ (U.left # 0 => \A r \in Session \ active : U.place[r] = None)
<1>1. PICK R : R = RemoveAll(T, active)
  OBVIOUS
<1>2. Sound(R, V) /\ R.left = T.left /\ \A r \in Session \ active : R.place[r] = None
  BY <1>1, RemoveAllSound
<1>3. Sound(U, V) /\ Outlived(U, T, R)
  <2>1. U = Transaction(T, R)
    BY <1>1 DEF Reconcile
  <2>2. QED
    BY <1>2, <2>1, TransactionSound
<1>4. QED
  BY <1>2, <1>3 DEF Outlived, Same

(* The sessions the manager lists are brought in step: nobody else is      *)
(* placed.                                                                 *)
LEMMA SyncAllSound ==
  ASSUME NEW V, NEW T, Sound(T, V), NEW S \in SUBSET Session, cwd \in [Session -> Dir],
         NEW says \in [Session -> Activity \cup {None}], NEW U, U = SyncAll(T, S, says)
  PROVE  /\ Sound(U, V) /\ \A r \in Session \ S : U.place[r] = T.place[r]
         /\ U.left # 0 => T.left # 0
<1> DEFINE Recursion(g) == g = [s \in SUBSET S |-> IF s = {} THEN T
                              ELSE SyncAs(g[s \ {CHOOSE x \in s : TRUE}], CHOOSE x \in s : TRUE,
                                          cwd[CHOOSE x \in s : TRUE], says[CHOOSE x \in s : TRUE])]
<1>1. U = (CHOOSE g : Recursion(g))[S]
  BY Zenon DEF SyncAll, FoldSet, MapThenFoldSet
<1>2. PICK removes \in BOOLEAN : removes = FALSE
  OBVIOUS
<1>3. \A g : Recursion(g) <=> IsFold(g, SUBSET S, removes, T, says)
  <2>1. TAKE g
  <2>2. PICK X : X = [s \in SUBSET S |-> SyncAs(g[s \ {CHOOSE x \in s : TRUE}], CHOOSE x \in s : TRUE,
                        cwd[CHOOSE x \in s : TRUE], says[CHOOSE x \in s : TRUE])]
    OBVIOUS
  <2>3. \A s \in SUBSET S : Turn(removes, g[s \ {Pick(s)}], Pick(s), says) = X[s]
    <3>1. SUFFICES ASSUME NEW s \in SUBSET S
                   PROVE  Turn(removes, g[s \ {Pick(s)}], Pick(s), says) = X[s]
      OBVIOUS
    <3>2. PICK x : x = Pick(s)
      OBVIOUS
    <3>3. X[s] = SyncAs(g[s \ {x}], x, cwd[x], says[x])
      BY <2>2, <3>2 DEF Pick
    <3>4. ~removes
      BY <1>2
    <3>5. Turn(removes, g[s \ {x}], x, says) = SyncAs(g[s \ {x}], x, cwd[x], says[x])
      BY <3>4 DEF Turn
    <3>6. QED
      BY <3>2, <3>3, <3>5
  <2>4. Recursion(g) <=> g = [s \in SUBSET S |-> IF s = {} THEN T ELSE X[s]]
    BY <2>2
  <2>5. IsFold(g, SUBSET S, removes, T, says) <=> g = [s \in SUBSET S |-> IF s = {} THEN T ELSE X[s]]
    BY <2>3 DEF IsFold
  <2>6. QED
    BY <2>4, <2>5
<1> HIDE DEF Recursion
<1>4. PICK f : f = CHOOSE g : Recursion(g)
  OBVIOUS
<1>5. IsFold(f, SUBSET S, removes, T, says)
  <2>1. PICK g : IsFold(g, SUBSET S, removes, T, says)
    BY FoldExists
  <2>2. Recursion(g)
    BY <1>3, <2>1
  <2>3. Recursion(f)
    BY <1>4, <2>2, Zenon
  <2>4. QED
    BY <1>3, <2>3
<1>6. TurnsSound(f, S, removes, T, V)
  BY <1>2, <1>5, FoldSound
<1>7. QED
  BY <1>1, <1>2, <1>4, <1>6 DEF TurnsSound

-----------------------------------------------------------------------------
(* A history of what there was to know: h[i] after the event i.            *)
Explains(h, n, T, q) ==
  /\ h \in [0 .. n -> SUBSET Views] /\ Knows(h[n], T)
  /\ \A i \in 1 .. Len(q) : Hears(h[n - Len(q) + i], h[n - Len(q) + i - 1], q[i])

(* But for its first o messages, the wire w carries the events after k.    *)
Follows(h, w, o, k, n) ==
  /\ Len(w) = o + (n - k)
  /\ \A i \in 1 .. n - k :
       \E e \in Events : w[o + i] = [id |-> k + i, event |-> e] /\ Hears(h[k + i], h[k + i - 1], e)

(* A subscriber whose cursor the log still reaches knows something of what *)
(* there was at its cursor. If it listens, it is on its way to what there  *)
(* is: by the events between, or by a snapshot and those since.            *)
Informed(h, open, w, k, v, n, first) ==
  /\ k <= n
  /\ ~open => w = << >>
  /\ k # 0 /\ k + 1 >= first => v \in h[k]
  /\ open => \/ Follows(h, w, 0, k, n) /\ v \in h[k]
             \/ \E i \in k .. n :
                  Follows(h, w, 1, i, n) /\ \E x \in h[i] : w[1] = [id |-> i, view |-> x]

(* h2 goes on where h ends, and tells of the events of T.                  *)
Continues(h2, h, n, T) ==
  /\ \A i \in 0 .. n : h[i] \subseteq h2[i] /\ (i < n => h2[i] = h[i])
  /\ \A j \in 1 .. Len(T.events) : Hears(h2[n + j], h2[n + j - 1], T.events[j])

(* Pruning keeps the end of the log.                                       *)
LacksFirst(p, q, n, l) ==
  /\ p \in Seq(Events) /\ Len(p) = l - n
  /\ \A i \in 1 .. l - n : p[i] = q[n + i]

IsEndOf(p, q) ==
  \E n \in 0 .. Len(q) : LacksFirst(p, q, n, Len(q))

LEMMA WholeSuffix ==
  ASSUME NEW q \in Seq(Events)
  PROVE  IsEndOf(q, q)
<1>1. PICK n \in Nat : n = 0
  OBVIOUS
<1>2. n \in 0 .. Len(q) /\ Len(q) = Len(q) - n
  BY <1>1
<1>3. \A i \in 1 .. Len(q) - n : q[i] = q[n + i]
  BY <1>1
<1>4. QED
  BY <1>2, <1>3 DEF IsEndOf, LacksFirst

LEMMA PrunedSuffix ==
  ASSUME NEW q \in Seq(Events), NEW last \in Nat, NEW l, NEW p, p = Pruned(q, last, l)
  PROVE  IsEndOf(p, q)
<1>1. PICK kept : kept = Keep + (last % Every)
  OBVIOUS
<1>2. kept \in Nat
  BY <1>1, BoundsAssumption
<1>3. p = q \/ (Len(q) > kept /\ p = SubSeq(q, Len(q) - kept + 1, Len(q)))
  BY <1>1 DEF Pruned
<1>4. CASE Len(q) > kept /\ p = SubSeq(q, Len(q) - kept + 1, Len(q))
  <2>0. Len(q) > kept
    BY <1>4
  <2>1. PICK n, m \in Nat : n = Len(q) - kept /\ m = Len(q)
    <3>1. Len(q) \in Nat /\ Len(q) - kept \in Nat
      BY <1>2, <2>0
    <3>2. QED
      BY <3>1
  <2>2. p = SubSeq(q, n + 1, m)
    BY <1>2, <1>4, <2>1
  <2>3. /\ p \in Seq(Events) /\ Len(p) = m - n
        /\ \A i \in 1 .. m - n : p[i] = q[n + i]
    <3>1. \A i \in n + 1 .. m : q[i] \in Events
      BY <2>1
    <3>2. kept = m - n
      BY <1>2, <2>1
    <3>3. p = [i \in 1 .. kept |-> q[n + i]]
      BY <1>2, <1>4, <2>1, <2>2, <3>2
    <3>4. \A i \in 1 .. kept : n + i \in n + 1 .. m
      BY <1>2, <3>2
    <3>5. p \in [1 .. kept -> Events]
      BY <3>1, <3>3, <3>4
    <3>6. p \in Seq(Events) /\ Len(p) = kept
      BY <1>2, <3>5
    <3>7. QED
      BY <3>2, <3>3, <3>6
  <2>4. n \in 0 .. Len(q)
    BY <1>2, <1>4, <2>1
  <2>5. QED
    BY <2>1, <2>3, <2>4 DEF IsEndOf, LacksFirst
<1>5. CASE p = q
  BY <1>5, WholeSuffix
<1>6. QED
  BY <1>3, <1>4, <1>5

(* What is appended makes history longer, and the pruned log still tells   *)
(* its end.                                                                *)
LEMMA HistoryContinues ==
  ASSUME NEW n \in Nat, NEW q \in Seq(Events), Len(q) <= n, NEW S, NEW h, Explains(h, n, S, q),
         NEW T, Sound(T, h[n]), NEW m, m = n + Len(T.events), NEW p, IsEndOf(p, q \o T.events)
  PROVE  /\ m \in Nat /\ p \in Seq(Events) /\ Len(p) <= m /\ m - Len(p) >= n - Len(q)
         /\ \E h2 : Explains(h2, m, T, p) /\ Continues(h2, h, n, T)
<1>1. PICK e : e = T.events
  OBVIOUS
<1>2. e \in Seq(Events) /\ Len(e) \in Nat
  BY <1>1, SoundTables DEF Tables
<1>3. PICK g : Narrates(g, h[n], T)
  BY DEF Sound, Logged
<1>4. PICK k \in Nat : k = Len(e)
  BY <1>2
<1>5. /\ g \in [0 .. k -> SUBSET Views] /\ h[n] \subseteq g[0] /\ Knows(g[k], T)
      /\ \A i \in 1 .. k : Hears(g[i], g[i - 1], e[i])
  BY <1>1, <1>3, <1>4 DEF Narrates
<1>6. m = n + k /\ m \in Nat
  BY <1>1, <1>4
<1>7. PICK h2 : h2 = [i \in 0 .. m |-> IF i < n THEN h[i] ELSE g[i - n]]
  OBVIOUS
<1>8. /\ h2 \in [0 .. m -> SUBSET Views]
      /\ \A i \in 0 .. n : h[i] \subseteq h2[i] /\ (i < n => h2[i] = h[i])
      /\ \A i \in 0 .. k : h2[n + i] = g[i]
  <2>1. h \in [0 .. n -> SUBSET Views]
    BY DEF Explains
  <2>2. \A i \in 0 .. m : h2[i] \in SUBSET Views
    <3>1. SUFFICES ASSUME NEW i \in 0 .. m PROVE h2[i] \in SUBSET Views
      OBVIOUS
    <3>2. CASE i < n
      <4>1. h2[i] = h[i] /\ i \in 0 .. n
        BY <1>7, <3>2
      <4>2. QED
        BY <2>1, <4>1
    <3>3. CASE ~(i < n)
      <4>1. i - n \in 0 .. k
        BY <1>6, <3>3
      <4>2. h2[i] = g[i - n]
        BY <1>7, <3>3
      <4>3. QED
        BY <1>5, <4>1, <4>2
    <3>4. QED
      BY <3>2, <3>3
  <2>3. \A i \in 0 .. k : h2[n + i] = g[i]
    <3>1. SUFFICES ASSUME NEW i \in 0 .. k PROVE h2[n + i] = g[i]
      OBVIOUS
    <3>2. n + i \in 0 .. m /\ ~(n + i < n) /\ n + i - n = i
      BY <1>6
    <3>3. QED
      BY <1>7, <3>2
  <2>4. \A i \in 0 .. n : h[i] \subseteq h2[i] /\ (i < n => h2[i] = h[i])
    <3>1. SUFFICES ASSUME NEW i \in 0 .. n PROVE h[i] \subseteq h2[i] /\ (i < n => h2[i] = h[i])
      OBVIOUS
    <3>2. CASE i < n
      <4>1. i \in 0 .. m
        BY <1>6
      <4>2. h2[i] = h[i]
        BY <1>7, <3>2, <4>1
      <4>3. QED
        BY <4>2
    <3>3. CASE ~(i < n)
      <4>1. i = n + 0 /\ 0 \in 0 .. k
        BY <3>3
      <4>2. h2[i] = g[0] /\ i = n
        BY <2>3, <4>1
      <4>3. QED
        BY <1>5, <3>3, <4>2
    <3>4. QED
      BY <3>2, <3>3
  <2>5. h2 \in [0 .. m -> SUBSET Views]
    BY <1>7, <2>2
  <2>6. QED
    BY <2>3, <2>4, <2>5
<1>9. \A j \in 1 .. k : Hears(h2[n + j], h2[n + j - 1], e[j])
  <2>1. SUFFICES ASSUME NEW j \in 1 .. k PROVE Hears(h2[n + j], h2[n + j - 1], e[j])
    OBVIOUS
  <2>2. j \in 0 .. k /\ j - 1 \in 0 .. k /\ n + j - 1 = n + (j - 1)
    OBVIOUS
  <2>3. h2[n + j] = g[j] /\ h2[n + j - 1] = g[j - 1]
    BY <1>8, <2>2
  <2>4. QED
    BY <1>5, <2>3
<1>10. PICK a : a = q \o e
  OBVIOUS
<1>11. PICK l \in Nat : l = Len(q)
  OBVIOUS
<1>12. /\ a \in Seq(Events) /\ Len(a) = l + k
       /\ \A i \in 1 .. l : a[i] = q[i]
       /\ \A i \in 1 .. k : a[l + i] = e[i]
  <2>1. a \in Seq(Events) /\ Len(a) = l + k
    BY <1>2, <1>4, <1>10, <1>11
  <2>2. \A i \in 1 .. l + k : a[i] = IF i <= l THEN q[i] ELSE e[i - l]
    BY <1>2, <1>4, <1>10, <1>11
  <2>3. \A i \in 1 .. k : l + i \in 1 .. l + k /\ ~(l + i <= l) /\ l + i - l = i
    OBVIOUS
  <2>4. \A i \in 1 .. l : i \in 1 .. l + k /\ i <= l
    OBVIOUS
  <2>5. QED
    BY <2>1, <2>2, <2>3, <2>4
<1>13. \A i \in 1 .. l + k : Hears(h2[n - l + i], h2[n - l + i - 1], a[i])
  <2>1. SUFFICES ASSUME NEW i \in 1 .. l + k PROVE Hears(h2[n - l + i], h2[n - l + i - 1], a[i])
    OBVIOUS
  <2>2. CASE i \in 1 .. l
    <3>1. PICK x, y \in 0 .. n : x = n - l + i /\ y = n - l + i - 1
      <4>1. n - l + i \in 0 .. n /\ n - l + i - 1 \in 0 .. n
        BY <1>11, <2>2
      <4>2. QED
        BY <4>1
    <3>2. y < n
      BY <1>11, <2>2, <3>1
    <3>3. Hears(h[x], h[y], q[i])
      BY <1>11, <2>2, <3>1 DEF Explains
    <3>4. h[x] \subseteq h2[x] /\ h2[y] = h[y] /\ a[i] = q[i]
      BY <1>8, <1>12, <2>2, <3>1, <3>2
    <3>5. Hears(h2[x], h2[y], a[i])
      BY <3>3, <3>4 DEF Hears
    <3>6. QED
      BY <3>1, <3>5
  <2>3. CASE i \notin 1 .. l
    <3>1. PICK j \in 1 .. k : i = l + j
      <4>1. i - l \in 1 .. k
        BY <2>3
      <4>2. QED
        BY <4>1
    <3>2. n - l + i = n + j /\ n - l + i - 1 = n + j - 1 /\ a[i] = e[j]
      BY <1>12, <3>1
    <3>3. QED
      BY <1>9, <3>2
  <2>4. QED
    BY <2>2, <2>3
<1>14. PICK b \in 0 .. l + k : LacksFirst(p, a, b, l + k)
  <2>1. IsEndOf(p, a)
    BY <1>1, <1>10
  <2> DEFINE EndOf(c) == \E b \in 0 .. c : LacksFirst(p, a, b, c)
  <2>2. EndOf(Len(a))
    BY <2>1, Zenon DEF IsEndOf
  <2>3. EndOf(l + k)
    <3> HIDE DEF EndOf
    <3>1. Len(a) = l + k
      BY <1>12
    <3>2. QED
      BY ONLY <2>2, <3>1, Zenon
  <2>4. QED
    BY ONLY <2>3, Zenon
<1>15. Len(p) <= m /\ m - Len(p) >= n - l
  BY <1>6, <1>11, <1>14 DEF LacksFirst
<1>16. \A i \in 1 .. Len(p) : Hears(h2[m - Len(p) + i], h2[m - Len(p) + i - 1], p[i])
  <2>1. SUFFICES ASSUME NEW i \in 1 .. Len(p)
                 PROVE  Hears(h2[m - Len(p) + i], h2[m - Len(p) + i - 1], p[i])
    OBVIOUS
  <2>2. PICK j : j = b + i
    OBVIOUS
  <2>3. /\ j \in 1 .. l + k /\ m - Len(p) + i = n - l + j /\ m - Len(p) + i - 1 = n - l + j - 1
        /\ p[i] = a[j]
    <3>1. b \in Nat /\ b <= l + k /\ i \in Nat /\ i >= 1 /\ i <= l + k - b /\ Len(p) = l + k - b
      BY <1>14 DEF LacksFirst
    <3>2. j \in 1 .. l + k
      BY <2>2, <3>1
    <3>3. m - Len(p) + i = n - l + j /\ m - Len(p) + i - 1 = n - l + j - 1
      BY <1>6, <2>2, <3>1
    <3>4. p[i] = a[j]
      BY <1>14, <2>2, <3>1 DEF LacksFirst
    <3>5. QED
      BY <3>2, <3>3, <3>4
  <2>4. QED
    BY <1>13, <2>3
<1>17. Knows(h2[m], T)
  <2>1. k \in 0 .. k
    OBVIOUS
  <2>2. h2[m] = g[k]
    BY <1>6, <1>8, <2>1
  <2>3. QED
    BY <1>5, <2>2
<1>18. Explains(h2, m, T, p) /\ Continues(h2, h, n, T)
  BY <1>1, <1>4, <1>8, <1>9, <1>16, <1>17 DEF Explains, Continues
<1>19. QED
  BY <1>6, <1>11, <1>14, <1>15, <1>18 DEF LacksFirst

(* The messages of a handler carry its events, numbered.                   *)
LEMMA SentIs ==
  ASSUME NEW e \in Seq(Events), latest \in Nat
  PROVE  /\ Sent(e) \in Seq(Messages) /\ Len(Sent(e)) = Len(e)
         /\ \A i \in 1 .. Len(e) : Sent(e)[i] = [id |-> latest + i, event |-> e[i]]
<1>1. PICK n \in Nat : n = Len(e)
  OBVIOUS
<1>2. PICK s : s = Sent(e)
  OBVIOUS
<1>3. s = [i \in 1 .. n |-> [id |-> latest + i, event |-> e[i]]]
  BY <1>1, <1>2 DEF Sent
<1>4. \A i \in 1 .. n : [id |-> latest + i, event |-> e[i]] \in Messages
  <2>1. TAKE i \in 1 .. n
  <2>2. PICK a \in Events, j \in Nat : a = e[i] /\ j = latest + i
    BY <1>1
  <2>3. [id |-> j, event |-> a] \in Messages
    BY Zenon DEF Messages
  <2>4. QED
    BY <2>2, <2>3
<1>5. s \in [1 .. n -> Messages]
  BY <1>3, <1>4
<1>6. s \in Seq(Messages) /\ Len(s) = n
  BY <1>5
<1>7. QED
  BY <1>1, <1>2, <1>3, <1>6

(* What is appended is sent after what is on its way.                      *)
LEMMA FollowsOn ==
  ASSUME NEW n \in Nat, n = latest, NEW h, NEW T, T \in Tables, NEW h2, Continues(h2, h, n, T),
         NEW w \in Seq(Messages), NEW o \in Nat, NEW k \in 0 .. n, Follows(h, w, o, k, n),
         NEW m, m = n + Len(T.events)
  PROVE  Follows(h2, w \o Sent(T.events), o, k, m)
<1>1. PICK e : e = T.events
  OBVIOUS
<1>2. e \in Seq(Events)
  BY <1>1 DEF Tables
<1>3. PICK l, z \in Nat : l = Len(e) /\ z = Len(w)
  BY <1>2
<1>4. PICK s : s = Sent(e)
  OBVIOUS
<1>5. /\ s \in Seq(Messages) /\ Len(s) = l
      /\ \A i \in 1 .. l : s[i] = [id |-> latest + i, event |-> e[i]]
  BY <1>2, <1>3, <1>4, SentIs
<1>6. PICK x : x = w \o s
  OBVIOUS
<1>7. /\ Len(x) = z + l
      /\ \A i \in 1 .. z : x[i] = w[i]
      /\ \A i \in 1 .. l : x[z + i] = s[i]
  <2>1. /\ Len(w \o s) = Len(w) + Len(s)
        /\ \A i \in 1 .. Len(w) + Len(s) : (w \o s)[i] = IF i <= Len(w) THEN w[i] ELSE s[i - Len(w)]
    BY <1>5, ConcatProperties, Zenon
  <2>2. Len(x) = z + l /\ \A i \in 1 .. z + l : x[i] = IF i <= z THEN w[i] ELSE s[i - z]
    BY <1>3, <1>5, <1>6, <2>1
  <2>3. \A i \in 1 .. l : z + i \in 1 .. z + l /\ ~(z + i <= z) /\ z + i - z = i
    OBVIOUS
  <2>4. \A i \in 1 .. z : i \in 1 .. z + l /\ i <= z
    OBVIOUS
  <2>5. QED
    BY <2>2, <2>3, <2>4, SMTT(60)
<1>8. z = o + (n - k) /\ m = n + l
  BY <1>1, <1>3 DEF Follows
<1>9. Len(x) = o + (m - k)
  <2>1. PICK y : y = Len(x)
    OBVIOUS
  <2>2. y = z + l
    BY <1>7, <2>1
  <2>3. o + (n - k) + l = o + (n + l - k)
    OBVIOUS
  <2>4. QED
    BY <1>8, <2>1, <2>2, <2>3
<1>10. ASSUME NEW i \in 1 .. m - k
       PROVE  \E a \in Events : x[o + i] = [id |-> k + i, event |-> a] /\ Hears(h2[k + i], h2[k + i - 1], a)
  <2>1. CASE i \in 1 .. n - k
    <3>1. PICK a \in Events : w[o + i] = [id |-> k + i, event |-> a] /\ Hears(h[k + i], h[k + i - 1], a)
      BY <2>1 DEF Follows
    <3>2. PICK y, u \in 0 .. n : y = k + i /\ u = k + i - 1 /\ u < n
      BY <2>1
    <3>3. o + i \in 1 .. z
      BY <1>8, <2>1
    <3>4. h[y] \subseteq h2[y] /\ h2[u] = h[u]
      BY <3>2 DEF Continues
    <3>5. Hears(h2[y], h2[u], a)
      BY <3>1, <3>2, <3>4 DEF Hears
    <3>6. QED
      BY <1>7, <3>1, <3>2, <3>3, <3>5
  <2>2. CASE i \notin 1 .. n - k
    <3>1. PICK j \in 1 .. l : k + i = n + j
      <4>1. k + i - n \in 1 .. l
        BY <1>8, <2>2
      <4>2. QED
        BY <4>1
    <3>2. o + i = z + j /\ k + i - 1 = n + j - 1
      BY <1>8, <3>1
    <3>3. x[o + i] = [id |-> k + i, event |-> e[j]]
      BY <1>5, <1>7, <3>1, <3>2
    <3>4. Hears(h2[k + i], h2[k + i - 1], e[j])
      BY <1>1, <1>3, <3>1, <3>2 DEF Continues
    <3>5. e[j] \in Events
      BY <1>2, <1>3
    <3>6. QED
      BY <3>3, <3>4, <3>5
  <2>3. QED
    BY <2>1, <2>2
<1>11. Follows(h2, x, o, k, m)
  BY <1>9, <1>10 DEF Follows
<1>12. QED
  BY <1>1, <1>4, <1>6, <1>11

(* A wire whose subscriber listens takes what the handler appends.         *)
Fed(x, open, w, T) == x = IF open THEN w \o Sent(T.events) ELSE w

(* Whoever was informed still is, if his wire is fed.                      *)
LEMMA InformedOn ==
  ASSUME latest \in Nat, NEW h, NEW T, T \in Tables, NEW h2, Continues(h2, h, latest, T),
         NEW open \in BOOLEAN, NEW w \in Seq(Messages), NEW k \in Nat, NEW v,
         NEW first \in Int, Informed(h, open, w, k, v, latest, first),
         NEW m, m = latest + Len(T.events), NEW next \in Int, next >= first,
         NEW x, Fed(x, open, w, T)
  PROVE  x \in Seq(Messages) /\ Informed(h2, open, x, k, v, m, next)
<1>1. PICK n \in Nat : n = latest
  OBVIOUS
<1>2. PICK l \in Nat : l = Len(T.events) /\ T.events \in Seq(Events)
  BY DEF Tables
<1>3. k \in 0 .. n /\ k <= m
  BY <1>1, <1>2 DEF Informed
<1>4. k # 0 /\ k + 1 >= next => v \in h2[k]
  <2>1. k + 1 >= next => k + 1 >= first
    OBVIOUS
  <2>2. h[k] \subseteq h2[k]
    BY <1>1, <1>3 DEF Continues
  <2>3. QED
    BY <2>1, <2>2 DEF Informed
<1>5. CASE ~open
  BY <1>3, <1>4, <1>5 DEF Informed, Fed
<1>6. CASE open
  <2>1. x = w \o Sent(T.events) /\ Sent(T.events) \in Seq(Messages)
    BY <1>2, <1>6, SentIs DEF Fed
  <2>2. x \in Seq(Messages)
    BY <2>1, ConcatProperties, Zenon
  <2>3. PICK z, o \in Nat : z = 0 /\ o = 1
    OBVIOUS
  <2>4. CASE Follows(h, w, 0, k, n) /\ v \in h[k]
    <3>1. Follows(h, w, z, k, n)
      BY <2>3, <2>4
    <3>2. Follows(h2, x, z, k, m)
      BY <1>1, <1>3, <2>1, <3>1, FollowsOn
    <3>3. v \in h2[k]
      BY <1>1, <1>3, <2>4 DEF Continues
    <3>4. QED
      BY <1>3, <1>4, <1>6, <2>2, <2>3, <3>2, <3>3 DEF Informed
  <2>5. CASE \E i \in k .. n :
               Follows(h, w, 1, i, n) /\ \E y \in h[i] : w[1] = [id |-> i, view |-> y]
    <3>1. PICK i \in k .. n :
            Follows(h, w, 1, i, n) /\ \E y \in h[i] : w[1] = [id |-> i, view |-> y]
      BY <2>5
    <3>2. i \in 0 .. n /\ i \in k .. m
      BY <1>1, <1>2, <1>3
    <3>3. Follows(h, w, o, i, n)
      BY <2>3, <3>1
    <3>4. Follows(h2, x, o, i, m)
      BY <1>1, <2>1, <3>2, <3>3, FollowsOn
    <3>5. x[1] = w[1]
      <4>1. PICK y \in Nat : y = Len(w)
        OBVIOUS
      <4>2. y = 1 + (n - i)
        BY <3>1, <4>1 DEF Follows
      <4>3. y >= 1
        BY <3>2, <4>2
      <4>4. \A j \in 1 .. Len(w) + Len(Sent(T.events)) :
              (w \o Sent(T.events))[j] = IF j <= Len(w) THEN w[j] ELSE Sent(T.events)[j - Len(w)]
        BY <2>1, ConcatProperties, Zenon
      <4>5. Len(Sent(T.events)) \in Nat
        BY <2>1
      <4>6. QED
        BY <2>1, <4>1, <4>3, <4>4, <4>5
    <3>6. PICK y \in h[i] : w[1] = [id |-> i, view |-> y]
      BY <3>1
    <3>7. y \in h2[i] /\ x[1] = [id |-> i, view |-> y]
      BY <1>1, <3>2, <3>5, <3>6 DEF Continues
    <3>8. \E a \in h2[i] : x[1] = [id |-> i, view |-> a]
      BY <3>7
    <3>9. QED
      BY <1>3, <1>4, <1>6, <2>2, <2>3, <3>2, <3>4, <3>8 DEF Informed
  <2>6. QED
    BY <1>1, <1>6, <2>4, <2>5 DEF Informed
<1>7. QED
  BY <1>5, <1>6

-----------------------------------------------------------------------------
(* The parts of the invariant.                                             *)
ProcessOK == up \in BOOLEAN /\ crashes \in 0 .. MaxCrashes

ManagerOK ==
  /\ surveyed \in BOOLEAN /\ stored \subseteq Session /\ listed \subseteq stored
  /\ cwd \in [Session -> Dir] /\ reports \in [Session -> Activity \cup {None}]

TablesOK ==
  /\ store \in Tables
  /\ store.events = << >> /\ store.undone = << >> /\ store.uncut = FALSE /\ store.left = 0
  /\ log \in Seq(Events) /\ latest \in 0 .. MaxEvents /\ Len(log) <= latest

StreamOK ==
  /\ link \in [Subscriber -> BOOLEAN] /\ cursor \in [Subscriber -> Nat]
  /\ copy \in [Subscriber -> Views] /\ wire \in [Subscriber -> Seq(Messages)]
  /\ misled \subseteq Subscriber /\ drops \in 0 .. MaxDrops

StoreOK == WorkspacesShown(store) /\ NeedsBelong(store)

PlacedOK == up /\ surveyed => \A s \in Session : store.place[s] # None => s \in stored

Mirror(h) ==
  /\ Explains(h, latest, store, log)
  /\ \A c \in Subscriber \ misled :
       Informed(h, link[c], wire[c], cursor[c], copy[c], latest, Earliest)

MirrorOK == \E h : Mirror(h)

CenterInv ==
  /\ ProcessOK /\ ManagerOK /\ TablesOK /\ StreamOK
  /\ StoreOK /\ PlacedOK /\ MirrorOK

(* The type invariant is the types of the four parts.                      *)
LEMMA TypeParts == TypeOK <=> ProcessOK /\ ManagerOK /\ TablesOK /\ StreamOK
<1>1. store \in [ws    : [Dir -> Workspaces \cup {NoWorkspace}],
                 place : [Session -> Dir \cup {None}],
                 agent : [Session -> Activity \cup {None}],
                 items : SUBSET Session, silent : SUBSET Topics,
                 events : {<< >>}, undone : {<< >>}, uncut : {FALSE}, left : {0}]
        <=> /\ store \in Tables
            /\ store.events = << >> /\ store.undone = << >> /\ store.uncut = FALSE /\ store.left = 0
  <2>1. PICK e \in Seq(Events) : e = << >>
    BY EmptySeq, Zenon
  <2>2. PICK b \in BOOLEAN, z \in Nat : b = FALSE /\ z = 0
    OBVIOUS
  <2>3. store \in [ws    : [Dir -> Workspaces \cup {NoWorkspace}],
                   place : [Session -> Dir \cup {None}],
                   agent : [Session -> Activity \cup {None}],
                   items : SUBSET Session, silent : SUBSET Topics,
                   events : {e}, undone : {e}, uncut : {b}, left : {z}]
          <=> /\ store \in Tables
              /\ store.events = e /\ store.undone = e /\ store.uncut = b /\ store.left = z
    BY DEF Tables
  <2>4. QED
    BY <2>1, <2>2, <2>3
<1>2. QED
  BY <1>1 DEF TypeOK, ProcessOK, ManagerOK, TablesOK, StreamOK

(* Between handlers the tables are sound; a handler begins with them, and  *)
(* with as many writes as it lives for.                                    *)
Begins(h, U) == Mirror(h) /\ Sound(U, h[latest]) /\ U.place = store.place /\ U.agent = store.agent

LEMMA HandlerBegins ==
  ASSUME CenterInv, NEW n \in Lives
  PROVE  \E h : Begins(h, Until(n))
<1>1. n \in Nat
  <2>1. PICK k \in Nat : k = Cardinality(Session)
    BY SessionAssumption, FS_CardinalityType
  <2>2. Writes \in Nat
    BY <2>1 DEF Writes
  <2>3. QED
    BY <2>2 DEF Lives
<1>2. PICK h : Mirror(h)
  BY DEF CenterInv, MirrorOK
<1>3. PICK K : K = h[latest]
  OBVIOUS
<1>4. Knows(K, store)
  BY <1>2, <1>3 DEF Mirror, Explains
<1>5. PICK U : U = Until(n)
  OBVIOUS
<1>6. /\ U \in Tables /\ U.events = << >> /\ U.silent = store.silent
      /\ U.ws = store.ws /\ U.place = store.place /\ U.agent = store.agent /\ U.items = store.items
  <2>1. U = [store EXCEPT !.left = n]
    BY <1>5 DEF Until
  <2>2. QED
    BY <1>1, <2>1 DEF CenterInv, TablesOK, Tables
<1>7. Logged(U, K)
  <2>1. PICK z \in Nat : z = 0
    OBVIOUS
  <2>2. PICK g : g = [i \in z .. z |-> K]
    OBVIOUS
  <2>3. Len(U.events) = z /\ \A i \in 1 .. z : FALSE
    BY <1>6, <2>1
  <2>4. g \in [z .. z -> SUBSET Views] /\ g[z] = K
    BY <1>4, <2>2 DEF Knows
  <2>5. Knows(K, U)
    <3>1. View(U) = View(store)
      BY <1>6 DEF View
    <3>2. QED
      BY <1>4, <1>6, <3>1 DEF Knows
  <2>6. Narrates(g, K, U)
    BY <2>1, <2>3, <2>4, <2>5 DEF Narrates
  <2>7. QED
    BY <1>6, <2>6 DEF Logged
<1>8. Sound(U, K)
  <2>1. Same(U, store)
    BY <1>6 DEF Same
  <2>2. QED
    BY <1>7, <2>1, SoundSame DEF CenterInv, StoreOK
<1>9. QED
  BY <1>2, <1>3, <1>5, <1>6, <1>8 DEF Begins

(* What a handler has written, when it is done or dead.                    *)
LEMMA AppendedKeeps ==
  ASSUME ProcessOK, TablesOK, NEW h, Explains(h, latest, store, log),
         NEW T, Sound(T, h[latest]), Appended(T)
  PROVE  /\ ProcessOK' /\ TablesOK' /\ StoreOK' /\ store'.place = T.place
         /\ latest' = latest + Len(T.events) /\ View(store') = View(T)
         /\ Earliest \in Int /\ Earliest' \in Int /\ Earliest' >= Earliest
         /\ \E h2 : Explains(h2, latest', store', log') /\ Continues(h2, h, latest, T)
<1>1. T \in Tables /\ WorkspacesShown(T) /\ NeedsBelong(T)
  BY SoundTables DEF Sound
<1>2. PICK e \in Seq(Events) : e = << >>
  BY EmptySeq, Zenon
<1>3. /\ store' \in Tables /\ store'.ws = T.ws /\ store'.place = T.place
      /\ store'.agent = T.agent /\ store'.items = T.items /\ store'.silent = T.silent
      /\ store'.events = << >> /\ store'.undone = << >> /\ store'.uncut = FALSE /\ store'.left = 0
  <2>1. PICK b \in BOOLEAN, z \in Nat : b = FALSE /\ z = 0
    OBVIOUS
  <2>2. store' = [T EXCEPT !.events = e, !.undone = e, !.uncut = b, !.left = z]
    BY <1>2, <2>1 DEF Appended
  <2>3. /\ store' \in Tables /\ store'.ws = T.ws /\ store'.place = T.place
        /\ store'.agent = T.agent /\ store'.items = T.items /\ store'.silent = T.silent
        /\ store'.events = e /\ store'.undone = e /\ store'.uncut = b /\ store'.left = z
    BY <1>1, <2>2 DEF Tables
  <2>4. QED
    BY <1>2, <2>1, <2>3
<1>4. View(store') = View(T)
  BY <1>3 DEF View
<1>5. WorkspacesShown(store') /\ NeedsBelong(store')
  <2>1. \A d \in Dir : Empty(store', d) <=> Empty(T, d)
    BY <1>3 DEF Empty
  <2>2. WorkspacesShown(store')
    BY <1>1, <1>3, <2>1 DEF WorkspacesShown
  <2>3. NeedsBelong(store')
    BY <1>1, <1>3 DEF NeedsBelong
  <2>4. QED
    BY <2>2, <2>3
<1>6. PICK n \in Nat : n = latest
  BY BoundsAssumption DEF TablesOK
<1>7. PICK l \in Nat : l = Len(T.events) /\ T.events \in Seq(Events)
  BY <1>1 DEF Tables
<1>8. PICK m \in Nat : m = n + l
  OBVIOUS
<1>9. latest' = m /\ m <= MaxEvents
  BY <1>6, <1>7, <1>8 DEF Appended
<1>10. PICK q : q = log \o T.events
  OBVIOUS
<1>11. q \in Seq(Events)
  BY <1>7, <1>10 DEF TablesOK
<1>12. PICK p : p = log'
  OBVIOUS
<1>13. IsEndOf(p, q)
  <2>1. p = q \/ p = Pruned(q, m, l)
    <3>1. p = IF T.uncut /\ m % Every = 0 THEN q ELSE Pruned(q, m, l)
      BY <1>7, <1>9, <1>10, <1>12 DEF Appended
    <3>2. QED
      BY <3>1
  <2>2. CASE p = q
    BY <1>11, <2>2, WholeSuffix
  <2>3. CASE p = Pruned(q, m, l)
    BY <1>11, <2>3, PrunedSuffix
  <2>4. QED
    BY <2>1, <2>2, <2>3
<1>14. /\ p \in Seq(Events) /\ Len(p) <= m /\ m - Len(p) >= n - Len(log)
       /\ \E h2 : Explains(h2, m, T, p) /\ Continues(h2, h, n, T)
  <2>1. /\ log \in Seq(Events) /\ Len(log) <= n /\ Explains(h, n, store, log)
        /\ Sound(T, h[n]) /\ m = n + Len(T.events)
    BY <1>6, <1>7, <1>8 DEF TablesOK
  <2>2. IsEndOf(p, log \o T.events)
    BY <1>10, <1>13
  <2>3. QED
    BY <2>1, <2>2, HistoryContinues
<1>15. PICK h2 : Explains(h2, m, T, p) /\ Continues(h2, h, n, T)
  BY <1>14
<1>16. Explains(h2, m, store', p)
  <2>1. Knows(h2[m], store')
    BY <1>3, <1>4, <1>15 DEF Explains, Knows
  <2>2. QED
    BY <1>15, <2>1 DEF Explains
<1>17. TablesOK' /\ StoreOK'
  <2>1. m \in 0 .. MaxEvents
    BY <1>9, BoundsAssumption
  <2>2. log' \in Seq(Events) /\ Len(log') <= latest' /\ latest' \in 0 .. MaxEvents
    BY <1>9, <1>12, <1>14, <2>1
  <2>3. TablesOK'
    BY <1>3, <2>2 DEF TablesOK
  <2>4. QED
    BY <1>5, <2>3 DEF StoreOK
<1>18. ProcessOK'
  <2>1. PICK c \in Nat : c = crashes
    BY DEF ProcessOK
  <2>2. up' \in BOOLEAN /\ (crashes' = c \/ crashes' = c + 1) /\ crashes' <= MaxCrashes
    BY <2>1 DEF Appended
  <2>3. crashes' \in 0 .. MaxCrashes
    BY <2>1, <2>2, BoundsAssumption
  <2>4. QED
    BY <2>2, <2>3 DEF ProcessOK
<1>19. Earliest \in Int /\ Earliest' \in Int /\ Earliest' >= Earliest
  <2>1. PICK a, b \in Nat : a = Len(log) /\ b = Len(p)
    BY <1>14 DEF TablesOK
  <2>2. Earliest = n - a + 1 /\ Earliest' = m - b + 1
    BY <1>6, <1>9, <1>12, <2>1 DEF Earliest
  <2>3. m - b >= n - a
    BY <1>14, <2>1
  <2>4. QED
    BY <2>2, <2>3
<1>20. QED
  BY <1>3, <1>4, <1>6, <1>7, <1>8, <1>9, <1>12, <1>15, <1>16, <1>17, <1>18, <1>19

(* Who listens is sent what the handler appended.                          *)
LEMMA StreamedInforms ==
  ASSUME CenterInv, NEW h, Mirror(h), NEW T, Sound(T, h[latest]),
         NEW h2, Continues(h2, h, latest, T), Earliest \in Int, Earliest' \in Int, Earliest' >= Earliest,
         latest' = latest + Len(T.events), NEW c \in Subscriber, NEW x, x = Streamed(T)[c]
  PROVE  /\ x \in Seq(Messages)
         /\ c \notin Misled(T) => Informed(h2, link[c], x, cursor[c], copy[c], latest', Earliest')
<1>1. T \in Tables /\ latest \in Nat
  BY SoundTables, BoundsAssumption DEF CenterInv, TablesOK
<1>2. PICK open \in BOOLEAN, w \in Seq(Messages), k \in Nat :
        open = link[c] /\ w = wire[c] /\ k = cursor[c]
  BY DEF CenterInv, StreamOK
<1>3. PICK e, u \in Seq(Events) : e = T.events /\ u = T.undone
  BY <1>1 DEF Tables
<1>4. x = IF open THEN w \o Sent(e \o u) ELSE w
  BY <1>2, <1>3, Zenon DEF Streamed
<1>5. x \in Seq(Messages)
  <2>1. Sent(e \o u) \in Seq(Messages)
    <3>1. e \o u \in Seq(Events)
      OBVIOUS
    <3>2. QED
      BY <1>1, <3>1, SentIs
  <2>2. w \o Sent(e \o u) \in Seq(Messages)
    BY <2>1, ConcatProperties, Zenon
  <2>3. QED
    BY <1>4, <2>2
<1>6. ASSUME c \notin Misled(T)
      PROVE  Informed(h2, open, x, k, copy[c], latest', Earliest')
  <2>1. c \notin misled /\ (u = << >> \/ ~open)
    BY <1>2, <1>3, <1>6 DEF Misled
  <2>2. Fed(x, open, w, T)
    <3>1. CASE u = << >>
      <4>1. e \o u = e
        BY <3>1
      <4>2. QED
        BY <1>3, <1>4, <4>1 DEF Fed
    <3>2. CASE ~open
      BY <1>4, <3>2 DEF Fed
    <3>3. QED
      BY <2>1, <3>1, <3>2
  <2>3. PICK v, m, first, next :
          v = copy[c] /\ m = latest' /\ first = Earliest /\ next = Earliest'
    OBVIOUS
  <2>4. Informed(h, open, w, k, v, latest, first)
    BY <1>2, <2>1, <2>3 DEF Mirror
  <2>5. first \in Int /\ next \in Int /\ next >= first /\ m = latest + Len(T.events)
    BY <2>3
  <2>6. Informed(h2, open, x, k, v, m, next)
    BY <1>1, <2>2, <2>4, <2>5, InformedOn
  <2>7. QED
    BY <2>3, <2>6
<1>7. QED
  BY <1>2, <1>5, <1>6

(* A handler keeps the invariant if it places nobody the manager does not  *)
(* have.                                                                   *)
LEMMA HandlerKeeps ==
  ASSUME CenterInv, ManagerOK', NEW h, Mirror(h), NEW T, Sound(T, h[latest]), Commits(T),
         \A s \in Session : up' /\ surveyed' /\ T.place[s] # None => s \in stored'
  PROVE  CenterInv'
<1>1. Explains(h, latest, store, log) /\ Appended(T)
  BY DEF Mirror, Commits
<1>2. /\ ProcessOK' /\ TablesOK' /\ StoreOK' /\ store'.place = T.place
      /\ latest' = latest + Len(T.events)
      /\ Earliest \in Int /\ Earliest' \in Int /\ Earliest' >= Earliest
      /\ \E h2 : Explains(h2, latest', store', log') /\ Continues(h2, h, latest, T)
  BY <1>1, AppendedKeeps DEF CenterInv
<1>3. PICK h2 : Explains(h2, latest', store', log') /\ Continues(h2, h, latest, T)
  BY <1>2
<1>4. /\ wire' = Streamed(T) /\ misled' = Misled(T)
      /\ link' = link /\ cursor' = cursor /\ copy' = copy /\ drops' = drops
  BY DEF Commits
<1>5. ASSUME NEW c \in Subscriber
      PROVE  /\ wire'[c] \in Seq(Messages)
             /\ c \notin misled' => Informed(h2, link'[c], wire'[c], cursor'[c], copy'[c], latest', Earliest')
  <2>1. PICK x : x = Streamed(T)[c]
    OBVIOUS
  <2>2. /\ x \in Seq(Messages)
        /\ c \notin Misled(T) => Informed(h2, link[c], x, cursor[c], copy[c], latest', Earliest')
    BY <1>2, <1>3, <2>1, StreamedInforms
  <2>3. QED
    BY <1>4, <2>1, <2>2
<1>6. StreamOK'
  <2>1. misled' \subseteq Subscriber
    BY <1>4 DEF CenterInv, StreamOK, Misled
  <2>2. wire' \in [Subscriber -> Seq(Messages)]
    <3>1. wire' = [c \in Subscriber |->
                     IF link[c] THEN wire[c] \o Sent(T.events \o T.undone) ELSE wire[c]]
      BY <1>4 DEF Streamed
    <3>2. QED
      BY <1>5, <3>1
  <2>3. QED
    BY <1>4, <2>1, <2>2 DEF CenterInv, StreamOK
<1>7. MirrorOK'
  <2>1. Mirror(h2)'
    BY <1>3, <1>5 DEF Mirror
  <2>2. QED
    BY <2>1 DEF MirrorOK
<1>8. PlacedOK'
  BY <1>2 DEF PlacedOK
<1>9. QED
  BY <1>2, <1>6, <1>7, <1>8 DEF CenterInv

-----------------------------------------------------------------------------
(* One lemma for each action.                                              *)
LEMMA CreateKeeps ==
  ASSUME CenterInv, NEW n \in Lives, NEW s \in Session, NEW d \in Dir, Create(s, d, n)
  PROVE  CenterInv'
<1>1. PICK h : Begins(h, Until(n))
  BY HandlerBegins
<1>2. PICK U, K : U = Until(n) /\ K = h[latest]
  OBVIOUS
<1>3. Mirror(h) /\ Sound(U, K) /\ U.place = store.place
  BY <1>1, <1>2 DEF Begins
<1>4. PICK a \in Activity \cup {None} : a = None
  OBVIOUS
<1>5. PICK T : T = SyncAs(U, s, d, a)
  OBVIOUS
<1>6. Sound(T, K) /\ \A r \in Session \ {s} : T.place[r] = U.place[r]
  BY <1>3, <1>5, SyncSound
<1>7. ManagerOK'
  BY DEF CenterInv, ManagerOK, Create
<1>8. Commits(T)
  BY <1>2, <1>4, <1>5 DEF Create
<1>9. \A r \in Session : up' /\ surveyed' /\ T.place[r] # None => r \in stored'
  BY <1>3, <1>6 DEF CenterInv, PlacedOK, Create
<1>10. QED
  BY <1>2, <1>3, <1>6, <1>7, <1>8, <1>9, HandlerKeeps

LEMMA ReportsKeeps ==
  ASSUME CenterInv, NEW n \in Lives, NEW s \in Session, NEW a \in Activity \cup {None},
         Reports(s, a, n)
  PROVE  CenterInv'
<1>1. PICK h : Begins(h, Until(n))
  BY HandlerBegins
<1>2. PICK U, K : U = Until(n) /\ K = h[latest]
  OBVIOUS
<1>3. Mirror(h) /\ Sound(U, K) /\ U.place = store.place
  BY <1>1, <1>2 DEF Begins
<1>4. PICK d \in Dir : d = cwd[s]
  BY DEF CenterInv, ManagerOK
<1>5. PICK T : T = SyncAs(U, s, d, a)
  OBVIOUS
<1>6. Sound(T, K) /\ \A r \in Session \ {s} : T.place[r] = U.place[r]
  BY <1>3, <1>5, SyncSound
<1>7. ManagerOK'
  BY DEF CenterInv, ManagerOK, Reports
<1>8. Commits(T)
  BY <1>2, <1>4, <1>5 DEF Reports
<1>9. \A r \in Session : up' /\ surveyed' /\ T.place[r] # None => r \in stored'
  BY <1>3, <1>6 DEF CenterInv, PlacedOK, Reports, ManagerOK
<1>10. QED
  BY <1>2, <1>3, <1>6, <1>7, <1>8, <1>9, HandlerKeeps

LEMMA NeedsKeeps ==
  ASSUME CenterInv, NEW n \in Lives, NEW s \in Session, Needs(s, n)
  PROVE  CenterInv'
<1>1. PICK h : Begins(h, Until(n))
  BY HandlerBegins
<1>2. PICK U, K : U = Until(n) /\ K = h[latest]
  OBVIOUS
<1>3. Mirror(h) /\ Sound(U, K) /\ U.place = store.place
  BY <1>1, <1>2 DEF Begins
<1>4. PICK d \in Dir, a \in Activity \cup {None} : d = cwd[s] /\ a = reports[s]
  BY DEF CenterInv, ManagerOK
<1>5. PICK S : S = SyncAs(U, s, d, a)
  OBVIOUS
<1>6. Sound(S, K) /\ \A r \in Session \ {s} : S.place[r] = U.place[r]
  BY <1>3, <1>5, SyncSound
<1>7. PICK T : T = IF S.agent[s] = None THEN S ELSE RecordItem(S, s)
  OBVIOUS
<1>8. Sound(T, K) /\ T.place = S.place
  <2>1. CASE S.agent[s] = None
    BY <1>6, <1>7, <2>1
  <2>2. CASE S.agent[s] # None
    <3>1. T = RecordItem(S, s)
      BY <1>7, <2>2
    <3>2. QED
      BY <1>6, <2>2, <3>1, RecordItemSound
  <2>3. QED
    BY <2>1, <2>2
<1>9. ManagerOK'
  BY DEF CenterInv, ManagerOK, Needs, manager
<1>10. Commits(T)
  BY <1>2, <1>4, <1>5, <1>7 DEF Needs
<1>11. \A r \in Session : up' /\ surveyed' /\ T.place[r] # None => r \in stored'
  BY <1>3, <1>6, <1>8 DEF CenterInv, PlacedOK, Needs, ManagerOK, manager
<1>12. QED
  BY <1>2, <1>3, <1>8, <1>9, <1>10, <1>11, HandlerKeeps

(* The others leave the manager alone and place nobody.                    *)
LEMMA QuietHandlerKeeps ==
  ASSUME CenterInv, NEW n \in Lives, up, UNCHANGED <<surveyed, manager>>,
         NEW h, Begins(h, Until(n)), NEW T, Sound(T, h[latest]), Commits(T),
         \A r \in Session : T.place[r] # None => store.place[r] # None
  PROVE  CenterInv'
<1>1. ManagerOK'
  BY DEF CenterInv, ManagerOK, manager
<1>2. \A r \in Session : up' /\ surveyed' /\ T.place[r] # None => r \in stored'
  BY DEF CenterInv, PlacedOK, manager
<1>3. Mirror(h)
  BY DEF Begins
<1>4. QED
  BY <1>1, <1>2, <1>3, HandlerKeeps

LEMMA AnsweredKeeps ==
  ASSUME CenterInv, NEW n \in Lives, NEW s \in Session, Answered(s, n)
  PROVE  CenterInv'
<1>1. PICK h : Begins(h, Until(n))
  BY HandlerBegins
<1>2. PICK U, K : U = Until(n) /\ K = h[latest]
  OBVIOUS
<1>3. Sound(U, K) /\ U.place = store.place
  BY <1>1, <1>2 DEF Begins
<1>4. PICK T : T = ResolveItem(U, s)
  OBVIOUS
<1>5. Sound(T, K) /\ T.place = U.place
  BY <1>3, <1>4, ResolveItemSound
<1>6. Commits(T) /\ up /\ UNCHANGED <<surveyed, manager>>
  BY <1>2, <1>4 DEF Answered
<1>7. QED
  BY <1>1, <1>2, <1>3, <1>5, <1>6, QuietHandlerKeeps

LEMMA AddDirectoryKeeps ==
  ASSUME CenterInv, NEW n \in Lives, NEW d \in Dir, AddDirectory(d, n)
  PROVE  CenterInv'
<1>1. PICK h : Begins(h, Until(n))
  BY HandlerBegins
<1>2. PICK U, K : U = Until(n) /\ K = h[latest]
  OBVIOUS
<1>3. Sound(U, K) /\ U.place = store.place
  BY <1>1, <1>2 DEF Begins
<1>4. PICK T : T = AddWorkspace(U, d)
  OBVIOUS
<1>5. Sound(T, K) /\ T.place = U.place
  BY <1>3, <1>4, AddSound
<1>6. Commits(T) /\ up /\ UNCHANGED <<surveyed, manager>>
  BY <1>2, <1>4 DEF AddDirectory
<1>7. QED
  BY <1>1, <1>2, <1>3, <1>5, <1>6, QuietHandlerKeeps

LEMMA EditDirectoryKeeps ==
  ASSUME CenterInv, NEW n \in Lives, NEW d \in Dir, NEW archived \in BOOLEAN,
         EditDirectory(d, archived, n)
  PROVE  CenterInv'
<1>1. PICK h : Begins(h, Until(n))
  BY HandlerBegins
<1>2. PICK U, K : U = Until(n) /\ K = h[latest]
  OBVIOUS
<1>3. Sound(U, K) /\ U.place = store.place
  BY <1>1, <1>2 DEF Begins
<1>4. PICK T : T = UpdateWorkspace(U, d, archived)
  OBVIOUS
<1>5. Sound(T, K) /\ T.place = U.place
  BY <1>3, <1>4, UpdateSound
<1>6. Commits(T) /\ up /\ UNCHANGED <<surveyed, manager>>
  BY <1>2, <1>4 DEF EditDirectory
<1>7. QED
  BY <1>1, <1>2, <1>3, <1>5, <1>6, QuietHandlerKeeps

LEMMA DeleteKeeps ==
  ASSUME CenterInv, NEW n \in Lives, NEW s \in Session, Delete(s, n)
  PROVE  CenterInv'
<1>1. PICK h : Begins(h, Until(n))
  BY HandlerBegins
<1>2. PICK U, K : U = Until(n) /\ K = h[latest]
  OBVIOUS
<1>3. Mirror(h) /\ Sound(U, K) /\ U.place = store.place
  BY <1>1, <1>2 DEF Begins
<1>4. PICK T : T = Transaction(U, RemoveSession(U, s))
  OBVIOUS
<1>5. /\ Sound(T, K) /\ \A r \in Session \ {s} : T.place[r] = U.place[r]
      /\ T.left # 0 => T.place[s] = None
  BY <1>3, <1>4, DeleteSound
<1>6. Commits(T)
  BY <1>2, <1>4 DEF Delete
<1>7. ManagerOK'
  BY DEF CenterInv, ManagerOK, Delete, Forgotten
<1>8. up' => T.place[s] = None
  BY <1>5, <1>6 DEF Commits, Appended
<1>9. \A r \in Session : up' /\ surveyed' /\ T.place[r] # None => r \in stored'
  BY <1>3, <1>5, <1>8 DEF CenterInv, PlacedOK, Delete, Forgotten
<1>10. QED
  BY <1>2, <1>3, <1>5, <1>6, <1>7, <1>9, HandlerKeeps

LEMMA CrashKeeps ==
  ASSUME CenterInv, Crash
  PROVE  CenterInv'
<1>1. ProcessOK'
  <2>1. PICK c \in Nat : c = crashes /\ c <= MaxCrashes
    BY BoundsAssumption DEF CenterInv, ProcessOK
  <2>2. up' \in BOOLEAN /\ crashes' = c + 1 /\ c < MaxCrashes
    BY <2>1 DEF Crash
  <2>3. crashes' \in 0 .. MaxCrashes
    BY <2>1, <2>2, BoundsAssumption
  <2>4. QED
    BY <2>2, <2>3 DEF ProcessOK
<1>2. UNCHANGED <<surveyed, manager, tables, stream>> /\ ~up'
  BY DEF Crash
<1>3. ManagerOK' /\ TablesOK' /\ StreamOK' /\ StoreOK'
  BY <1>2 DEF CenterInv, ManagerOK, TablesOK, StreamOK, StoreOK, manager, tables, stream
<1>4. MirrorOK'
  BY <1>2 DEF CenterInv, MirrorOK, Mirror, Earliest, tables, stream
<1>5. QED
  BY <1>1, <1>2, <1>3, <1>4 DEF CenterInv, PlacedOK

(* At a boot nobody listens.                                               *)
LEMMA DeafStream ==
  ASSUME CenterInv, Restart
  PROVE  StreamOK' /\ \A c \in Subscriber : ~link'[c] /\ wire'[c] = << >>
<1>1. PICK e \in Seq(Messages) : e = << >>
  BY EmptySeq, Zenon
<1>2. link' = [c \in Subscriber |-> FALSE] /\ wire' = [c \in Subscriber |-> e]
      /\ UNCHANGED <<cursor, copy, misled, drops>>
  BY <1>1 DEF Restart
<1>3. link' \in [Subscriber -> BOOLEAN] /\ wire' \in [Subscriber -> Seq(Messages)]
  BY <1>1, <1>2
<1>4. QED
  BY <1>1, <1>2, <1>3 DEF CenterInv, StreamOK

LEMMA SurveyKeeps ==
  ASSUME CenterInv, Restart, surveyed' = TRUE, NEW alive \in SUBSET stored,
         NEW known \in SUBSET alive, NEW n \in Lives, Boot(alive, known, n)
  PROVE  CenterInv'
<1>1. PICK h : Begins(h, Until(n))
  BY HandlerBegins
<1>2. PICK U, K : U = Until(n) /\ K = h[latest]
  OBVIOUS
<1>3. Mirror(h) /\ Sound(U, K)
  BY <1>1, <1>2 DEF Begins
<1>4. alive \in SUBSET Session /\ known \in SUBSET Session
  BY DEF CenterInv, ManagerOK
<1>5. PICK says : says = [s \in Session |-> None]
  OBVIOUS
<1>6. says \in [Session -> Activity \cup {None}] /\ cwd \in [Session -> Dir]
  BY <1>5 DEF CenterInv, ManagerOK
<1>7. PICK R, T : R = Reconcile(U, alive) /\ T = SyncAll(R, known, says)
  OBVIOUS
<1>8. Sound(R, K) /\ (R.left # 0 => \A r \in Session \ alive : R.place[r] = None)
  BY <1>3, <1>4, <1>7, ReconcileSound
<1>9. /\ Sound(T, K) /\ \A r \in Session \ known : T.place[r] = R.place[r]
      /\ T.left # 0 => R.left # 0
  BY <1>4, <1>6, <1>7, <1>8, SyncAllSound
<1>10. Appended(T) /\ stored' = alive /\ listed' = known /\ reports' = says
  BY <1>2, <1>5, <1>7 DEF Boot
<1>11. ManagerOK'
  BY <1>4, <1>6, <1>10 DEF CenterInv, ManagerOK, Restart
<1>12. /\ ProcessOK' /\ TablesOK' /\ StoreOK' /\ store'.place = T.place
       /\ latest' = latest + Len(T.events)
       /\ Earliest \in Int /\ Earliest' \in Int /\ Earliest' >= Earliest
       /\ \E h2 : Explains(h2, latest', store', log') /\ Continues(h2, h, latest, T)
  BY <1>2, <1>3, <1>9, <1>10, AppendedKeeps DEF CenterInv, Mirror
<1>13. PICK h2 : Explains(h2, latest', store', log') /\ Continues(h2, h, latest, T)
  BY <1>12
<1>14. PlacedOK'
  <2>1. up' => R.left # 0
    BY <1>9, <1>10 DEF Appended
  <2>2. up' => \A r \in Session : T.place[r] # None => r \in alive
    BY <1>8, <1>9, <2>1
  <2>3. QED
    BY <1>10, <1>12, <2>2 DEF PlacedOK
<1>15. StreamOK' /\ (\A c \in Subscriber : ~link'[c] /\ wire'[c] = << >>)
       /\ cursor' = cursor /\ copy' = copy /\ misled' = misled
  BY DeafStream DEF Restart
<1>16. ASSUME NEW c \in Subscriber \ misled'
       PROVE  Informed(h2, link'[c], wire'[c], cursor'[c], copy'[c], latest', Earliest')
  <2>1. PICK k \in Nat : k = cursor[c]
    BY DEF CenterInv, StreamOK
  <2>2. Informed(h, link[c], wire[c], k, copy[c], latest, Earliest)
    BY <1>3, <1>15, <1>16, <2>1 DEF Mirror
  <2>3. k <= latest /\ (k # 0 /\ k + 1 >= Earliest => copy[c] \in h[k])
    BY <2>2 DEF Informed
  <2>4. latest \in Nat /\ Len(T.events) \in Nat
    BY <1>9, SoundTables, BoundsAssumption DEF CenterInv, TablesOK, Tables
  <2>5. k \in 0 .. latest /\ k <= latest'
    BY <1>12, <2>3, <2>4
  <2>6. h[k] \subseteq h2[k]
    BY <1>13, <2>5 DEF Continues
  <2>7. k + 1 >= Earliest' => k + 1 >= Earliest
    BY <1>12
  <2>8. QED
    BY <1>15, <2>1, <2>3, <2>5, <2>6, <2>7 DEF Informed
<1>17. MirrorOK'
  <2>1. Mirror(h2)'
    BY <1>13, <1>16 DEF Mirror
  <2>2. QED
    BY <2>1 DEF MirrorOK
<1>18. QED
  BY <1>11, <1>12, <1>14, <1>15, <1>17 DEF CenterInv

LEMMA RestartKeeps ==
  ASSUME CenterInv, Restart
  PROVE  CenterInv'
<1>1. CASE /\ surveyed' = TRUE
           /\ \E alive \in SUBSET stored : \E known \in SUBSET alive, n \in Lives : Boot(alive, known, n)
  <2>1. PICK alive \in SUBSET stored : \E known \in SUBSET alive, n \in Lives : Boot(alive, known, n)
    BY <1>1
  <2>2. PICK known \in SUBSET alive, n \in Lives : Boot(alive, known, n)
    BY <2>1
  <2>3. QED
    BY <1>1, <2>2, SurveyKeeps
<1>2. CASE surveyed' = FALSE /\ up' = TRUE /\ listed' = {} /\ UNCHANGED <<crashes, stored, reports, tables>>
  <2>1. ProcessOK' /\ ManagerOK' /\ PlacedOK'
    BY <1>2 DEF CenterInv, ProcessOK, ManagerOK, PlacedOK, Restart
  <2>2. TablesOK' /\ StoreOK'
    BY <1>2 DEF CenterInv, TablesOK, StoreOK, tables
  <2>3. StreamOK' /\ (\A c \in Subscriber : ~link'[c] /\ wire'[c] = << >>)
        /\ cursor' = cursor /\ copy' = copy /\ misled' = misled
    BY DeafStream DEF Restart
  <2>4. MirrorOK'
    <3>1. PICK h : Mirror(h)
      BY DEF CenterInv, MirrorOK
    <3>2. latest' = latest /\ log' = log /\ store' = store /\ Earliest' = Earliest
      BY <1>2 DEF tables, Earliest
    <3>3. ASSUME NEW c \in Subscriber \ misled'
          PROVE  Informed(h, link'[c], wire'[c], cursor'[c], copy'[c], latest', Earliest')
      <4>1. Informed(h, link[c], wire[c], cursor[c], copy[c], latest, Earliest)
        BY <2>3, <3>1, <3>3 DEF Mirror
      <4>2. QED
        BY <2>3, <3>2, <4>1 DEF Informed
    <3>4. Mirror(h)'
      BY <3>1, <3>2, <3>3 DEF Mirror
    <3>5. QED
      BY <3>4 DEF MirrorOK
  <2>5. QED
    BY <2>1, <2>2, <2>3, <2>4 DEF CenterInv
<1>3. QED
  BY <1>1, <1>2 DEF Restart

(* What is kept after a cursor that is not lost follows it without a gap.  *)
LEMMA LogFollows ==
  ASSUME TablesOK, NEW h, Explains(h, latest, store, log),
         NEW k \in Nat, ~Lost(k), NEW w, w = EventsAfter(k)
  PROVE  /\ k <= latest /\ k + 1 >= Earliest
         /\ w \in Seq(Messages) /\ Follows(h, w, 0, k, latest)
<1>1. PICK n, l \in Nat : n = latest /\ l = Len(log)
  BY BoundsAssumption DEF TablesOK
<1>2. l <= n /\ log \in Seq(Events)
  BY <1>1 DEF TablesOK
<1>3. k <= n /\ k >= n - l
  BY <1>1, <1>2 DEF Lost, Earliest
<1>4. PICK skip \in Nat : skip = k - (n - l)
  BY <1>2, <1>3
<1>5. skip = IF k < Earliest THEN 0 ELSE k - Earliest + 1
  BY <1>1, <1>2, <1>3, <1>4 DEF Earliest
<1>6. Earliest = n - l + 1
  BY <1>1 DEF Earliest
<1>7. w = [i \in 1 .. l - skip |-> [id |-> Earliest + skip + i - 1, event |-> log[skip + i]]]
  BY <1>1, <1>5 DEF EventsAfter
<1>8. PICK m \in Nat : m = l - skip
  BY <1>2, <1>3, <1>4
<1>9. m = n - k
  BY <1>4, <1>8
<1>10. \A i \in 1 .. m : /\ w[i] = [id |-> k + i, event |-> log[skip + i]]
                         /\ log[skip + i] \in Events /\ w[i] \in Messages
                         /\ Hears(h[k + i], h[k + i - 1], log[skip + i])
  <2>1. SUFFICES ASSUME NEW i \in 1 .. m
                 PROVE  /\ w[i] = [id |-> k + i, event |-> log[skip + i]]
                        /\ log[skip + i] \in Events /\ w[i] \in Messages
                        /\ Hears(h[k + i], h[k + i - 1], log[skip + i])
    OBVIOUS
  <2>2. PICK j \in 1 .. l : j = skip + i
    BY <1>4, <1>8
  <2>3. Earliest + skip + i - 1 = k + i /\ n - l + j = k + i /\ n - l + j - 1 = k + i - 1
    BY <1>4, <1>6, <2>2
  <2>4. w[i] = [id |-> k + i, event |-> log[j]]
    BY <1>7, <1>8, <2>2, <2>3
  <2>5. PICK e \in Events, y \in Nat : e = log[j] /\ y = k + i
    BY <1>1, <1>2, <2>2
  <2>6. [id |-> y, event |-> e] \in Messages
    BY Zenon DEF Messages
  <2>7. w[i] \in Messages /\ log[j] \in Events
    BY <2>4, <2>5, <2>6
  <2>8. Hears(h[n - l + j], h[n - l + j - 1], log[j])
    BY <1>1, <2>2 DEF Explains
  <2>9. QED
    BY <2>2, <2>3, <2>4, <2>7, <2>8
<1>11. w \in [1 .. m -> Messages]
  BY <1>7, <1>8, <1>10
<1>12. w \in Seq(Messages) /\ Len(w) = m
  BY <1>11
<1>13. Follows(h, w, 0, k, n)
  <2>1. Len(w) = 0 + (n - k)
    BY <1>9, <1>12
  <2>2. \A i \in 1 .. n - k : 0 + i = i /\ i \in 1 .. m
    BY <1>9
  <2>3. ASSUME NEW i \in 1 .. n - k
        PROVE  \E e \in Events : w[0 + i] = [id |-> k + i, event |-> e] /\ Hears(h[k + i], h[k + i - 1], e)
    <3>1. 0 + i = i /\ i \in 1 .. m
      BY <2>2
    <3>2. PICK e \in Events : e = log[skip + i]
      BY <1>10, <3>1
    <3>3. w[i] = [id |-> k + i, event |-> e] /\ Hears(h[k + i], h[k + i - 1], e)
      BY <1>10, <3>1, <3>2
    <3>4. QED
      BY <3>1, <3>3
  <2>4. QED
    BY <2>1, <2>3 DEF Follows
<1>14. QED
  BY <1>1, <1>3, <1>6, <1>12, <1>13

LEMMA ResumeKeeps ==
  ASSUME CenterInv, NEW c \in Subscriber, Resume(c)
  PROVE  CenterInv'
<1>1. PICK h : Mirror(h)
  BY DEF CenterInv, MirrorOK
<1>2. /\ UNCHANGED <<up, crashes, surveyed, manager, tables, cursor, copy, misled, drops>>
      /\ link' = [link EXCEPT ![c] = TRUE]
  BY DEF Resume
<1>3. ProcessOK' /\ ManagerOK' /\ TablesOK' /\ StoreOK' /\ PlacedOK' /\ Earliest' = Earliest
  BY <1>2 DEF CenterInv, ProcessOK, ManagerOK, TablesOK, StoreOK, PlacedOK, Earliest, tables, manager
<1>4. PICK k \in Nat : k = cursor[c]
  BY DEF CenterInv, StreamOK
<1>5. PICK w : w = EventsAfter(k)
  OBVIOUS
<1>6. k # 0 /\ ~Lost(k) /\ wire' = [wire EXCEPT ![c] = w]
  BY <1>4, <1>5 DEF Resume
<1>7. k <= latest /\ k + 1 >= Earliest /\ w \in Seq(Messages) /\ Follows(h, w, 0, k, latest)
  <2>1. TablesOK /\ Explains(h, latest, store, log)
    BY <1>1 DEF CenterInv, Mirror
  <2>2. QED
    BY <1>5, <1>6, <2>1, LogFollows
<1>8. /\ wire'[c] = w /\ \A b \in Subscriber \ {c} : wire'[b] = wire[b] /\ link'[b] = link[b]
      /\ wire' \in [Subscriber -> Seq(Messages)]
      /\ link'[c] = TRUE /\ link' \in [Subscriber -> BOOLEAN]
  BY <1>2, <1>6, <1>7 DEF CenterInv, StreamOK
<1>9. StreamOK'
  BY <1>2, <1>8 DEF CenterInv, StreamOK
<1>10. ASSUME NEW b \in Subscriber \ misled'
       PROVE  Informed(h, link'[b], wire'[b], cursor'[b], copy'[b], latest', Earliest')
  <2>1. Informed(h, link[b], wire[b], cursor[b], copy[b], latest, Earliest)
    BY <1>1, <1>2, <1>10 DEF Mirror
  <2>2. latest' = latest
    BY <1>2 DEF tables
  <2>3. CASE b # c
    BY <1>2, <1>3, <1>8, <2>1, <2>2, <2>3
  <2>4. CASE b = c
    <3>1. copy[c] \in h[k]
      BY <1>4, <1>6, <1>7, <2>1, <2>4 DEF Informed
    <3>2. Informed(h, TRUE, w, k, copy[c], latest, Earliest)
      BY <1>7, <3>1 DEF Informed
    <3>3. QED
      BY <1>2, <1>3, <1>4, <1>8, <2>2, <2>4, <3>2
  <2>5. QED
    BY <2>3, <2>4
<1>11. MirrorOK'
  <2>1. Mirror(h)'
    BY <1>1, <1>2, <1>10 DEF Mirror, tables
  <2>2. QED
    BY <2>1 DEF MirrorOK
<1>12. QED
  BY <1>3, <1>9, <1>11 DEF CenterInv

LEMMA SnapshotKeeps ==
  ASSUME CenterInv, NEW c \in Subscriber, NEW n \in Lives, Snapshot(c, n)
  PROVE  CenterInv'
<1>1. PICK h : Begins(h, Until(n))
  BY HandlerBegins
<1>2. PICK U, K : U = Until(n) /\ K = h[latest]
  OBVIOUS
<1>3. Mirror(h) /\ Sound(U, K) /\ U.place = store.place
  BY <1>1, <1>2 DEF Begins
<1>4. PICK S : S = SyncAll(U, listed, reports)
  OBVIOUS
<1>5. /\ listed \in SUBSET Session /\ cwd \in [Session -> Dir]
      /\ reports \in [Session -> Activity \cup {None}]
  BY DEF CenterInv, ManagerOK
<1>6. Sound(S, K) /\ \A r \in Session \ listed : S.place[r] = U.place[r]
  BY <1>3, <1>4, <1>5, SyncAllSound
<1>7. ManagerOK' /\ up /\ UNCHANGED <<surveyed, manager>>
  BY DEF CenterInv, ManagerOK, Snapshot, manager
<1>8. \A r \in Session : up' /\ surveyed' /\ S.place[r] # None => r \in stored'
  BY <1>3, <1>6, <1>7 DEF CenterInv, PlacedOK, ManagerOK, manager
<1>9. CASE Commits(S)
  BY <1>2, <1>3, <1>6, <1>7, <1>8, <1>9, HandlerKeeps
<1>10. CASE /\ Appended(S) /\ link' = [link EXCEPT ![c] = TRUE]
            /\ wire' = [Streamed(S) EXCEPT ![c] = <<[id |-> latest', view |-> View(S)]>>]
            /\ misled' = (IF cursor[c] <= latest THEN Misled(S) \ {c} ELSE Misled(S))
            /\ UNCHANGED <<cursor, copy, drops>>
            /\ S.left # 0
  <2>1. /\ ProcessOK' /\ TablesOK' /\ StoreOK' /\ store'.place = S.place
        /\ latest' = latest + Len(S.events) /\ View(store') = View(S)
        /\ Earliest \in Int /\ Earliest' \in Int /\ Earliest' >= Earliest
        /\ \E h2 : Explains(h2, latest', store', log') /\ Continues(h2, h, latest, S)
    BY <1>2, <1>3, <1>6, <1>10, AppendedKeeps DEF CenterInv, Mirror
  <2>2. PICK h2 : Explains(h2, latest', store', log') /\ Continues(h2, h, latest, S)
    BY <2>1
  <2>3. S \in Tables /\ latest \in Nat /\ Len(S.events) \in Nat
    BY <1>6, SoundTables, BoundsAssumption DEF CenterInv, TablesOK, Tables
  <2>4. PICK m, k \in Nat : m = latest' /\ k = cursor[c] /\ latest <= m
    <3>1. latest' \in Nat /\ cursor[c] \in Nat /\ latest <= latest'
      BY <2>1, <2>3, BoundsAssumption DEF CenterInv, TablesOK, StreamOK
    <3>2. QED
      BY <3>1
  <2>5. PICK x : x = [id |-> m, view |-> View(S)]
    OBVIOUS
  <2>6. x \in Messages
    <3>1. PICK v \in Views : v = View(S)
      BY <2>3, ViewType
    <3>2. [id |-> m, view |-> v] \in Messages
      BY Zenon DEF Messages
    <3>3. QED
      BY <2>5, <3>1, <3>2
  <2>7. PICK w : w = <<x>>
    OBVIOUS
  <2>8. w \in Seq(Messages) /\ Len(w) = 1 /\ w[1] = x
    BY <2>6, <2>7
  <2>9. ASSUME NEW b \in Subscriber \ {c}
        PROVE  /\ Streamed(S)[b] \in Seq(Messages)
               /\ b \notin misled' => Informed(h2, link[b], Streamed(S)[b], cursor[b], copy[b], latest', Earliest')
    <3>1. PICK y : y = Streamed(S)[b]
      OBVIOUS
    <3>2. /\ y \in Seq(Messages)
          /\ b \notin Misled(S) => Informed(h2, link[b], y, cursor[b], copy[b], latest', Earliest')
      BY <1>2, <1>3, <1>6, <2>1, <2>2, <3>1, StreamedInforms
    <3>3. b \notin misled' => b \notin Misled(S)
      BY <1>10
    <3>4. QED
      BY <3>1, <3>2, <3>3
  <2>10. /\ wire'[c] = w /\ \A b \in Subscriber \ {c} : wire'[b] = Streamed(S)[b] /\ link'[b] = link[b]
        /\ wire' \in [Subscriber -> Seq(Messages)]
        /\ link'[c] = TRUE /\ link' \in [Subscriber -> BOOLEAN]
    <3>1. PICK y : y = Streamed(S)
      OBVIOUS
    <3>2. y = [b \in Subscriber |-> IF link[b] THEN wire[b] \o Sent(S.events \o S.undone) ELSE wire[b]]
      BY <3>1 DEF Streamed
    <3>3. wire' = [y EXCEPT ![c] = w]
      BY <1>10, <2>4, <2>5, <2>7, <3>1
    <3>4. wire'[c] = w /\ (\A b \in Subscriber \ {c} : wire'[b] = y[b]) /\ DOMAIN wire' = Subscriber
          /\ wire' = [b \in Subscriber |-> wire'[b]]
      BY <3>2, <3>3
    <3>5. \A b \in Subscriber : wire'[b] \in Seq(Messages)
      BY <2>9, <2>8, <3>1, <3>4
    <3>6. wire' \in [Subscriber -> Seq(Messages)]
      BY <3>4, <3>5
    <3>7. QED
      BY <1>10, <3>1, <3>4, <3>6 DEF CenterInv, StreamOK
  <2>11. StreamOK'
    <3>1. misled' \subseteq Subscriber
      BY <1>10 DEF CenterInv, StreamOK, Misled
    <3>2. QED
      BY <1>10, <2>10, <3>1 DEF CenterInv, StreamOK
  <2>12. ASSUME NEW b \in Subscriber \ misled'
         PROVE  Informed(h2, link'[b], wire'[b], cursor'[b], copy'[b], latest', Earliest')
    <3>1. CASE b # c
      BY <1>10, <2>9, <2>10, <2>12, <3>1
    <3>2. CASE b = c
      <4>1. k <= latest \/ c \notin misled
        BY <1>10, <2>4, <2>12, <3>2 DEF Misled
      <4>2. c \notin misled => Informed(h, link[c], wire[c], k, copy[c], latest, Earliest)
        BY <1>3, <2>4 DEF Mirror
      <4>3. k <= latest
        BY <4>1, <4>2 DEF Informed
      <4>4. k = 0 \/ k + 1 < Earliest
        <5>1. cursor[c] = 0 \/ Lost(cursor[c])
          BY DEF Snapshot
        <5>2. QED
          BY <2>3, <2>4, <4>3, <5>1 DEF Lost
      <4>5. k <= m /\ ~(k # 0 /\ k + 1 >= Earliest')
        BY <2>1, <2>3, <2>4, <4>3, <4>4
      <4>6. View(S) \in h2[m]
        BY <2>1, <2>2, <2>4 DEF Explains, Knows
      <4>7. Follows(h2, w, 1, m, m)
        <5>1. Len(w) = 1 + (m - m) /\ \A i \in 1 .. m - m : FALSE
          BY <2>8
        <5>2. QED
          BY <5>1 DEF Follows
      <4>8. \E y \in h2[m] : w[1] = [id |-> m, view |-> y]
        BY <2>5, <2>8, <4>6
      <4>9. m \in k .. m
        BY <4>5
      <4>10. Informed(h2, TRUE, w, k, copy[c], m, Earliest')
        BY <4>5, <4>7, <4>8, <4>9 DEF Informed
      <4>11. QED
        BY <1>10, <2>4, <2>10, <3>2, <4>10
    <3>3. QED
      BY <3>1, <3>2
  <2>13. MirrorOK'
    <3>1. Mirror(h2)'
      BY <2>2, <2>12 DEF Mirror
    <3>2. QED
      BY <3>1 DEF MirrorOK
  <2>14. PlacedOK'
    BY <1>8, <2>1 DEF PlacedOK
  <2>15. QED
    BY <1>7, <2>1, <2>11, <2>13, <2>14 DEF CenterInv
<1>11. QED
  BY <1>2, <1>4, <1>9, <1>10 DEF Snapshot

(* The rest of a wire.                                                     *)
LEMMA TailFollows ==
  ASSUME NEW w \in Seq(Messages), w # << >>, NEW h, NEW n \in Nat, NEW k \in 0 .. n,
         NEW o \in {0, 1}, Follows(h, w, o, k, n), NEW t, t = Tail(w),
         NEW j \in Nat, j = k + 1 - o
  PROVE  t \in Seq(Messages) /\ j <= n /\ Follows(h, t, 0, j, n)
<1>1. PICK z \in Nat : z = Len(w) - 1
  BY EmptySeq
<1>2. t \in Seq(Messages) /\ Len(t) = z /\ \A i \in 1 .. z : t[i] = w[1 + i]
  BY <1>1
<1>3. z + 1 = o + (n - k)
  BY <1>1 DEF Follows
<1>4. z = n - j /\ j <= n
  BY <1>3
<1>5. Len(t) = 0 + (n - j)
  BY <1>2, <1>4
<1>6. ASSUME NEW i \in 1 .. n - j
      PROVE  \E e \in Events : t[0 + i] = [id |-> j + i, event |-> e] /\ Hears(h[j + i], h[j + i - 1], e)
  <2>1. PICK m \in 1 .. n - k : m = i + (1 - o)
    BY <1>4
  <2>2. PICK e \in Events : w[o + m] = [id |-> k + m, event |-> e] /\ Hears(h[k + m], h[k + m - 1], e)
    BY DEF Follows
  <2>3. o + m = 1 + i /\ k + m = j + i /\ k + m - 1 = j + i - 1 /\ 0 + i = i
    BY <2>1
  <2>4. t[i] = w[1 + i]
    BY <1>2, <1>4
  <2>5. QED
    BY <2>2, <2>3, <2>4
<1>7. QED
  BY <1>2, <1>4, <1>5, <1>6 DEF Follows

(* Whatever a message tells, what is known then is a view.                 *)
LEMMA LearntType ==
  ASSUME NEW m \in Messages, NEW v \in Views
  PROVE  /\ m.id \in Nat
         /\ (IF "view" \in DOMAIN m THEN m.view ELSE Told(v, m.event)) \in Views
<1>1. CASE m \in [id : Nat, view : Views]
  BY <1>1
<1>2. CASE m \in [id : Nat, event : Events]
  <2>1. PICK e \in Events : e = m.event /\ m.id \in Nat /\ "view" \notin DOMAIN m
    BY <1>2
  <2>2. PICK dirs \in SUBSET Dir, agents \in [Session -> Activity \cup {None}] :
          v = [dirs |-> dirs, agents |-> agents]
    BY DEF Views
  <2>3. CASE e.what \in Dir
    <3>1. PICK y : y = IF e.is THEN dirs \cup {e.what} ELSE dirs \ {e.what}
      OBVIOUS
    <3>2. Told(v, e) = [v EXCEPT !.dirs = IF e.is THEN @ \cup {e.what} ELSE @ \ {e.what}]
      BY <2>3, SessionAssumption DEF Told
    <3>3. Told(v, e) = [dirs |-> y, agents |-> agents]
      BY <2>2, <3>1, <3>2
    <3>4. y \in SUBSET Dir
      BY <2>3, <3>1
    <3>5. QED
      BY <2>1, <3>3, <3>4 DEF Views
  <2>4. CASE e.what \in Session
    <3>1. e.what \notin Dir /\ e.is \in Activity \cup {None}
      BY <2>4, SessionAssumption, NoneAssumption DEF Events
    <3>2. PICK y \in [Session -> Activity \cup {None}] : y = [agents EXCEPT ![e.what] = e.is]
      BY <2>4, <3>1
    <3>3. Told(v, e) = [v EXCEPT !.agents[e.what] = e.is]
      BY <2>4, <3>1 DEF Told
    <3>4. Told(v, e) = [dirs |-> dirs, agents |-> y]
      BY <2>2, <3>2, <3>3
    <3>5. QED
      BY <2>1, <3>4 DEF Views
  <2>5. CASE e.what \notin Dir /\ e.what \notin Session
    <3>1. Told(v, e) = v
      BY <2>5 DEF Told
    <3>2. QED
      BY <2>1, <3>1
  <2>6. QED
    BY <2>3, <2>4, <2>5
<1>3. QED
  BY <1>1, <1>2, Zenon DEF Messages

LEMMA ReceiveInforms ==
  ASSUME NEW h, NEW n \in Nat, h \in [0 .. n -> SUBSET Views],
         NEW w \in Seq(Messages), w # << >>, NEW k \in Nat, NEW v, NEW first,
         Informed(h, TRUE, w, k, v, n, first),
         NEW m, m = w[1], NEW t, t = Tail(w),
         NEW j, j = IF m.id > k THEN m.id ELSE k,
         NEW y, y = IF "view" \in DOMAIN m THEN m.view ELSE Told(v, m.event)
  PROVE  Informed(h, TRUE, t, j, y, n, first)
<1>1. CASE Follows(h, w, 0, k, n) /\ v \in h[k]
  <2>1. k \in 0 .. n
    BY DEF Informed
  <2>2. PICK z, i \in Nat : z = 0 /\ i = k + 1
    OBVIOUS
  <2>3. z \in {0, 1} /\ Follows(h, w, z, k, n) /\ i = k + 1 - z
    BY <1>1, <2>2
  <2>4. t \in Seq(Messages) /\ i <= n /\ Follows(h, t, 0, i, n)
    <3>1. w # << >> /\ t = Tail(w)
      OBVIOUS
    <3>2. QED
      BY <2>1, <2>3, <3>1, TailFollows, ZenonT(60)
  <2>5. PICK e \in Events : m = [id |-> i, event |-> e] /\ Hears(h[i], h[k], e)
    <3>1. 1 \in 1 .. n - k /\ 0 + 1 = 1 /\ k + 1 - 1 = k
      BY <2>1, <2>2, <2>4
    <3>2. PICK e \in Events : w[0 + 1] = [id |-> k + 1, event |-> e] /\ Hears(h[k + 1], h[k + 1 - 1], e)
      BY <1>1, <3>1 DEF Follows
    <3>3. QED
      BY <2>2, <3>1, <3>2
  <2>6. m.id = i /\ m.event = e /\ "view" \notin DOMAIN m
    BY <2>5
  <2>7. j = i /\ y = Told(v, e)
    BY <2>2, <2>6
  <2>8. y \in h[i]
    BY <1>1, <2>5, <2>7 DEF Hears
  <2>9. QED
    BY <2>4, <2>7, <2>8 DEF Informed
<1>2. CASE \E i \in k .. n : Follows(h, w, 1, i, n) /\ \E x \in h[i] : w[1] = [id |-> i, view |-> x]
  <2>1. PICK i \in k .. n : Follows(h, w, 1, i, n) /\ \E x \in h[i] : w[1] = [id |-> i, view |-> x]
    BY <1>2
  <2>2. PICK x \in h[i] : w[1] = [id |-> i, view |-> x]
    BY <2>1
  <2>3. i \in 0 .. n /\ i \in Nat /\ k <= i
    OBVIOUS
  <2>4. PICK o \in {0, 1} : o = 1
    OBVIOUS
  <2>5. Follows(h, w, o, i, n) /\ i = i + 1 - o
    BY <2>1, <2>3, <2>4
  <2>6. t \in Seq(Messages) /\ i <= n /\ Follows(h, t, 0, i, n)
    <3>1. w # << >> /\ t = Tail(w)
      OBVIOUS
    <3>2. QED
      BY <2>3, <2>5, <3>1, TailFollows, ZenonT(60)
  <2>7. m.id = i /\ m.view = x /\ "view" \in DOMAIN m
    BY <2>2
  <2>8. j = i /\ y = x
    BY <2>3, <2>7
  <2>9. QED
    BY <2>6, <2>8 DEF Informed
<1>3. QED
  BY <1>1, <1>2 DEF Informed

LEMMA ReceiveKeeps ==
  ASSUME CenterInv, NEW c \in Subscriber, Receive(c)
  PROVE  CenterInv'
<1>1. PICK h : Mirror(h)
  BY DEF CenterInv, MirrorOK
<1>2. UNCHANGED <<up, crashes, surveyed, manager, tables, link, misled, drops>>
  BY DEF Receive
<1>3. ProcessOK' /\ ManagerOK' /\ TablesOK' /\ StoreOK' /\ PlacedOK' /\ Earliest' = Earliest
  BY <1>2 DEF CenterInv, ProcessOK, ManagerOK, TablesOK, StoreOK, PlacedOK, Earliest, tables, manager
<1>4. PICK n, k \in Nat : n = latest /\ k = cursor[c]
  <2>1. latest \in Nat /\ cursor[c] \in Nat
    BY BoundsAssumption DEF CenterInv, TablesOK, StreamOK
  <2>2. QED
    BY <2>1
<1>5. PICK w \in Seq(Messages) : w = wire[c]
  BY DEF CenterInv, StreamOK
<1>6. PICK v \in Views : v = copy[c]
  BY DEF CenterInv, StreamOK
<1>7. PICK m, t : m = w[1] /\ t = Tail(w)
  OBVIOUS
<1>8. PICK j, y : /\ j = IF m.id > k THEN m.id ELSE k
                  /\ y = IF "view" \in DOMAIN m THEN m.view ELSE Told(v, m.event)
  OBVIOUS
<1>9. /\ link[c] /\ w # << >> /\ copy' = [copy EXCEPT ![c] = y]
      /\ cursor' = [cursor EXCEPT ![c] = j] /\ wire' = [wire EXCEPT ![c] = t]
  BY <1>4, <1>5, <1>6, <1>7, <1>8 DEF Receive
<1>10. j \in Nat /\ y \in Views /\ t \in Seq(Messages)
  <2>1. w # << >>
    BY <1>9
  <2>2. m \in Messages /\ t \in Seq(Messages)
    <3>1. Len(w) \in Nat /\ Len(w) # 0
      BY <2>1, EmptySeq
    <3>2. 1 \in 1 .. Len(w)
      BY <3>1
    <3>3. w[1] \in Messages
      BY <3>2
    <3>4. Tail(w) \in Seq(Messages)
      BY <2>1
    <3>5. QED
      BY <1>7, <3>3, <3>4
  <2>3. m.id \in Nat /\ y \in Views
    BY <1>8, <2>2, LearntType
  <2>4. QED
    BY <1>8, <2>2, <2>3
<1>11. /\ copy'[c] = y /\ cursor'[c] = j /\ wire'[c] = t
       /\ \A b \in Subscriber \ {c} : copy'[b] = copy[b] /\ cursor'[b] = cursor[b] /\ wire'[b] = wire[b]
       /\ copy' \in [Subscriber -> Views] /\ cursor' \in [Subscriber -> Nat]
       /\ wire' \in [Subscriber -> Seq(Messages)]
  BY <1>9, <1>10 DEF CenterInv, StreamOK
<1>12. StreamOK'
  BY <1>2, <1>11 DEF CenterInv, StreamOK
<1>13. ASSUME NEW b \in Subscriber \ misled'
       PROVE  Informed(h, link'[b], wire'[b], cursor'[b], copy'[b], latest', Earliest')
  <2>1. Informed(h, link[b], wire[b], cursor[b], copy[b], latest, Earliest)
    BY <1>1, <1>2, <1>13 DEF Mirror
  <2>2. latest' = latest
    BY <1>2 DEF tables
  <2>3. CASE b # c
    BY <1>2, <1>3, <1>11, <2>1, <2>2, <2>3
  <2>4. CASE b = c
    <3>1. link[c] = TRUE
      BY <1>9 DEF CenterInv, StreamOK
    <3>2. PICK first : first = Earliest
      OBVIOUS
    <3>3. Informed(h, TRUE, w, k, v, n, first)
      BY <1>4, <1>5, <1>6, <2>1, <2>4, <3>1, <3>2
    <3>4. h \in [0 .. n -> SUBSET Views] /\ w # << >>
      BY <1>1, <1>4, <1>9 DEF Mirror, Explains
    <3>5. Informed(h, TRUE, t, j, y, n, first)
      BY <1>7, <1>8, <3>3, <3>4, ReceiveInforms
    <3>6. QED
      BY <1>2, <1>3, <1>4, <1>11, <2>2, <2>4, <3>1, <3>2, <3>5
  <2>5. QED
    BY <2>3, <2>4
<1>14. MirrorOK'
  <2>1. Mirror(h)'
    BY <1>1, <1>2, <1>13 DEF Mirror, tables
  <2>2. QED
    BY <2>1 DEF MirrorOK
<1>15. QED
  BY <1>3, <1>12, <1>14 DEF CenterInv

LEMMA DropKeeps ==
  ASSUME CenterInv, NEW c \in Subscriber, Drop(c)
  PROVE  CenterInv'
<1>1. PICK h : Mirror(h)
  BY DEF CenterInv, MirrorOK
<1>2. UNCHANGED <<up, crashes, surveyed, manager, tables, cursor, copy, misled>>
  BY DEF Drop
<1>3. ProcessOK' /\ ManagerOK' /\ TablesOK' /\ StoreOK' /\ PlacedOK' /\ Earliest' = Earliest
  BY <1>2 DEF CenterInv, ProcessOK, ManagerOK, TablesOK, StoreOK, PlacedOK, Earliest, tables, manager
<1>4. PICK e \in Seq(Messages) : e = << >>
  BY EmptySeq, Zenon
<1>5. /\ ~link'[c] /\ wire'[c] = e
      /\ \A b \in Subscriber \ {c} : link'[b] = link[b] /\ wire'[b] = wire[b]
      /\ link' \in [Subscriber -> BOOLEAN] /\ wire' \in [Subscriber -> Seq(Messages)]
  BY <1>4 DEF Drop, CenterInv, StreamOK
<1>6. drops' \in 0 .. MaxDrops
  BY BoundsAssumption DEF Drop, CenterInv, StreamOK
<1>7. StreamOK'
  BY <1>2, <1>5, <1>6 DEF CenterInv, StreamOK
<1>8. ASSUME NEW b \in Subscriber \ misled'
      PROVE  Informed(h, link'[b], wire'[b], cursor'[b], copy'[b], latest', Earliest')
  <2>1. Informed(h, link[b], wire[b], cursor[b], copy[b], latest, Earliest)
    BY <1>1, <1>2, <1>8 DEF Mirror
  <2>2. latest' = latest
    BY <1>2 DEF tables
  <2>3. CASE b # c
    BY <1>2, <1>3, <1>5, <2>1, <2>2, <2>3
  <2>4. CASE b = c
    BY <1>2, <1>3, <1>4, <1>5, <2>1, <2>2, <2>4 DEF Informed
  <2>5. QED
    BY <2>3, <2>4
<1>9. MirrorOK'
  <2>1. Mirror(h)'
    BY <1>1, <1>2, <1>8 DEF Mirror, tables
  <2>2. QED
    BY <2>1 DEF MirrorOK
<1>10. QED
  BY <1>3, <1>7, <1>9 DEF CenterInv

(* It holds at first, and every step keeps it.                             *)
LEMMA InitCenter == Init => CenterInv
<1> SUFFICES ASSUME Init PROVE CenterInv
  OBVIOUS
<1>1. PICK z \in Nat : z = 0
  OBVIOUS
<1>2. PICK e \in Seq(Events) : e = << >>
  BY EmptySeq, Zenon
<1>3. PICK w \in Seq(Messages) : w = << >>
  BY EmptySeq, Zenon
<1>4. ProcessOK /\ ManagerOK
  BY BoundsAssumption DEF Init, ProcessOK, ManagerOK
<1>5. /\ store \in Tables /\ store.events = << >> /\ store.undone = << >>
      /\ store.uncut = FALSE /\ store.left = 0
      /\ store.ws = [d \in Dir |-> NoWorkspace] /\ store.place = [s \in Session |-> None]
      /\ store.agent = [s \in Session |-> None] /\ store.items = {} /\ store.silent = {}
  BY <1>2 DEF Init, Tables
<1>6. View(store) = Nothing /\ Nothing \in Views
  <2>1. View(store) = Nothing
    BY <1>5 DEF View, Nothing
  <2>2. QED
    BY <1>5, <2>1, ViewType
<1>7. TablesOK
  BY <1>2, <1>5, EmptySeq, BoundsAssumption DEF Init, TablesOK
<1>8. StreamOK
  BY <1>3, <1>6, BoundsAssumption DEF Init, StreamOK
<1>9. StoreOK /\ PlacedOK
  BY <1>5 DEF StoreOK, PlacedOK, WorkspacesShown, NeedsBelong, NoWorkspace
<1>10. PICK h : h = [i \in z .. z |-> {Nothing}]
  OBVIOUS
<1>11. Explains(h, latest, store, log)
  <2>1. latest = z /\ Len(log) = z /\ h \in [z .. z -> SUBSET Views] /\ h[z] = {Nothing}
    BY <1>1, <1>6, <1>10, EmptySeq DEF Init
  <2>2. \A i \in 1 .. Len(log) : FALSE
    BY <1>1, <2>1
  <2>3. Knows({Nothing}, store)
    BY <1>6 DEF Knows, Agrees
  <2>4. QED
    BY <1>1, <2>1, <2>2, <2>3 DEF Explains
<1>12. \A c \in Subscriber : Informed(h, link[c], wire[c], cursor[c], copy[c], latest, Earliest)
  BY DEF Init, Informed
<1>13. QED
  BY <1>4, <1>7, <1>8, <1>9, <1>11, <1>12 DEF CenterInv, MirrorOK, Mirror

LEMMA NextCenter == CenterInv /\ [Next]_vars => CenterInv'
<1> SUFFICES ASSUME CenterInv, [Next]_vars PROVE CenterInv'
  OBVIOUS
<1>1. CASE UNCHANGED vars
  BY <1>1 DEF vars, manager, tables, stream, CenterInv, ProcessOK, ManagerOK, TablesOK, StreamOK,
              StoreOK, PlacedOK, MirrorOK, Mirror, Earliest
<1>2. ASSUME NEW n \in Lives, NEW s \in Session, NEW d \in Dir, Create(s, d, n) PROVE CenterInv'
  BY <1>2, CreateKeeps
<1>3. ASSUME NEW n \in Lives, NEW s \in Session, NEW a \in Activity \cup {None}, Reports(s, a, n)
      PROVE  CenterInv'
  BY <1>3, ReportsKeeps
<1>4. ASSUME NEW n \in Lives, NEW s \in Session, Needs(s, n) \/ Answered(s, n) \/ Delete(s, n)
      PROVE  CenterInv'
  BY <1>4, NeedsKeeps, AnsweredKeeps, DeleteKeeps
<1>5. ASSUME NEW n \in Lives, NEW d \in Dir,
             AddDirectory(d, n) \/ \E archived \in BOOLEAN : EditDirectory(d, archived, n)
      PROVE  CenterInv'
  BY <1>5, AddDirectoryKeeps, EditDirectoryKeeps
<1>6. ASSUME NEW n \in Lives, NEW c \in Subscriber, Snapshot(c, n) PROVE CenterInv'
  BY <1>6, SnapshotKeeps
<1>7. CASE Crash \/ Restart
  BY <1>7, CrashKeeps, RestartKeeps
<1>8. ASSUME NEW c \in Subscriber, Resume(c) \/ Receive(c) \/ Drop(c) PROVE CenterInv'
  BY <1>8, ResumeKeeps, ReceiveKeeps, DropKeeps
<1>9. QED
  BY <1>1, <1>2, <1>3, <1>4, <1>5, <1>6, <1>7, <1>8 DEF Next

(* What the invariant says of the command centre is always so.             *)
THEOREM CenterInvariant == Spec => []CenterInv
<1>1. Spec => []CenterInv
  BY InitCenter, NextCenter, PTL DEF Spec
<1>2. QED
  BY <1>1

(* The variables of CommandCenter have their types.                        *)
THEOREM CenterTypes == Spec => []TypeOK
<1>1. CenterInv => TypeOK
  BY TypeParts DEF CenterInv
<1>2. QED
  BY <1>1, CenterInvariant, PTL

(* Over any sequence of creations, deletions, edits, crashes and boots, a  *)
(* workspace made for sessions (createWorkspace,                           *)
(* archiveSessionWorkspaceIfEmpty) is shown exactly while a session is     *)
(* placed in it.                                                           *)
THEOREM WorkspacesOfSessions == Spec => []SessionWorkspaces
<1>1. CenterInv => SessionWorkspaces
  BY DEF CenterInv, StoreOK, WorkspacesShown, SessionWorkspaces
<1>2. QED
  BY <1>1, CenterInvariant, PTL

(* Whatever two databases a crash left apart: an item has an agent, an     *)
(* agent a place, and, after a boot that saw tmux, a placed session is one *)
(* the manager has (reconcileSessions).                                    *)
THEOREM GhostsNever == Spec => []NoGhosts
<1>1. CenterInv => NoGhosts
  BY DEF CenterInv, StoreOK, NeedsBelong, PlacedOK, NoGhosts
<1>2. QED
  BY <1>1, CenterInvariant, PTL

(* A browser to which nothing is on its way knows workspaces and agents as *)
(* they are, for any pruning of the log (appendEvent), any number of broken*)
(* streams and a crash between any two writes of a handler: but for what   *)
(* such a crash kept silent, and unless the browser was told of a          *)
(* transaction that a crash undid.                                         *)
THEOREM MirrorsAreExact == Spec => []MirrorExact
<1>1. CenterInv => MirrorExact
  <2>1. SUFFICES ASSUME CenterInv, NEW c \in Subscriber \ misled, link[c], wire[c] = << >>
                 PROVE  Agrees(copy[c], View(store), store.silent)
    BY DEF MirrorExact
  <2>2. PICK h : Mirror(h)
    BY <2>1 DEF CenterInv, MirrorOK
  <2>3. PICK n, k \in Nat : n = latest /\ k = cursor[c]
    <3>1. latest \in Nat /\ cursor[c] \in Nat
      BY <2>1, BoundsAssumption DEF CenterInv, TablesOK, StreamOK
    <3>2. QED
      BY <3>1
  <2>4. PICK w, v, first : w = wire[c] /\ v = copy[c] /\ first = Earliest
    OBVIOUS
  <2>5. Knows(h[n], store) /\ Informed(h, link[c], w, k, v, n, first)
    BY <2>2, <2>3, <2>4 DEF Mirror, Explains
  <2>6. Len(w) = 0
    BY <2>1, <2>4, EmptySeq
  <2>7. k <= n
    BY <2>5 DEF Informed
  <2>8. ASSUME NEW i \in k .. n, Follows(h, w, 1, i, n) PROVE FALSE
    BY <2>3, <2>6, <2>8 DEF Follows
  <2>9. Follows(h, w, 0, k, n) /\ v \in h[k]
    BY <2>1, <2>5, <2>8 DEF Informed
  <2>10. k = n
    BY <2>3, <2>6, <2>7, <2>9 DEF Follows
  <2>11. QED
    BY <2>4, <2>5, <2>9, <2>10 DEF Knows
<1>2. QED
  BY <1>1, CenterInvariant, PTL
=============================================================================
