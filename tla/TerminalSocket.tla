--------------------------- MODULE TerminalSocket ---------------------------
(***************************************************************************)
(* The browser's end of a terminal: createTerminalSocket in                *)
(* packages/web/src/ws/terminal-socket.ts, with the server's end reduced   *)
(* to what it does to a connection (OutputFlow has the rest of it).        *)
(*                                                                         *)
(* An attempt to connect first asks for a URL, which takes a round trip    *)
(* (terminalWsTicketUrl), and then opens a socket. Whoever taps            *)
(* "Reconnect", or a network that comes back, starts an attempt at once,   *)
(* beside one that may still wait for its URL. So several sockets may be   *)
(* open: `ws` is the one that counts, the others are strays. Bytes are     *)
(* counted in chunks.                                                      *)
(***************************************************************************)
EXTENDS Naturals

CONSTANTS
  MaxTaps,     \* bound on calls of reconnect
  MaxFaults,   \* bound on lost connections and failed attempts
  MaxSent,     \* bound on the chunks of one connection
  Window       \* chunks the server sends ahead of the browser

ASSUME SocketAssumption ==
  MaxTaps \in Nat /\ MaxFaults \in Nat /\ MaxSent \in Nat /\ Window \in Nat \ {0}

(* Attempts: the first, one for each tap, one for each loss.               *)
Socket == 1 .. 1 + MaxTaps + MaxFaults

VARIABLES
  closedByCaller,
  ws,           \* the current socket, 0 for undefined
  urls,         \* URLs asked for and not yet there
  retryTimer,   \* the timer of that name is armed
  timers,       \* armed timers that no longer have a name
  status,       \* what the view was last told
  shown,        \* the page is in front, which the view tells when it changes
  ready,        \* readyState of each socket
  flowEnabled, received, parsed, parsedBytes,   \* of each socket: handed to the view,
                \* parsed by it, and acknowledged
  told,         \* the last {t:"v"} each socket was sent
  peer,         \* the server's end: "none", "up", or how it ended
  sent, acked,  \* chunks the server sent, and how many it knows to be parsed
  taps, faults

attempts == <<ws, urls, retryTimer, timers>>
page     == <<closedByCaller, status, shown, taps>>
counts   == <<flowEnabled, received, parsed, parsedBytes, sent, acked>>
socketVars == <<attempts, page, ready, counts, told, peer, faults>>

Ends == {"lost", "fatal"}    \* fatal: the close codes 4403, 4404 and 4410

SocketTypeOK ==
  /\ closedByCaller \in BOOLEAN /\ retryTimer \in BOOLEAN /\ shown \in BOOLEAN
  /\ ws \in {0} \cup Socket /\ urls \in Nat /\ timers \in Nat
  /\ status \in {"connecting", "open", "reconnecting", "ended"}
  /\ ready \in [Socket -> {"none", "connecting", "open", "closing", "closed"}]
  /\ peer \in [Socket -> {"none", "up"} \cup Ends]
  /\ flowEnabled \in [Socket -> BOOLEAN] /\ told \in [Socket -> BOOLEAN]
  /\ received \in [Socket -> Nat] /\ parsed \in [Socket -> Nat]
  /\ parsedBytes \in [Socket -> Nat] /\ sent \in [Socket -> Nat] /\ acked \in [Socket -> Nat]
  /\ taps \in 0 .. MaxTaps /\ faults \in 0 .. MaxFaults

SocketInit ==
  /\ closedByCaller = FALSE /\ ws = 0 /\ urls = 1 /\ retryTimer = FALSE /\ timers = 0
  /\ status = "connecting" /\ shown = TRUE
  /\ ready = [s \in Socket |-> "none"] /\ peer = [s \in Socket |-> "none"]
  /\ flowEnabled = [s \in Socket |-> FALSE] /\ told = [s \in Socket |-> FALSE]
  /\ received = [s \in Socket |-> 0] /\ parsed = [s \in Socket |-> 0]
  /\ parsedBytes = [s \in Socket |-> 0]
  /\ sent = [s \in Socket |-> 0] /\ acked = [s \in Socket |-> 0]
  /\ taps = 0 /\ faults = 0

Current(s) == ~closedByCaller /\ ws = s
Fault == faults < MaxFaults /\ faults' = faults + 1

-----------------------------------------------------------------------------
(* Attempts.                                                               *)

(* scheduleRetry. A timer that is still armed loses its name.              *)
ScheduleRetry ==
  /\ status' = "reconnecting" /\ retryTimer' = TRUE
  /\ timers' = IF retryTimer THEN timers + 1 ELSE timers

(* connect, when a timer fires.                                            *)
Retry ==
  /\ \/ retryTimer /\ retryTimer' = FALSE /\ UNCHANGED timers
     \/ timers > 0 /\ timers' = timers - 1 /\ UNCHANGED retryTimer
  /\ urls' = IF closedByCaller THEN urls ELSE urls + 1
  /\ UNCHANGED <<ws, page, ready, counts, told, peer, faults>>

(* open, when a URL is there. What was current before is left as it is.    *)
Open(s) ==
  /\ urls > 0 /\ urls' = urls - 1
  /\ ready[s] = "none" /\ \A t \in 1 .. s - 1 : ready[t] # "none"
  /\ IF closedByCaller THEN UNCHANGED <<ws, ready>>
     ELSE ws' = s /\ ready' = [ready EXCEPT ![s] = "connecting"]
  /\ UNCHANGED <<retryTimer, timers, page, counts, told, peer, faults>>

UrlFailsMutant ==   \* no catch
  /\ Fault /\ urls > 0 /\ urls' = urls - 1
  /\ UNCHANGED <<retryTimer, timers, status>>
  /\ UNCHANGED <<ws, closedByCaller, shown, taps, ready, counts, told, peer>>

(* The request for the URL failed.                                         *)
UrlFails ==
  /\ Fault /\ urls > 0 /\ urls' = urls - 1
  /\ IF closedByCaller THEN UNCHANGED <<retryTimer, timers, status>> ELSE ScheduleRetry
  /\ UNCHANGED <<ws, closedByCaller, shown, taps, ready, counts, told, peer>>

Shut(s) == IF s = 0 \/ ready[s] \notin {"connecting", "open"} THEN ready
           ELSE [ready EXCEPT ![s] = "closing"]

Reconnect ==
  /\ ~closedByCaller /\ taps < MaxTaps /\ taps' = taps + 1
  /\ retryTimer' = FALSE /\ ready' = Shut(ws) /\ ws' = 0
  /\ urls' = urls + 1
  /\ UNCHANGED <<timers, closedByCaller, status, shown, counts, told, peer, faults>>

CloseView ==
  /\ ~closedByCaller /\ closedByCaller' = TRUE
  /\ retryTimer' = FALSE /\ ready' = Shut(ws)
  /\ UNCHANGED <<ws, urls, timers, status, shown, taps, counts, told, peer, faults>>

-----------------------------------------------------------------------------
(* Events of a socket.                                                     *)

OnOpenMutant(s) ==   \* visibility is only told when it changes
  /\ ready[s] = "connecting" /\ peer[s] = "none"
  /\ ready' = [ready EXCEPT ![s] = "open"] /\ peer' = [peer EXCEPT ![s] = "up"]
  /\ status' = "open"
  /\ UNCHANGED <<attempts, closedByCaller, shown, taps, counts, told, faults>>

(* The server took the connection: onopen, of any socket, for it is not    *)
(* asked whether it is current.                                            *)
OnOpen(s) ==
  /\ ready[s] = "connecting" /\ peer[s] = "none"
  /\ ready' = [ready EXCEPT ![s] = "open"] /\ peer' = [peer EXCEPT ![s] = "up"]
  /\ told' = [told EXCEPT ![s] = shown] /\ status' = "open"
  /\ UNCHANGED <<attempts, closedByCaller, shown, taps, counts, faults>>

(* The first thing a server sends is the terminal-flow frame.              *)
Confirmed(s) ==
  /\ ready[s] = "open" /\ ~flowEnabled[s] /\ Current(s)
  /\ flowEnabled' = [flowEnabled EXCEPT ![s] = TRUE]
  /\ UNCHANGED <<attempts, page, ready, received, parsed, parsedBytes, sent, acked,
                 told, peer, faults>>

(* onmessage hands a chunk to the terminal, which parses it later.         *)
OnData(s) ==
  /\ ready[s] = "open" /\ flowEnabled[s] /\ received[s] < sent[s] /\ Current(s)
  /\ received' = [received EXCEPT ![s] = @ + 1]
  /\ UNCHANGED <<attempts, page, ready, flowEnabled, parsed, parsedBytes, sent, acked,
                 told, peer, faults>>

(* The terminal has parsed a chunk: acknowledge it, unless its socket is   *)
(* no longer the one to speak on.                                          *)
AckedMutant(s) ==   \* one count for all sockets, declared outside of open
  CHOOSE n \in {parsedBytes[t] : t \in Socket} : \A t \in Socket : parsedBytes[t] <= n

Acked(s) == parsedBytes[s]

OnParsed(s) ==
  /\ parsed[s] < received[s] /\ parsed' = [parsed EXCEPT ![s] = @ + 1]
  /\ parsedBytes' = IF Current(s) /\ ready[s] = "open" /\ flowEnabled[s]
                    THEN [parsedBytes EXCEPT ![s] = Acked(s) + 1] ELSE parsedBytes
  /\ UNCHANGED <<attempts, page, ready, flowEnabled, received, sent, acked, told, peer, faults>>

(* onclose. The retry, or the end, is for the current socket only; the     *)
(* handlers' variables end with a socket.                                  *)
Forgets(s) ==
  /\ flowEnabled' = [flowEnabled EXCEPT ![s] = FALSE] /\ told' = [told EXCEPT ![s] = FALSE]
  /\ received' = [received EXCEPT ![s] = 0] /\ parsed' = [parsed EXCEPT ![s] = 0]
  /\ parsedBytes' = [parsedBytes EXCEPT ![s] = 0]
  /\ sent' = [sent EXCEPT ![s] = 0] /\ acked' = [acked EXCEPT ![s] = 0]

Gone(s) ==
  ready[s] = "closing" \/ (ready[s] \in {"connecting", "open"} /\ peer[s] \in Ends)

OnCloseMutant(s) ==   \* a close before the socket was open counts for nothing
  /\ Gone(s) /\ ready' = [ready EXCEPT ![s] = "closed"]
  /\ peer' = [peer EXCEPT ![s] = IF @ \in Ends THEN @ ELSE "lost"]
  /\ IF ~Current(s) \/ ready[s] = "connecting" THEN UNCHANGED <<status, retryTimer, timers>>
     ELSE IF peer[s] = "fatal" THEN status' = "ended" /\ UNCHANGED <<retryTimer, timers>>
     ELSE ScheduleRetry
  /\ Forgets(s)
  /\ UNCHANGED <<ws, urls, closedByCaller, shown, taps, faults>>

OnClose(s) ==
  /\ Gone(s) /\ ready' = [ready EXCEPT ![s] = "closed"]
  /\ peer' = [peer EXCEPT ![s] = IF @ \in Ends THEN @ ELSE "lost"]
  /\ IF ~Current(s) THEN UNCHANGED <<status, retryTimer, timers>>
     ELSE IF peer[s] = "fatal" THEN status' = "ended" /\ UNCHANGED <<retryTimer, timers>>
     ELSE ScheduleRetry
  /\ Forgets(s)
  /\ UNCHANGED <<ws, urls, closedByCaller, shown, taps, faults>>

(* setVisibility, when the page comes to the front or leaves it.           *)
SetVisibility ==
  /\ ~closedByCaller /\ shown' = ~shown
  /\ told' = [s \in Socket |-> IF ws = s /\ ready[s] = "open" THEN shown' ELSE told[s]]
  /\ UNCHANGED <<attempts, closedByCaller, status, taps, ready, counts, peer, faults>>

-----------------------------------------------------------------------------
(* The server and the network.                                             *)

(* Output. What a stray is sent counts for Stalls only.                    *)
ServerSends(s) ==
  /\ peer[s] = "up" /\ Current(s) /\ sent[s] - acked[s] < Window /\ sent[s] < MaxSent
  /\ sent' = [sent EXCEPT ![s] = @ + 1]
  /\ UNCHANGED <<attempts, page, ready, flowEnabled, received, parsed, parsedBytes, acked,
                 told, peer, faults>>

(* An acknowledgement arrives. One of chunks never sent ends the           *)
(* connection.                                                             *)
ServerHears(s) ==
  /\ peer[s] = "up" /\ acked[s] < parsedBytes[s]
  /\ IF parsedBytes[s] > sent[s]
     THEN peer' = [peer EXCEPT ![s] = "lost"] /\ UNCHANGED acked
     ELSE acked' = [acked EXCEPT ![s] = @ + 1] /\ UNCHANGED peer
  /\ UNCHANGED <<attempts, page, ready, flowEnabled, received, parsed, parsedBytes, sent,
                 told, faults>>

(* The stall timer: enough output for a full window, and no acknowledgement*)
(* from a stray.                                                           *)
Stalls(s) ==
  /\ peer[s] = "up" /\ ~Current(s)
  /\ peer' = [peer EXCEPT ![s] = "lost"]
  /\ UNCHANGED <<attempts, page, ready, counts, told, faults>>

(* The session is gone or ends, or the device's access is revoked.         *)
ServerEnds(s) ==
  /\ peer[s] = "up" /\ peer' = [peer EXCEPT ![s] = "fatal"]
  /\ UNCHANGED <<attempts, page, ready, counts, told, faults>>

(* The attempt fails, or the connection breaks, or it stalls although it   *)
(* is current: the device slept, or its network.                           *)
Breaks(s) ==
  /\ Fault
  /\ peer[s] = "up" \/ (ready[s] = "connecting" /\ peer[s] = "none")
  /\ peer' = [peer EXCEPT ![s] = "lost"]
  /\ UNCHANGED <<attempts, page, ready, counts, told>>

-----------------------------------------------------------------------------
SocketStep(s) ==
  \/ Open(s) \/ OnOpen(s) \/ Confirmed(s) \/ OnData(s) \/ OnParsed(s)
  \/ OnClose(s) \/ ServerSends(s) \/ ServerHears(s) \/ Stalls(s) \/ ServerEnds(s) \/ Breaks(s)

SocketNext ==
  \/ \E s \in Socket : SocketStep(s)
  \/ Retry \/ UrlFails \/ Reconnect \/ CloseView \/ SetVisibility

SocketSpec == SocketInit /\ [][SocketNext]_socketVars

(* Timers fire, requests for a URL are answered, and an attempt nothing    *)
(* breaks succeeds; the events of a socket come.                           *)
Fairness ==
  /\ WF_socketVars(Retry) /\ WF_socketVars(\E s \in Socket : Open(s))
  /\ \A s \in Socket : WF_socketVars(OnOpen(s)) /\ WF_socketVars(OnClose(s))

FairSpec == SocketSpec /\ Fairness

-----------------------------------------------------------------------------
(* Properties.                                                             *)

(* What the server is told was parsed is what was parsed of its own bytes, *)
(* and all of it while the socket is current: a count that ran ahead would *)
(* end the connection, one that fell behind would stall it.                *)
AcksOwnBytes ==
  \A s \in Socket :
    /\ acked[s] <= parsedBytes[s] /\ parsedBytes[s] <= parsed[s]
    /\ parsed[s] <= received[s] /\ received[s] <= sent[s]
    /\ Current(s) /\ ready[s] = "open" => parsedBytes[s] = parsed[s]

(* A view is never left without a connection and without anything that     *)
(* will bring one, unless the server said that there is none to be had.    *)
NeverStranded ==
  \/ closedByCaller \/ urls > 0 \/ retryTimer \/ timers > 0
  \/ ws # 0 /\ (ready[ws] # "closed" \/ peer[ws] = "fatal")

(* The server knows whether the page is looked at: the current socket was  *)
(* told so, however often the page and the connection came and went.       *)
VisibilityTold ==
  \A s \in Socket : Current(s) /\ ready[s] = "open" => told[s] = shown

(* A view that lost its connection gets one again, unless it is closed or  *)
(* the server said no.                                                     *)
Working == ws # 0 /\ ready[ws] = "open" /\ peer[ws] = "up"

ComesBack ==
  ~Working ~> Working \/ closedByCaller \/ (ws # 0 /\ peer[ws] = "fatal")
=============================================================================
