------------------------------ MODULE NdjsonClient ------------------------------
(***************************************************************************)
(* NdjsonTcpClient (src/integrations/sdrtrunk/patch), by which the decoder *)
(* hands events, spectrum and audio to the console: decoder threads put    *)
(* lines in a bounded queue, an export thread writes them to a socket, and *)
(* a watcher thread per socket reads from it to see the console go away.   *)
(*                                                                         *)
(* Each exporter starts its client once and stops it once.  A line is the  *)
(* number of the offer that took it; sockets are numbered as they are      *)
(* connected.  A write to a socket whose peer is gone may still succeed.   *)
(***************************************************************************)
EXTENDS Integers, Sequences, FiniteSets

CONSTANTS
  Producers,  \* decoder threads
  QueueSize,  \* capacity of mQueue
  MaxLines,   \* bound: lines taken
  MaxSockets  \* bound: sockets connected

ASSUME QueueAssumption == QueueSize \in Nat \ {0}
ASSUME BoundAssumption == MaxLines \in Nat /\ MaxSockets \in Nat

VARIABLES
  running,    \* mRunning
  queue,      \* mQueue
  phase,      \* producer -> step of send()
  pc,         \* the export thread
  interrupted,\* its interrupt flag
  made,       \* sockets connected so far
  fresh,      \* the socket being connected, or None
  socket,     \* mSocket
  peerClosed, \* mPeerClosed
  open,       \* sockets not closed on this side
  gone,       \* sockets whose peer has closed
  watcher,    \* socket -> step of its watcher
  inflight,   \* line taken from the queue, or None
  closing,    \* stop() has yet to close
  accepted,   \* lines taken so far
  written,    \* lines written
  last,       \* the last of them
  overtaken   \* history: producers that made room and saw another line take it

sockets == <<made, fresh, socket, peerClosed, open, gone, watcher>>
control == <<running, closing>>
worker == <<pc, interrupted, inflight>>
lines == <<queue, accepted, written, last>>
calls == <<phase, overtaken>>
vars == <<control, worker, sockets, lines, calls>>

None == 0
Sockets == 1 .. MaxSockets
New == made + 1
Goto(from, to) == pc = from /\ pc' = to

Init ==
  /\ running = TRUE /\ closing = FALSE
  /\ pc = "check" /\ interrupted = FALSE /\ inflight = None
  /\ made = 0 /\ fresh = None /\ socket = None /\ peerClosed = FALSE /\ open = {} /\ gone = {}
  /\ watcher = [s \in Sockets |-> "none"]
  /\ queue = <<>> /\ accepted = 0 /\ written = 0 /\ last = 0
  /\ phase = [p \in Producers |-> "idle"] /\ overtaken = {}

--------------------------------------------------------------------------------
(* send(): offer, and if the queue is full make room and offer once more.  *)

Offer(p) ==
  /\ Len(queue) < QueueSize /\ accepted < MaxLines
  /\ queue' = Append(queue, accepted + 1) /\ accepted' = accepted + 1
  /\ overtaken' = (overtaken \cup {q \in Producers : phase[q] = "retry"}) \ {p}
  /\ UNCHANGED <<written, last>>

Call(p, from, to) == phase[p] = from /\ phase' = [phase EXCEPT ![p] = to]

Send(p) ==
  /\ running
  /\ \/ Call(p, "idle", "idle") /\ Offer(p)
     \/ Len(queue) = QueueSize /\ Call(p, "idle", "full") /\ UNCHANGED <<lines, overtaken>>
  /\ UNCHANGED <<control, worker, sockets>>

SendMakesRoom(p) ==
  /\ Call(p, "full", "retry")
  /\ queue' = IF queue = <<>> THEN queue ELSE Tail(queue)
  /\ UNCHANGED <<control, worker, sockets, accepted, written, last, overtaken>>

\* the result of the second offer is ignored
SendAgain(p) ==
  /\ Call(p, "retry", "idle")
  /\ \/ Offer(p)
     \/ Len(queue) = QueueSize /\ UNCHANGED lines /\ overtaken' = overtaken \ {p}
  /\ UNCHANGED <<control, worker, sockets>>

--------------------------------------------------------------------------------
(* runLoop()                                                               *)

\* closeQuietly: the output stream takes the socket with it
CloseQuietly ==
  /\ peerClosed' = FALSE
  /\ open' = open \ {socket} /\ socket' = None

Check ==
  /\ Goto("check", IF running THEN "ensure" ELSE "final")
  /\ UNCHANGED <<control, interrupted, inflight, sockets, lines, calls>>

Healthy == socket # None /\ socket \in open /\ ~peerClosed

\* Mutant: the old socket is left as it is.
EnsureLeaves ==
  /\ Goto("ensure", IF Healthy THEN "poll" ELSE "connect")
  /\ UNCHANGED <<control, interrupted, inflight, sockets, lines, calls>>

Ensure ==
  /\ Goto("ensure", IF Healthy THEN "poll" ELSE "connect")
  /\ IF Healthy THEN UNCHANGED <<peerClosed, open, socket>> ELSE CloseQuietly
  /\ UNCHANGED <<control, interrupted, inflight, made, fresh, gone, watcher, lines, calls>>

Connect ==
  /\ Goto("connect", "assign") /\ New \in Sockets
  /\ made' = New /\ fresh' = New /\ open' = open \cup {New}
  /\ UNCHANGED <<control, interrupted, inflight, socket, peerClosed, gone, watcher, lines, calls>>

\* the socket in use, before the watcher of an older one may set the flag again
Assign(watching) ==
  /\ Goto("assign", "poll")
  /\ socket' = fresh /\ fresh' = None /\ peerClosed' = FALSE
  /\ watcher' = IF watching THEN [watcher EXCEPT ![fresh] = "reading"] ELSE watcher
  /\ UNCHANGED <<control, interrupted, inflight, made, open, gone, lines, calls>>

\* Mutant: no thread reads from the socket.
ConnectedUnwatched == Assign(FALSE)
\* the end of ensureConnected, with startPeerWatch
Connected == Assign(TRUE)

\* Mutant: the newest line first.
TakesNewest == inflight' = queue[Len(queue)] /\ queue' = SubSeq(queue, 1, Len(queue) - 1)
Takes == inflight' = Head(queue) /\ queue' = Tail(queue)

\* a line, a heartbeat or, before it is due, neither
Poll ==
  /\ IF interrupted THEN Goto("poll", "dead") /\ UNCHANGED <<queue, inflight>>
     ELSE \/ /\ queue # <<>> /\ Takes /\ Goto("poll", "write")
          \/ /\ queue = <<>> /\ \E to \in {"write", "check"} : Goto("poll", to)
             /\ UNCHANGED <<queue, inflight>>
  /\ UNCHANGED <<control, interrupted, sockets, accepted, written, last, calls>>

WriteOk ==
  /\ Goto("write", "check") /\ socket \in open
  /\ IF inflight = None THEN UNCHANGED <<written, last>>
                        ELSE written' = written + 1 /\ last' = inflight
  /\ inflight' = None
  /\ UNCHANGED <<control, interrupted, sockets, queue, accepted, calls>>

\* an exception: a refused connect, or a write, whose line is gone
Fails ==
  /\ \/ Goto("connect", "sleep")
     \/ Goto("write", "sleep") /\ socket \notin open \ gone
  /\ CloseQuietly /\ inflight' = None
  /\ UNCHANGED <<control, interrupted, made, fresh, gone, watcher, lines, calls>>

\* the backoff is over, or stop() interrupts it
SleepEnd ==
  /\ Goto("sleep", IF interrupted THEN "dead" ELSE "check")
  /\ UNCHANGED <<control, interrupted, inflight, sockets, lines, calls>>

Final ==
  /\ Goto("final", "dead") /\ CloseQuietly
  /\ UNCHANGED <<control, interrupted, inflight, made, fresh, gone, watcher, lines, calls>>

Export ==
  \/ Check \/ Ensure \/ Connect \/ Connected \/ Poll \/ WriteOk \/ Fails \/ SleepEnd \/ Final

--------------------------------------------------------------------------------
(* The watchers, the console and stop().                                   *)

See(s, from, to) == watcher[s] = from /\ watcher' = [watcher EXCEPT ![s] = to]

\* read() returns: EOF, or the socket was closed here
WatchRead(s) ==
  /\ s \in gone \/ s \notin open
  /\ See(s, "reading", "compare")
  /\ UNCHANGED <<control, worker, made, fresh, socket, peerClosed, open, gone, lines, calls>>

WatchCompare(s) ==
  /\ See(s, "compare", IF s = socket THEN "mark" ELSE "ended")
  /\ UNCHANGED <<control, worker, made, fresh, socket, peerClosed, open, gone, lines, calls>>

WatchMark(s) ==
  /\ See(s, "mark", "ended") /\ peerClosed' = TRUE
  /\ UNCHANGED <<control, worker, made, fresh, socket, open, gone, lines, calls>>

Watcher(s) == WatchRead(s) \/ WatchCompare(s) \/ WatchMark(s)

PeerClose(s) ==
  /\ s \in open \ gone /\ gone' = gone \cup {s}
  /\ UNCHANGED <<control, worker, made, fresh, socket, peerClosed, open, watcher, lines, calls>>

Stop ==
  /\ running /\ running' = FALSE /\ interrupted' = TRUE /\ closing' = TRUE
  /\ UNCHANGED <<pc, inflight, sockets, lines, calls>>

StopClose ==
  /\ closing /\ closing' = FALSE /\ CloseQuietly
  /\ UNCHANGED <<running, worker, made, fresh, gone, watcher, lines, calls>>

Next ==
  \/ \E p \in Producers : Send(p) \/ SendMakesRoom(p) \/ SendAgain(p)
  \/ Export
  \/ \E s \in Sockets : Watcher(s) \/ PeerClose(s)
  \/ Stop \/ StopClose

Spec == Init /\ [][Next]_vars
\* The threads run; connects and writes return.  Nobody has to send or stop.
FairSpec == Spec /\ WF_vars(Export) /\ \A s \in Sockets : WF_vars(Watcher(s))

--------------------------------------------------------------------------------
(* Type invariant. *)
TypeOK ==
  /\ running \in BOOLEAN /\ closing \in BOOLEAN /\ interrupted \in BOOLEAN
  /\ pc \in {"check", "ensure", "connect", "assign", "poll", "write", "sleep",
             "final", "dead"}
  /\ fresh \in Sockets \cup {None} /\ socket \in Sockets \cup {None}
  /\ (fresh # None) = (pc = "assign") /\ peerClosed \in BOOLEAN
  /\ open \subseteq Sockets /\ gone \subseteq Sockets
  /\ watcher \in [Sockets -> {"none", "reading", "compare", "mark", "ended"}]
  /\ queue \in Seq(1 .. accepted) /\ Len(queue) <= QueueSize
  /\ accepted \in 0 .. MaxLines /\ written \in 0 .. accepted /\ last \in 0 .. accepted
  /\ inflight \in 0 .. accepted
  /\ phase \in [Producers -> {"idle", "full", "retry"}]
  /\ overtaken \subseteq Producers /\ made \in 0 .. MaxSockets

(* Until it is stopped the client has one connection at most: every way    *)
(* to a new one goes through closeQuietly.                                 *)
OneConnection == running => Cardinality(open) <= 1

(* "Drops the oldest queued line" (the class comment): a line is refused   *)
(* only when a line of another thread took the room made for it.           *)
RefusedBehindNewer ==
  [][\A p \in Producers :
       phase[p] = "retry" /\ phase'[p] = "idle" /\ accepted' = accepted
         => p \in overtaken]_vars

(* The console going away is noticed, also when nothing is sent and        *)
(* whatever writes the kernel still accepts, and a new connection is       *)
(* tried, whichever exception ended the old one.                           *)
PeerLossNoticed ==
  \A s \in Sockets : (socket = s /\ s \in gone /\ running) ~> (pc = "connect" \/ ~running)

Channel == INSTANCE LossyFifo WITH delivered <- last, deliveries <- written
(* The client is a lossy FIFO channel from the decoder to the console.     *)
IsLossyFifo == Channel!Spec
================================================================================
