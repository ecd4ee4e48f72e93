------------------------------- MODULE AprsFeeds --------------------------------
(***************************************************************************)
(* The APRS-IS feed (aprs_rf_gateway/service.py): a loop of the event loop *)
(* binds a queue and connects, a thread of aprslib reads the connection    *)
(* and asks the event loop to queue each packet, and the loop ingests them *)
(* one by one.  A connection that is given up is closed, and its thread    *)
(* gets two seconds; one that is still there afterwards is left alone, may *)
(* connect again on its own, and puts its packets into the queue the loop  *)
(* has bound since, as the callback reads the variable of the loop.        *)
(***************************************************************************)
EXTENDS Naturals, Sequences

CONSTANTS
  MaxConns,    \* bound: the connections that are made
  QueueMax,    \* maxsize of a connection's queue: 200
  MaxPackets   \* bound: what APRS-IS sends

Conns == 1 .. MaxConns

VARIABLES
  installed, \* the module is installed
  enabled,   \* enable_is of the settings
  pc,        \* _is_loop: where it stands
  conn,      \* the connection of the loop and its queue, 0 before the first
  first,     \* the first one of this call of _is_loop
  sees,      \* the queue the variable of a connection's callback is bound to
  thread,    \* the consumer of each connection
  taken,     \* the last packet each consumer has read
  calls,     \* the put_nowait calls each has asked the event loop for: packet and queue
  queue,     \* the queues: packets, and the consumer each came by
  sent,      \* history: the packets of APRS-IS so far
  strays,    \* history: consumers that were there when their loop bound its next queue
  ingested   \* history: the packets that were ingested, in order

feed == <<installed, enabled, pc, conn, first>>
traffic == <<taken, calls, queue, sent, ingested>>
vars == <<feed, sees, strays, thread, traffic>>

Init ==
  /\ installed \in BOOLEAN /\ enabled \in BOOLEAN /\ pc = "off" /\ conn = 0 /\ first = 1
  /\ sees = [c \in Conns |-> 0] /\ strays = {}
  /\ thread = [c \in Conns |-> "none"] /\ taken = [c \in Conns |-> 0]
  /\ calls = [c \in Conns |-> <<>>] /\ queue = [c \in Conns |-> <<>>] /\ sent = 0 /\ ingested = <<>>

\* the loop runs without an await, and nothing else does on the event loop
Busy == pc \in {"connecting", "consuming"}

--------------------------------------------------------------------------------
\* The threads: aprslib's IS.consumer(immortal=True).

\* APRS-IS sends a packet, to everybody who is connected
Send ==
  /\ sent < MaxPackets /\ sent' = sent + 1
  /\ UNCHANGED <<feed, sees, strays, thread, taken, calls, queue, ingested>>

\* _on_packet: the next packet of the connection, for the queue that is bound now
OnPacket(c) ==
  /\ thread[c] = "reading" /\ taken[c] < sent /\ taken' = [taken EXCEPT ![c] = @ + 1]
  /\ calls' = [calls EXCEPT ![c] = Append(@, [n |-> taken'[c], to |-> sees[c]])]
  /\ UNCHANGED <<feed, sees, strays, thread, queue, sent, ingested>>

\* the server or the loop ends a connection, and the thread goes on trying: that ais.close() was
\* for good it is not told. From a new connection it reads what is sent from then on. One that
\* meets another error ends, as one may that waits on a socket closed under it.
Move(c, from, to) ==
  /\ thread[c] = from /\ thread' = [thread EXCEPT ![c] = to]
  /\ UNCHANGED <<feed, sees, strays, calls, queue, sent, ingested>>
ThreadMoves(c) ==
  \/ Move(c, "reading", "retrying") /\ UNCHANGED taken
  \/ Move(c, "retrying", "reading") /\ taken' = [taken EXCEPT ![c] = sent]
  \/ Move(c, "reading", "ended") /\ UNCHANGED taken

\* call_soon_threadsafe(queue.put_nowait): in a full queue it raises, which nobody catches
PutNowait(c) ==
  /\ ~Busy /\ calls[c] # <<>> /\ calls' = [calls EXCEPT ![c] = Tail(@)]
  /\ LET call == Head(calls[c])
     IN  queue' = IF Len(queue[call.to]) < QueueMax
                  THEN [queue EXCEPT ![call.to] = Append(@, [n |-> call.n, by |-> c])] ELSE queue
  /\ UNCHANGED <<feed, sees, strays, thread, taken, sent, ingested>>

--------------------------------------------------------------------------------
\* The loop.

\* _aprs_gateway, start_service: a call of _is_loop, with variables of its own
Start ==
  /\ pc = "off" /\ installed /\ pc' = "idle" /\ first' = conn + 1
  /\ UNCHANGED <<installed, enabled, conn, sees, strays, thread, traffic>>

\* Mutant: the queue is a variable of the module, which all callbacks see.
SharersOfAll(c) == 1 .. c

\* the connections whose callbacks see the variable of the loop that connection c binds a queue to
Sharers(c) == first .. c

Bind ==
  /\ pc = "idle" /\ enabled /\ conn < MaxConns /\ conn' = conn + 1 /\ pc' = "connecting"
  /\ sees' = [c \in Conns |-> IF c \in Sharers(conn') THEN conn' ELSE sees[c]]
  /\ strays' = strays \cup {c \in first .. conn : thread[c] \in {"reading", "retrying"}}
  /\ UNCHANGED <<installed, enabled, first, thread, traffic>>

\* ais.connect, which the event loop waits for, and the thread; or the connect raises
Connect ==
  /\ pc = "connecting"
  /\ \/ /\ pc' = "consuming" /\ thread' = [thread EXCEPT ![conn] = "reading"]
        /\ taken' = [taken EXCEPT ![conn] = sent]
     \/ pc' = "idle" /\ UNCHANGED <<thread, taken>>
  /\ UNCHANGED <<installed, enabled, conn, first, sees, strays, calls, queue, sent, ingested>>

Goes(from, to) ==
  /\ pc = from /\ pc' = to
  /\ UNCHANGED <<installed, enabled, conn, first, sees, strays, thread, traffic>>

\* the checks of a round: queue.get() is awaited, or the loop gives the connection up
Wait == Goes("consuming", "waiting") /\ enabled /\ thread[conn] # "ended"
GiveUp == Goes("consuming", "closing") /\ ~(enabled /\ thread[conn] # "ended")

TimedOut == Goes("waiting", "consuming")

\* the next packet, and _ingest_packet, which a thread works on
Ingest ==
  /\ pc = "waiting" /\ queue[conn] # <<>> /\ pc' = "ingesting"
  /\ ingested' = Append(ingested, Head(queue[conn])) /\ queue' = [queue EXCEPT ![conn] = Tail(@)]
  /\ UNCHANGED <<installed, enabled, conn, first, sees, strays, thread, taken, calls, sent>>

\* it returns, or raises, and the connection is given up
IngestEnd == Goes("ingesting", "consuming") \/ Goes("ingesting", "closing")

\* the thread ended, or the two seconds are over
Closed == Goes("closing", "idle")

\* stop_service: the loop is cancelled where it waits
Stop == ~installed /\ \E from \in {"idle", "waiting", "ingesting", "closing"} : Goes(from, "off")

\* the settings of the module, and the marketplace
Toggle ==
  /\ ~Busy
  /\ \/ enabled' = ~enabled /\ UNCHANGED installed
     \/ installed' = ~installed /\ UNCHANGED enabled
  /\ UNCHANGED <<pc, conn, first, sees, strays, thread, traffic>>

Next ==
  \/ Send \/ Start \/ Bind \/ Connect \/ Wait \/ GiveUp \/ TimedOut \/ Ingest \/ IngestEnd
  \/ Closed \/ Stop \/ Toggle
  \/ \E c \in Conns : OnPacket(c) \/ ThreadMoves(c) \/ PutNowait(c)

Spec == Init /\ [][Next]_vars

--------------------------------------------------------------------------------
\* A packet comes before a later one, or a consumer that was left behind brought one of them.
Ordered(e, f) == e.n < f.n \/ (e.by # f.by /\ (e.by \in strays \/ f.by \in strays))

\* No packet of APRS-IS is ingested twice, and none after a later one, whatever connections were
\* lost or given up, queues overran, and the module stopped and started, but between a consumer
\* its loop left behind and its successors, which fill one queue; one that an earlier start of
\* the service left behind brings nothing (_is_loop).
IngestedInOrder == \A i, j \in DOMAIN ingested : i < j => Ordered(ingested[i], ingested[j])
================================================================================
