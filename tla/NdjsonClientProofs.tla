--------------------------- MODULE NdjsonClientProofs ---------------------------
(***************************************************************************)
(* Proofs about module NdjsonClient, for any number of threads, lines and  *)
(* sockets.  OneConnection counts sockets; what is inductive is which      *)
(* socket the open one is, at each step of the export thread.              *)
(***************************************************************************)
EXTENDS NdjsonClient, FiniteSetTheorems, TLAPS

(* While the client runs nothing is open but the socket in use, or the one *)
(* being connected; stop() closes only afterwards.                         *)
NInv ==
  running =>
    /\ ~closing
    /\ pc = "connect" => open = {}
    /\ pc = "assign" => open \subseteq {fresh}
    /\ pc \notin {"connect", "assign"} => open \subseteq {socket}

LEMMA InitInv == Init => NInv
BY DEF Init, NInv

(* A step of the export thread.                                            *)
LEMMA ExportKeeps ==
  ASSUME NInv, Export
  PROVE  NInv'
<1> SUFFICES ASSUME running PROVE NInv'
  BY DEF NInv, Export, Check, Ensure, Connect, Connected, Assign, Poll, WriteOk, Fails, SleepEnd,
         Final, control
<1>0. UNCHANGED <<running, closing>>
  BY DEF Export, Check, Ensure, Connect, Connected, Assign, Poll, WriteOk, Fails, SleepEnd, Final,
         control
<1>1. CASE Check \/ Poll \/ WriteOk \/ SleepEnd
  BY <1>0, <1>1 DEF NInv, Check, Poll, WriteOk, SleepEnd, Goto, sockets
<1>2. CASE Ensure
  <2>1. CASE Healthy
    BY <1>0, <1>2, <2>1 DEF NInv, Ensure, Goto
  <2>2. CASE ~Healthy
    BY <1>0, <1>2, <2>2 DEF NInv, Ensure, Goto, CloseQuietly
  <2> QED
    BY <2>1, <2>2
<1>3. CASE Connect
  BY <1>0, <1>3 DEF NInv, Connect, Goto
<1>4. CASE Connected
  BY <1>0, <1>4 DEF NInv, Connected, Assign, Goto
<1>5. CASE Fails \/ Final
  BY <1>0, <1>5 DEF NInv, Fails, Final, Goto, CloseQuietly
<1> QED
  BY <1>1, <1>2, <1>3, <1>4, <1>5 DEF Export

(* The decoder's threads and the watchers leave the sockets as they are,   *)
(* and a client that was stopped does not run again.                       *)
LEMMA OthersKeep ==
  ASSUME NInv,
         \/ \E p \in Producers : Send(p) \/ SendMakesRoom(p) \/ SendAgain(p)
         \/ \E s \in Sockets : Watcher(s) \/ PeerClose(s)
         \/ Stop \/ StopClose \/ UNCHANGED vars
  PROVE  NInv'
<1>1. ASSUME NEW p \in Producers, Send(p) \/ SendMakesRoom(p) \/ SendAgain(p)
      PROVE  UNCHANGED <<control, worker, sockets>>
  BY <1>1 DEF Send, SendMakesRoom, SendAgain
<1>2. ASSUME NEW s \in Sockets, Watcher(s) \/ PeerClose(s)
      PROVE  UNCHANGED <<control, worker, fresh, socket, open>>
  BY <1>2 DEF Watcher, WatchRead, WatchCompare, WatchMark, PeerClose
<1>3. CASE Stop \/ StopClose
  BY <1>3 DEF NInv, Stop, StopClose
<1>4. CASE UNCHANGED <<control, worker, fresh, socket, open>>
  BY <1>4 DEF NInv, control, worker
<1> QED
  BY <1>1, <1>2, <1>3, <1>4 DEF vars, sockets

LEMMA Inductive == Spec => []NInv
<1>1. NInv /\ [Next]_vars => NInv'
  BY ExportKeeps, OthersKeep DEF Next
<1> QED
  BY <1>1, InitInv, PTL DEF Spec

(* Until it is stopped the client has one connection at most: every way to *)
(* a new one goes through closeQuietly (ensureConnected in                 *)
(* NdjsonTcpClient.java).                                                  *)
THEOREM OneAtMost == Spec => []OneConnection
<1>1. NInv => OneConnection
  <2> SUFFICES ASSUME NInv, running PROVE Cardinality(open) <= 1
    BY DEF OneConnection
  <2>1. PICK s : open \subseteq {s}
    BY DEF NInv
  <2>2. IsFiniteSet({s}) /\ Cardinality({s}) = 1
    BY FS_Singleton
  <2>3. IsFiniteSet(open) /\ Cardinality(open) <= Cardinality({s})
    BY <2>1, <2>2, FS_Subset
  <2> QED
    BY <2>2, <2>3
<1> QED
  BY <1>1, Inductive, PTL

--------------------------------------------------------------------------------
(* Lines.  The queue is a run of consecutive numbers that ends with the    *)
(* last line taken; what is being written is older, and what was written   *)
(* is older still.                                                         *)
Numbers ==
  /\ queue \in Seq(Nat) /\ accepted \in Nat /\ written \in Nat /\ last \in Nat /\ inflight \in Nat
  /\ Len(queue) <= QueueSize

Run ==
  /\ Len(queue) <= accepted
  /\ \A i \in 1 .. Len(queue) : queue[i] = accepted - Len(queue) + i

Older ==
  /\ last <= accepted - Len(queue)
  /\ inflight # None => pc = "write" /\ last < inflight /\ inflight <= accepted - Len(queue)

(* A thread that has made room finds it, unless another line took it.      *)
Room ==
  /\ phase \in [Producers -> {"idle", "full", "retry"}]
  /\ \A p \in Producers : phase[p] = "retry" /\ p \notin overtaken => Len(queue) < QueueSize

LInv == Numbers /\ Run /\ Older /\ Room

(* Taking a line at one end and evicting one at the other keep the run.    *)
LEMMA AppendRuns ==
  ASSUME Numbers, Run, queue' = Append(queue, accepted + 1), accepted' = accepted + 1
  PROVE  /\ queue' \in Seq(Nat) /\ accepted' \in Nat /\ Run'
         /\ accepted' - Len(queue') = accepted - Len(queue) /\ Len(queue') = Len(queue) + 1
<1>1. queue' \in Seq(Nat) /\ Len(queue') = Len(queue) + 1 /\ Len(queue) \in Nat
  BY DEF Numbers
<1>2. ASSUME NEW i \in 1 .. Len(queue') PROVE queue'[i] = accepted' - Len(queue') + i
  <2>1. CASE i \in 1 .. Len(queue)
    BY <1>1, <2>1 DEF Numbers, Run
  <2>2. CASE i = Len(queue) + 1
    BY <1>1, <2>2 DEF Numbers
  <2> QED
    BY <1>1, <2>1, <2>2
<1> QED
  BY <1>1, <1>2 DEF Numbers, Run

LEMMA TailRuns ==
  ASSUME Numbers, Run, queue # <<>>, queue' = Tail(queue), accepted' = accepted
  PROVE  /\ queue' \in Seq(Nat) /\ Run' /\ Len(queue') = Len(queue) - 1
         /\ Head(queue) = accepted - Len(queue) + 1 /\ Len(queue) \in Nat \ {0}
<1>1. queue' \in Seq(Nat) /\ Len(queue') = Len(queue) - 1 /\ Len(queue) \in Nat \ {0}
  BY DEF Numbers
<1>2. Head(queue) = queue[1]
  BY DEF Numbers
<1>3. ASSUME NEW i \in 1 .. Len(queue') PROVE queue'[i] = accepted' - Len(queue') + i
  <2>1. queue'[i] = queue[i + 1] /\ i + 1 \in 1 .. Len(queue)
    BY <1>1 DEF Numbers
  <2> QED
    BY <1>1, <2>1 DEF Numbers, Run
<1> QED
  BY <1>1, <1>2, <1>3 DEF Numbers, Run

(* A line of a decoder thread.                                             *)
LEMMA OfferKeeps ==
  ASSUME LInv, NEW p \in Producers, Offer(p), phase' \in [Producers -> {"idle", "full", "retry"}],
         phase'[p] = "idle", \A q \in Producers \ {p} : phase'[q] = phase[q],
         UNCHANGED <<pc, inflight>>
  PROVE  LInv'
<1>1. /\ Len(queue) < QueueSize /\ UNCHANGED <<written, last>>
      /\ queue' = Append(queue, accepted + 1) /\ accepted' = accepted + 1
  BY DEF Offer
<1>2. /\ queue' \in Seq(Nat) /\ accepted' \in Nat /\ Run'
      /\ accepted' - Len(queue') = accepted - Len(queue) /\ Len(queue') = Len(queue) + 1
  BY <1>1, AppendRuns DEF LInv
<1>3. Numbers'
  BY <1>1, <1>2, QueueAssumption DEF LInv, Numbers
<1>4. Older'
  BY <1>1, <1>2 DEF LInv, Older
<1>5. Room'
  <2>1. ASSUME NEW q \in Producers, phase'[q] = "retry" PROVE q \in overtaken'
    <3>1. q # p /\ phase[q] = "retry"
      BY <2>1
    <3> QED
      BY <3>1 DEF Offer
  <2> QED
    BY <2>1 DEF Room
<1> QED
  BY <1>2, <1>3, <1>4, <1>5 DEF LInv

LEMMA SendKeeps ==
  ASSUME LInv, NEW p \in Producers, Send(p) \/ SendMakesRoom(p) \/ SendAgain(p)
  PROVE  LInv'
<1>1. UNCHANGED <<pc, inflight>>
  BY DEF Send, SendMakesRoom, SendAgain, worker
<1>2. /\ phase' \in [Producers -> {"idle", "full", "retry"}]
      /\ \A q \in Producers \ {p} : phase'[q] = phase[q]
  BY DEF Send, SendMakesRoom, SendAgain, Call, LInv, Room
<1>3. CASE Offer(p) /\ phase'[p] = "idle"
  BY <1>1, <1>2, <1>3, OfferKeeps
<1>4. CASE SendMakesRoom(p)
  <2>1. /\ UNCHANGED <<accepted, written, last, overtaken>>
        /\ queue' = IF queue = <<>> THEN queue ELSE Tail(queue)
    BY <1>4 DEF SendMakesRoom
  <2>2. CASE queue = <<>>
    <3>1. queue' = queue /\ Len(queue) = 0
      BY <2>1, <2>2
    <3> QED
      BY <1>1, <1>2, <2>1, <3>1, QueueAssumption DEF LInv, Numbers, Run, Older, Room
  <2>3. CASE queue # <<>>
    <3>1. /\ queue' \in Seq(Nat) /\ Run' /\ Len(queue') = Len(queue) - 1
          /\ Len(queue) \in Nat \ {0}
      BY <2>1, <2>3, TailRuns DEF LInv
    <3>2. Numbers' /\ Len(queue') < QueueSize
      BY <1>1, <2>1, <3>1, QueueAssumption DEF LInv, Numbers
    <3>3. Older'
      BY <1>1, <2>1, <3>1 DEF LInv, Numbers, Older
    <3> QED
      BY <1>2, <3>1, <3>2, <3>3 DEF LInv, Room
  <2> QED
    BY <2>2, <2>3
<1>5. CASE UNCHANGED lines /\ overtaken \ {p} \subseteq overtaken' /\ phase'[p] # "retry"
  <2>1. Numbers' /\ Run' /\ Older'
    BY <1>1, <1>5 DEF LInv, Numbers, Run, Older, lines
  <2>2. ASSUME NEW q \in Producers, phase'[q] = "retry", q \notin overtaken'
        PROVE  Len(queue') < QueueSize
    <3>1. q # p /\ phase[q] = "retry" /\ q \notin overtaken
      BY <1>2, <1>5, <2>2
    <3> QED
      BY <1>5, <3>1 DEF LInv, Room, lines
  <2> QED
    BY <1>2, <2>1, <2>2 DEF LInv, Room
<1>6. Send(p) \/ SendAgain(p) => \/ Offer(p) /\ phase'[p] = "idle"
                                \/ /\ UNCHANGED lines /\ overtaken \ {p} \subseteq overtaken'
                                   /\ phase'[p] # "retry"
  BY DEF Send, SendAgain, Call, LInv, Room
<1> QED
  BY <1>3, <1>4, <1>5, <1>6

(* The other threads take lines out of the queue, or leave it.             *)
LEMMA WorkKeeps ==
  ASSUME LInv, Export \/ (\E s \in Sockets : Watcher(s) \/ PeerClose(s)) \/ Stop \/ StopClose
               \/ UNCHANGED vars
  PROVE  LInv'
<1>1. CASE /\ UNCHANGED <<lines, calls>>
           /\ inflight' = None \/ (UNCHANGED inflight /\ (pc = "write" => pc' = "write"))
  <2>1. Older'
    BY <1>1 DEF LInv, Older, lines, None
  <2>2. Numbers'
    BY <1>1 DEF LInv, Numbers, lines, None
  <2> QED
    BY <1>1, <2>1, <2>2 DEF LInv, Run, Room, lines, calls
<1>2. CASE Poll
  <2>1. UNCHANGED <<accepted, written, last, phase, overtaken>> /\ pc = "poll"
    BY <1>2 DEF Poll, Goto, calls
  <2>2. inflight = None
    BY <2>1 DEF LInv, Older
  <2>3. CASE queue # <<>> /\ Takes /\ pc' = "write"
    <3>1. queue' = Tail(queue) /\ inflight' = Head(queue)
      BY <2>3 DEF Takes
    <3>2. /\ queue' \in Seq(Nat) /\ Run' /\ Len(queue') = Len(queue) - 1
          /\ Head(queue) = accepted - Len(queue) + 1 /\ Len(queue) \in Nat \ {0}
      BY <2>1, <2>3, <3>1, TailRuns DEF LInv
    <3>3. Numbers' /\ Len(queue') < QueueSize
      BY <2>1, <3>1, <3>2, QueueAssumption DEF LInv, Numbers, Run
    <3>4. Older'
      BY <2>1, <2>3, <3>1, <3>2 DEF LInv, Numbers, Older
    <3> QED
      BY <2>1, <3>2, <3>3, <3>4 DEF LInv, Room
  <2>4. CASE UNCHANGED <<queue, inflight>>
    BY <2>1, <2>2, <2>4 DEF LInv, Numbers, Run, Older, Room
  <2> QED
    BY <1>2, <2>3, <2>4 DEF Poll, Goto
<1>3. CASE WriteOk
  <2>1. /\ UNCHANGED <<queue, accepted, phase, overtaken>> /\ inflight' = None
        /\ \/ UNCHANGED <<written, last>>
           \/ inflight # None /\ written' = written + 1 /\ last' = inflight
    BY <1>3 DEF WriteOk, calls
  <2>2. Numbers' /\ Older'
    BY <2>1 DEF LInv, Numbers, Older, None
  <2> QED
    BY <2>1, <2>2 DEF LInv, Run, Room
<1>4. Export => Poll \/ WriteOk \/ (/\ UNCHANGED <<lines, calls>>
                                    /\ \/ inflight' = None
                                       \/ UNCHANGED inflight /\ (pc = "write" => pc' = "write"))
  BY DEF Export, Check, Ensure, Connect, Connected, Assign, Fails, SleepEnd, Final, Goto
<1>5. ASSUME NEW s \in Sockets, Watcher(s) \/ PeerClose(s)
      PROVE  UNCHANGED <<lines, calls, inflight, pc>>
  BY <1>5 DEF Watcher, WatchRead, WatchCompare, WatchMark, PeerClose, worker
<1>6. Stop \/ StopClose \/ UNCHANGED vars => UNCHANGED <<lines, calls, inflight, pc>>
  BY DEF Stop, StopClose, vars, worker
<1> QED
  BY <1>1, <1>2, <1>3, <1>4, <1>5, <1>6

LEMMA LinesInductive == Spec => []LInv
<1>1. Init => LInv
  BY QueueAssumption DEF Init, LInv, Numbers, Run, Older, Room, None
<1>2. LInv /\ [Next]_vars => LInv'
  BY SendKeeps, WorkKeeps DEF Next
<1> QED
  BY <1>1, <1>2, PTL DEF Spec

(* Whatever the threads of the decoder do, lines are written in the order  *)
(* they were taken and each at most once: the client implements the lossy  *)
(* FIFO channel (send, runLoop).                                           *)
THEOREM Implements == Spec => IsLossyFifo
<1>1. Init => Channel!Init
  BY DEF Init, Channel!Init
<1>2. LInv /\ [Next]_vars => [Channel!Next]_(Channel!chanVars)
  <2> SUFFICES ASSUME LInv, [Next]_vars PROVE [Channel!Next]_(Channel!chanVars)
    OBVIOUS
  <2> USE DEF Channel!chanVars
  <2>1. ASSUME NEW p \in Producers, Offer(p) PROVE Channel!Next
    BY <2>1 DEF Offer, Channel!Next, Channel!Accept
  <2>2. CASE WriteOk
    <3>1. CASE inflight = None
      BY <2>2, <3>1 DEF WriteOk
    <3>2. CASE inflight # None
      <4>1. last' = inflight /\ written' = written + 1 /\ accepted' = accepted
        BY <2>2, <3>2 DEF WriteOk
      <4>2. inflight \in (last + 1) .. accepted
        BY <3>2 DEF LInv, Numbers, Older
      <4> QED
        BY <4>1, <4>2 DEF Channel!Next, Channel!Deliver
    <3> QED
      BY <3>1, <3>2
  <2>3. CASE \E p \in Producers : Send(p) \/ SendMakesRoom(p) \/ SendAgain(p)
    <3>1. PICK p \in Producers : Send(p) \/ SendMakesRoom(p) \/ SendAgain(p)
      BY <2>3
    <3>2. Offer(p) \/ UNCHANGED <<accepted, last, written>>
      BY <3>1 DEF Send, SendMakesRoom, SendAgain, lines
    <3> QED
      BY <2>1, <3>2
  <2>4. Export => WriteOk \/ UNCHANGED <<accepted, last, written>>
    BY DEF Export, Check, Ensure, Connect, Connected, Assign, Poll, Fails, SleepEnd, Final, lines
  <2>5. ASSUME NEW s \in Sockets, Watcher(s) \/ PeerClose(s) PROVE UNCHANGED <<accepted, last, written>>
    BY <2>5 DEF Watcher, WatchRead, WatchCompare, WatchMark, PeerClose, lines
  <2>6. Stop \/ StopClose \/ UNCHANGED vars => UNCHANGED <<accepted, last, written>>
    BY DEF Stop, StopClose, vars, lines
  <2> QED
    BY <2>2, <2>3, <2>4, <2>5, <2>6 DEF Next
<1> QED
  BY <1>1, <1>2, LinesInductive, PTL DEF Spec, IsLossyFifo, Channel!Spec

(* "Drops the oldest queued line" (the class comment): a line is refused   *)
(* only when a line of another thread took the room that was made for it   *)
(* (send).                                                                 *)
THEOREM Refused == Spec => RefusedBehindNewer
<1>1. LInv /\ [Next]_vars => [\A p \in Producers :
         phase[p] = "retry" /\ phase'[p] = "idle" /\ accepted' = accepted => p \in overtaken]_vars
  <2> SUFFICES ASSUME LInv, Next, NEW p \in Producers,
                      phase[p] = "retry", phase'[p] = "idle", accepted' = accepted
               PROVE  p \in overtaken
    OBVIOUS
  <2>1. ASSUME NEW q \in Producers, Send(q) \/ SendMakesRoom(q) PROVE FALSE
    BY <2>1 DEF Send, SendMakesRoom, Call, LInv, Room
  <2>2. ASSUME NEW q \in Producers, SendAgain(q) PROVE p \in overtaken
    <3>1. q = p
      BY <2>2 DEF SendAgain, Call, LInv, Room
    <3>2. Len(queue) = QueueSize
      BY <2>2, <3>1 DEF SendAgain, Offer, LInv, Numbers
    <3> QED
      BY <3>2, QueueAssumption DEF LInv, Room, Numbers
  <2>3. UNCHANGED phase => FALSE
    OBVIOUS
  <2>4. Export => UNCHANGED phase
    BY DEF Export, Check, Ensure, Connect, Connected, Assign, Poll, WriteOk, Fails, SleepEnd, Final,
           calls
  <2>5. ASSUME NEW s \in Sockets, Watcher(s) \/ PeerClose(s) PROVE UNCHANGED phase
    BY <2>5 DEF Watcher, WatchRead, WatchCompare, WatchMark, PeerClose, calls
  <2>6. Stop \/ StopClose => UNCHANGED phase
    BY DEF Stop, StopClose, calls
  <2> QED
    BY <2>1, <2>2, <2>3, <2>4, <2>5, <2>6 DEF Next
<1> QED
  BY <1>1, LinesInductive, PTL DEF Spec, RefusedBehindNewer
================================================================================
