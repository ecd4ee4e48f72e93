------------------------- MODULE LocationPipelineProofs -------------------------
(***************************************************************************)
(* Proofs about module LocationPipeline, for any feeds, radios, servers    *)
(* and intervals.  The gate reads last_sent; what makes it right is what   *)
(* last_sent, or a call that has passed the gate and not yet written it,   *)
(* has to do with the reports forwarded before. What goes to the managers  *)
(* has an invariant of its own, further down.                              *)
(***************************************************************************)
EXTENDS LocationPipeline, SequenceTheorems, TLAPS

(* What the variables hold.                                                *)
Reports == [n : Nat, radio : Radios, place : Places, kind : {"plain", "old", "emergency"},
            at : Int, todo : SUBSET Servers, style : Servers \cup {NoServer}]
Forwards == [n : Nat, radio : Radios, at : Int, place : Places, emergency : BOOLEAN, feed : Feeds]
Shape ==
  /\ clock \in Nat /\ received \in Nat /\ enabled \subseteq Servers
  /\ lastSent \in [Radios -> [at : Int, place : Places]]
  /\ pc \in [Feeds -> Steps]
  /\ job = [f \in Feeds |-> job[f]] /\ \A f \in Feeds : Busy(f) => job[f] \in Reports
  /\ forwards \in Seq(Forwards)
  /\ \A i \in DOMAIN forwards : forwards[i].at >= 0 /\ forwards[i].at <= clock

(* The calls past the gate that have not written last_sent yet.            *)
Pending == {"select", "enqueue", "commit", "remember"}

(* A radio that counts has one call at a time.                             *)
OneCall ==
  \A f, g \in Feeds :
    Busy(f) /\ Busy(g) /\ job[f].radio = job[g].radio /\ job[f].radio \in alone => f = g

(* at and place are those of the last forward of radio r, and the latest.  *)
IsLast(list, i) == \A k \in DOMAIN list : list[k].radio = list[i].radio => k <= i
IsLatest(list, r, at, place) ==
  \A i \in DOMAIN list :
    list[i].radio = r =>
      /\ list[i].at <= at
      /\ IsLast(list, i) => list[i].at = at /\ list[i].place = place

(* last_sent has them, unless a call holds them that will write them.      *)
Written ==
  \A r \in alone :
    (\A f \in Feeds : pc[f] \in Pending => job[f].radio # r)
      => IsLatest(forwards, r, lastSent[r].at, lastSent[r].place)
WillWrite ==
  \A f \in Feeds :
    pc[f] \in Pending /\ job[f].radio \in alone
      => IsLatest(forwards, job[f].radio, job[f].at, job[f].place)

(* For every radio, what last_sent or such a call holds was forwarded.     *)
IsForwarded(list, r, at, place) ==
  \E i \in DOMAIN list : list[i].radio = r /\ list[i].at = at /\ list[i].place = place
Backed ==
  /\ \A r \in Radios :
       lastSent[r].at # Never => IsForwarded(forwards, r, lastSent[r].at, lastSent[r].place)
  /\ \A f \in Feeds :
       pc[f] \in Pending => IsForwarded(forwards, job[f].radio, job[f].at, job[f].place)

PInv ==
  /\ Shape /\ OneCall /\ Written /\ WillWrite /\ Backed /\ alone \subseteq Radios
  /\ MinIntervalKeptAlone /\ HeartbeatKept

LEMMA ForwardType ==
  ASSUME Shape, NEW i \in DOMAIN forwards
  PROVE  forwards[i] \in Forwards /\ forwards[i].at \in Int
<1>1. forwards[i] \in Forwards
  BY DEF Shape
<1> QED
  BY <1>1 DEF Forwards

LEMMA InitInv == Init => PInv
<1> SUFFICES ASSUME Init PROVE PInv
  OBVIOUS
<1>1. forwards = <<>> /\ DOMAIN forwards = {} /\ forwards \in Seq(Forwards)
  BY DEF Init
<1>2. \A f \in Feeds : pc[f] = "idle"
  BY DEF Init
<1>3. Shape
  <2>1. pc \in [Feeds -> Steps]
    BY DEF Init, Steps
  <2>2. lastSent \in [Radios -> [at : Int, place : Places]]
    BY DEF Init, Unsent, Never
  <2> QED
    BY <1>1, <1>2, <2>1, <2>2 DEF Init, Shape, Busy
<1>4. \A r \in Radios : lastSent[r].at = Never
  BY DEF Init, Unsent
<1> QED
  BY <1>1, <1>2, <1>3, <1>4 DEF Init, PInv, OneCall, Written, WillWrite, Backed, IsLatest, Busy,
     Pending, MinIntervalKeptAlone, HeartbeatKept

--------------------------------------------------------------------------------
(* A step that forwards nothing and leaves last_sent alone: the calls past *)
(* the gate go on, or their radio does not count any more.                 *)
LEMMA QuietKeeps ==
  ASSUME PInv, Shape', UNCHANGED <<forwards, lastSent>>, alone' \subseteq alone,
         \A f \in Feeds : pc'[f] \in Pending =>
           /\ pc[f] \in Pending /\ job'[f].radio = job[f].radio
           /\ job'[f].at = job[f].at /\ job'[f].place = job[f].place,
         \A f \in Feeds : pc[f] \in Pending => pc'[f] \in Pending \/ job[f].radio \notin alone',
         OneCall'
  PROVE  PInv'
<1>1. \A r, at, place : IsLatest(forwards', r, at, place) <=> IsLatest(forwards, r, at, place)
  BY DEF IsLatest, IsLast
<1>2. \A r, at, place : IsForwarded(forwards', r, at, place) <=> IsForwarded(forwards, r, at, place)
  BY DEF IsForwarded
<1>3. Written'
  <2> SUFFICES ASSUME NEW r \in alone', \A f \in Feeds : pc'[f] \in Pending => job'[f].radio # r
               PROVE  IsLatest(forwards, r, lastSent[r].at, lastSent[r].place)
    BY <1>1 DEF Written
  <2>1. \A f \in Feeds : pc[f] \in Pending => job[f].radio # r
    OBVIOUS
  <2> QED
    BY <2>1 DEF PInv, Written
<1>4. WillWrite'
  BY <1>1 DEF PInv, WillWrite
<1>5. Backed'
  BY <1>2 DEF PInv, Backed
<1>6. MinIntervalKeptAlone' /\ HeartbeatKept'
  BY DEF PInv, MinIntervalKeptAlone, HeartbeatKept, Spaced, Earlier
<1> QED
  BY <1>3, <1>4, <1>5, <1>6 DEF PInv

(* A call goes on from one step to another.                                *)
LEMMA MoveKeeps ==
  ASSUME PInv, NEW f \in Feeds, NEW from \in Steps \ {"idle"}, NEW to \in Steps, Goto(f, from, to),
         NEW frame, job' = [job EXCEPT ![f] = frame],
         to # "idle" => frame \in Reports /\ frame.radio = job[f].radio,
         to \in Pending => frame.at = job[f].at /\ frame.place = job[f].place,
         to \in Pending => from \in Pending,
         from \in Pending => to \in Pending \/ alone' = alone \ {job[f].radio},
         alone' \subseteq alone,
         UNCHANGED <<clock, received, enabled, forwards, lastSent>>
  PROVE  PInv'
<1>1. /\ pc' \in [Feeds -> Steps] /\ pc[f] = from /\ pc'[f] = to /\ job'[f] = frame
      /\ job' = [g \in Feeds |-> job'[g]]
      /\ \A g \in Feeds \ {f} : pc'[g] = pc[g] /\ job'[g] = job[g]
  BY DEF PInv, Shape, Goto
<1>2. Shape'
  BY <1>1 DEF PInv, Shape, Busy
<1>3. OneCall'
  <2>1. \A g \in Feeds : Busy(g)' => Busy(g) /\ job'[g].radio = job[g].radio
    BY <1>1 DEF Busy
  <2> QED
    BY <2>1 DEF PInv, OneCall
<1>4. \A g \in Feeds : pc'[g] \in Pending =>
        /\ pc[g] \in Pending /\ job'[g].radio = job[g].radio
        /\ job'[g].at = job[g].at /\ job'[g].place = job[g].place
  BY <1>1 DEF Pending
<1>5. \A g \in Feeds : pc[g] \in Pending => pc'[g] \in Pending \/ job[g].radio \notin alone'
  BY <1>1
<1> QED
  BY <1>2, <1>3, <1>4, <1>5, QuietKeeps

(* The steps of a call that forward nothing and write nothing.             *)
LEMMA CallKeeps ==
  ASSUME PInv, NEW f \in Feeds,
         \/ Observe(f) \/ GateDrop(f) \/ Select(f) \/ EnqueueOne(f) \/ Commit(f)
         \/ Again(f) \/ CommitFails(f)
  PROVE  PInv'
<1>0. /\ pc \in [Feeds -> Steps] /\ job = [g \in Feeds |-> job[g]]
      /\ Busy(f) => job[f] \in Reports
  BY DEF PInv, Shape
<1>a. ASSUME NEW from, NEW to, Go(f, from, to)
      PROVE  /\ Goto(f, from, to)
             /\ job' = [job EXCEPT ![f] = IF to = "idle" THEN NoJob ELSE job[f]]
  BY <1>0, <1>a DEF Go
<1>b. ASSUME NEW from \in Steps \ {"idle"}, NEW to \in Steps, Go(f, from, to),
             to \in Pending => from \in Pending,
             from \in Pending => to \in Pending \/ alone' = alone \ {job[f].radio},
             alone' \subseteq alone, UNCHANGED <<clock, received, enabled, forwards, lastSent>>
      PROVE  PInv'
  <2> DEFINE frame == IF to = "idle" THEN NoJob ELSE job[f]
  <2>1. Goto(f, from, to) /\ job' = [job EXCEPT ![f] = frame]
    BY <1>a, <1>b
  <2>2. to # "idle" => frame \in Reports /\ frame.radio = job[f].radio
    BY <1>0, <2>1 DEF Goto, Busy
  <2>3. to \in Pending => frame.at = job[f].at /\ frame.place = job[f].place
    BY DEF Pending
  <2> HIDE DEF frame
  <2> QED
    BY <1>b, <2>1, <2>2, <2>3, MoveKeeps
<1>1. CASE Observe(f)
  BY <1>1, <1>b DEF Observe, Steps, Pending, shared, rows
<1>2. CASE GateDrop(f) \/ Again(f)
  BY <1>2, <1>b DEF GateDrop, Again, Steps, Pending, shared, rows
<1>3. CASE Commit(f)
  BY <1>3, <1>b DEF Commit, Steps, Pending, shared, rows
<1>4. CASE CommitFails(f)
  BY <1>4, <1>b DEF CommitFails, Steps, Pending, shared, rows
<1>5. CASE Select(f)
  <2>1. CASE Goto(f, "select", "commit") /\ UNCHANGED job
    <3>1. job' = [job EXCEPT ![f] = job[f]] /\ job[f] \in Reports
      BY <1>0, <2>1 DEF Goto, Busy
    <3>2. UNCHANGED <<clock, received, enabled, forwards, lastSent, alone>>
      BY <1>5 DEF Select, shared, rows
    <3> QED
      BY <2>1, <3>1, <3>2, MoveKeeps DEF Steps, Pending
  <2>2. CASE Goto(f, "select", "enqueue") /\ job' = [job EXCEPT ![f].todo = enabled]
    <3> DEFINE frame == [job[f] EXCEPT !.todo = enabled]
    <3>1. job' = [job EXCEPT ![f] = frame] /\ job[f] \in Reports
      BY <1>0, <2>2 DEF Goto, Busy
    <3>2. frame \in Reports
          /\ frame.radio = job[f].radio /\ frame.at = job[f].at /\ frame.place = job[f].place
      BY <3>1 DEF PInv, Shape, Reports
    <3>3. UNCHANGED <<clock, received, enabled, forwards, lastSent, alone>>
      BY <1>5 DEF Select, shared, rows
    <3> QED
      BY <2>2, <3>1, <3>2, <3>3, MoveKeeps DEF Steps, Pending
  <2> QED
    BY <1>5, <2>1, <2>2 DEF Select
<1>6. CASE EnqueueOne(f)
  <2>1. PICK s \in job[f].todo :
          /\ job' = [job EXCEPT ![f].todo = @ \ {s}, ![f].style = IF @ = NoServer THEN s ELSE @]
          /\ Goto(f, "enqueue", IF job[f].todo = {s} THEN "commit" ELSE "enqueue")
    BY <1>6 DEF EnqueueOne
  <2> DEFINE frame == [job[f] EXCEPT !.todo = @ \ {s}, !.style = IF @ = NoServer THEN s ELSE @]
             to == IF job[f].todo = {s} THEN "commit" ELSE "enqueue"
  <2>2. job' = [job EXCEPT ![f] = frame] /\ job[f] \in Reports
    BY <1>0, <2>1 DEF Goto, Busy
  <2>3. s \in Servers
    BY <2>1, <2>2 DEF Reports
  <2>4. frame \in Reports
        /\ frame.radio = job[f].radio /\ frame.at = job[f].at /\ frame.place = job[f].place
    <3> DEFINE style == IF job[f].style = NoServer THEN s ELSE job[f].style
               todo == job[f].todo \ {s}
    <3>1. style \in Servers \cup {NoServer} /\ todo \in SUBSET Servers
      BY <2>2, <2>3 DEF Reports
    <3>2. frame = [job[f] EXCEPT !.todo = todo, !.style = style]
      BY <2>2 DEF Reports
    <3> HIDE DEF frame, style, todo
    <3> QED
      BY <2>2, <3>1, <3>2 DEF Reports
  <2>5. UNCHANGED <<clock, received, enabled, forwards, lastSent, alone>>
    BY <1>6 DEF EnqueueOne, shared, rows
  <2>6. to \in {"commit", "enqueue"} /\ Goto(f, "enqueue", to)
    BY <2>1
  <2>7. "enqueue" \in Steps \ {"idle"} /\ "enqueue" \in Pending /\ to \in Steps /\ to \in Pending
    BY <2>6 DEF Steps, Pending
  <2> HIDE DEF frame, to
  <2> QED
    BY <2>2, <2>4, <2>5, <2>6, <2>7, MoveKeeps
<1> QED
  BY <1>1, <1>2, <1>3, <1>4, <1>5, <1>6

(* A report comes in; a radio that another call is about does not count    *)
(* any more.                                                               *)
LEMMA ReceiveKeeps ==
  ASSUME PInv, FeedsAssumption, NEW f \in Feeds, Receive(f)
  PROVE  PInv'
<1>1. PICK report \in Report(f) :
        /\ job' = [job EXCEPT ![f] = report]
        /\ alone' = IF \E g \in Feeds \ {f} : Busy(g) /\ job[g].radio = report.radio
                      THEN alone \ {report.radio} ELSE alone
  BY DEF Receive
<1>2. report \in Reports
  <2>1. Heard[f] \subseteq Radios
    BY DEF FeedsAssumption
  <2>2. received + 1 \in Nat /\ Never \in Int
    BY DEF PInv, Shape, Never
  <2> QED
    BY <2>1, <2>2 DEF Report, Reports
<1>3. /\ pc' \in [Feeds -> Steps] /\ pc[f] = "idle" /\ pc'[f] = "observe" /\ job'[f] = report
      /\ job' = [g \in Feeds |-> job'[g]]
      /\ \A g \in Feeds \ {f} : pc'[g] = pc[g] /\ job'[g] = job[g]
  BY <1>1 DEF PInv, Shape, Receive, Goto, Steps
<1>4. UNCHANGED <<clock, enabled, lastSent, forwards>> /\ received' = received + 1
  BY DEF Receive, shared, rows
<1>5. Shape'
  BY <1>2, <1>3, <1>4 DEF PInv, Shape, Busy
<1>6. OneCall'
  BY <1>1, <1>3 DEF PInv, OneCall, Busy
<1> QED
  BY <1>1, <1>3, <1>4, <1>5, <1>6, QuietKeeps DEF Pending

(* Time goes on; the operator changes servers.                             *)
LEMMA OthersKeep ==
  ASSUME PInv,
         \/ \E s \in Servers : AddServer(s) \/ NewManager(s) \/ DeleteServer(s)
         \/ AddServerEnd \/ Tick \/ UNCHANGED vars
  PROVE  PInv'
<1>1. UNCHANGED <<pc, job, forwards, lastSent, alone, received>> /\ clock' \in {clock, clock + 1}
  BY DEF AddServer, NewManager, DeleteServer, AddServerEnd, Tick, vars
<1>2. enabled' \subseteq Servers
  BY DEF PInv, Shape, AddServer, NewManager, DeleteServer, AddServerEnd, Tick, vars, shared, rows
<1>3. clock' \in Nat /\ clock' >= clock
  BY <1>1 DEF PInv, Shape
<1>4. Shape'
  <2>1. \A i \in DOMAIN forwards : forwards[i].at >= 0 /\ forwards[i].at <= clock'
    <3> TAKE i \in DOMAIN forwards
    <3>1. forwards[i].at \in Int /\ forwards[i].at >= 0 /\ forwards[i].at <= clock /\ clock \in Nat
      BY ForwardType DEF PInv, Shape
    <3> QED
      BY <1>3, <3>1
  <2> QED
    BY <1>1, <1>2, <1>3, <2>1 DEF PInv, Shape, Busy
<1>5. OneCall'
  BY <1>1 DEF PInv, OneCall, Busy
<1> QED
  BY <1>1, <1>4, <1>5, QuietKeeps

--------------------------------------------------------------------------------
(* A report passes the gate: it is as far from the last one as it must be. *)
LEMMA GatePassKeeps ==
  ASSUME PInv, NEW f \in Feeds, GatePass(f)
  PROVE  PInv'
<1> DEFINE r == job[f].radio
           e == [n |-> job[f].n, radio |-> job[f].radio, at |-> clock, place |-> job[f].place,
                 emergency |-> job[f].kind = "emergency", feed |-> f]
           new == Len(forwards) + 1
           frame == [job[f] EXCEPT !.at = clock]
<1>1. /\ pc[f] = "gate" /\ pc' = [pc EXCEPT ![f] = "select"] /\ ~Suppressed(f)
      /\ job' = [job EXCEPT ![f] = frame] /\ forwards' = Append(forwards, e)
      /\ UNCHANGED <<clock, enabled, lastSent, alone, received>>
  BY DEF GatePass, Goto, shared, rows
<1>2. job[f] \in Reports /\ clock \in Nat /\ r \in Radios
  BY <1>1 DEF PInv, Shape, Busy, Reports
<1>3. frame \in Reports /\ frame.radio = r /\ frame.at = clock /\ frame.place = job[f].place
  BY <1>2 DEF Reports
<1>4. e \in Forwards /\ e.radio = r /\ e.at = clock /\ e.place = job[f].place
      /\ e.emergency = (job[f].kind = "emergency")
  BY <1>2 DEF Reports, Forwards
<1> HIDE DEF frame, e
<1>5. /\ Len(forwards) \in Nat /\ DOMAIN forwards = 1 .. Len(forwards)
      /\ DOMAIN forwards' = 1 .. new /\ forwards'[new] = e /\ forwards' \in Seq(Forwards)
      /\ \A i \in DOMAIN forwards : forwards'[i] = forwards[i]
  BY <1>1, <1>4 DEF PInv, Shape
<1>6. /\ pc' \in [Feeds -> Steps] /\ pc'[f] = "select" /\ job'[f] = frame
      /\ job' = [g \in Feeds |-> job'[g]]
      /\ \A g \in Feeds \ {f} : pc'[g] = pc[g] /\ job'[g] = job[g]
  BY <1>1 DEF PInv, Shape, Steps
<1>7. Shape'
  <2>1. \A i \in DOMAIN forwards' : forwards'[i].at >= 0 /\ forwards'[i].at <= clock
    <3>1. \A i \in DOMAIN forwards' : i \in DOMAIN forwards \/ i = new BY <1>4, <1>5
    <3>2. \A i \in DOMAIN forwards : forwards'[i].at >= 0 /\ forwards'[i].at <= clock
      BY <1>5 DEF PInv, Shape
    <3>3. forwards'[new].at >= 0 /\ forwards'[new].at <= clock BY <1>2, <1>4, <1>5 DEF PInv, Shape
    <3> QED BY <3>1, <3>2, <3>3
  <2>2. \A g \in Feeds : Busy(g)' => job'[g] \in Reports
    BY <1>3, <1>6 DEF PInv, Shape, Busy
  <2> QED
    BY <1>1, <1>5, <1>6, <2>1, <2>2 DEF PInv, Shape
<1>8. OneCall'
  BY <1>1, <1>3, <1>6 DEF PInv, OneCall, Busy
<1>9. \A q \in Radios \ {r} : \A at, place :
        IsLatest(forwards, q, at, place) => IsLatest(forwards', q, at, place)
  BY <1>4, <1>5 DEF IsLatest, IsLast
<1>10. IsLatest(forwards', r, clock, job[f].place)
  <2> SUFFICES ASSUME NEW i \in DOMAIN forwards', forwards'[i].radio = r
               PROVE  forwards'[i].at <= clock /\ (IsLast(forwards', i) => i = new)
    BY <1>1, <1>2, <1>4, <1>5 DEF IsLatest
  <2>1. forwards'[i].at <= clock
    BY <1>1, <1>7 DEF Shape
  <2>2. IsLast(forwards', i) => new <= i
    BY <1>4, <1>5 DEF IsLast
  <2> QED
    BY <1>5, <2>1, <2>2
<1>11. Written'
  <2> SUFFICES ASSUME NEW q \in alone, \A g \in Feeds : pc'[g] \in Pending => job'[g].radio # q
               PROVE  IsLatest(forwards', q, lastSent[q].at, lastSent[q].place)
    BY <1>1 DEF Written
  <2>1. q # r
    BY <1>3, <1>6 DEF Pending
  <2>2. \A g \in Feeds : pc[g] \in Pending => job[g].radio # q
    BY <1>1, <1>6 DEF Pending
  <2>3. IsLatest(forwards, q, lastSent[q].at, lastSent[q].place)
    BY <2>2 DEF PInv, Written
  <2> QED
    BY <1>1, <1>9, <2>1, <2>3 DEF PInv
<1>12. WillWrite'
  <2> SUFFICES ASSUME NEW g \in Feeds, pc'[g] \in Pending, job'[g].radio \in alone
               PROVE  IsLatest(forwards', job'[g].radio, job'[g].at, job'[g].place)
    BY <1>1 DEF WillWrite
  <2>1. CASE g = f
    BY <1>3, <1>6, <1>10, <2>1
  <2>2. CASE g # f
    <3>1. pc[g] \in Pending /\ job'[g] = job[g] /\ IsLatest(forwards, job[g].radio, job[g].at, job[g].place)
      BY <1>6, <2>2 DEF PInv, WillWrite
    <3>2. job[g].radio # r
      BY <1>1, <1>6, <2>2, <3>1 DEF PInv, OneCall, Busy, Pending
    <3> QED
      BY <1>9, <3>1, <3>2 DEF PInv
  <2> QED
    BY <2>1, <2>2
<1>13. Backed'
  <2>1. \A q, at, place : IsForwarded(forwards, q, at, place) => IsForwarded(forwards', q, at, place)
    BY <1>5 DEF IsForwarded
  <2>2. IsForwarded(forwards', r, clock, job[f].place)
    BY <1>4, <1>5 DEF IsForwarded
  <2>3. \A g \in Feeds :
          pc'[g] \in Pending => IsForwarded(forwards', job'[g].radio, job'[g].at, job'[g].place)
    BY <1>3, <1>6, <2>1, <2>2 DEF PInv, Backed
  <2> QED
    BY <1>1, <2>1, <2>3 DEF PInv, Backed
<1>14. ASSUME r \in alone PROVE IsLatest(forwards, r, lastSent[r].at, lastSent[r].place)
  <2>1. \A g \in Feeds : pc[g] \in Pending => job[g].radio # r
    BY <1>1, <1>14 DEF PInv, OneCall, Busy, Pending
  <2> QED
    BY <1>14, <2>1 DEF PInv, Written
<1>15. ASSUME NEW i \in DOMAIN forwards, forwards[i].radio = r, r \in alone, ~e.emergency
       PROVE  ~RateLimited(f) /\ ~Stationary(f) /\ lastSent[r].at \in Int
  <2>1. forwards[i].at <= lastSent[r].at /\ forwards[i].at \in Int /\ forwards[i].at >= 0
        /\ lastSent[r].at \in Int
    BY <1>2, <1>14, <1>15, ForwardType DEF IsLatest, PInv, Shape
  <2>2. lastSent[r].at # Never
    BY <2>1 DEF Never
  <2> QED
    BY <1>1, <1>4, <1>15, <2>1, <2>2 DEF Suppressed
<1>16. MinIntervalKeptAlone'
  <2> SUFFICES ASSUME NEW i \in DOMAIN forwards', NEW j \in DOMAIN forwards', i < j,
                      forwards'[i].radio \in alone, forwards'[i].radio = forwards'[j].radio,
                      ~forwards'[j].emergency
               PROVE  forwards'[j].at - forwards'[i].at >= MinInterval
    BY <1>1 DEF MinIntervalKeptAlone, Spaced, Earlier
  <2>1. i \in DOMAIN forwards
    BY <1>5
  <2>2. CASE j \in DOMAIN forwards
    BY <1>5, <2>1, <2>2 DEF PInv, MinIntervalKeptAlone, Spaced, Earlier
  <2>3. CASE j = new
    <3>1. forwards[i].radio = r /\ r \in alone /\ ~e.emergency
      BY <1>4, <1>5, <2>1, <2>3
    <3>2. forwards[i].at <= lastSent[r].at /\ forwards[i].at \in Int
      BY <1>14, <2>1, <3>1, ForwardType DEF IsLatest, PInv
    <3>3. ~(clock - lastSent[r].at < MinInterval) /\ lastSent[r].at \in Int
      BY <1>15, <2>1, <3>1 DEF RateLimited
    <3> QED
      BY <1>2, <1>4, <1>5, <2>1, <2>3, <3>2, <3>3, IntervalAssumption
  <2> QED
    BY <1>5, <2>2, <2>3
<1>17. HeartbeatKept'
  <2> SUFFICES ASSUME NEW i \in DOMAIN forwards', NEW j \in DOMAIN forwards', i < j,
                      forwards'[i].radio \in alone, forwards'[i].radio = forwards'[j].radio,
                      forwards'[i].place = forwards'[j].place, ~forwards'[j].emergency
               PROVE  \/ forwards'[j].at - forwards'[i].at >= HeartbeatS
                      \/ \E k \in (i + 1) .. (j - 1) : Earlier(i, k)'
    BY <1>1 DEF HeartbeatKept, Earlier
  <2>1. i \in DOMAIN forwards
    BY <1>5
  <2>2. CASE j \in DOMAIN forwards
    <3>1. \/ forwards[j].at - forwards[i].at >= HeartbeatS
          \/ \E k \in (i + 1) .. (j - 1) : Earlier(i, k)
      BY <1>5, <2>1, <2>2 DEF PInv, HeartbeatKept, Earlier
    <3>2. ASSUME NEW k \in (i + 1) .. (j - 1), Earlier(i, k) PROVE Earlier(i, k)'
      BY <1>5, <2>1, <2>2, <3>2 DEF Earlier
    <3> QED
      BY <1>5, <2>1, <2>2, <3>1, <3>2
  <2>3. CASE j = new
    <3>1. forwards[i].radio = r /\ r \in alone /\ ~e.emergency /\ forwards[i].place = job[f].place
      BY <1>4, <1>5, <2>1, <2>3
    <3>2. CASE IsLast(forwards, i)
      <4>1. forwards[i].at = lastSent[r].at /\ lastSent[r].place = job[f].place
        BY <1>14, <2>1, <3>1, <3>2 DEF IsLatest
      <4>2. ~(clock - lastSent[r].at < HeartbeatS) /\ lastSent[r].at \in Int
        BY <1>15, <2>1, <3>1, <4>1 DEF Stationary
      <4> QED
        BY <1>2, <1>4, <1>5, <2>1, <2>3, <4>1, <4>2, IntervalAssumption
    <3>3. CASE ~IsLast(forwards, i)
      <4>1. PICK k \in DOMAIN forwards : forwards[k].radio = r /\ ~(k <= i)
        BY <3>1, <3>3 DEF IsLast
      <4>2. k \in (i + 1) .. (j - 1) /\ Earlier(i, k)'
        BY <1>5, <2>1, <2>3, <3>1, <4>1 DEF Earlier
      <4> QED
        BY <4>2
    <3> QED
      BY <3>2, <3>3
  <2> QED
    BY <1>5, <2>2, <2>3
<1> QED
  BY <1>1, <1>7, <1>8, <1>11, <1>12, <1>13, <1>16, <1>17 DEF PInv

(* A call writes last_sent: what it holds is the last forward.             *)
LEMMA RememberKeeps ==
  ASSUME PInv, NEW f \in Feeds, Remember(f)
  PROVE  PInv'
<1> DEFINE r == job[f].radio
           sent == [at |-> job[f].at, place |-> job[f].place]
<1>1. PICK to \in {"again", "idle"} :
        /\ Goto(f, "remember", to)
        /\ job' = IF to = "idle" THEN [job EXCEPT ![f] = NoJob] ELSE job
  BY DEF Remember, Go, AfterProcess
<1>2. /\ lastSent' = [lastSent EXCEPT ![r] = sent]
      /\ UNCHANGED <<clock, enabled, forwards, alone, received>>
  BY DEF Remember, shared, rows
<1>3. job[f] \in Reports /\ r \in Radios /\ pc[f] = "remember"
  BY <1>1 DEF PInv, Shape, Goto, Busy, Reports
<1>4. /\ pc' \in [Feeds -> Steps] /\ pc'[f] = to /\ \A g \in Feeds \ {f} : pc'[g] = pc[g]
      /\ job' = [g \in Feeds |-> job'[g]]
      /\ \A g \in Feeds : pc'[g] # "idle" => job'[g] = job[g]
  BY <1>1 DEF PInv, Shape, Goto, Steps
<1>5. lastSent' \in [Radios -> [at : Int, place : Places]] /\ lastSent'[r] = sent
      /\ \A q \in Radios \ {r} : lastSent'[q] = lastSent[q]
  BY <1>2, <1>3 DEF PInv, Shape, Reports
<1>6. Shape' /\ OneCall'
  <2>1. Shape'
    BY <1>2, <1>3, <1>4, <1>5 DEF PInv, Shape, Busy
  <2>2. OneCall'
    BY <1>2, <1>3, <1>4 DEF PInv, OneCall, Busy
  <2> QED
    BY <2>1, <2>2
<1>7. \A q, at, place : IsLatest(forwards', q, at, place) <=> IsLatest(forwards, q, at, place)
  BY <1>2 DEF IsLatest, IsLast
<1>8. \A q, at, place : IsForwarded(forwards', q, at, place) <=> IsForwarded(forwards, q, at, place)
  BY <1>2 DEF IsForwarded
<1>9. Written'
  <2> SUFFICES ASSUME NEW q \in alone, \A g \in Feeds : pc'[g] \in Pending => job'[g].radio # q
               PROVE  IsLatest(forwards, q, lastSent'[q].at, lastSent'[q].place)
    BY <1>2, <1>7 DEF Written
  <2>1. CASE q = r
    <3>1. IsLatest(forwards, r, job[f].at, job[f].place)
      BY <1>3, <2>1 DEF PInv, WillWrite, Pending
    <3> QED
      BY <1>5, <2>1, <3>1
  <2>2. CASE q # r
    <3>1. \A g \in Feeds : pc[g] \in Pending => job[g].radio # q
      BY <1>4, <2>2 DEF Pending
    <3>2. lastSent'[q] = lastSent[q]
      BY <1>5, <2>2 DEF PInv
    <3> QED
      BY <3>1, <3>2 DEF PInv, Written
  <2> QED
    BY <2>1, <2>2
<1>10. WillWrite'
  BY <1>2, <1>4, <1>7 DEF PInv, WillWrite, Pending
<1>11. Backed'
  <2>1. IsForwarded(forwards, r, job[f].at, job[f].place)
    BY <1>3 DEF PInv, Backed, Pending
  <2>2. \A q \in Radios :
          lastSent'[q].at # Never => IsForwarded(forwards, q, lastSent'[q].at, lastSent'[q].place)
    BY <1>5, <2>1 DEF PInv, Backed
  <2>3. \A g \in Feeds :
          pc'[g] \in Pending => IsForwarded(forwards, job'[g].radio, job'[g].at, job'[g].place)
    BY <1>4 DEF PInv, Backed, Pending
  <2> QED
    BY <1>8, <2>2, <2>3 DEF Backed
<1>12. MinIntervalKeptAlone' /\ HeartbeatKept'
  BY <1>2 DEF PInv, MinIntervalKeptAlone, HeartbeatKept, Spaced, Earlier
<1> QED
  BY <1>2, <1>6, <1>9, <1>10, <1>11, <1>12 DEF PInv

--------------------------------------------------------------------------------
LEMMA StepKeeps == PInv /\ [Next]_vars => PInv'
<1> SUFFICES ASSUME PInv, [Next]_vars PROVE PInv'
  OBVIOUS
<1>1. ASSUME NEW f \in Feeds, Process(f) PROVE PInv'
  BY <1>1, FeedsAssumption, CallKeeps, ReceiveKeeps, GatePassKeeps, RememberKeeps DEF Process
<1> QED
  BY <1>1, OthersKeep DEF Next

LEMMA Inductive == Spec => []PInv
<1> QED
  BY InitInv, StepKeeps, PTL DEF Spec

(* min_interval is kept between forwarded reports of a radio whose calls   *)
(* neither overlap nor fail late (the gate of process_event, line 301).    *)
THEOREM IntervalKept == Spec => []MinIntervalKeptAlone
<1>1. PInv => MinIntervalKeptAlone
  BY DEF PInv
<1> QED
  BY <1>1, Inductive, PTL

(* A radio that stands still is forwarded once per stationary heartbeat    *)
(* (the gate of process_event).                                            *)
THEOREM HeartbeatIsKept == Spec => []HeartbeatKept
<1>1. PInv => HeartbeatKept
  BY DEF PInv
<1> QED
  BY <1>1, Inductive, PTL

(* A suppressed report has a forwarded one that stands in for it           *)
(* (RATE LIMITED and DUPLICATE / STATIONARY in process_event), for every   *)
(* radio, however its calls overlap or fail.                               *)
THEOREM Covered == Spec => SuppressionIsCovered
<1> DEFINE Cover ==
      \A f \in Feeds :
        (pc[f] = "gate" /\ pc'[f] = "idle" /\ job[f].kind # "old") =>
          \E i \in DOMAIN forwards :
            /\ forwards[i].radio = job[f].radio
            /\ \/ clock - forwards[i].at < MinInterval
               \/ /\ clock - forwards[i].at < HeartbeatS
                  /\ forwards[i].place = job[f].place
<1>1. ASSUME PInv, [Next]_vars PROVE Cover
  <2> SUFFICES ASSUME NEW f \in Feeds, pc[f] = "gate", pc'[f] = "idle", job[f].kind # "old"
               PROVE  \E i \in DOMAIN forwards :
                        /\ forwards[i].radio = job[f].radio
                        /\ \/ clock - forwards[i].at < MinInterval
                           \/ /\ clock - forwards[i].at < HeartbeatS
                              /\ forwards[i].place = job[f].place
    OBVIOUS
  <2>1. Suppressed(f)
    <3>1. pc \in [Feeds -> Steps]
      BY <1>1 DEF PInv, Shape
    <3>2. PICK g \in Feeds : Process(g)
      BY <1>1 DEF Next, vars, AddServer, NewManager, DeleteServer, AddServerEnd, Tick
    <3>3. PICK from, to : Goto(g, from, to)
      BY <3>2 DEF Process, Receive, Observe, GateDrop, GatePass, Select, EnqueueOne, Commit, Remember,
         Again, CommitFails, Go
    <3>4. g = f
      BY <3>1, <3>3 DEF Goto
    <3>5. GateDrop(f)
      BY <3>1, <3>2, <3>4 DEF Process, Receive, Observe, GatePass, Select, EnqueueOne, Commit,
         Remember, Again, CommitFails, Go, Goto
    <3> QED
      BY <3>5 DEF GateDrop, TooOld
  <2>2. job[f].radio \in Radios
    BY <1>1 DEF PInv, Shape, Busy, Reports
  <2>3. PICK i \in DOMAIN forwards :
          /\ forwards[i].radio = job[f].radio /\ forwards[i].at = lastSent[job[f].radio].at
          /\ forwards[i].place = lastSent[job[f].radio].place
    BY <1>1, <2>1, <2>2 DEF Suppressed, PInv, Backed, IsForwarded
  <2> QED
    BY <2>1, <2>3 DEF Suppressed, RateLimited, Stationary
<1>2. PInv /\ [Next]_vars => [Cover]_vars
  BY <1>1
<1> QED
  BY <1>2, Inductive, PTL DEF Spec, SuppressionIsCovered

--------------------------------------------------------------------------------
(* What the managers have been given. A list lacks report n; or has it     *)
(* once, styled for server s or for none.                                  *)
Entries == [n : Nat, style : Servers \cup {NoServer}]
Lacks(list, n) == \A i \in DOMAIN list : list[i].n # n
Proper(list, n, s) ==
  \A i, j \in DOMAIN list :
    list[i].n = n => list[i].style \in {s, NoServer} /\ (list[j].n = n => i = j)

(* Every call has a report of its own, and so has every forward.           *)
OwnReport ==
  /\ \A f \in Feeds : Busy(f) => job[f].n \in 1 .. received
  /\ \A f, g \in Feeds : Busy(f) /\ Busy(g) /\ job[f].n = job[g].n => f = g
  /\ \A i \in DOMAIN forwards : forwards[i].n \in 1 .. received
  /\ \A f \in Feeds : \A i \in DOMAIN forwards : Busy(f) /\ forwards[i].n = job[f].n => forwards[i].feed = f
  /\ \A s \in Servers : \A i \in DOMAIN outbox[s] : outbox[s][i].n \in 1 .. received

(* No manager has the report of a call that has not selected its servers;  *)
(* later none of those that are left has it, unless one had no manager.    *)
NotYet ==
  /\ \A f \in Feeds : pc[f] \in {"observe", "gate", "select"} => \A s \in Servers : Lacks(outbox[s], job[f].n)
  /\ \A f \in Feeds :
       pc[f] = "enqueue" /\ ~Unserved(job[f].n) => \A s \in job[f].todo : Lacks(outbox[s], job[f].n)

Once == \A s \in Servers : \A n \in Nat : FromAprs(n) /\ ~Unserved(n) => Proper(outbox[s], n, s)

OInv ==
  /\ outbox \in [Servers -> Seq(Entries)]
  /\ OwnReport /\ NotYet /\ Once
  /\ \A f \in Feeds : pc[f] = "again" => f = EventLoop

(* That is all the property needs.                                        *)
LEMMA OnceImply == OInv => AprsEnqueuedOnce
<1> SUFFICES ASSUME OInv, NEW s \in Servers, NEW i \in DOMAIN outbox[s], NEW j \in DOMAIN outbox[s],
                    FromAprs(outbox[s][i].n), ~Unserved(outbox[s][i].n)
             PROVE  /\ outbox[s][i].style \in {s, NoServer}
                    /\ outbox[s][j].n = outbox[s][i].n => i = j
  BY DEF AprsEnqueuedOnce
<1>1. outbox[s] \in Seq(Entries) BY DEF OInv
<1>2. outbox[s][i] \in Entries BY <1>1
<1>3. outbox[s][i].n \in Nat BY <1>2 DEF Entries
<1> QED BY <1>3 DEF OInv, Once, Proper

(* Nothing has been given to anybody.                                      *)
LEMMA OnceInit == Init => OInv
<1> SUFFICES ASSUME Init PROVE OInv OBVIOUS
<1>1. outbox = [s \in Servers |-> <<>>] /\ forwards = <<>> /\ \A f \in Feeds : pc[f] = "idle" BY DEF Init
<1> QED BY <1>1 DEF OInv, OwnReport, NotYet, Once, Proper, Busy

(* One more entry in a list is nothing to the reports of the others.       *)
LEMMA Put ==
  ASSUME NEW list \in Seq(Entries), NEW e \in Entries
  PROVE  /\ Append(list, e) \in Seq(Entries)
         /\ \A m : m # e.n /\ Lacks(list, m) => Lacks(Append(list, e), m)
         /\ \A m, s : m # e.n /\ Proper(list, m, s) => Proper(Append(list, e), m, s)
         /\ \A s : Lacks(list, e.n) /\ e.style \in {s, NoServer} => Proper(Append(list, e), e.n, s)
         /\ \A k : e.n \in 1 .. k /\ (\A i \in DOMAIN list : list[i].n \in 1 .. k)
                     => \A i \in DOMAIN Append(list, e) : Append(list, e)[i].n \in 1 .. k
<1>1. /\ Append(list, e) \in Seq(Entries) /\ DOMAIN list = 1 .. Len(list) /\ Len(list) \in Nat
      /\ DOMAIN Append(list, e) = 1 .. Len(list) + 1
      /\ \A i \in DOMAIN list : Append(list, e)[i] = list[i]
      /\ Append(list, e)[Len(list) + 1] = e
  OBVIOUS
<1> DEFINE more == Append(list, e)
<1>2. \A i \in DOMAIN more : i \in DOMAIN list \/ (i = Len(list) + 1 /\ more[i] = e) BY <1>1
<1> HIDE DEF more
<1>3. \A m : m # e.n /\ Lacks(list, m) => Lacks(more, m) BY <1>1, <1>2 DEF Lacks, more
<1>4. \A m, s : m # e.n /\ Proper(list, m, s) => Proper(more, m, s) BY <1>1, <1>2 DEF Proper, more
<1>5. \A s : Lacks(list, e.n) /\ e.style \in {s, NoServer} => Proper(more, e.n, s)
  BY <1>1, <1>2 DEF Lacks, Proper, more
<1>6. \A k : e.n \in 1 .. k /\ (\A i \in DOMAIN list : list[i].n \in 1 .. k)
               => \A i \in DOMAIN more : more[i].n \in 1 .. k
  BY <1>1, <1>2 DEF more
<1> QED BY <1>1, <1>3, <1>4, <1>5, <1>6 DEF more

--------------------------------------------------------------------------------
(* A step that gives no report to a manager: queues stay or are new.       *)
LEMMA NothingGiven ==
  ASSUME OInv, UNCHANGED <<forwards, unserved, received>>,
         outbox' = [s \in Servers |-> outbox'[s]],
         \A s \in Servers : outbox'[s] = outbox[s] \/ outbox'[s] = <<>>,
         \A f \in Feeds : Busy(f)' => Busy(f) /\ job'[f].n = job[f].n,
         \A f \in Feeds : pc'[f] \in {"observe", "gate", "select"} => pc[f] \in {"observe", "gate", "select"},
         \A f \in Feeds : pc'[f] = "enqueue" => pc[f] = "enqueue" /\ job'[f].todo = job[f].todo,
         \A f \in Feeds : pc[f] = "enqueue" => job[f].todo \subseteq Servers,
         \A f \in Feeds : pc'[f] = "again" => f = EventLoop
  PROVE  OInv'
<1>1. outbox' \in [Servers -> Seq(Entries)]
  <2>0. <<>> \in Seq(Entries) /\ \A s \in Servers : outbox[s] \in Seq(Entries) BY DEF OInv
  <2>1. \A s \in Servers : outbox'[s] \in Seq(Entries) BY <2>0
  <2> QED BY <2>1
<1>2. \A s \in Servers : \A n : Lacks(outbox[s], n) => Lacks(outbox'[s], n) BY DEF Lacks
<1>3. \A s \in Servers : \A n : Proper(outbox[s], n, s) => Proper(outbox'[s], n, s) BY DEF Proper
<1>4. \A n : (FromAprs(n)' <=> FromAprs(n)) /\ (Unserved(n)' <=> Unserved(n)) BY DEF FromAprs, Unserved
<1>5. OwnReport'
  <2>1. \A g \in Feeds : Busy(g)' => Busy(g) /\ job'[g].n = job[g].n OBVIOUS
  <2>2. \A g \in Feeds : Busy(g)' => job'[g].n \in 1 .. received' BY <2>1 DEF OInv, OwnReport
  <2>3. \A g, h \in Feeds : Busy(g)' /\ Busy(h)' /\ job'[g].n = job'[h].n => g = h
    BY <2>1 DEF OInv, OwnReport
  <2>4. \A i \in DOMAIN forwards' : forwards'[i].n \in 1 .. received' BY DEF OInv, OwnReport
  <2>5. \A g \in Feeds : \A i \in DOMAIN forwards' :
          Busy(g)' /\ forwards'[i].n = job'[g].n => forwards'[i].feed = g
    BY <2>1 DEF OInv, OwnReport
  <2>6. \A s \in Servers : \A i \in DOMAIN outbox'[s] : outbox'[s][i].n \in 1 .. received'
    BY DEF OInv, OwnReport
  <2> QED BY <2>2, <2>3, <2>4, <2>5, <2>6 DEF OwnReport
<1>6. NotYet'
  <2>1. ASSUME NEW f \in Feeds, pc'[f] \in {"observe", "gate", "select"}, NEW s \in Servers
        PROVE  Lacks(outbox'[s], job'[f].n)
    BY <1>2, <2>1 DEF OInv, NotYet, Busy
  <2>2. ASSUME NEW f \in Feeds, pc'[f] = "enqueue", ~Unserved(job[f].n)', NEW s \in job'[f].todo
        PROVE  Lacks(outbox'[s], job'[f].n)
    <3>1. pc[f] = "enqueue" /\ job'[f].todo = job[f].todo /\ job'[f].n = job[f].n BY <2>2 DEF Busy
    <3>2. ~Unserved(job[f].n) BY <2>2, <3>1 DEF Unserved
    <3> QED BY <1>2, <2>2, <3>1, <3>2 DEF OInv, NotYet
  <2> QED BY <2>1, <2>2 DEF NotYet
<1>7. Once' BY <1>3, <1>4 DEF OInv, Once
<1> QED BY <1>1, <1>5, <1>6, <1>7 DEF OInv

(* A call gives its report to some managers, in one style.                 *)
LEMMA Given ==
  ASSUME OInv, UNCHANGED <<forwards, received>>, unserved \subseteq unserved',
         NEW f \in Feeds, Busy(f), NEW n \in Nat, n = job[f].n, NEW style \in Servers \cup {NoServer},
         outbox' = [s \in Servers |-> outbox'[s]],
         \A s \in Servers : outbox'[s] = outbox[s] \/ outbox'[s] = Append(outbox[s], [n |-> n, style |-> style]),
         \A g \in Feeds \ {f} : pc'[g] = pc[g] /\ job'[g] = job[g],
         \A g \in Feeds : pc[g] = "enqueue" => job[g].todo \subseteq Servers,
         pc'[f] \in {"idle", "commit", "enqueue"}, pc'[f] # "idle" => job'[f].n = n,
         pc'[f] = "enqueue" /\ ~Unserved(n)' => \A s \in job'[f].todo : Lacks(outbox'[s], n),
         FromAprs(n) /\ ~Unserved(n)' => \A s \in Servers : Proper(outbox'[s], n, s)
  PROVE  OInv'
<1> DEFINE e == [n |-> n, style |-> style]
<1>0. e \in Entries /\ e.n = n BY DEF Entries
<1>1. ASSUME NEW s \in Servers
      PROVE  /\ outbox'[s] \in Seq(Entries)
             /\ \A m : m # n /\ Lacks(outbox[s], m) => Lacks(outbox'[s], m)
             /\ \A m : m # n /\ Proper(outbox[s], m, s) => Proper(outbox'[s], m, s)
             /\ \A i \in DOMAIN outbox'[s] : outbox'[s][i].n \in 1 .. received
  <2>1. outbox[s] \in Seq(Entries) /\ \A i \in DOMAIN outbox[s] : outbox[s][i].n \in 1 .. received
    BY DEF OInv, OwnReport
  <2>2. n \in 1 .. received BY DEF OInv, OwnReport
  <2>3. CASE outbox'[s] = outbox[s] BY <2>1, <2>3
  <2>4. CASE outbox'[s] = Append(outbox[s], e)
    <3> HIDE DEF e
    <3>1. PICK old \in Seq(Entries) : old = outbox[s] BY <2>1
    <3>2. PICK k : k = received OBVIOUS
    <3>3. \A i \in DOMAIN old : old[i].n \in 1 .. k BY <2>1, <3>1, <3>2
    <3>4. /\ Append(old, e) \in Seq(Entries)
          /\ \A m : m # n /\ Lacks(old, m) => Lacks(Append(old, e), m)
          /\ \A m : m # n /\ Proper(old, m, s) => Proper(Append(old, e), m, s)
          /\ \A i \in DOMAIN Append(old, e) : Append(old, e)[i].n \in 1 .. k
      BY <1>0, <2>2, <3>2, <3>3, Put
    <3> QED BY <2>4, <3>1, <3>2, <3>4
  <2> QED BY <2>3, <2>4
<1>2. outbox' \in [Servers -> Seq(Entries)] BY <1>1
<1>3. \A g \in Feeds : Busy(g)' => Busy(g) /\ job'[g].n = job[g].n BY DEF Busy
<1>4. OwnReport' BY <1>1, <1>3 DEF OInv, OwnReport
<1>5. \A m : (FromAprs(m)' <=> FromAprs(m)) /\ (Unserved(m) => Unserved(m)') BY DEF FromAprs, Unserved
<1>6. ASSUME NEW g \in Feeds, g # f, Busy(g) PROVE job[g].n # n BY <1>6 DEF OInv, OwnReport
<1>7. NotYet'
  <2>1. ASSUME NEW g \in Feeds, pc'[g] \in {"observe", "gate", "select"}, NEW s \in Servers
        PROVE  Lacks(outbox'[s], job'[g].n)
    <3>1. g # f /\ pc'[g] = pc[g] /\ job'[g] = job[g] BY <2>1
    <3>2. job[g].n # n /\ Lacks(outbox[s], job[g].n) BY <1>6, <2>1, <3>1 DEF Busy, OInv, NotYet
    <3> QED BY <1>1, <3>1, <3>2
  <2>2. ASSUME NEW g \in Feeds, pc'[g] = "enqueue", ~Unserved(job[g].n)', NEW s \in job'[g].todo
        PROVE  Lacks(outbox'[s], job'[g].n)
    <3>1. CASE g = f
      <4>1. job'[g].n = n BY <2>2, <3>1
      <4>2. ~Unserved(n)' BY <2>2, <4>1 DEF Unserved
      <4> QED BY <2>2, <3>1, <4>1, <4>2
    <3>2. CASE g # f
      <4>1. pc[g] = "enqueue" /\ job'[g] = job[g] BY <2>2, <3>2
      <4>2. ~Unserved(job[g].n) BY <2>2, <4>1 DEF Unserved
      <4>3. job[g].n # n /\ s \in Servers /\ Lacks(outbox[s], job[g].n)
        BY <1>6, <2>2, <3>2, <4>1, <4>2 DEF Busy, OInv, NotYet
      <4> QED BY <1>1, <4>1, <4>3
    <3> QED BY <3>1, <3>2
  <2> QED BY <2>1, <2>2 DEF NotYet
<1>8. Once'
  <2> SUFFICES ASSUME NEW s \in Servers, NEW m \in Nat, FromAprs(m)', ~Unserved(m)'
               PROVE  Proper(outbox'[s], m, s)
    BY DEF Once
  <2>1. CASE m = n
    <3>1. FromAprs(n) /\ ~Unserved(n)' BY <1>5, <2>1
    <3> QED BY <2>1, <3>1
  <2>2. CASE m # n BY <1>1, <1>5, <2>2 DEF OInv, Once
  <2> QED BY <2>1, <2>2
<1>9. \A g \in Feeds : pc'[g] = "again" => g = EventLoop BY DEF OInv
<1> QED BY <1>2, <1>4, <1>7, <1>8, <1>9 DEF OInv
--------------------------------------------------------------------------------
(* The steps, one by one. The types of PInv hold before and after each.    *)
LEMMA CallGives ==
  ASSUME PInv, OInv, NEW f \in Feeds, Observe(f) \/ GateDrop(f) \/ Commit(f) \/ Remember(f) \/ CommitFails(f)
  PROVE  OInv'
<1>1. PICK from, to : Go(f, from, to) /\ <<from, to>> \in {<<"observe", "gate">>, <<"observe", "idle">>,
        <<"gate", "idle">>, <<"commit", "remember">>, <<"remember", AfterProcess(f)>>, <<"commit", "idle">>}
  BY DEF Observe, GateDrop, Commit, Remember, CommitFails
<1>2. UNCHANGED <<forwards, unserved, received, outbox>>
  BY DEF Observe, GateDrop, Commit, Remember, CommitFails
<1>3. pc \in [Feeds -> Steps] /\ job = [g \in Feeds |-> job[g]] /\ \A g \in Feeds : Busy(g) => job[g] \in Reports
  BY DEF PInv, Shape
<1>4. /\ pc[f] = from /\ pc'[f] = to /\ (to # "idle" => job'[f] = job[f])
      /\ \A g \in Feeds \ {f} : pc'[g] = pc[g] /\ job'[g] = job[g]
  BY <1>1, <1>3 DEF Go, Goto
<1>5. \A g \in Feeds : pc[g] = "enqueue" => job[g].todo \subseteq Servers BY <1>3 DEF Busy, Reports
<1>6. (AfterProcess(f) = "again" /\ f = EventLoop) \/ AfterProcess(f) = "idle" BY DEF AfterProcess
<1>7. outbox' = [s \in Servers |-> outbox'[s]] BY <1>2 DEF OInv
<1>8. \A g \in Feeds : Busy(g)' => Busy(g) /\ job'[g].n = job[g].n BY <1>1, <1>4 DEF Busy
<1>9. \A g \in Feeds : pc'[g] \in {"observe", "gate", "select"} => pc[g] \in {"observe", "gate", "select"}
  BY <1>1, <1>4, <1>6
<1>10. \A g \in Feeds : pc'[g] = "enqueue" => pc[g] = "enqueue" /\ job'[g].todo = job[g].todo
  BY <1>1, <1>4, <1>6
<1>11. \A g \in Feeds : pc'[g] = "again" => g = EventLoop BY <1>1, <1>4, <1>6 DEF OInv
<1> QED BY <1>2, <1>5, <1>7, <1>8, <1>9, <1>10, <1>11, NothingGiven

(* The report that passes the gate is in nobody's queue.                   *)
LEMMA PassGives ==
  ASSUME PInv, PInv', OInv, NEW f \in Feeds, GatePass(f)
  PROVE  OInv'
<1>1. /\ UNCHANGED <<unserved, received, outbox>> /\ pc[f] = "gate" /\ Busy(f)
      /\ pc' = [pc EXCEPT ![f] = "select"] /\ job' = [job EXCEPT ![f].at = clock]
  BY DEF GatePass, Goto, Busy
<1>2. PICK e : forwards' = Append(forwards, e) /\ e.n = job[f].n /\ e.feed = f BY DEF GatePass
<1>3. /\ pc \in [Feeds -> Steps] /\ job = [g \in Feeds |-> job[g]] /\ forwards \in Seq(Forwards)
      /\ \A g \in Feeds : Busy(g) => job[g] \in Reports
  BY DEF PInv, Shape
<1>4. /\ \A g \in Feeds \ {f} : pc'[g] = pc[g] /\ job'[g] = job[g]
      /\ pc'[f] = "select" /\ job'[f].n = job[f].n
  BY <1>1, <1>3 DEF Reports
<1>5. \A g \in Feeds : (Busy(g)' <=> Busy(g)) /\ (Busy(g) => job'[g].n = job[g].n) BY <1>1, <1>4 DEF Busy
<1>6. /\ DOMAIN forwards = 1 .. Len(forwards) /\ Len(forwards) \in Nat
      /\ DOMAIN forwards' = 1 .. Len(forwards) + 1
      /\ \A i \in DOMAIN forwards : forwards'[i] = forwards[i]
      /\ forwards'[Len(forwards) + 1] = e
  BY <1>2, <1>3
<1>7. \A i \in DOMAIN forwards' : i \in DOMAIN forwards \/ (i = Len(forwards) + 1 /\ forwards'[i] = e) BY <1>6
<1>8. OwnReport'
  <2>1. \A g \in Feeds : Busy(g)' => job'[g].n \in 1 .. received' BY <1>1, <1>5 DEF OInv, OwnReport
  <2>2. \A g, h \in Feeds : Busy(g)' /\ Busy(h)' /\ job'[g].n = job'[h].n => g = h
    BY <1>5 DEF OInv, OwnReport
  <2>3. \A i \in DOMAIN forwards' : forwards'[i].n \in 1 .. received'
    BY <1>1, <1>2, <1>6, <1>7 DEF OInv, OwnReport
  <2>4. \A g \in Feeds : \A i \in DOMAIN forwards' :
          Busy(g)' /\ forwards'[i].n = job'[g].n => forwards'[i].feed = g
    BY <1>1, <1>2, <1>5, <1>6, <1>7 DEF OInv, OwnReport
  <2> QED BY <1>1, <2>1, <2>2, <2>3, <2>4 DEF OInv, OwnReport
<1>9. NotYet'
  <2>1. ASSUME NEW g \in Feeds, pc'[g] \in {"observe", "gate", "select"}
        PROVE  pc[g] \in {"observe", "gate", "select"} /\ job'[g].n = job[g].n
    BY <1>1, <1>4, <2>1
  <2>2. ASSUME NEW g \in Feeds, pc'[g] = "enqueue", ~Unserved(job[g].n)'
        PROVE  pc[g] = "enqueue" /\ job'[g] = job[g] /\ ~Unserved(job[g].n)
    <3>1. g # f BY <1>4, <2>2
    <3>2. pc[g] = "enqueue" /\ job'[g] = job[g] BY <1>4, <2>2, <3>1
    <3> QED BY <1>1, <2>2, <3>2 DEF Unserved
  <2> QED BY <1>1, <2>1, <2>2 DEF OInv, NotYet
<1>10. Once'
  <2> SUFFICES ASSUME NEW s \in Servers, NEW n \in Nat, FromAprs(n)', ~Unserved(n)'
               PROVE  Proper(outbox[s], n, s)
    BY <1>1 DEF Once
  <2>1. ~Unserved(n) BY <1>1 DEF Unserved
  <2>2. CASE FromAprs(n) BY <2>1, <2>2 DEF OInv, Once
  <2>3. CASE ~FromAprs(n)
    <3>1. n = job[f].n BY <1>2, <1>6, <1>7, <2>3 DEF FromAprs
    <3>2. Lacks(outbox[s], n) BY <1>1, <3>1 DEF OInv, NotYet
    <3> QED BY <3>2 DEF Lacks, Proper
  <2> QED BY <2>2, <2>3
<1>11. \A g \in Feeds : pc'[g] = "again" => g = EventLoop BY <1>4 DEF OInv
<1> QED BY <1>1, <1>8, <1>9, <1>10, <1>11 DEF OInv

(* A report that is received has the next number, which nothing has yet.   *)
LEMMA ReceiveGives ==
  ASSUME PInv, PInv', OInv, NEW f \in Feeds, Receive(f)
  PROVE  OInv'
<1>1. PICK report \in Report(f) : job' = [job EXCEPT ![f] = report] BY DEF Receive
<1>2. /\ UNCHANGED <<outbox, forwards, unserved>> /\ received' = received + 1
      /\ pc[f] = "idle" /\ pc' = [pc EXCEPT ![f] = "observe"]
  BY DEF Receive, Goto
<1>3. /\ pc \in [Feeds -> Steps] /\ job = [g \in Feeds |-> job[g]] /\ received \in Nat
      /\ \A g \in Feeds : Busy(g) => job[g] \in Reports
  BY DEF PInv, Shape
<1>4. /\ \A g \in Feeds \ {f} : pc'[g] = pc[g] /\ job'[g] = job[g]
      /\ pc'[f] = "observe" /\ job'[f].n = received + 1
  BY <1>1, <1>2, <1>3 DEF Report
<1>5. \A g \in Feeds \ {f} : (Busy(g)' <=> Busy(g)) BY <1>4 DEF Busy
<1>6. \A k : k \in 1 .. received => k \in 1 .. received' /\ k # received + 1 BY <1>2, <1>3
<1>7. received + 1 \in 1 .. received' BY <1>2, <1>3
<1>8. OwnReport'
  <2>1. \A g \in Feeds : Busy(g)' => job'[g].n \in 1 .. received' BY <1>4, <1>5, <1>6, <1>7 DEF OInv, OwnReport
  <2>2. \A g, h \in Feeds : Busy(g)' /\ Busy(h)' /\ job'[g].n = job'[h].n => g = h
    BY <1>4, <1>5, <1>6 DEF OInv, OwnReport
  <2>3. \A g \in Feeds : \A i \in DOMAIN forwards :
          Busy(g)' /\ forwards[i].n = job'[g].n => forwards[i].feed = g
    BY <1>4, <1>5, <1>6 DEF OInv, OwnReport
  <2>4. \A i \in DOMAIN forwards' : forwards'[i].n \in 1 .. received' BY <1>2, <1>6 DEF OInv, OwnReport
  <2>5. \A s \in Servers : \A i \in DOMAIN outbox'[s] : outbox'[s][i].n \in 1 .. received'
    BY <1>2, <1>6 DEF OInv, OwnReport
  <2> QED BY <1>2, <2>1, <2>2, <2>3, <2>4, <2>5 DEF OwnReport
<1>9. NotYet'
  <2>1. \A s \in Servers : Lacks(outbox[s], received + 1) BY <1>6 DEF OInv, OwnReport, Lacks
  <2>2. ASSUME NEW g \in Feeds, pc'[g] \in {"observe", "gate", "select"}, NEW s \in Servers
        PROVE  Lacks(outbox[s], job'[g].n)
    BY <1>4, <2>1, <2>2 DEF OInv, NotYet
  <2>3. ASSUME NEW g \in Feeds, pc'[g] = "enqueue", ~Unserved(job[g].n)'
        PROVE  pc[g] = "enqueue" /\ job'[g] = job[g] /\ ~Unserved(job[g].n)
    <3>1. pc[g] = "enqueue" /\ job'[g] = job[g] BY <1>4, <2>3
    <3> QED BY <1>2, <2>3, <3>1 DEF Unserved
  <2> QED BY <1>2, <2>2, <2>3 DEF OInv, NotYet
<1>10. Once' BY <1>2 DEF OInv, Once, FromAprs, Unserved
<1>11. \A g \in Feeds : pc'[g] = "again" => g = EventLoop BY <1>4 DEF OInv
<1> QED BY <1>2, <1>8, <1>9, <1>10, <1>11 DEF OInv

(* Without an enabled server every manager is given the fallback, once.    *)
LEMMA SelectGives ==
  ASSUME PInv, OInv, NEW f \in Feeds, Select(f)
  PROVE  OInv'
<1>1. /\ UNCHANGED <<forwards, unserved, received>> /\ pc[f] = "select" /\ Busy(f)
  BY DEF Select, Goto, Busy
<1>2. /\ pc \in [Feeds -> Steps] /\ job = [g \in Feeds |-> job[g]] /\ enabled \subseteq Servers
      /\ \A g \in Feeds : Busy(g) => job[g] \in Reports
  BY DEF PInv, Shape
<1>3. \A g \in Feeds : pc[g] = "enqueue" => job[g].todo \subseteq Servers BY <1>2 DEF Busy, Reports
<1>4. PICK n \in Nat : n = job[f].n BY <1>1, <1>2 DEF Reports
<1>5. \A s \in Servers : Lacks(outbox[s], n) /\ outbox[s] \in Seq(Entries) BY <1>1, <1>4 DEF OInv, NotYet
<1>6. CASE Goto(f, "select", "commit") /\ EnqueueAll(job[f].n, NoServer) /\ UNCHANGED job
  <2> DEFINE e == [n |-> n, style |-> NoServer]
  <2>1. outbox' = [s \in Servers |-> IF s \in managers THEN Append(outbox[s], e) ELSE outbox[s]]
    BY <1>4, <1>6 DEF EnqueueAll
  <2>2. /\ pc'[f] = "commit" /\ job'[f].n = n
        /\ \A g \in Feeds \ {f} : pc'[g] = pc[g] /\ job'[g] = job[g]
    BY <1>2, <1>4, <1>6 DEF Goto
  <2>3. ASSUME NEW s \in Servers PROVE Proper(outbox'[s], n, s)
    <3>1. e \in Entries /\ e.n = n /\ e.style = NoServer BY DEF Entries
    <3> HIDE DEF e
    <3>2. PICK old \in Seq(Entries) : old = outbox[s] BY <1>5
    <3>3. Lacks(old, n) BY <1>5, <3>2
    <3>4. Proper(Append(old, e), n, s) BY <3>1, <3>3, Put
    <3>5. Proper(old, n, s) BY <3>3 DEF Lacks, Proper
    <3> QED BY <2>1, <3>2, <3>4, <3>5
  <2>4. outbox' = [s \in Servers |-> outbox'[s]] BY <2>1
  <2>5. \A s \in Servers : outbox'[s] = outbox[s] \/ outbox'[s] = Append(outbox[s], [n |-> n, style |-> NoServer])
    BY <2>1
  <2> HIDE DEF e
  <2> QED BY <1>1, <1>3, <1>4, <2>2, <2>3, <2>4, <2>5, Given
<1>7. CASE Goto(f, "select", "enqueue") /\ job' = [job EXCEPT ![f].todo = enabled] /\ UNCHANGED outbox
  <2>1. /\ pc'[f] = "enqueue" /\ job'[f].n = n /\ job'[f].todo = enabled
        /\ \A g \in Feeds \ {f} : pc'[g] = pc[g] /\ job'[g] = job[g]
    BY <1>1, <1>2, <1>4, <1>7 DEF Goto, Reports
  <2>2. \A s \in Servers : Lacks(outbox'[s], n) /\ Proper(outbox'[s], n, s) BY <1>5, <1>7 DEF Lacks, Proper
  <2>3. outbox' = [s \in Servers |-> outbox'[s]] BY <1>7 DEF OInv
  <2> QED BY <1>1, <1>2, <1>3, <1>4, <1>7, <2>1, <2>2, <2>3, Given
<1> QED BY <1>6, <1>7 DEF Select

(* A server's manager is given the CoT styled for it; when there is none,  *)
(* all others are, and the report counts as one that found no manager.     *)
LEMMA EnqueueGives ==
  ASSUME PInv, OInv, NEW f \in Feeds, EnqueueOne(f)
  PROVE  OInv'
<1>1. UNCHANGED <<forwards, received>> /\ pc[f] = "enqueue" /\ Busy(f) BY DEF EnqueueOne, Busy
<1>2. PICK s \in job[f].todo :
        /\ job' = [job EXCEPT ![f].todo = @ \ {s}, ![f].style = IF @ = NoServer THEN s ELSE @]
        /\ Goto(f, "enqueue", IF job[f].todo = {s} THEN "commit" ELSE "enqueue")
        /\ IF s \in managers
             THEN /\ outbox' = [outbox EXCEPT ![s] = Append(@, [n |-> job[f].n, style |-> s])]
                  /\ UNCHANGED unserved
             ELSE /\ EnqueueAll(job[f].n, s)
                  /\ unserved' = unserved \cup {<<job[f].n, s>>}
  BY DEF EnqueueOne
<1>3. /\ pc \in [Feeds -> Steps] /\ job = [g \in Feeds |-> job[g]]
      /\ \A g \in Feeds : Busy(g) => job[g] \in Reports
  BY DEF PInv, Shape
<1>4. \A g \in Feeds : pc[g] = "enqueue" => job[g].todo \subseteq Servers BY <1>3 DEF Busy, Reports
<1>5. PICK n \in Nat : n = job[f].n BY <1>1, <1>3 DEF Reports
<1>6. s \in Servers BY <1>1, <1>4
<1>7. /\ pc'[f] \in {"commit", "enqueue"} /\ job'[f].n = n /\ job'[f].todo = job[f].todo \ {s}
      /\ \A g \in Feeds \ {f} : pc'[g] = pc[g] /\ job'[g] = job[g]
  <2>1. job[f] \in Reports BY <1>1, <1>3
  <2>2. job'[f].n = n /\ job'[f].todo = job[f].todo \ {s} BY <1>2, <1>3, <1>5, <2>1 DEF Reports
  <2> QED BY <1>2, <1>3, <2>2 DEF Goto
<1>8. CASE s \in managers
  <2> DEFINE e == [n |-> n, style |-> s]
  <2>1. outbox' = [outbox EXCEPT ![s] = Append(@, e)] /\ unserved' = unserved BY <1>2, <1>5, <1>8
  <2>2. /\ outbox' = [t \in Servers |-> outbox'[t]] /\ outbox'[s] = Append(outbox[s], e)
        /\ \A t \in Servers \ {s} : outbox'[t] = outbox[t]
    BY <1>6, <2>1 DEF OInv
  <2>3. ASSUME ~Unserved(n)'
        PROVE  ~Unserved(n) /\ \A t \in job[f].todo : Lacks(outbox[t], n)
    <3>1. ~Unserved(n) BY <2>1, <2>3 DEF Unserved
    <3>2. ~Unserved(job[f].n) BY <1>5, <3>1
    <3> QED BY <1>1, <1>5, <3>1, <3>2 DEF OInv, NotYet
  <2>4. ~Unserved(n)' => \A t \in job'[f].todo : Lacks(outbox'[t], n) BY <1>1, <1>4, <1>7, <2>2, <2>3
  <2>5. ASSUME FromAprs(n), ~Unserved(n)', NEW t \in Servers PROVE Proper(outbox'[t], n, t)
    <3>1. CASE t = s
      <4>1. e \in Entries /\ e.n = n /\ e.style = s BY <1>6 DEF Entries
      <4> HIDE DEF e
      <4>2. PICK old \in Seq(Entries) : old = outbox[s] BY <1>6 DEF OInv
      <4>3. Lacks(old, n) BY <2>3, <2>5, <4>2
      <4>4. Proper(Append(old, e), n, s) BY <4>1, <4>3, Put
      <4> QED BY <2>2, <3>1, <4>2, <4>4
    <3>2. CASE t # s
      <4>1. Proper(outbox[t], n, t) BY <2>3, <2>5 DEF OInv, Once
      <4> QED BY <2>2, <3>2, <4>1
    <3> QED BY <3>1, <3>2
  <2>6. \A t \in Servers : outbox'[t] = outbox[t] \/ outbox'[t] = Append(outbox[t], [n |-> n, style |-> s])
    BY <2>2
  <2>7. outbox' = [t \in Servers |-> outbox'[t]] /\ unserved \subseteq unserved' BY <2>1, <2>2
  <2>8. FromAprs(n) /\ ~Unserved(n)' => \A t \in Servers : Proper(outbox'[t], n, t) BY <2>5
  <2>9. /\ pc'[f] \in {"idle", "commit", "enqueue"} /\ (pc'[f] # "idle" => job'[f].n = n)
        /\ pc'[f] = "enqueue" /\ ~Unserved(n)' => \A t \in job'[f].todo : Lacks(outbox'[t], n)
    BY <1>7, <2>4
  <2>10. s \in Servers \cup {NoServer} BY <1>6
  <2> QED BY <1>1, <1>4, <1>5, <1>7, <2>6, <2>7, <2>8, <2>9, <2>10, Given
<1>9. CASE s \notin managers
  <2>1. /\ unserved' = unserved \cup {<<n, s>>}
        /\ outbox' = [t \in Servers |-> IF t \in managers THEN Append(outbox[t], [n |-> n, style |-> s])
                                         ELSE outbox[t]]
    BY <1>2, <1>5, <1>9 DEF EnqueueAll
  <2>2. Unserved(n)'
    <3>1. <<n, s>> \in unserved' /\ <<n, s>>[1] = n BY <2>1
    <3> QED BY <3>1 DEF Unserved
  <2>3. outbox' = [t \in Servers |-> outbox'[t]] BY <2>1
  <2>4. \A t \in Servers : outbox'[t] = outbox[t] \/ outbox'[t] = Append(outbox[t], [n |-> n, style |-> s])
    BY <2>1
  <2>5. unserved \subseteq unserved' BY <2>1
  <2> QED BY <1>1, <1>4, <1>5, <1>6, <1>7, <2>2, <2>3, <2>4, <2>5, Given
<1> QED BY <1>8, <1>9

(* Only the event loop hands a report on once more, and never an APRS one. *)
LEMMA AgainGives ==
  ASSUME PInv, OInv, NEW f \in Feeds, Again(f)
  PROVE  OInv'
<1>1. /\ UNCHANGED <<forwards, unserved, received>> /\ pc[f] = "again" /\ Busy(f)
      /\ pc' = [pc EXCEPT ![f] = "idle"] /\ job' = [job EXCEPT ![f] = NoJob]
      /\ EnqueueAll(job[f].n, job[f].style)
  BY DEF Again, Go, Goto, Busy
<1>2. /\ pc \in [Feeds -> Steps] /\ job = [g \in Feeds |-> job[g]]
      /\ \A g \in Feeds : Busy(g) => job[g] \in Reports
  BY DEF PInv, Shape
<1>3. \A g \in Feeds : pc[g] = "enqueue" => job[g].todo \subseteq Servers BY <1>2 DEF Busy, Reports
<1>4. PICK n \in Nat, style \in Servers \cup {NoServer} : n = job[f].n /\ style = job[f].style
  BY <1>1, <1>2 DEF Reports
<1>5. pc'[f] = "idle" /\ \A g \in Feeds \ {f} : pc'[g] = pc[g] /\ job'[g] = job[g] BY <1>1, <1>2
<1>6. outbox' = [s \in Servers |-> IF s \in managers THEN Append(outbox[s], [n |-> n, style |-> style])
                                   ELSE outbox[s]]
  BY <1>1, <1>4 DEF EnqueueAll
<1>7. outbox' = [s \in Servers |-> outbox'[s]] BY <1>6
<1>8. \A s \in Servers : outbox'[s] = outbox[s] \/ outbox'[s] = Append(outbox[s], [n |-> n, style |-> style])
  BY <1>6
<1>9. ~FromAprs(n) BY <1>1, <1>4 DEF FromAprs, OInv, OwnReport
<1> QED BY <1>1, <1>3, <1>4, <1>5, <1>7, <1>8, <1>9, Given

(* What the operator does gives no report to anybody: a manager that is    *)
(* made has an empty queue.                                                *)
LEMMA OperatorGives ==
  ASSUME PInv, OInv,
         \/ \E s \in Servers : AddServer(s) \/ NewManager(s) \/ DeleteServer(s)
         \/ AddServerEnd \/ Tick \/ UNCHANGED vars
  PROVE  OInv'
<1>1. UNCHANGED <<forwards, unserved, received, pc, job>>
  BY DEF AddServer, NewManager, DeleteServer, AddServerEnd, Tick, vars
<1>2. outbox' = outbox \/ \E s : outbox' = [outbox EXCEPT ![s] = <<>>]
  BY DEF AddServer, NewManager, DeleteServer, AddServerEnd, Register, Tick, vars
<1>3. outbox' = [s \in Servers |-> outbox'[s]] /\ \A s \in Servers : outbox'[s] = outbox[s] \/ outbox'[s] = <<>>
  BY <1>2 DEF OInv
<1>4. \A g \in Feeds : pc[g] = "enqueue" => job[g].todo \subseteq Servers BY DEF PInv, Shape, Busy, Reports
<1>5. \A g \in Feeds : Busy(g)' => Busy(g) BY <1>1 DEF Busy
<1>6. \A g \in Feeds : pc'[g] = "again" => g = EventLoop BY <1>1 DEF OInv
<1> QED BY <1>1, <1>3, <1>4, <1>5, <1>6, NothingGiven

(* Every step keeps the invariant.                                         *)
LEMMA OnceStep == PInv /\ PInv' /\ OInv /\ [Next]_vars => OInv'
<1> SUFFICES ASSUME PInv, PInv', OInv, [Next]_vars PROVE OInv' OBVIOUS
<1>1. ASSUME NEW f \in Feeds, Process(f) PROVE OInv'
  BY <1>1, CallGives, PassGives, ReceiveGives, SelectGives, EnqueueGives, AgainGives DEF Process
<1> QED BY <1>1, OperatorGives DEF Next

(* No TAK manager is given an APRS report twice, and each is given the CoT *)
(* that is styled for its own server, unless an enabled server had no      *)
(* manager (_handle_position, enqueue_for).                                *)
THEOREM EnqueuedOnce == Spec => []AprsEnqueuedOnce
<1>1. PInv /\ PInv' /\ OInv /\ [Next]_vars => OInv' BY OnceStep
<1>2. Init => OInv BY OnceInit
<1>3. OInv => AprsEnqueuedOnce BY OnceImply
<1> QED BY <1>1, <1>2, <1>3, Inductive, PTL DEF Spec
================================================================================
