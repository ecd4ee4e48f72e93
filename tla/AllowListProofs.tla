---------------------------- MODULE AllowListProofs ----------------------------
(***************************************************************************)
(* Proofs about module AllowList, for any number of threads, systems, rows *)
(* and reports.  That only the operator approves is true because, without  *)
(* auto-approval, forward_to_tak has the pages as its only writers, and    *)
(* the edit form writes over the very value it has read.  The other two    *)
(* are about a call of a feed while the other feeds insert and approve     *)
(* rows: find_identity prefers the oldest row, and those rows are younger, *)
(* so that what a session has read stays true of the table (StaysBlocked,  *)
(* StaysApproved); only a page can make it stale.                          *)
(***************************************************************************)
EXTENDS AllowList, WellFoundedInduction, TLAPS

(* What a session holds; its row is whatever find_identity returned.       *)
IsJob(j) ==
  /\ j = [system |-> j.system, row |-> j.row, seen |-> j.seen, form |-> j.form]
  /\ j.system \in Systems /\ j.seen \in Form /\ j.form \in Form

(* What the columns and the sessions hold.                                 *)
Shape ==
  /\ made \in Nat
  /\ table \in [Rows -> Identity] /\ \A i \in Rows : i \in Nat /\ i <= made
  /\ pc \in [Threads -> Steps]
  /\ job = [t \in Threads |-> job[t]] /\ \A t \in Threads : IsJob(job[t])

(* Without auto-approval no report gets to the steps that approve, ...     *)
NotApproving ==
  ~auto => \A t \in Threads : pc[t] \notin {"approve", "insertApproved", "setForward"}

(* ... so that the edit form has read what is there.                       *)
EditReads ==
  pc[Loop] = "edit" =>
    /\ job[Loop].row \in Rows
    /\ ~auto => job[Loop].seen.forward = table[job[Loop].row].forward

AInv == Shape /\ NotApproving /\ EditReads /\ OnlyOperatorApproves

LEMMA JobRecord ==
  ASSUME NEW R, NEW j
  PROVE  /\ j \in [system : Systems, row : R, seen : Form, form : Form] => IsJob(j)
         /\ IsJob(j) /\ j.row \in R => j \in [system : Systems, row : R, seen : Form, form : Form]
BY DEF IsJob

LEMMA InitInv == Init => AInv
<1> SUFFICES ASSUME Init PROVE AInv
  OBVIOUS
<1>1. Rows = {} /\ table \in [Rows -> Identity]
  BY DEF Init, Rows
<1>2. IsJob(Blank)
  BY DEF Blank, IsJob, Systems, Form
<1>3. pc \in [Threads -> Steps] /\ job = [t \in Threads |-> job[t]] /\ \A t \in Threads : IsJob(job[t])
  BY <1>2 DEF Init, Steps, Ended
<1>4. \A t \in Threads : pc[t] = "idle"
  BY DEF Init
<1> QED
  BY <1>1, <1>3, <1>4 DEF Init, AInv, Shape, NotApproving, EditReads, OnlyOperatorApproves, Threads

(* What Add does to the table.                                             *)
LEMMA AddRow ==
  ASSUME Shape, NEW identity \in Identity, Add(identity)
  PROVE  /\ NewId = made + 1 /\ NewId \notin Rows /\ NewId \in Ids
         /\ Rows' = Rows \cup {NewId} /\ table'[NewId] = identity
         /\ \A i \in Rows : table'[i] = table[i]
         /\ table' \in [Rows' -> Identity] /\ made' \in Nat
         /\ \A i \in Rows' : i \in Nat /\ i <= made'
<1>1. table' = [i \in Rows \cup {NewId} |-> IF i = NewId THEN identity ELSE table[i]]
      /\ made' = NewId /\ NewId = made + 1 /\ NewId \in Ids
  BY DEF Add, NewId
<1>2. NewId \notin Rows
  BY <1>1 DEF Shape
<1>3. Rows' = Rows \cup {NewId}
  BY <1>1 DEF Rows
<1>4. table' \in [Rows' -> Identity]
  BY <1>1, <1>3 DEF Shape
<1> QED
  BY <1>1, <1>2, <1>3, <1>4 DEF Shape

(* A session of thread t goes on: its step, and what it holds.             *)
LEMMA SessionKeeps ==
  ASSUME AInv, UNCHANGED auto, NEW t \in Threads, NEW to \in Steps,
         NEW held, IsJob(held), pc' = [pc EXCEPT ![t] = to], job' = [job EXCEPT ![t] = held],
         UNCHANGED <<database, granted>>,
         ~auto => to \notin {"approve", "insertApproved", "setForward"},
         t = Loop /\ to = "edit" =>
           held.row \in Rows /\ held.seen.forward = table[held.row].forward
  PROVE  AInv'
<1>1. pc' \in [Threads -> Steps] /\ job' = [u \in Threads |-> job'[u]] /\ pc'[t] = to /\ job'[t] = held
      /\ \A u \in Threads \ {t} : pc'[u] = pc[u] /\ job'[u] = job[u]
  BY DEF AInv, Shape
<1>2. Loop \in Threads
  BY DEF Threads
<1>3. UNCHANGED <<table, made, Rows, granted>>
  BY DEF database, Rows
<1>4. EditReads'
  BY <1>1, <1>2, <1>3 DEF AInv, EditReads
<1>5. Shape'
  BY <1>1, <1>3 DEF AInv, Shape
<1>6. NotApproving'
  BY <1>1 DEF AInv, NotApproving
<1> QED
  BY <1>3, <1>4, <1>5, <1>6 DEF AInv, OnlyOperatorApproves

(* A report records a radio nobody knew: not forwarded, unless the report  *)
(* may approve.                                                            *)
LEMMA InsertKeeps ==
  ASSUME AInv, UNCHANGED auto, NEW t \in Threads, NEW from \in Steps \ {"edit"},
         NEW to \in {"refresh", "decide"}, Goto(t, from, to), NEW forward \in BOOLEAN,
         Insert(t, forward), UNCHANGED granted, ~auto => ~forward
  PROVE  AInv'
<1> DEFINE identity == [system |-> job[t].system, enabled |-> TRUE, forward |-> forward]
<1>1. identity \in Identity /\ Add(identity)
  BY DEF AInv, Shape, IsJob, Identity, Insert
<1>2. /\ NewId \notin Rows /\ Rows' = Rows \cup {NewId} /\ table'[NewId].forward = forward
      /\ \A i \in Rows : table'[i] = table[i]
      /\ table' \in [Rows' -> Identity] /\ made' \in Nat
      /\ \A i \in Rows' : i \in Nat /\ i <= made'
  BY <1>1, AddRow DEF AInv
<1>3. /\ pc' \in [Threads -> Steps] /\ pc'[t] = to /\ \A u \in Threads \ {t} : pc'[u] = pc[u]
  BY DEF AInv, Shape, Goto, Steps
<1>4. /\ job' = [u \in Threads |-> job'[u]] /\ \A u \in Threads \ {t} : job'[u] = job[u]
      /\ job'[t] = [job[t] EXCEPT !.row = NewId]
  BY DEF AInv, Shape, Insert, Hold
<1>5. IsJob(job'[t])
  BY <1>4 DEF AInv, Shape, IsJob
<1>6. EditReads'
  <2>1. Loop \in Threads
    BY DEF Threads
  <2>2. ASSUME pc'[Loop] = "edit" PROVE Loop # t /\ pc[Loop] = "edit" /\ job'[Loop] = job[Loop]
    BY <1>3, <1>4, <2>1, <2>2
  <2> QED
    BY <1>2, <2>2 DEF AInv, EditReads
<1> QED
  BY <1>2, <1>3, <1>4, <1>5, <1>6 DEF AInv, Shape, NotApproving, OnlyOperatorApproves

(* Without auto-approval a report is at none of the steps that approve.    *)
LEMMA HearKeeps ==
  ASSUME AInv, UNCHANGED auto, NEW t \in Threads, Hear(t)
  PROVE  AInv'
<1>0. IsJob(job[t]) /\ pc \in [Threads -> Steps] /\ job = [u \in Threads |-> job[u]]
  BY DEF AInv, Shape
<1> DEFINE Same == [job EXCEPT ![t] = job[t]]
           Row(id) == [job EXCEPT ![t] = [job[t] EXCEPT !.row = id]]
<1>a. Same = job /\ \A id : IsJob([job[t] EXCEPT !.row = id])
  BY <1>0 DEF IsJob
<1>b. \A id : Hold(t, id) => job' = Row(id)
  BY DEF Hold
<1>c. IsJob(Blank) /\ \A system \in Systems : IsJob([Blank EXCEPT !.system = system])
  <2>1. IsJob(Blank)
    BY DEF IsJob, Blank, Systems, Form
  <2>2. ASSUME NEW system \in Systems PROVE IsJob([Blank EXCEPT !.system = system])
    <3>1. Blank \in [system : Systems, row : {None}, seen : Form, form : Form]
      BY DEF Blank, Systems, Form
    <3>2. [Blank EXCEPT !.system = system]
            \in [system : Systems, row : {None}, seen : Form, form : Form]
      BY <3>1
    <3> QED
      BY <3>2, JobRecord
  <2> QED
    BY <2>1, <2>2
<1>1. CASE Arrive(t)
  <2>1. PICK system \in Systems : job' = [job EXCEPT ![t] = [Blank EXCEPT !.system = system]]
    BY <1>1 DEF Arrive, Systems
  <2>2. PICK to \in {"approve", "observe"} : pc' = [pc EXCEPT ![t] = to] /\ (~auto => to = "observe")
    BY <1>1 DEF Arrive
  <2>3. UNCHANGED <<database, granted>>
    BY <1>1 DEF Arrive
  <2> QED
    BY <1>c, <2>1, <2>2, <2>3, SessionKeeps DEF Steps
<1>2. CASE ApproveFind(t)
  <2>1. auto
    BY <1>2 DEF ApproveFind, Goto, AInv, NotApproving
  <2>2. PICK to \in {"insertApproved", "setForward", "observe"} : pc' = [pc EXCEPT ![t] = to]
    BY <1>2 DEF ApproveFind, Goto
  <2>3. job' = Row(Found(job[t].system)) /\ UNCHANGED <<database, granted>>
    BY <1>2, <1>b DEF ApproveFind, history
  <2> QED
    BY <1>a, <2>1, <2>2, <2>3, SessionKeeps DEF Steps, Committing
<1>3. CASE InsertApproved(t)
  <2>1. auto
    BY <1>3 DEF InsertApproved, Goto, AInv, NotApproving
  <2>2. Goto(t, "insertApproved", "refresh") /\ Insert(t, TRUE) /\ UNCHANGED granted
    BY <1>3 DEF InsertApproved, history
  <2> QED
    BY <2>1, <2>2, InsertKeeps DEF Steps, Committing
<1>4. CASE SetForward(t)
  <2>1. auto /\ auto' /\ pc[t] = "setForward"
    BY <1>4 DEF SetForward, Goto, AInv, NotApproving
  <2>2. CASE job[t].row \in Rows
    <3>1. /\ pc' = [pc EXCEPT ![t] = "refresh"] /\ UNCHANGED <<made, job, granted>>
          /\ table' = [table EXCEPT ![job[t].row].forward = TRUE]
      BY <1>4, <2>2 DEF SetForward, Goto, history
    <3>2. table' \in [Rows -> Identity] /\ Rows' = Rows
      BY <2>2, <3>1 DEF AInv, Shape, Identity, Rows
    <3>3. pc' \in [Threads -> Steps] /\ \A u \in Threads : pc'[u] = "edit" => pc[u] = "edit"
      BY <1>0, <3>1 DEF Steps
    <3>4. Shape'
      BY <3>1, <3>2, <3>3 DEF AInv, Shape
    <3>5. EditReads'
      BY <2>1, <3>1, <3>2, <3>3 DEF AInv, EditReads, Threads
    <3> QED
      BY <2>1, <3>4, <3>5 DEF AInv, NotApproving, OnlyOperatorApproves
  <2>3. CASE job[t].row \notin Rows
    <3>1. pc' = [pc EXCEPT ![t] = "failed"] /\ job' = Same /\ UNCHANGED <<database, granted>>
      BY <1>4, <1>a, <2>3 DEF SetForward, Goto, history, database
    <3> QED
      BY <1>0, <3>1, SessionKeeps DEF Steps, Ended
  <2> QED
    BY <2>2, <2>3
<1>5. CASE Refresh(t) \/ Decide(t)
  <2>1. PICK to \in {"observe", "failed", "forwarded", "blocked"} : pc' = [pc EXCEPT ![t] = to]
    BY <1>5 DEF Refresh, Decide, Goto
  <2>2. PICK held \in {job[t], Blank} : job' = [job EXCEPT ![t] = held]
    BY <1>5, <1>a DEF Refresh, Decide, Close
  <2>3. UNCHANGED <<database, granted>>
    BY <1>5 DEF Refresh, Decide, history
  <2> QED
    BY <1>0, <1>c, <2>1, <2>2, <2>3, SessionKeeps DEF Steps, Ended
<1>6. CASE ObserveFind(t)
  <2>1. pc' = [pc EXCEPT ![t] = "observeCommit"] /\ job' = Row(Found(job[t].system))
        /\ UNCHANGED <<database, granted>>
    BY <1>6, <1>b DEF ObserveFind, Goto, history
  <2> QED
    BY <1>a, <2>1, SessionKeeps DEF Steps, Committing
<1>7. CASE ObserveCommit(t)
  <2>1. CASE Goto(t, "observeCommit", "decide") /\ Insert(t, FALSE)
    BY <1>7, <2>1, InsertKeeps DEF ObserveCommit, history, Steps, Committing
  <2>2. CASE UNCHANGED <<database, job>>
    <3>1. PICK to \in {"decide", "failed"} : pc' = [pc EXCEPT ![t] = to]
      BY <1>7 DEF ObserveCommit, Goto
    <3>2. job' = Same /\ UNCHANGED <<database, granted>>
      BY <1>7, <1>a, <2>2 DEF ObserveCommit, history
    <3> QED
      BY <1>0, <3>1, <3>2, SessionKeeps DEF Steps, Ended
  <2> QED
    BY <1>7, <2>1, <2>2 DEF ObserveCommit
<1>8. CASE CommitFails(t)
  BY <1>8, <1>c, SessionKeeps DEF CommitFails, Close, history, Steps, Ended
<1> QED
  BY <1>1, <1>2, <1>3, <1>4, <1>5, <1>6, <1>7, <1>8, Zenon DEF Hear

(* A page that takes rows away.                                            *)
LEMMA RowsGo ==
  ASSUME AInv, UNCHANGED auto, NEW ids, table' = Without(ids), granted' = granted \ ids,
         pc' \in [Threads -> Steps], pc'[Loop] # "edit", UNCHANGED <<made, job>>,
         \A t \in Threads \ {Loop} : pc'[t] = pc[t],
         pc'[Loop] \notin {"approve", "insertApproved", "setForward"}
  PROVE  AInv'
<1>1. Rows' = Rows \ ids /\ \A i \in Rows' : table'[i] = table[i]
  BY DEF Without, Rows
<1>2. table' \in [Rows' -> Identity]
  BY <1>1 DEF Without, AInv, Shape
<1>3. Shape'
  BY <1>1, <1>2 DEF AInv, Shape
<1> QED
  BY <1>1, <1>3 DEF AInv, NotApproving, EditReads, OnlyOperatorApproves

(* The pages.                                                              *)
LEMMA PageKeeps ==
  ASSUME AInv, UNCHANGED auto, Page
  PROVE  AInv'
<1>0. /\ pc \in [Threads -> Steps] /\ Loop \in Threads /\ IsJob(job[Loop])
      /\ job = [u \in Threads |-> job[u]]
  BY DEF AInv, Shape, Threads
<1>1. CASE UnitsAdd
  <2>1. PICK system \in Systems, forward \in BOOLEAN :
          /\ Add([system |-> system, enabled |-> TRUE, forward |-> forward])
          /\ granted' = IF forward THEN granted \cup {NewId} ELSE granted \ {NewId}
    BY <1>1 DEF UnitsAdd
  <2>2. /\ NewId \notin Rows /\ Rows' = Rows \cup {NewId} /\ table'[NewId].forward = forward
        /\ \A i \in Rows : table'[i] = table[i]
        /\ table' \in [Rows' -> Identity] /\ made' \in Nat
        /\ \A i \in Rows' : i \in Nat /\ i <= made'
    <3>1. [system |-> system, enabled |-> TRUE, forward |-> forward] \in Identity
      BY DEF Identity
    <3> QED
      BY <2>1, <3>1, AddRow DEF AInv
  <2>3. UNCHANGED <<pc, job>> /\ pc[Loop] # "edit"
    BY <1>1 DEF UnitsAdd, LoopFree, Ended
  <2>4. Shape' /\ NotApproving' /\ EditReads'
    <3>1. Shape'
      BY <2>2, <2>3 DEF AInv, Shape
    <3>2. NotApproving' /\ EditReads'
      BY <2>3 DEF AInv, NotApproving, EditReads
    <3> QED
      BY <3>1, <3>2
  <2>5. OnlyOperatorApproves'
    BY <2>1, <2>2 DEF AInv, OnlyOperatorApproves
  <2> QED
    BY <2>4, <2>5 DEF AInv
<1>2. ASSUME NEW id \in Rows, NEW form \in Form, UnitEdit(id, form) PROVE AInv'
  <2> DEFINE held == [job[Loop] EXCEPT !.row = id, !.form = form,
                        !.seen = [enabled |-> table[id].enabled, forward |-> table[id].forward]]
  <2>1. table[id] \in Identity
    BY DEF AInv, Shape
  <2>2. IsJob(held) /\ held.row = id /\ held.seen.forward = table[id].forward
    <3> DEFINE Set == [system : Systems, row : {job[Loop].row, id}, seen : Form, form : Form]
    <3>1. job[Loop] \in Set
      BY <1>0, JobRecord
    <3>2. [enabled |-> table[id].enabled, forward |-> table[id].forward] \in Form
      BY <2>1 DEF Form, Identity
    <3>3. held \in Set /\ held.row = id
          /\ held.seen = [enabled |-> table[id].enabled, forward |-> table[id].forward]
      BY <3>1, <3>2
    <3> QED
      BY <3>3, JobRecord
  <2>3. pc' = [pc EXCEPT ![Loop] = "edit"] /\ job' = [job EXCEPT ![Loop] = held]
        /\ UNCHANGED <<database, granted>>
    BY <1>2 DEF UnitEdit, history
  <2> QED
    BY <1>0, <2>2, <2>3, SessionKeeps DEF Steps
<1>3. CASE UnitEditCommit
  <2> DEFINE id == job[Loop].row
             form == job[Loop].form
             seen == job[Loop].seen
  <2>1. id \in Rows /\ (~auto => seen.forward = table[id].forward) /\ form \in Form
        /\ table[id] \in Identity
    BY <1>0, <1>3 DEF UnitEditCommit, Goto, AInv, EditReads, IsJob, Shape
  <2>2. /\ table' = [table EXCEPT ![id] = Changed(@, seen, form)]
        /\ granted' = IF form.forward THEN granted \cup {id} ELSE granted \ {id}
        /\ pc' = [pc EXCEPT ![Loop] = "idle"] /\ job' = [job EXCEPT ![Loop] = Blank]
        /\ made' = made
    BY <1>3 DEF UnitEditCommit, Goto, Close
  <2>3. Changed(table[id], seen, form) \in Identity
        /\ (~auto => Changed(table[id], seen, form).forward = form.forward)
    BY <2>1 DEF Changed, Identity, Form
  <2>4. /\ Rows' = Rows /\ table' \in [Rows -> Identity]
        /\ table'[id] = Changed(table[id], seen, form)
        /\ \A i \in Rows \ {id} : table'[i] = table[i]
    BY <2>1, <2>2, <2>3 DEF Rows, AInv, Shape
  <2>5. IsJob(Blank)
    BY DEF IsJob, Blank, Systems, Form
  <2>6. /\ pc' \in [Threads -> Steps] /\ pc'[Loop] = "idle"
        /\ \A t \in Threads \ {Loop} : pc'[t] = pc[t]
    BY <1>0, <2>2 DEF Steps, Ended
  <2>7. job' = [t \in Threads |-> job'[t]] /\ \A t \in Threads : IsJob(job'[t])
    BY <1>0, <2>2, <2>5 DEF AInv, Shape
  <2>8. Shape'
    BY <2>2, <2>4, <2>6, <2>7 DEF AInv, Shape
  <2>9. OnlyOperatorApproves'
    BY <2>1, <2>2, <2>3, <2>4 DEF AInv, OnlyOperatorApproves
  <2> QED
    BY <2>6, <2>8, <2>9 DEF AInv, NotApproving, EditReads
<1>4. ASSUME NEW id \in Rows, UnitDelete(id) PROVE AInv'
  BY <1>0, <1>4, RowsGo DEF UnitDelete, LoopFree, Ended
<1>5. CASE ClearSelect
  <2>1. pc' = [pc EXCEPT ![Loop] = "clear"] /\ job' = [job EXCEPT ![Loop] = job[Loop]]
        /\ UNCHANGED <<database, granted>>
    BY <1>0, <1>5 DEF ClearSelect, history
  <2> QED
    BY <1>0, <2>1, SessionKeeps DEF Steps
<1>6. CASE ClearCommit
  <2>1. pc' = [pc EXCEPT ![Loop] = "idle"]
    BY <1>6 DEF ClearCommit, Goto
  <2>2. /\ pc' \in [Threads -> Steps] /\ pc'[Loop] = "idle"
        /\ \A t \in Threads \ {Loop} : pc'[t] = pc[t]
    BY <1>0, <2>1 DEF Steps, Ended
  <2>3. table' = Without(clearing) /\ granted' = granted \ clearing /\ UNCHANGED <<made, job>>
    BY <1>6 DEF ClearCommit
  <2> QED
    BY <2>2, <2>3, RowsGo
<1> QED
  BY <1>1, <1>2, <1>3, <1>4, <1>5, <1>6 DEF Page

LEMMA Inductive == Spec => []AInv
<1>1. AInv /\ [Next]_vars => AInv'
  <2>1. CASE UNCHANGED vars
    BY <2>1 DEF vars, database, history, AInv, Shape, NotApproving, EditReads, OnlyOperatorApproves,
       Rows
  <2> QED
    BY <2>1, HearKeeps, PageKeeps DEF Next
<1> QED
  BY <1>1, InitInv, PTL DEF Spec

(* With auto_approve_units off, a row that is forwarded is one the         *)
(* operator added, edited or approved (routers units_* and                 *)
(* observe_identity, whose new rows are not forwarded).                    *)
THEOREM OnlyOperator == Spec => []OnlyOperatorApproves
<1>1. AInv => OnlyOperatorApproves
  BY DEF AInv
<1> QED
  BY <1>1, Inductive, PTL

--------------------------------------------------------------------------------
(* Which row an APRS report finds: an own one, the oldest first, or else   *)
(* the oldest that matches.                                                *)
Own == Exact("APRS")
Near == Matching("APRS")
Unit == Found("APRS")
Enabled == \A i \in Near : table[i].enabled
Answered == Unit # None /\ table[Unit].forward

LEMMA LeastIs ==
  ASSUME NEW S \in SUBSET Nat, S # {}
  PROVE  Least(S) \in S /\ \A j \in S : Least(S) <= j
<1> DEFINE R == OpToRel(<, Nat)
<1>1. IsWellFoundedOn(R, Nat)
  BY NatLessThanWellFounded
<1>2. PICK i \in S : \A j \in S : <<j, i>> \notin R
  <2> HIDE DEF R
  <2> QED
    BY <1>1, WFMin
<1>3. ASSUME NEW j \in S PROVE i <= j
  <2>1. ~(j < i)
    BY <1>2 DEF OpToRel
  <2> QED
    BY <2>1
<1>4. \E k \in S : \A j \in S : k <= j
  BY <1>3
<1> QED
  BY <1>4 DEF Least

LEMMA LeastStays ==
  ASSUME NEW S \in SUBSET Nat, S # {}, NEW T \in SUBSET Nat, S \subseteq T,
         \A j \in T \ S : \A i \in S : i <= j
  PROVE  Least(T) = Least(S)
<1>1. Least(S) \in S /\ \A j \in S : Least(S) <= j
  BY LeastIs
<1>2. T # {}
  OBVIOUS
<1>3. Least(T) \in T /\ \A j \in T : Least(T) <= j
  BY <1>2, LeastIs
<1>4. Least(T) <= Least(S) /\ Least(S) <= Least(T)
  BY <1>1, <1>3
<1>5. Least(T) \in Nat /\ Least(S) \in Nat
  BY <1>1, <1>3
<1> QED
  BY <1>4, <1>5

(* What is found is among what matches.                                    *)
LEMMA FoundMatches ==
  ASSUME Rows \in SUBSET Nat, 0 \notin Rows
  PROVE  /\ Own \subseteq Near /\ Near \subseteq Rows
         /\ Own # {} => Unit = Least(Own) /\ Unit \in Own
         /\ Own = {} /\ Near # {} => Unit = Least(Near) /\ Unit \in Near
         /\ Near = {} => Unit = None
         /\ Unit = None => Near = {}
<1>1. Own \subseteq Near /\ Near \subseteq Rows /\ Own \in SUBSET Nat /\ Near \in SUBSET Nat
  BY DEF Own, Near, Exact, Matching
<1>2. Own # {} => Least(Own) \in Own
  BY <1>1, LeastIs
<1>3. Near # {} => Least(Near) \in Near
  BY <1>1, LeastIs
<1>4. Unit = IF Own # {} THEN Least(Own) ELSE IF Near # {} THEN Least(Near) ELSE None
  BY DEF Unit, Found, Own, Near
<1> QED
  BY <1>1, <1>2, <1>3, <1>4 DEF None

(* Between two pages rows only come, enabled and younger than the others,  *)
(* and forwarding is only switched on.                                     *)
Extends ==
  /\ Rows \in SUBSET Nat /\ 0 \notin Rows /\ Rows' \in SUBSET Nat /\ 0 \notin Rows'
  /\ Rows \subseteq Rows'
  /\ \A i \in Rows : /\ table'[i].system = table[i].system /\ table'[i].enabled = table[i].enabled
                     /\ table[i].forward => table'[i].forward
  /\ \A j \in Rows' \ Rows : table'[j].enabled /\ \A i \in Rows : i <= j
AddsApproved == \A j \in Rows' \ Rows : table'[j].system = "APRS" => table'[j].forward

LEMMA StillFound ==
  ASSUME Extends
  PROVE  /\ Own # {} => Own' # {} /\ Least(Own') = Least(Own) /\ Least(Own) \in Rows
                        /\ table'[Least(Own)].enabled = table[Least(Own)].enabled
         /\ Enabled' => Enabled
         /\ \A r \in Near : table[r].forward => r \in Near' /\ table'[r].forward
         /\ AddsApproved /\ (\A i \in Own : table[i].forward) => \A i \in Own' : table'[i].forward
         /\ AddsApproved /\ Answered => Answered'
         /\ AddsApproved /\ Unit # None => Unit' = Unit \/ Answered'
<1>1. Own' = {i \in Rows' : table'[i].system = "APRS"} /\ Own = {i \in Rows : table[i].system = "APRS"}
  BY DEF Own, Exact
<1>2. /\ Near' = {i \in Rows' : table'[i].system \in {"APRS", "any"}}
      /\ Near = {i \in Rows : table[i].system \in {"APRS", "any"}}
  BY DEF Near, Matching
<1>3. Own \subseteq Own' /\ Near \subseteq Near'
  BY <1>1, <1>2 DEF Extends
<1>4. /\ Own \in SUBSET Nat /\ Own' \in SUBSET Nat /\ Near \in SUBSET Nat /\ Near' \in SUBSET Nat
  BY <1>1, <1>2 DEF Extends
<1>5. Own # {} => Own' # {} /\ Least(Own') = Least(Own)
  <2>1. \A j \in Own' \ Own : \A i \in Own : i <= j
    BY <1>1 DEF Extends
  <2> QED
    BY <1>3, <1>4, <2>1, LeastStays
<1>6. Near # {} => Near' # {} /\ Least(Near') = Least(Near)
  <2>1. \A j \in Near' \ Near : \A i \in Near : i <= j
    BY <1>2 DEF Extends
  <2> QED
    BY <1>3, <1>4, <2>1, LeastStays
<1>7. Own # {} => Least(Own) \in Own
  BY <1>4, LeastIs
<1>8. AddsApproved => \A i \in Own' \ Own : table'[i].forward
  BY <1>1 DEF AddsApproved, Extends
<1>9. /\ Unit' = IF Own' # {} THEN Least(Own') ELSE IF Near' # {} THEN Least(Near') ELSE None
      /\ Unit = IF Own # {} THEN Least(Own) ELSE IF Near # {} THEN Least(Near) ELSE None
  BY DEF Unit, Found, Own, Near
<1>10. AddsApproved /\ Unit # None => Unit' = Unit \/ Answered'
  <2> SUFFICES ASSUME AddsApproved, Unit # None PROVE Unit' = Unit \/ Answered'
    OBVIOUS
  <2>1. CASE Own # {}
    BY <1>5, <1>9, <2>1
  <2>2. CASE Own = {} /\ Own' # {}
    <3>1. Least(Own') \in Own' /\ Unit' = Least(Own')
      BY <1>4, <1>9, <2>2, LeastIs
    <3>2. table'[Unit'].forward /\ Unit' # None
      BY <1>1, <1>8, <2>2, <3>1 DEF Extends, None
    <3> QED
      BY <3>2 DEF Answered
  <2>3. CASE Own = {} /\ Own' = {}
    BY <1>6, <1>9, <2>3
  <2> QED
    BY <2>1, <2>2, <2>3
<1>11. Unit # None => Unit \in Near
  BY FoundMatches DEF Extends
<1>12. AddsApproved /\ Answered => Answered'
  BY <1>2, <1>10, <1>11 DEF Answered, Extends
<1>13. Own # {} => Least(Own) \in Rows /\ table'[Least(Own)].enabled = table[Least(Own)].enabled
  BY <1>1, <1>7 DEF Extends
<1>14. Enabled' => Enabled
  BY <1>2, <1>3 DEF Enabled, Extends
<1>15. \A r \in Near : table[r].forward => r \in Near' /\ table'[r].forward
  BY <1>2, <1>3 DEF Extends
<1>16. AddsApproved /\ (\A i \in Own : table[i].forward) => \A i \in Own' : table'[i].forward
  BY <1>1, <1>8 DEF Extends
<1> QED
  BY <1>5, <1>10, <1>12, <1>13, <1>14, <1>15, <1>16

--------------------------------------------------------------------------------
(* Reports of the feeds.  A report that no page has disturbed knows what   *)
(* its session holds to be true of the table still.                        *)
Calling == {"approve", "insertApproved", "setForward", "refresh", "observe", "observeCommit", "decide"}

Feeds ==
  /\ quiet \in [Threads -> BOOLEAN] /\ barred \in [Threads -> BOOLEAN]
  /\ \A t \in Workers : job[t].system = "APRS"
  /\ pc[Loop] \notin {"approve", "insertApproved", "setForward", "refresh"}
  /\ pc[Loop] \in {"observe", "observeCommit"} => job[Loop].system # "APRS"

(* The oldest own row is disabled, and is the one found.                   *)
StaysBlocked(t) ==
  quiet[t] /\ barred[t] =>
    /\ Own # {} /\ ~table[Least(Own)].enabled
    /\ pc[t] \in {"idle", "approve", "observe", "observeCommit", "decide", "blocked", "failed"}
    /\ pc[t] \in {"observeCommit", "decide"} => job[t].row = Least(Own)

(* No page has disturbed this report, or another one under way with it.    *)
Watched == \E t \in Workers : quiet[t] /\ pc[t] \in Calling
Calm(t) == quiet[t] \/ (Watched /\ pc[t] \in Calling)

(* A row that is forwarded is found, once the report has seen to it.       *)
StaysApproved(t) ==
  auto /\ Enabled /\ Calm(t) =>
    /\ pc[t] = "insertApproved" => \A i \in Own : table[i].forward
    /\ pc[t] = "setForward" => (Unit # None /\ Unit = job[t].row) \/ Answered
    /\ pc[t] \in {"refresh", "observe"} => Answered
    /\ pc[t] \in {"observeCommit", "decide"} => job[t].row \in Near /\ table[job[t].row].forward
    /\ pc[t] # "blocked"

HInv ==
  /\ AInv /\ 0 \notin Rows /\ Feeds
  /\ \A t \in Workers : StaysBlocked(t) /\ StaysApproved(t)

(* A step of one session leaves those of the others as they are.           *)
Only(t) ==
  \A u \in Threads \ {t} :
    pc'[u] = pc[u] /\ job'[u] = job[u] /\ quiet'[u] = quiet[u] /\ barred'[u] = barred[u]

LEMMA OthersKeepTheirs ==
  ASSUME HInv, UNCHANGED auto, Extends, NEW t \in Threads, Only(t), NEW u \in Workers \ {t},
         Calm(u)' => Calm(u),
         auto /\ Enabled /\ Watched => AddsApproved
  PROVE  StaysBlocked(u)' /\ StaysApproved(u)'
<1>1. u \in Threads \ {t} /\ StaysBlocked(u) /\ StaysApproved(u)
  BY DEF HInv, Threads
<1>2. pc'[u] = pc[u] /\ job'[u] = job[u] /\ quiet'[u] = quiet[u] /\ barred'[u] = barred[u]
  BY <1>1 DEF Only
<1>3. StaysBlocked(u)'
  BY <1>1, <1>2, StillFound DEF StaysBlocked, Extends
<1>4. StaysApproved(u)'
  <2> SUFFICES ASSUME auto, Enabled', Calm(u)'
               PROVE  /\ pc'[u] = "insertApproved" => \A i \in Own' : table'[i].forward
                      /\ pc'[u] = "setForward" => (Unit' # None /\ Unit' = job'[u].row) \/ Answered'
                      /\ pc'[u] \in {"refresh", "observe"} => Answered'
                      /\ pc'[u] \in {"observeCommit", "decide"} =>
                           job'[u].row \in Near' /\ table'[job'[u].row].forward
                      /\ pc'[u] # "blocked"
    BY DEF StaysApproved
  <2>1. Enabled /\ Calm(u)
    BY StillFound
  <2>2. pc[u] \in Calling => Watched
    BY <2>1 DEF Calm, Watched
  <2>3. pc[u] \in Calling => AddsApproved
    BY <2>1, <2>2
  <2>4. /\ pc[u] = "insertApproved" => \A i \in Own : table[i].forward
        /\ pc[u] = "setForward" => (Unit # None /\ Unit = job[u].row) \/ Answered
        /\ pc[u] \in {"refresh", "observe"} => Answered
        /\ pc[u] \in {"observeCommit", "decide"} => job[u].row \in Near /\ table[job[u].row].forward
        /\ pc[u] # "blocked"
    BY <1>1, <2>1 DEF StaysApproved
  <2>5. CASE pc[u] = "insertApproved"
    BY <1>2, <2>3, <2>4, <2>5, StillFound DEF Calling
  <2>6. CASE pc[u] = "setForward"
    <3>1. AddsApproved
      BY <2>3, <2>6 DEF Calling
    <3>2. CASE Answered
      BY <1>2, <2>6, <3>1, <3>2, StillFound
    <3>3. CASE Unit # None /\ Unit = job[u].row
      <4>1. Unit' = Unit \/ Answered'
        BY <3>1, <3>3, StillFound
      <4> QED
        BY <1>2, <2>6, <3>3, <4>1
    <3> QED
      BY <2>4, <2>6, <3>2, <3>3
  <2>7. CASE pc[u] \in {"refresh", "observe"}
    BY <1>2, <2>3, <2>4, <2>7, StillFound DEF Calling
  <2>8. CASE pc[u] \in {"observeCommit", "decide"}
    BY <1>2, <2>4, <2>8, StillFound
  <2> QED
    BY <1>2, <2>4, <2>5, <2>6, <2>7, <2>8
<1> QED
  BY <1>3, <1>4

(* How the table moves under a report.                                     *)
LEMMA SameExtends ==
  ASSUME Shape, 0 \notin Rows, UNCHANGED table
  PROVE  /\ Extends /\ AddsApproved /\ Own' = Own /\ Near' = Near /\ Unit' = Unit
         /\ Enabled' = Enabled /\ Answered' = Answered
<1>1. Rows' = Rows /\ Rows \in SUBSET Nat
  BY DEF Rows, Shape
<1>2. Own' = Own /\ Near' = Near /\ Unit' = Unit
  BY <1>1 DEF Own, Near, Unit, Exact, Matching, Found
<1> QED
  BY <1>1, <1>2 DEF Extends, AddsApproved, Enabled, Answered

LEMMA InsertExtends ==
  ASSUME AInv, 0 \notin Rows, NEW t \in Threads, NEW forward \in BOOLEAN, Insert(t, forward)
  PROVE  /\ Extends /\ (forward \/ job[t].system # "APRS" => AddsApproved)
         /\ NewId \in Rows' /\ NewId # 0 /\ table'[NewId].system = job[t].system
         /\ table'[NewId].forward = forward
         /\ \A i \in Rows' : i \in Rows \/ i = NewId
<1> DEFINE identity == [system |-> job[t].system, enabled |-> TRUE, forward |-> forward]
<1>1. identity \in Identity /\ Add(identity)
  BY DEF AInv, Shape, IsJob, Identity, Insert
<1>2. /\ NewId = made + 1 /\ NewId \notin Rows
      /\ Rows' = Rows \cup {NewId} /\ table'[NewId] = identity
      /\ \A i \in Rows : table'[i] = table[i]
      /\ \A i \in Rows' : i \in Nat /\ i <= made'
  BY <1>1, AddRow DEF AInv
<1>3. \A i \in Rows : i \in Nat /\ i <= made
  BY DEF AInv, Shape
<1>4. made \in Nat
  BY DEF AInv, Shape
<1>5. NewId # 0 /\ \A i \in Rows : i <= NewId
  BY <1>2, <1>3, <1>4
<1> QED
  BY <1>2, <1>3, <1>5 DEF Extends, AddsApproved

LEMMA SetExtends ==
  ASSUME Shape, 0 \notin Rows, NEW r \in Rows, table' = [table EXCEPT ![r].forward = TRUE]
  PROVE  Extends /\ AddsApproved /\ table'[r].forward /\ Rows' = Rows
<1>1. Rows' = Rows
  BY DEF Rows
<1>2. \A i \in Rows : /\ table'[i].system = table[i].system /\ table'[i].enabled = table[i].enabled
                      /\ table[i].forward => table'[i].forward
  BY DEF Shape, Identity
<1>3. table'[r].forward
  BY DEF Shape, Identity
<1> QED
  BY <1>1, <1>2, <1>3 DEF Extends, AddsApproved, Shape
LEMMA StillCalm ==
  ASSUME NEW t \in Threads, Only(t), UNCHANGED quiet, pc'[t] \in Calling => pc[t] \in Calling
  PROVE  /\ Watched' => Watched
         /\ \A u \in Workers : Calm(u)' => Calm(u)
<1>1. \A u \in Workers : u \in Threads
  BY DEF Threads
<1>2. \A u \in Workers : pc'[u] \in Calling => pc[u] \in Calling
  BY <1>1 DEF Only
<1>3. Watched' => Watched
  BY <1>2 DEF Watched
<1> QED
  BY <1>2, <1>3 DEF Calm

LEMMA StepKeeps ==
  ASSUME HInv, AInv', UNCHANGED auto, Extends, NEW t \in Threads, Only(t), Feeds',
         \A u \in Workers \ {t} : Calm(u)' => Calm(u),
         auto /\ Enabled /\ Watched => AddsApproved,
         t \in Workers => StaysBlocked(t)' /\ StaysApproved(t)'
  PROVE  HInv'
<1>1. \A u \in Workers \ {t} : StaysBlocked(u)' /\ StaysApproved(u)'
  BY OthersKeepTheirs
<1>2. \A u \in Workers : StaysBlocked(u)' /\ StaysApproved(u)'
  BY <1>1
<1>3. 0 \notin Rows'
  BY DEF Extends
<1> QED
  BY <1>2, <1>3 DEF HInv

(* A step that reads, whatever it does to its own session.                 *)
LEMMA ReadKeeps ==
  ASSUME HInv, AInv', UNCHANGED <<auto, table>>, NEW t \in Threads, Only(t), Feeds',
         \A u \in Workers \ {t} : Calm(u)' => Calm(u),
         t \in Workers => StaysBlocked(t)' /\ StaysApproved(t)'
  PROVE  HInv'
<1>1. Extends /\ AddsApproved
  BY SameExtends DEF HInv, AInv
<1> QED
  BY <1>1, StepKeeps

LEMMA ArriveKeeps ==
  ASSUME HInv, AInv', UNCHANGED auto, NEW t \in Threads, Arrive(t)
  PROVE  HInv'
<1>0. /\ pc \in [Threads -> Steps] /\ job = [u \in Threads |-> job[u]] /\ Feeds
      /\ quiet \in [Threads -> BOOLEAN] /\ barred \in [Threads -> BOOLEAN]
  BY DEF HInv, AInv, Shape, Feeds
<1>1. PICK system \in (IF t = Loop THEN Systems \ {"APRS"} ELSE {"APRS"}) :
        /\ job' = [job EXCEPT ![t] = [Blank EXCEPT !.system = system]]
        /\ barred' = [barred EXCEPT ![t] = Blocked(system)]
  BY DEF Arrive
<1>2. /\ pc' = [pc EXCEPT ![t] = IF t # Loop /\ auto THEN "approve" ELSE "observe"]
      /\ quiet' = [quiet EXCEPT ![t] = \A u \in Threads : pc[u] \in Ended \/ quiet[u]]
      /\ UNCHANGED table
  BY DEF Arrive, database
<1>3. /\ pc'[t] = IF t # Loop /\ auto THEN "approve" ELSE "observe"
      /\ job'[t].system = system /\ barred'[t] = Blocked(system)
      /\ quiet'[t] = \A u \in Threads : pc[u] \in Ended \/ quiet[u]
      /\ Only(t)
  BY <1>0, <1>1, <1>2 DEF Only, Blank
<1>4. Blocked(system) \in BOOLEAN /\ (\A u \in Threads : pc[u] \in Ended \/ quiet[u]) \in BOOLEAN
  <2>1. quiet'[t] \in BOOLEAN
    BY <1>0, <1>3
  <2>2. Blocked(system) = TRUE \/ Blocked(system) = FALSE
    BY DEF Blocked
  <2> QED
    BY <1>3, <2>1, <2>2
<1>5. quiet' \in [Threads -> BOOLEAN] /\ barred' \in [Threads -> BOOLEAN]
  BY <1>0, <1>1, <1>2, <1>4
<1>6. \A u \in Workers : u # Loop /\ u \in Threads
  BY LoopAssumption DEF Threads
<1>7. Feeds'
  BY <1>0, <1>1, <1>3, <1>5, <1>6 DEF Feeds, Only, Threads
<1>8. \A u \in Workers \ {t} : Calm(u)' => Calm(u)
  <2> SUFFICES ASSUME NEW u \in Workers \ {t}, Calm(u)' PROVE Calm(u)
    OBVIOUS
  <2>1. u \in Threads \ {t} /\ quiet'[u] = quiet[u] /\ pc'[u] = pc[u]
    BY <1>3, <1>6 DEF Only
  <2>2. CASE quiet'[u]
    BY <2>1, <2>2 DEF Calm
  <2>3. CASE ~quiet'[u]
    <3>1. PICK w \in Workers : quiet'[w] /\ pc'[w] \in Calling
      BY <2>3 DEF Calm, Watched
    <3>2. pc[u] \in Calling
      BY <2>1, <2>3 DEF Calm
    <3>3. CASE w = t
      BY <1>3, <2>1, <2>3, <3>1, <3>2, <3>3 DEF Calling, Ended
    <3>4. CASE w # t
      <4>1. quiet[w] /\ pc[w] \in Calling
        BY <1>3, <1>6, <3>1, <3>4 DEF Only
      <4> QED
        BY <3>2, <4>1 DEF Calm, Watched
    <3> QED
      BY <3>3, <3>4
  <2> QED
    BY <2>2, <2>3
<1>9. t \in Workers => StaysBlocked(t)' /\ StaysApproved(t)'
  <2> SUFFICES ASSUME t \in Workers PROVE StaysBlocked(t)' /\ StaysApproved(t)'
    OBVIOUS
  <2>1. system = "APRS" /\ t # Loop
    BY <1>1, <1>6
  <2>2. Own' = Own /\ table' = table
    BY <1>2, SameExtends DEF HInv, AInv
  <2>3. StaysBlocked(t)'
    BY <1>3, <2>1, <2>2 DEF StaysBlocked, Blocked, Own
  <2>4. StaysApproved(t)'
    BY <1>3, <2>1 DEF StaysApproved
  <2> QED
    BY <2>3, <2>4
<1> QED
  BY <1>2, <1>3, <1>7, <1>8, <1>9, ReadKeeps

(* The step of a session, as its own thread and the others see it.         *)
LEMMA SessionMoves ==
  ASSUME HInv, NEW t \in Threads, NEW to, NEW held,
         pc' = [pc EXCEPT ![t] = to], job' = [job EXCEPT ![t] = held],
         UNCHANGED history, to \in Calling => pc[t] \in Calling,
         held.system = "APRS" \/ held.system = job[t].system,
         t = Loop => /\ to \notin {"approve", "insertApproved", "setForward", "refresh"}
                     /\ to \in {"observe", "observeCommit"} =>
                          pc[t] \in {"observe", "observeCommit"} /\ held.system = job[t].system
  PROVE  /\ pc'[t] = to /\ job'[t] = held /\ Only(t) /\ Feeds'
         /\ quiet'[t] = quiet[t] /\ barred'[t] = barred[t]
         /\ \A u \in Workers : Calm(u)' => Calm(u)
         /\ Watched' => Watched
<1>0. /\ pc \in [Threads -> Steps] /\ job = [u \in Threads |-> job[u]] /\ Feeds
      /\ Loop \in Threads /\ \A u \in Workers : u # Loop /\ u \in Threads
  BY LoopAssumption DEF HInv, AInv, Shape, Threads
<1>1. pc'[t] = to /\ job'[t] = held /\ quiet' = quiet /\ barred' = barred
      /\ \A u \in Threads \ {t} : pc'[u] = pc[u] /\ job'[u] = job[u]
  BY <1>0 DEF history
<1>2. Only(t)
  BY <1>1 DEF Only
<1>3. Feeds'
  BY <1>0, <1>1 DEF Feeds
<1> QED
  BY <1>1, <1>2, <1>3, StillCalm

LEMMA FindKeeps ==
  ASSUME HInv, AInv', UNCHANGED auto, NEW t \in Threads, ApproveFind(t) \/ ObserveFind(t)
  PROVE  HInv'
<1> DEFINE id == Found(job[t].system)
           held == [job[t] EXCEPT !.row = id]
<1>0. /\ IsJob(job[t]) /\ Feeds /\ job = [u \in Threads |-> job[u]]
      /\ Rows \in SUBSET Nat /\ 0 \notin Rows
  BY DEF HInv, AInv, Shape
<1>1. job' = [job EXCEPT ![t] = held] /\ held.row = id /\ held.system = job[t].system
  <2>1. job' = [job EXCEPT ![t].row = id]
    BY DEF ApproveFind, ObserveFind, Hold
  <2>2. job' = [job EXCEPT ![t] = held]
    BY <2>1
  <2>3. held.row = id /\ held.system = job[t].system
    BY <1>0 DEF IsJob
  <2> QED
    BY <2>2, <2>3
<1>2. UNCHANGED <<table, history>>
  BY DEF ApproveFind, ObserveFind, database
<1>3. Own' = Own /\ Near' = Near /\ Unit' = Unit /\ Enabled' = Enabled /\ Answered' = Answered
  BY <1>2, SameExtends DEF HInv, AInv
<1>4. t \in Workers => id = Unit /\ StaysBlocked(t) /\ StaysApproved(t)
  BY <1>0 DEF Unit, Feeds, HInv
<1>5. /\ Own # {} => Unit = Least(Own) /\ Unit \in Own
      /\ Unit = None => Near = {}
      /\ Unit # None => Unit \in Near
      /\ Own \subseteq Near /\ Near \subseteq Rows
  BY <1>0, FoundMatches
<1>6. CASE ApproveFind(t)
  <2> DEFINE to == IF id = None THEN "insertApproved" ELSE IF NeedsApproval(id) THEN "setForward" ELSE "observe"
  <2>1. pc[t] = "approve" /\ pc' = [pc EXCEPT ![t] = to]
    BY <1>6 DEF ApproveFind, Goto
  <2>2. t # Loop
    BY <1>0, <2>1 DEF Feeds
  <2>3. t \in Workers
    BY <2>2 DEF Threads
  <2>4. /\ pc'[t] = to /\ job'[t] = held /\ Only(t) /\ Feeds'
        /\ quiet'[t] = quiet[t] /\ barred'[t] = barred[t]
        /\ \A u \in Workers : Calm(u)' => Calm(u)
    <3>1. pc[t] \in Calling
      BY <2>1 DEF Calling
    <3>2. UNCHANGED history
      BY <1>6 DEF ApproveFind
    <3> HIDE DEF held, to
    <3> QED
      BY <1>1, <2>1, <2>2, <3>1, <3>2, SessionMoves
  <2>5. StaysBlocked(t)'
    BY <1>2, <1>3, <1>4, <1>5, <2>1, <2>3, <2>4 DEF StaysBlocked, NeedsApproval, None
  <2>6. StaysApproved(t)'
    <3>1. Enabled /\ to = "observe" => Answered
      BY <1>4, <1>5, <2>3 DEF Enabled, Answered, NeedsApproval
    <3> QED
      BY <1>1, <1>2, <1>3, <1>4, <1>5, <2>3, <2>4, <3>1 DEF StaysApproved
  <2> QED
    BY <1>2, <2>4, <2>5, <2>6, ReadKeeps
<1>7. CASE ObserveFind(t)
  <2>1. pc[t] = "observe" /\ pc' = [pc EXCEPT ![t] = "observeCommit"]
    BY <1>7 DEF ObserveFind, Goto
  <2>4. /\ pc'[t] = "observeCommit" /\ job'[t] = held /\ Only(t) /\ Feeds'
        /\ quiet'[t] = quiet[t] /\ barred'[t] = barred[t]
        /\ \A u \in Workers : Calm(u)' => Calm(u)
    <3>1. pc[t] \in Calling
      BY <2>1 DEF Calling
    <3>2. UNCHANGED history
      BY <1>7 DEF ObserveFind
    <3> DEFINE to == "observeCommit"
    <3>3. pc' = [pc EXCEPT ![t] = to] /\ to \notin {"approve", "insertApproved", "setForward", "refresh"}
          /\ pc[t] \in {"observe", "observeCommit"}
      BY <2>1
    <3> HIDE DEF held, to
    <3>4. /\ pc'[t] = to /\ job'[t] = held /\ Only(t) /\ Feeds'
          /\ quiet'[t] = quiet[t] /\ barred'[t] = barred[t]
          /\ \A u \in Workers : Calm(u)' => Calm(u)
      BY <1>1, <3>1, <3>2, <3>3, SessionMoves
    <3> QED
      BY <3>4 DEF to
  <2>5. t \in Workers => StaysBlocked(t)'
    BY <1>1, <1>2, <1>3, <1>4, <1>5, <2>1, <2>4 DEF StaysBlocked
  <2>6. t \in Workers => StaysApproved(t)'
    <3> SUFFICES ASSUME t \in Workers, auto, Enabled, Calm(t)
                 PROVE  job'[t].row \in Near /\ table[job'[t].row].forward
      BY <1>2, <1>3, <2>4 DEF StaysApproved
    <3>1. Answered
      BY <1>4, <2>1 DEF StaysApproved
    <3> QED
      BY <1>1, <1>4, <1>5, <2>4, <3>1 DEF Answered
  <2> QED
    BY <1>2, <2>4, <2>5, <2>6, ReadKeeps
<1> QED
  BY <1>6, <1>7

(* A step that leaves every session to its job: it ends, or only goes on.  *)
LEMMA GoesOn ==
  ASSUME HInv, NEW t \in Threads, NEW to, pc' = [pc EXCEPT ![t] = to], UNCHANGED <<job, history>>,
         to \in Calling => pc[t] \in Calling,
         t = Loop => to \in {"decide", "failed"}
  PROVE  /\ pc'[t] = to /\ job'[t] = job[t] /\ Only(t) /\ Feeds'
         /\ quiet'[t] = quiet[t] /\ barred'[t] = barred[t]
         /\ \A u \in Workers : Calm(u)' => Calm(u)
         /\ Watched' => Watched
<1> DEFINE held == job[t]
<1>1. job = [u \in Threads |-> job[u]]
  BY DEF HInv, AInv, Shape
<1>2. job' = [job EXCEPT ![t] = held]
  BY <1>1
<1>3. held.system = job[t].system
  OBVIOUS
<1>4. UNCHANGED history
  OBVIOUS
<1> HIDE DEF held
<1>5. /\ pc'[t] = to /\ job'[t] = held /\ Only(t) /\ Feeds'
      /\ quiet'[t] = quiet[t] /\ barred'[t] = barred[t]
      /\ \A u \in Workers : Calm(u)' => Calm(u)
      /\ Watched' => Watched
  BY <1>2, <1>3, <1>4, SessionMoves
<1> QED
  BY <1>5 DEF held

(* The session is closed at the end of a call.                             *)
LEMMA Closes ==
  ASSUME HInv, NEW t \in Threads, NEW to, to \in Ended,
         pc' = [pc EXCEPT ![t] = to], job' = [job EXCEPT ![t] = Blank], UNCHANGED history
  PROVE  /\ pc'[t] = to /\ Only(t) /\ Feeds'
         /\ quiet'[t] = quiet[t] /\ barred'[t] = barred[t]
         /\ \A u \in Workers : Calm(u)' => Calm(u)
<1> DEFINE held == Blank
<1>1. held.system = "APRS" /\ job' = [job EXCEPT ![t] = held]
  BY DEF Blank
<1>2. /\ to \notin Calling /\ to \notin {"approve", "insertApproved", "setForward", "refresh"}
      /\ to \notin {"observe", "observeCommit"}
  BY DEF Ended, Calling
<1> HIDE DEF held
<1>3. /\ pc'[t] = to /\ job'[t] = held /\ Only(t) /\ Feeds'
      /\ quiet'[t] = quiet[t] /\ barred'[t] = barred[t]
      /\ \A u \in Workers : Calm(u)' => Calm(u)
  BY <1>1, <1>2, SessionMoves
<1> QED
  BY <1>3

LEMMA EndKeeps ==
  ASSUME HInv, AInv', UNCHANGED <<auto, table, history>>, NEW t \in Threads, NEW to \in Ended \ {"idle"},
         pc' = [pc EXCEPT ![t] = to], job' = [job EXCEPT ![t] = Blank],
         t \in Workers /\ quiet[t] /\ barred[t] => to # "forwarded",
         t \in Workers /\ auto /\ Enabled /\ Calm(t) => to # "blocked"
  PROVE  HInv'
<1>1. UNCHANGED history
  OBVIOUS
<1>2. /\ pc'[t] = to /\ Only(t) /\ Feeds'
      /\ quiet'[t] = quiet[t] /\ barred'[t] = barred[t]
      /\ \A u \in Workers : Calm(u)' => Calm(u)
  BY <1>1, Closes
<1>3. Own' = Own /\ Near' = Near /\ Unit' = Unit /\ Enabled' = Enabled /\ Answered' = Answered
  BY SameExtends DEF HInv, AInv
<1>4. ASSUME t \in Workers PROVE StaysBlocked(t)' /\ StaysApproved(t)'
  <2>1. StaysBlocked(t)
    BY <1>4 DEF HInv
  <2>2. StaysBlocked(t)'
    BY <1>2, <1>3, <1>4, <2>1 DEF StaysBlocked, Ended
  <2>3. StaysApproved(t)'
    BY <1>2, <1>3, <1>4 DEF StaysApproved, Ended
  <2> QED
    BY <2>2, <2>3
<1> QED
  BY <1>2, <1>4, ReadKeeps

LEMMA InsertApprovedKeeps ==
  ASSUME HInv, AInv', UNCHANGED auto, NEW t \in Threads, InsertApproved(t)
  PROVE  HInv'
<1>1. pc[t] = "insertApproved" /\ pc' = [pc EXCEPT ![t] = "refresh"] /\ Insert(t, TRUE)
      /\ UNCHANGED history
  BY DEF InsertApproved, Goto
<1>2. t # Loop /\ t \in Workers /\ IsJob(job[t]) /\ job[t].system = "APRS"
  BY <1>1 DEF HInv, Feeds, Threads, AInv, Shape
<1>3. /\ Extends /\ AddsApproved /\ NewId \in Rows' /\ NewId # 0
      /\ table'[NewId].system = "APRS"
  BY <1>1, <1>2, InsertExtends DEF HInv
<1> DEFINE held == [job[t] EXCEPT !.row = NewId]
<1>4. job' = [job EXCEPT ![t] = held] /\ held.system = job[t].system
  <2>1. job' = [job EXCEPT ![t].row = NewId]
    BY <1>1 DEF Insert, Hold
  <2>2. job' = [job EXCEPT ![t] = held]
    BY <2>1
  <2>3. held.system = job[t].system
    BY <1>2 DEF IsJob
  <2> QED
    BY <2>2, <2>3
<1>5. /\ pc'[t] = "refresh" /\ Only(t) /\ Feeds'
      /\ quiet'[t] = quiet[t] /\ barred'[t] = barred[t]
      /\ \A u \in Workers : Calm(u)' => Calm(u)
  <2> DEFINE to == "refresh"
  <2>1. pc' = [pc EXCEPT ![t] = to] /\ pc[t] \in Calling
    BY <1>1 DEF Calling
  <2> HIDE DEF held, to
  <2>2. /\ pc'[t] = to /\ Only(t) /\ Feeds'
        /\ quiet'[t] = quiet[t] /\ barred'[t] = barred[t]
        /\ \A u \in Workers : Calm(u)' => Calm(u)
    BY <1>1, <1>2, <1>4, <2>1, SessionMoves
  <2> QED
    BY <2>2 DEF to
<1>6. StaysBlocked(t) /\ StaysApproved(t)
  BY <1>2 DEF HInv
<1>7. StaysBlocked(t)'
  BY <1>1, <1>5, <1>6 DEF StaysBlocked
<1>8. StaysApproved(t)'
  <2> SUFFICES ASSUME auto, Enabled', Calm(t)' PROVE Answered'
    BY <1>5 DEF StaysApproved
  <2>1. \A i \in Own : table[i].forward
    BY <1>1, <1>2, <1>3, <1>5, <1>6, StillFound DEF StaysApproved
  <2>2. \A i \in Own' : table'[i].forward
    BY <1>3, <2>1, StillFound
  <2>3. NewId \in Own' /\ Own' \in SUBSET Nat /\ 0 \notin Own'
    BY <1>3 DEF Own, Exact, Extends
  <2>4. Least(Own') \in Own' /\ Unit' = Least(Own')
    BY <2>3, LeastIs DEF Unit, Found, Own
  <2> QED
    BY <2>2, <2>3, <2>4 DEF Answered, None
<1> QED
  BY <1>3, <1>5, <1>7, <1>8, StepKeeps

LEMMA SetForwardKeeps ==
  ASSUME HInv, AInv', UNCHANGED auto, NEW t \in Threads, SetForward(t)
  PROVE  HInv'
<1> DEFINE r == job[t].row
           to == IF r \in Rows THEN "refresh" ELSE "failed"
<1>1. /\ pc[t] = "setForward" /\ UNCHANGED <<job, history>>
      /\ pc' = [pc EXCEPT ![t] = to]
      /\ IF r \in Rows THEN table' = [table EXCEPT ![r].forward = TRUE] ELSE UNCHANGED table
  BY DEF SetForward, Goto
<1>2. t # Loop /\ t \in Workers
  BY <1>1 DEF HInv, Feeds, Threads
<1>3. Extends /\ AddsApproved /\ (r \in Rows => table'[r].forward /\ Rows' = Rows)
  BY <1>1, SetExtends, SameExtends DEF HInv, AInv
<1>4. /\ pc'[t] = to /\ job'[t] = job[t] /\ Only(t) /\ Feeds'
      /\ quiet'[t] = quiet[t] /\ barred'[t] = barred[t]
      /\ \A u \in Workers : Calm(u)' => Calm(u)
  <2>1. pc[t] \in Calling
    BY <1>1 DEF Calling
  <2> HIDE DEF to
  <2> QED
    BY <1>1, <1>2, <2>1, GoesOn
<1>5. StaysBlocked(t) /\ StaysApproved(t)
  BY <1>2 DEF HInv
<1>6. StaysBlocked(t)'
  BY <1>1, <1>4, <1>5 DEF StaysBlocked
<1>7. StaysApproved(t)'
  <2> SUFFICES ASSUME auto, Enabled', Calm(t)', r \in Rows PROVE Answered'
    BY <1>4 DEF StaysApproved
  <2>1. (Unit # None /\ Unit = r) \/ Answered
    BY <1>1, <1>2, <1>3, <1>4, <1>5, StillFound DEF StaysApproved
  <2>2. CASE Answered
    BY <1>3, <2>2, StillFound
  <2>3. CASE Unit # None /\ Unit = r
    <3>1. Unit' = Unit \/ Answered'
      BY <1>3, <2>3, StillFound
    <3> QED
      BY <1>3, <2>3, <3>1 DEF Answered
  <2> QED
    BY <2>1, <2>2, <2>3
<1> QED
  BY <1>3, <1>4, <1>6, <1>7, StepKeeps

LEMMA RefreshKeeps ==
  ASSUME HInv, AInv', UNCHANGED auto, NEW t \in Threads, Refresh(t)
  PROVE  HInv'
<1> DEFINE to == IF job[t].row \in Rows THEN "observe" ELSE "failed"
<1>1. /\ pc[t] = "refresh" /\ UNCHANGED <<table, job, history>>
      /\ pc' = [pc EXCEPT ![t] = to]
  BY DEF Refresh, Goto, database
<1>2. t # Loop /\ t \in Workers
  BY <1>1 DEF HInv, Feeds, Threads
<1>3. Own' = Own /\ Near' = Near /\ Unit' = Unit /\ Enabled' = Enabled /\ Answered' = Answered
  BY <1>1, SameExtends DEF HInv, AInv
<1>4. /\ pc'[t] = to /\ Only(t) /\ Feeds'
      /\ quiet'[t] = quiet[t] /\ barred'[t] = barred[t]
      /\ \A u \in Workers : Calm(u)' => Calm(u)
  <2>1. pc[t] \in Calling
    BY <1>1 DEF Calling
  <2> HIDE DEF to
  <2> QED
    BY <1>1, <1>2, <2>1, GoesOn
<1>5. StaysBlocked(t) /\ StaysApproved(t)
  BY <1>2 DEF HInv
<1>6. StaysBlocked(t)'
  BY <1>1, <1>4, <1>5 DEF StaysBlocked
<1>7. StaysApproved(t)'
  BY <1>1, <1>2, <1>3, <1>4, <1>5 DEF StaysApproved
<1> QED
  BY <1>1, <1>4, <1>6, <1>7, ReadKeeps

LEMMA ObserveCommitKeeps ==
  ASSUME HInv, AInv', UNCHANGED auto, NEW t \in Threads, ObserveCommit(t)
  PROVE  HInv'
<1> DEFINE r == job[t].row
<1>1. pc[t] = "observeCommit" /\ UNCHANGED history
  BY DEF ObserveCommit, Goto
<1>2. IsJob(job[t]) /\ Feeds /\ 0 \notin Rows /\ Near \subseteq Rows /\ Own \subseteq Rows
  BY DEF HInv, AInv, Shape, Near, Own, Exact, Matching
<1>3. t \in Workers => StaysBlocked(t) /\ StaysApproved(t) /\ job[t].system = "APRS"
  BY <1>2 DEF HInv, Feeds
<1>4. t \in Workers /\ quiet[t] /\ barred[t] => r \in Rows
  <2> SUFFICES ASSUME t \in Workers, quiet[t], barred[t] PROVE r \in Rows
    OBVIOUS
  <2>1. Own # {} /\ r = Least(Own)
    BY <1>1, <1>3 DEF StaysBlocked
  <2>2. Own \in SUBSET Nat
    BY <1>2 DEF HInv, AInv, Shape
  <2> QED
    BY <1>2, <2>1, <2>2, LeastIs
<1>5. t \in Workers /\ auto /\ Enabled /\ Calm(t) => r \in Near /\ table[r].forward
  BY <1>1, <1>3 DEF StaysApproved
<1>6. CASE r = None
  <2>1. pc' = [pc EXCEPT ![t] = "decide"] /\ Insert(t, FALSE)
    BY <1>1, <1>2, <1>6 DEF ObserveCommit, Goto, None
  <2>2. Extends /\ (job[t].system # "APRS" => AddsApproved)
    BY <2>1, InsertExtends DEF HInv
  <2>3. auto /\ Enabled /\ Watched => AddsApproved
    <3>1. CASE t = Loop
      BY <1>1, <1>2, <2>2, <3>1 DEF Feeds
    <3>2. CASE t \in Workers
      <4>1. Watched => Calm(t)
        BY <1>1 DEF Calm, Calling
      <4> QED
        BY <1>2, <1>5, <1>6, <3>2, <4>1 DEF None
    <3> QED
      BY <3>1, <3>2 DEF Threads
  <2> DEFINE held == [job[t] EXCEPT !.row = NewId]
             to == "decide"
  <2>4. job' = [job EXCEPT ![t] = held] /\ held.system = job[t].system
    <3>1. job' = [job EXCEPT ![t].row = NewId]
      BY <2>1 DEF Insert, Hold
    <3>2. job' = [job EXCEPT ![t] = held]
      BY <3>1
    <3>3. held.system = job[t].system
      BY <1>2 DEF IsJob
    <3> QED
      BY <3>2, <3>3
  <2>5. pc' = [pc EXCEPT ![t] = to] /\ pc[t] \in Calling /\ UNCHANGED history
        /\ to \notin {"approve", "insertApproved", "setForward", "refresh"}
        /\ to \notin {"observe", "observeCommit"}
    BY <1>1, <2>1 DEF Calling
  <2>6. /\ pc'[t] = "decide" /\ Only(t) /\ Feeds'
        /\ quiet'[t] = quiet[t] /\ barred'[t] = barred[t]
        /\ \A u \in Workers : Calm(u)' => Calm(u)
    <3> HIDE DEF held, to
    <3>1. /\ pc'[t] = to /\ job'[t] = held /\ Only(t) /\ Feeds'
          /\ quiet'[t] = quiet[t] /\ barred'[t] = barred[t]
          /\ \A u \in Workers : Calm(u)' => Calm(u)
      BY <1>1, <2>4, <2>5, SessionMoves
    <3> QED
      BY <3>1 DEF to
  <2>7. ASSUME t \in Workers PROVE StaysBlocked(t)' /\ StaysApproved(t)'
    <3>1. StaysBlocked(t)'
      BY <1>2, <1>4, <1>6, <2>6, <2>7 DEF StaysBlocked, None
    <3>2. StaysApproved(t)'
      BY <1>2, <1>5, <1>6, <2>2, <2>6, <2>7, StillFound DEF StaysApproved, None
    <3> QED
      BY <3>1, <3>2
  <2> QED
    BY <2>2, <2>3, <2>6, <2>7, StepKeeps
<1>7. CASE r # None
  <2> DEFINE to == IF r \in Rows THEN "decide" ELSE "failed"
  <2>1. pc' = [pc EXCEPT ![t] = to] /\ UNCHANGED <<table, job>>
    BY <1>2, <1>7 DEF ObserveCommit, Goto, database, None
  <2>2. /\ pc'[t] = to /\ job'[t] = job[t] /\ Only(t) /\ Feeds'
        /\ quiet'[t] = quiet[t] /\ barred'[t] = barred[t]
        /\ \A u \in Workers : Calm(u)' => Calm(u)
    <3>1. pc[t] \in Calling /\ to \in {"decide", "failed"}
      BY <1>1 DEF Calling
    <3> HIDE DEF to
    <3> QED
      BY <1>1, <2>1, <3>1, GoesOn
  <2>3. Own' = Own /\ Near' = Near /\ Enabled' = Enabled
    BY <2>1, SameExtends DEF HInv, AInv
  <2>4. ASSUME t \in Workers PROVE StaysBlocked(t)' /\ StaysApproved(t)'
    <3>1. StaysBlocked(t)'
      BY <1>1, <1>3, <2>1, <2>2, <2>3, <2>4 DEF StaysBlocked
    <3>2. StaysApproved(t)'
      BY <1>5, <2>1, <2>2, <2>3, <2>4 DEF StaysApproved
    <3> QED
      BY <3>1, <3>2
  <2> QED
    BY <2>1, <2>2, <2>4, ReadKeeps
<1> QED
  BY <1>6, <1>7

LEMMA DecideKeeps ==
  ASSUME HInv, AInv', UNCHANGED auto, NEW t \in Threads, Decide(t)
  PROVE  HInv'
<1> DEFINE r == job[t].row
           to == IF r \notin Rows THEN "failed"
                 ELSE IF table[r].enabled /\ table[r].forward THEN "forwarded" ELSE "blocked"
<1>1. /\ pc[t] = "decide" /\ pc' = [pc EXCEPT ![t] = to] /\ UNCHANGED <<table, history>>
      /\ job' = [job EXCEPT ![t] = Blank]
  BY DEF Decide, Goto, Close, database
<1>2. t \in Workers => StaysBlocked(t) /\ StaysApproved(t)
  BY DEF HInv
<1>3. t \in Workers /\ quiet[t] /\ barred[t] => to # "forwarded"
  BY <1>1, <1>2 DEF StaysBlocked
<1>4. t \in Workers /\ auto /\ Enabled /\ Calm(t) => to # "blocked"
  BY <1>1, <1>2 DEF StaysApproved, Enabled
<1>5. to \in Ended \ {"idle"}
  BY DEF Ended
<1> HIDE DEF to
<1> QED
  BY <1>1, <1>3, <1>4, <1>5, EndKeeps

LEMMA CommitFailsKeeps ==
  ASSUME HInv, AInv', UNCHANGED auto, NEW t \in Threads, CommitFails(t)
  PROVE  HInv'
<1> DEFINE to == "failed"
<1>1. /\ pc' = [pc EXCEPT ![t] = to] /\ job' = [job EXCEPT ![t] = Blank]
      /\ UNCHANGED <<table, history>>
  BY DEF CommitFails, Close, database
<1>2. to \in Ended \ {"idle"} /\ to # "forwarded" /\ to # "blocked"
  BY DEF Ended
<1> HIDE DEF to
<1> QED
  BY <1>1, <1>2, EndKeeps

LEMMA HearHolds ==
  ASSUME HInv, UNCHANGED auto, NEW t \in Threads, Hear(t)
  PROVE  HInv'
<1>1. AInv'
  BY HearKeeps DEF HInv
<1> QED
  BY <1>1, ArriveKeeps, FindKeeps, InsertApprovedKeeps, SetForwardKeeps, RefreshKeeps,
     ObserveCommitKeeps, DecideKeeps, CommitFailsKeeps DEF Hear

--------------------------------------------------------------------------------
(* A page that changes the table disturbs every report.                    *)
LEMMA DisturbKeeps ==
  ASSUME HInv, AInv', Disturb, UNCHANGED barred, 0 \notin Rows',
         pc' = [pc EXCEPT ![Loop] = "idle"] \/ (pc' = pc /\ pc[Loop] \in Ended),
         job' = [job EXCEPT ![Loop] = Blank] \/ job' = job
  PROVE  HInv'
<1>0. /\ pc \in [Threads -> Steps] /\ job = [u \in Threads |-> job[u]] /\ Feeds
      /\ Loop \in Threads /\ \A u \in Workers : u # Loop /\ u \in Threads
  BY LoopAssumption DEF HInv, AInv, Shape, Threads
<1>1. quiet' \in [Threads -> BOOLEAN] /\ \A u \in Threads : ~quiet'[u]
  BY DEF Disturb
<1>2. ~Watched' /\ \A u \in Workers : ~Calm(u)'
  BY <1>0, <1>1 DEF Watched, Calm
<1>3. pc'[Loop] \in Ended /\ \A u \in Workers : job'[u] = job[u]
  BY <1>0 DEF Ended
<1>4. Feeds'
  BY <1>0, <1>1, <1>3 DEF Feeds, Ended
<1>5. \A u \in Workers : StaysBlocked(u)' /\ StaysApproved(u)'
  BY <1>0, <1>1, <1>2 DEF StaysBlocked, StaysApproved
<1> QED
  BY <1>4, <1>5 DEF HInv

LEMMA PageHolds ==
  ASSUME HInv, UNCHANGED auto, Page
  PROVE  HInv'
<1>0. AInv' /\ Loop \in Threads
  BY PageKeeps DEF HInv, Threads
<1>1. CASE UnitsAdd
  <2>1. 0 \notin Rows'
    <3>1. PICK system \in Systems, forward \in BOOLEAN :
            Add([system |-> system, enabled |-> TRUE, forward |-> forward])
      BY <1>1 DEF UnitsAdd
    <3>2. [system |-> system, enabled |-> TRUE, forward |-> forward] \in Identity
      BY DEF Identity
    <3>3. Rows' = Rows \cup {NewId} /\ NewId = made + 1 /\ made \in Nat
      BY <3>1, <3>2, AddRow DEF HInv, AInv, Shape
    <3> QED
      BY <3>3 DEF HInv
  <2> QED
    BY <1>0, <1>1, <2>1, DisturbKeeps DEF UnitsAdd, LoopFree
<1>2. CASE UnitEditCommit
  <2>1. Rows' = Rows
    BY <1>2 DEF UnitEditCommit, Rows
  <2> QED
    BY <1>0, <1>2, <2>1, DisturbKeeps DEF UnitEditCommit, Goto, Close, HInv
<1>3. ASSUME NEW id \in Rows, UnitDelete(id) PROVE HInv'
  <2>1. Rows' \subseteq Rows
    BY <1>3 DEF UnitDelete, Without, Rows
  <2> QED
    BY <1>0, <1>3, <2>1, DisturbKeeps DEF UnitDelete, LoopFree, HInv
<1>4. CASE ClearCommit
  <2>1. Rows' \subseteq Rows
    BY <1>4 DEF ClearCommit, Without, Rows
  <2> QED
    BY <1>0, <1>4, <2>1, DisturbKeeps DEF ClearCommit, Goto, HInv
<1>5. ASSUME NEW to \in {"edit", "clear"}, pc' = [pc EXCEPT ![Loop] = to],
             \A u \in Workers : job'[u] = job[u], UNCHANGED <<table, history>>
      PROVE  HInv'
  <2>1. /\ pc \in [Threads -> Steps] /\ Feeds /\ \A u \in Workers : u # Loop /\ u \in Threads
    BY LoopAssumption DEF HInv, AInv, Shape, Threads
  <2>2. pc'[Loop] = to /\ (\A u \in Workers : pc'[u] = pc[u]) /\ quiet' = quiet /\ barred' = barred
    BY <1>0, <1>5, <2>1 DEF history
  <2>3. Feeds'
    BY <1>5, <2>1, <2>2 DEF Feeds
  <2>4. Own' = Own /\ Near' = Near /\ Unit' = Unit /\ Enabled' = Enabled /\ Answered' = Answered
    BY <1>5, SameExtends DEF HInv, AInv
  <2>5. Watched' = Watched
    BY <2>2 DEF Watched
  <2>6. ASSUME NEW u \in Workers PROVE StaysBlocked(u)' /\ StaysApproved(u)'
    <3>1. Calm(u)' = Calm(u) /\ StaysBlocked(u) /\ StaysApproved(u)
      BY <2>2, <2>5 DEF Calm, HInv
    <3>2. StaysBlocked(u)'
      BY <1>5, <2>2, <2>4, <3>1 DEF StaysBlocked
    <3>3. StaysApproved(u)'
      BY <1>5, <2>2, <2>4, <3>1 DEF StaysApproved
    <3> QED
      BY <3>2, <3>3
  <2>7. 0 \notin Rows'
    BY <1>5 DEF Rows, HInv
  <2> QED
    BY <1>0, <2>3, <2>6, <2>7 DEF HInv
<1>6. ASSUME NEW id \in Rows, NEW form \in Form, UnitEdit(id, form) PROVE HInv'
  <2>1. \A u \in Workers : job'[u] = job[u]
    BY <1>6, LoopAssumption DEF UnitEdit, HInv, AInv, Shape, Threads
  <2> QED
    BY <1>5, <1>6, <2>1 DEF UnitEdit, database
<1>7. CASE ClearSelect
  BY <1>5, <1>7 DEF ClearSelect, database
<1> QED
  BY <1>1, <1>2, <1>3, <1>4, <1>6, <1>7 DEF Page

LEMMA Held == Spec => []HInv
<1>1. Init => HInv
  <2> SUFFICES ASSUME Init PROVE HInv
    OBVIOUS
  <2>1. AInv /\ 0 \notin Rows
    BY InitInv DEF Init, Rows
  <2>2. \A t \in Workers : t \in Threads
    BY DEF Threads
  <2>3. Loop \in Threads
    BY DEF Threads
  <2>4. Feeds
    BY <2>2, <2>3 DEF Init, Feeds, Blank
  <2>5. \A t \in Workers : StaysBlocked(t) /\ StaysApproved(t)
    BY <2>2 DEF Init, StaysBlocked, StaysApproved
  <2> QED
    BY <2>1, <2>4, <2>5 DEF HInv
<1>2. HInv /\ [Next]_vars => HInv'
  <2> SUFFICES ASSUME HInv, [Next]_vars PROVE HInv'
    OBVIOUS
  <2>1. CASE UNCHANGED vars
    <3>1. UNCHANGED <<auto, table, made, pc, job, granted, barred, quiet>>
      BY <2>1 DEF vars, database, history
    <3>2. AInv' /\ Rows' = Rows
      BY <3>1 DEF HInv, AInv, Shape, NotApproving, EditReads, OnlyOperatorApproves, Rows
    <3>3. Own' = Own /\ Near' = Near /\ Unit' = Unit /\ Enabled' = Enabled /\ Answered' = Answered
      BY <3>1, SameExtends DEF HInv, AInv
    <3>4. Feeds' /\ Watched' = Watched
      BY <3>1 DEF HInv, Feeds, Watched
    <3>5. ASSUME NEW t \in Workers PROVE StaysBlocked(t)' /\ StaysApproved(t)'
      <4>1. Calm(t)' = Calm(t) /\ StaysBlocked(t) /\ StaysApproved(t)
        BY <3>1, <3>4 DEF Calm, HInv
      <4> QED
        BY <3>1, <3>3, <4>1 DEF StaysBlocked, StaysApproved
    <3> QED
      BY <3>2, <3>4, <3>5 DEF HInv
  <2> QED
    BY <2>1, HearHolds, PageHolds DEF Next
<1> QED
  BY <1>1, <1>2, PTL DEF Spec

(* The operator's hard block (service.py:84): a report of a radio that was *)
(* disabled when it came in is not forwarded, unless a page changed the    *)
(* allowlist during the call.                                              *)
THEOREM HardBlockHolds == Spec => []HardBlock
<1>1. HInv => HardBlock
  BY DEF HInv, StaysBlocked, HardBlock
<1> QED
  BY <1>1, Held, PTL

(* With auto_approve_units, the report that makes a unit known is itself   *)
(* forwarded (service.py, _handle_position), whatever the other feeds do   *)
(* meanwhile, unless the operator blocked it or used a page.               *)
THEOREM ApprovedInTime == Spec => []AutoApproveInTime
<1>1. HInv => AutoApproveInTime
  BY DEF HInv, StaysApproved, Calm, Enabled, Near, AutoApproveInTime
<1> QED
  BY <1>1, Held, PTL
================================================================================
