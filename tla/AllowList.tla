------------------------------- MODULE AllowList -------------------------------
(***************************************************************************)
(* The allowlist: which radio identities exist, are enabled and are        *)
(* forwarded to TAK (src/radiotak/gateway/identities.py, the auto-approval *)
(* of src/modules/aprs_rf_gateway/service.py, the /units pages of          *)
(* src/radiotak/web/routers and services/heard_history.py).                *)
(*                                                                         *)
(* One radio id is modelled; several rows may carry it, since nothing in   *)
(* the table is unique.  APRS worker threads and the event loop each have  *)
(* a session of their own: what one has read may be stale when it commits. *)
(* The pages and the NDJSON listener run on the event loop and exclude     *)
(* each other.  Rows are numbered as they are inserted: the id is a UUID,  *)
(* never used again, and a query returns rows in rowid order, which is the *)
(* order of insertion.  A system of "any" is NULL.                         *)
(***************************************************************************)
EXTENDS Integers, FiniteSets

CONSTANTS
  Workers,      \* threads of the APRS feeds
  Loop,         \* the event loop
  OtherSystems, \* system ids besides APRS
  MaxRows,      \* bound: rows inserted
  MaxCalls      \* bound: reports received

ASSUME LoopAssumption == Loop \notin Workers
ASSUME BoundAssumption == MaxRows \in Nat /\ MaxCalls \in Nat

VARIABLES
  auto,     \* auto_approve_units, read when the feeds start
  table,    \* row id -> identity
  made,     \* rows inserted so far
  pc,       \* thread -> step of its call or page
  job,      \* thread -> what its session holds
  clearing, \* rows a running clear_heard_history will delete
  calls,    \* number of reports so far
  granted,  \* history: rows the operator approved
  barred,   \* history: thread -> its radio was blocked before its call began
  quiet     \* history: thread -> no page changed the table during its call
            \* and the calls under way when it began

history == <<granted, barred, quiet>>
database == <<table, made>>
vars == <<auto, database, pc, job, clearing, calls, history>>

Threads == Workers \cup {Loop}
Ids == 1 .. MaxRows
None == 0
Systems == {"APRS", "any"} \cup OtherSystems
Identity == [system : Systems, enabled : BOOLEAN, forward : BOOLEAN]
Ended == {"idle", "forwarded", "blocked", "failed"}
Committing == {"insertApproved", "setForward", "observeCommit"}
Steps == Ended \cup Committing \cup {"approve", "refresh", "observe", "decide", "edit", "clear"}
Form == [enabled : BOOLEAN, forward : BOOLEAN]
Blank == [system |-> "APRS", row |-> None, seen |-> [enabled |-> TRUE, forward |-> TRUE],
          form |-> [enabled |-> TRUE, forward |-> TRUE]]

Rows == DOMAIN table
Exact(system) == {i \in Rows : system # "any" /\ table[i].system = system}
Matching(system) == {i \in Rows : system = "any" \/ table[i].system \in {system, "any"}}
Least(S) == CHOOSE i \in S : \A j \in S : i <= j

\* find_identity: a row of the very system first, else any match
Found(system) ==
  IF Exact(system) # {} THEN Least(Exact(system))
  ELSE IF Matching(system) # {} THEN Least(Matching(system))
  ELSE None

NewId == made + 1
Add(identity) ==
  /\ NewId \in Ids /\ made' = NewId
  /\ table' = [i \in Rows \cup {NewId} |-> IF i = NewId THEN identity ELSE table[i]]
Without(ids) == [i \in Rows \ ids |-> table[i]]

Init ==
  /\ auto \in BOOLEAN
  /\ table = [i \in {} |-> Blank] /\ made = 0
  /\ pc = [t \in Threads |-> "idle"]
  /\ job = [t \in Threads |-> Blank]
  /\ clearing = {} /\ calls = 0 /\ granted = {}
  /\ barred = [t \in Threads |-> FALSE]
  /\ quiet = [t \in Threads |-> TRUE]

Goto(t, from, to) == pc[t] = from /\ pc' = [pc EXCEPT ![t] = to]
Hold(t, id) == job' = [job EXCEPT ![t].row = id]
Close(t) == job' = [job EXCEPT ![t] = Blank]

--------------------------------------------------------------------------------
(* A report: auto-approval first (APRS only), then the observation.        *)

Blocked(system) == Exact(system) # {} /\ ~table[Least(Exact(system))].enabled

Arrive(t) ==
  /\ pc[t] \in Ended /\ calls < MaxCalls
  /\ \E system \in (IF t = Loop THEN Systems \ {"APRS"} ELSE {"APRS"}) :
       /\ job' = [job EXCEPT ![t] = [Blank EXCEPT !.system = system]]
       /\ barred' = [barred EXCEPT ![t] = Blocked(system)]
  /\ pc' = [pc EXCEPT ![t] = IF t # Loop /\ auto THEN "approve" ELSE "observe"]
  /\ calls' = calls + 1
  /\ quiet' = [quiet EXCEPT ![t] = \A u \in Threads : pc[u] \in Ended \/ quiet[u]]
  /\ UNCHANGED <<database, clearing, granted>>

NeedsApproval(id) == table[id].enabled /\ ~table[id].forward

\* ensure_aprs_unit_approved up to its commit
ApproveFind(t) ==
  LET id == Found(job[t].system) IN
  /\ Hold(t, id)
  /\ Goto(t, "approve", IF id = None THEN "insertApproved"
                        ELSE IF NeedsApproval(id) THEN "setForward" ELSE "observe")
  /\ UNCHANGED <<database, clearing, calls, history>>

Insert(t, forward) ==
  /\ Add([system |-> job[t].system, enabled |-> TRUE, forward |-> forward])
  /\ Hold(t, NewId)

\* Mutant: the new unit is left to the operator.
InsertUnapproved(t) ==
  /\ Goto(t, "insertApproved", "refresh")
  /\ Insert(t, FALSE)
  /\ UNCHANGED <<clearing, calls, history>>

InsertApproved(t) ==
  /\ Goto(t, "insertApproved", "refresh")
  /\ Insert(t, TRUE)
  /\ UNCHANGED <<clearing, calls, history>>

\* UPDATE of the one column; a row deleted since then is a StaleDataError
SetForward(t) ==
  /\ IF job[t].row \in Rows
       THEN /\ Goto(t, "setForward", "refresh")
            /\ table' = [table EXCEPT ![job[t].row].forward = TRUE]
       ELSE Goto(t, "setForward", "failed") /\ UNCHANGED table
  /\ UNCHANGED <<made, job, clearing, calls, history>>

Refresh(t) ==
  /\ Goto(t, "refresh", IF job[t].row \in Rows THEN "observe" ELSE "failed")
  /\ UNCHANGED <<database, job, clearing, calls, history>>

ObserveFind(t) ==
  /\ Goto(t, "observe", "observeCommit")
  /\ Hold(t, Found(job[t].system))
  /\ UNCHANGED <<database, clearing, calls, history>>

\* Mutant: radios are heard with forwarding on.
ObserveCommitForwarded(t) ==
  /\ Goto(t, "observeCommit", "decide")
  /\ IF job[t].row = None THEN Insert(t, TRUE) ELSE UNCHANGED <<database, job>>
  /\ UNCHANGED <<clearing, calls, history>>

\* an unknown radio is recorded enabled and not forwarded
ObserveCommit(t) ==
  /\ CASE job[t].row = None -> Goto(t, "observeCommit", "decide") /\ Insert(t, FALSE)
       [] job[t].row \in Rows -> Goto(t, "observeCommit", "decide") /\ UNCHANGED <<database, job>>
       [] OTHER -> Goto(t, "observeCommit", "failed") /\ UNCHANGED <<database, job>>
  /\ UNCHANGED <<clearing, calls, history>>

\* Mutant: is_forward_allowed forgets the enabled column.
DecideForwardOnly(t) ==
  /\ Goto(t, "decide", IF job[t].row \notin Rows THEN "failed"
                       ELSE IF table[job[t].row].forward THEN "forwarded" ELSE "blocked")
  /\ Close(t)
  /\ UNCHANGED <<database, clearing, calls, history>>

\* db.refresh and is_forward_allowed
Decide(t) ==
  /\ Goto(t, "decide", IF job[t].row \notin Rows THEN "failed"
                       ELSE IF table[job[t].row].enabled /\ table[job[t].row].forward
                              THEN "forwarded" ELSE "blocked")
  /\ Close(t)
  /\ UNCHANGED <<database, clearing, calls, history>>

\* "database is locked": the call or page ends without an effect
CommitFails(t) ==
  /\ pc[t] \in Committing \cup {"edit", "clear"}
  /\ pc' = [pc EXCEPT ![t] = "failed"]
  /\ clearing' = IF pc[t] = "clear" THEN {} ELSE clearing
  /\ Close(t)
  /\ UNCHANGED <<database, calls, history>>

Hear(t) ==
  \/ Arrive(t) \/ ApproveFind(t) \/ InsertApproved(t) \/ SetForward(t) \/ Refresh(t)
  \/ ObserveFind(t) \/ ObserveCommit(t) \/ Decide(t) \/ CommitFails(t)

--------------------------------------------------------------------------------
(* The pages, on the event loop.                                           *)

LoopFree == pc[Loop] \in Ended
Disturb == quiet' = [t \in Threads |-> FALSE]

UnitsAdd ==
  /\ LoopFree
  /\ \E system \in Systems, forward \in BOOLEAN :
       /\ Add([system |-> system, enabled |-> TRUE, forward |-> forward])
       /\ granted' = IF forward THEN granted \cup {NewId} ELSE granted \ {NewId}
  /\ Disturb
  /\ UNCHANGED <<pc, job, clearing, calls, barred>>

\* unit_edit_post, and unit_approve, which changes forward_to_tak alone
UnitEdit(id, form) ==
  /\ LoopFree /\ id \in Rows
  /\ pc' = [pc EXCEPT ![Loop] = "edit"]
  /\ job' = [job EXCEPT ![Loop].row = id, ![Loop].form = form,
                        ![Loop].seen = [enabled |-> table[id].enabled,
                                        forward |-> table[id].forward]]
  /\ UNCHANGED <<database, clearing, calls, history>>

\* the UPDATE names only the columns whose value differs from what was read
Changed(row, seen, form) ==
  [row EXCEPT !.enabled = IF form.enabled # seen.enabled THEN form.enabled ELSE @,
              !.forward = IF form.forward # seen.forward THEN form.forward ELSE @]

UnitEditCommit ==
  LET id == job[Loop].row IN
  /\ Goto(Loop, "edit", "idle")
  /\ table' = [table EXCEPT ![id] = Changed(@, job[Loop].seen, job[Loop].form)]
  /\ granted' = IF job[Loop].form.forward THEN granted \cup {id} ELSE granted \ {id}
  /\ Disturb /\ Close(Loop)
  /\ UNCHANGED <<made, clearing, calls, barred>>

UnitDelete(id) ==
  /\ LoopFree /\ id \in Rows
  /\ table' = Without({id})
  /\ granted' = granted \ {id}
  /\ Disturb
  /\ UNCHANGED <<made, pc, job, clearing, calls, barred>>

Cleared == {i \in Rows : ~table[i].forward}

\* clear_heard_history selects the rows, then deletes them by primary key
ClearSelect ==
  /\ LoopFree
  /\ pc' = [pc EXCEPT ![Loop] = "clear"]
  /\ clearing' = Cleared
  /\ UNCHANGED <<database, job, calls, history>>

ClearCommit ==
  /\ Goto(Loop, "clear", "idle")
  /\ table' = Without(clearing)
  /\ granted' = granted \ clearing
  /\ clearing' = {}
  /\ Disturb
  /\ UNCHANGED <<made, job, calls, barred>>

Page ==
  \/ UnitsAdd \/ UnitEditCommit \/ ClearSelect \/ ClearCommit
  \/ \E id \in Rows : UnitDelete(id) \/ \E form \in Form : UnitEdit(id, form)

Next == UNCHANGED auto /\ (Page \/ \E t \in Threads : Hear(t))
Spec == Init /\ [][Next]_vars

--------------------------------------------------------------------------------
(* Type invariant. *)
TypeOK ==
  /\ auto \in BOOLEAN /\ made \in 0 .. MaxRows /\ Rows \subseteq 1 .. made /\ table \in [Rows -> Identity]
  /\ pc \in [Threads -> Steps]
  /\ job \in [Threads -> [system : Systems, row : Ids \cup {None}, seen : Form, form : Form]]
  /\ \A t \in Threads : pc[t] \in {"setForward", "refresh", "decide", "edit"} => job[t].row # None
  /\ clearing \subseteq Ids /\ granted \subseteq Ids /\ calls \in 0 .. MaxCalls
  /\ barred \in [Threads -> BOOLEAN] /\ quiet \in [Threads -> BOOLEAN]

(* The operator's hard block (service.py:84): a radio whose row was         *)
(* disabled when its report came in is not forwarded, unless a page        *)
(* changed the allowlist meanwhile.  Of several rows of one system the     *)
(* oldest is the one that counts.                                          *)
HardBlock ==
  \A t \in Workers : pc[t] = "forwarded" /\ quiet[t] => ~barred[t]

(* With auto_approve_units on, the report that makes a unit known is       *)
(* itself forwarded (_handle_position approves before the pipeline         *)
(* observes), unless the operator blocked it or used a page meanwhile.     *)
AutoApproveInTime ==
  \A t \in Workers :
    auto /\ pc[t] = "blocked" /\ quiet[t] => \E i \in Matching("APRS") : ~table[i].enabled

(* Without auto-approval only the operator approves: a forwarded row is    *)
(* one the operator added, edited or approved with forwarding on.          *)
OnlyOperatorApproves == ~auto => \A i \in Rows : table[i].forward => i \in granted

\* ClearCommit deletes row i although it is approved
LosesApproved(i) == pc[Loop] = "clear" /\ table[i].forward /\ i \notin DOMAIN table'

(* The same with auto-approval, as the docstring has it.                   *)
ApprovedKept == [][\A i \in Rows : ~LosesApproved(i)]_vars
================================================================================
