------------------------------- MODULE LossyFifo -------------------------------
(***************************************************************************)
(* What the outbound CoT path of one TAK server promises the pipeline, and *)
(* nothing more: reports are accepted one after the other and a            *)
(* subsequence of them is delivered, in the order of acceptance, each at   *)
(* most once.  A report may be passed over (evicted, stale, or lost with a *)
(* broken connection); once a later report is delivered it never appears.  *)
(***************************************************************************)
EXTENDS Naturals

VARIABLES
  accepted,   \* how many reports the channel took; report n is the n-th one
  delivered,  \* the last report delivered, 0 before the first
  deliveries  \* how many were delivered

chanVars == <<accepted, delivered, deliveries>>

Init == accepted = 0 /\ delivered = 0 /\ deliveries = 0

Accept ==
  /\ accepted' = accepted + 1
  /\ UNCHANGED <<delivered, deliveries>>

Deliver ==
  /\ \E n \in (delivered + 1) .. accepted : delivered' = n
  /\ deliveries' = deliveries + 1
  /\ UNCHANGED accepted

Next == Accept \/ Deliver

Spec == Init /\ [][Next]_chanVars
================================================================================
