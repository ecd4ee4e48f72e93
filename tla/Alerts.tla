--------------------------------- MODULE Alerts ---------------------------------
(***************************************************************************)
(* services/alerts.py: the alerts are worked out anew for every page that  *)
(* shows them, from what the page hands over; only which were seen and     *)
(* which were acknowledged is kept, in memory.  An id is a sequence of     *)
(* words, "tak.error.s1" is <<"tak", "error", s1>>.                        *)
(***************************************************************************)
EXTENDS Naturals, FiniteSets, Functions

CONSTANTS
  Worlds,    \* the conditions the host, the decoder and the servers go through
  AckTtl,    \* ack_ttl_s
  MaxAcked,  \* bound: the acknowledgements kept
  None

VARIABLES
  world,     \* how things are
  acked,     \* _acked: how long ago each id was acknowledged, <<>> for none
  seen,      \* _seen
  listed,    \* the alerts the last request showed as open; none after another step
  told,      \* history: announced on the status bus while the condition lasts
  again,     \* history: announced once more, and the condition had never gone
  quiet      \* history: as acked, for conditions that last since they were acknowledged

store == <<acked, seen>>
vars == <<world, store, listed, told, again, quiet>>

--------------------------------------------------------------------------------
\* What is wrong (collect_alerts).

\* the four gauges of the host have levels, "ok" is below the first threshold
Host == {"disk", "ram", "cpu", "temp"}
HostConditions(w) == {<<"host", h, w[h]>> : h \in {h \in Host : w[h] # "ok"}}

\* the radio: of what is missing, the first is named; the idle waterfall is known only to the
\* request that hands over the age of the last frame
Idle == <<"spectrum", "stale">>
RadioConditions(w, spectrum) ==
  IF ~w.installed THEN {<<"sdr", "not_installed">>}
  ELSE IF ~w.system THEN {<<"sdr", "no_system">>}
  ELSE IF ~w.decoder THEN {<<"decoder", "stopped">>}
  ELSE (IF w.heard THEN {} ELSE {<<"decoder", "no_traffic">>})
       \cup (IF spectrum /\ w.idle THEN {Idle} ELSE {})

\* _live_tak_status: the manager knows better than the row; an error that is over is dropped
LiveStatus(s) == IF s.manager = None THEN s.row ELSE s.manager
LiveError(s) ==
  IF s.manager = None THEN s.rowError
  ELSE IF s.manager = "connected" THEN (IF s.rowError = "activebits" THEN None ELSE s.rowError)
  ELSE IF s.error # None THEN s.error ELSE s.rowError

ServerConditions(s) ==
  {<<"tak", what, s.id>> : what \in
    {what \in {"error", "cert.expired", "cert.expiring"} :
      \/ what = "error" /\ LiveError(s) # None /\ LiveStatus(s) # "connected"
      \/ what = "cert.expired" /\ s.cert = "past"
      \/ what = "cert.expiring" /\ s.cert = "soon"}}

TakConditions(w) ==
  IF w.servers = {} THEN {<<"tak", "not_configured">>}
  ELSE UNION {ServerConditions(s) : s \in w.servers}
       \cup (IF /\ \E s \in w.servers : s.enabled
                /\ \A s \in w.servers : LiveStatus(s) # "connected"
             THEN {<<"tak", "disconnected">>} ELSE {})

UnitConditions(w) == IF w.observed /\ ~w.approved THEN {<<"units", "none_approved">>} ELSE {}

Conditions(w, spectrum) ==
  HostConditions(w) \cup RadioConditions(w, spectrum) \cup TakConditions(w) \cup UnitConditions(w)

Ids == UNION {Conditions(w, TRUE) : w \in Worlds}

--------------------------------------------------------------------------------
Init ==
  /\ world \in Worlds /\ acked = <<>> /\ seen = {}
  /\ listed = {} /\ told = {} /\ again = {} /\ quiet = <<>>

\* things change: what is over is no episode any more
Change ==
  /\ world' \in Worlds \ {world}
  /\ LET active == Conditions(world', TRUE)
     IN told' = told \cap active /\ quiet' = Restrict(quiet, DOMAIN quiet \cap active)
  /\ listed' = {} /\ UNCHANGED <<store, again>>

\* Mutant: an hour to the second is past its time.
ExpiredAtOnce(age) == age >= AckTtl

\* is_acked: an acknowledgement past its time is dropped when it is looked at
Expired(age) == age > AckTtl

Tick ==
  /\ \E id \in DOMAIN acked : ~Expired(acked[id])
  /\ acked' = [id \in DOMAIN acked |-> IF Expired(acked[id]) THEN acked[id] ELSE acked[id] + 1]
  /\ quiet' = [id \in {id \in DOMAIN quiet : quiet[id] < AckTtl} |-> quiet[id] + 1]
  /\ listed' = {} /\ UNCHANGED <<world, seen, told, again>>

\* prune_seen: what was seen and is not there any more loses its acknowledgement
Pruned(active) == Restrict(acked, DOMAIN acked \ (seen \ active))

\* Mutant: only what is shown as open is noted as seen.
NotedIfOpen(active) == active \ DOMAIN Pruned(active)

\* note_seen, for every alert, and prune_seen: what stays in _seen
Noted(active) == active

\* a request that shows the alerts: the status poll knows of the spectrum, the dashboard and
\* the page and list of the alerts do not
View ==
  \E spectrum \in BOOLEAN :
    LET active == Conditions(world, spectrum)
        news == active \ seen
        pruned == Pruned(active)
        over == {id \in DOMAIN pruned \cap active : Expired(pruned[id])}
    IN  /\ seen' = Noted(active)
        /\ acked' = Restrict(pruned, DOMAIN pruned \ over)
        /\ listed' = (active \ DOMAIN pruned) \cup over
        /\ told' = told \cup news
        /\ again' = again \cup (told \cap news)
        /\ UNCHANGED <<world, quiet>>

\* a dict in which the time of id is now
Set(times, id) == [x \in {id} \cup DOMAIN times |-> IF x = id THEN 0 ELSE times[x]]

\* AlertStore.acknowledge, from the dashboard or the page, whatever holds by then
Acknowledge(id) ==
  /\ acked' = Set(acked, id)
  /\ Cardinality(DOMAIN acked') <= MaxAcked
  /\ quiet' = IF id \in Conditions(world, TRUE) THEN Set(quiet, id)
               ELSE Restrict(quiet, DOMAIN quiet \ {id})
  /\ listed' = {} /\ UNCHANGED <<world, seen, told, again>>

\* the process is started again: nothing of the store is kept
Restart ==
  /\ acked' = <<>> /\ seen' = {}
  /\ listed' = {} /\ told' = {} /\ again' = {} /\ quiet' = <<>>
  /\ UNCHANGED world

Next ==
  \/ Change \/ Tick \/ View \/ Restart
  \/ \E id \in Ids : Acknowledge(id)

Spec == Init /\ [][Next]_vars

--------------------------------------------------------------------------------
\* An alert that was acknowledged is not shown as open again for an hour, while its condition
\* lasts (the docstring of services/alerts.py), whichever pages are opened meanwhile; except
\* the idle waterfall, of which only one of the requests knows.
AckHolds == listed \cap DOMAIN quiet \subseteq {Idle}

\* A condition that lasts is announced on the status bus once, however many pages work it out
\* and whoever acknowledges it meanwhile; again except the idle waterfall (note_seen).
ToldOnce == again \subseteq {Idle}

\* What the docstring says of every alert.
AckHoldsForAll == listed \cap DOMAIN quiet = {}
================================================================================
