------------------------------- MODULE LiveHubs --------------------------------
(***************************************************************************)
(* What the open pages are sent while it happens: the event bus            *)
(* (gateway/events.py), the audio and spectrum hubs, and the websockets    *)
(* that read them.  The bus gives up on a page that does not keep up; the  *)
(* other hubs drop the oldest frame of its queue.  The event bus is        *)
(* published to by the event loop and by the threads of the APRS gateway,  *)
(* which all walk one set of subscribers: it may change under any of them. *)
(***************************************************************************)
EXTENDS Naturals, Sequences, FiniteSets

CONSTANTS
  Pages,         \* browser pages with a websocket
  Threads,       \* worker threads that publish on the event bus
  Limit,         \* maxsize of a subscriber's queue: 200, 24, 8
  MaxPublished,  \* bound: what is published on each hub
  MaxLeaked      \* bound: queues without a handler

VARIABLES
  hub,       \* "events", or "audio", which works as the spectrum hub
  published, \* how many events or frames there were
  latest,    \* latest_meta of the audio hub, <<>> before the first frame
  clients,   \* decoder connections to the audio port
  subs,      \* _subscribers, by page
  leaked,    \* subscribers of the audio hub that no handler reads any more
  open,      \* the pages with a handler
  left,      \* the browser has gone; the handler finds out when it sends
  queue,     \* the queue of the page
  sending,   \* the event or frame of a send_json that has not returned
  got,       \* history: what the page was sent
  base,      \* history: published when the page subscribed
  walk,      \* a publish of the event loop or a thread: the event, and its walk over the subscribers
  byThread,  \* history: the events published by a worker thread
  disturbed  \* history: events of the loop during whose walk a thread discarded a subscriber

page == <<open, left, queue, sending, got, base>>
walks == <<walk, byThread, disturbed>>
vars == <<hub, published, latest, clients, subs, leaked, page, walks>>

Publishers == Threads \cup {"loop"}
Idle == [phase |-> "idle", event |-> 0, size |-> 0, todo |-> {}, seen |-> {}, dead |-> {}]

Init ==
  /\ hub \in {"events", "audio"} /\ published = 0 /\ latest = <<>> /\ clients = 0
  /\ subs = {} /\ leaked = 0
  /\ open = {} /\ left = [p \in Pages |-> FALSE]
  /\ queue = [p \in Pages |-> <<>>] /\ sending = [p \in Pages |-> <<>>]
  /\ got = [p \in Pages |-> <<>>] /\ base = [p \in Pages |-> 0]
  /\ walk = [w \in Publishers |-> Idle] /\ byThread = {} /\ disturbed = {}

Full(p) == Len(queue[p]) >= Limit
Event(n) == [n |-> n, encrypted |-> FALSE, pcm |-> FALSE]

\* what the event loop does in its handlers it does between its publishes
LoopFree == walk["loop"] = Idle

--------------------------------------------------------------------------------
\* The publishers.

\* event_bus.publish: the event is in the history, and the walk over the subscribers begins
Publish(w) ==
  /\ hub = "events" /\ walk[w] = Idle /\ published < MaxPublished
  /\ published' = published + 1
  /\ byThread' = IF w \in Threads THEN byThread \cup {published'} ELSE byThread
  /\ walk' = [walk EXCEPT ![w] = [phase |-> "walk", event |-> published', size |-> Cardinality(subs),
                                  todo |-> subs, seen |-> {}, dead |-> {}]]
  /\ UNCHANGED <<hub, latest, clients, subs, leaked, page, disturbed>>

\* the set has another size than when the walk began, which raises
SizeChanged(w) == Cardinality(subs) # walk[w].size

\* Mutant: the walk ends at the first queue that is full.
DeliverUntilFull(w, p) ==
  /\ walk[w].phase = "walk" /\ ~SizeChanged(w) /\ p \in subs \ walk[w].seen
  /\ IF Full(p) THEN walk' = [walk EXCEPT ![w].phase = "discard", ![w].dead = {p}] /\ UNCHANGED queue
     ELSE /\ walk' = [walk EXCEPT ![w].todo = @ \ {p}, ![w].seen = @ \cup {p}]
          /\ queue' = [queue EXCEPT ![p] = Append(@, Event(walk[w].event))]
  /\ UNCHANGED <<hub, published, latest, clients, subs, leaked, open, left, sending, got, base, byThread, disturbed>>

\* one subscriber of the walk; one that came for another that went may be met or not
Deliver(w, p) ==
  /\ walk[w].phase = "walk" /\ ~SizeChanged(w) /\ p \in subs \ walk[w].seen
  /\ walk' = [walk EXCEPT ![w].todo = @ \ {p}, ![w].seen = @ \cup {p},
                          ![w].dead = IF Full(p) THEN @ \cup {p} ELSE @]
  /\ queue' = IF Full(p) THEN queue ELSE [queue EXCEPT ![p] = Append(@, Event(walk[w].event))]
  /\ UNCHANGED <<hub, published, latest, clients, subs, leaked, open, left, sending, got, base, byThread, disturbed>>

\* the walk is over, or raises: the rest of the subscribers is passed over, and the full ones stay
WalkEnds(w) ==
  /\ walk[w].phase = "walk"
  /\ \/ SizeChanged(w) /\ walk' = [walk EXCEPT ![w] = Idle]
     \/ ~SizeChanged(w) /\ walk[w].todo \cap subs = {} /\ walk' = [walk EXCEPT ![w].phase = "discard"]
  /\ UNCHANGED <<hub, published, latest, clients, subs, leaked, page, byThread, disturbed>>

\* the queues that were full are no subscribers from here on
Discard(w, p) ==
  /\ walk[w].phase = "discard" /\ p \in walk[w].dead
  /\ walk' = [walk EXCEPT ![w].dead = @ \ {p}] /\ subs' = subs \ {p}
  /\ disturbed' = IF walk["loop"].phase = "walk" /\ p \in subs THEN disturbed \cup {walk["loop"].event} ELSE disturbed
  /\ UNCHANGED <<hub, published, latest, clients, leaked, page, byThread>>
PublishEnds(w) ==
  /\ walk[w].phase = "discard" /\ walk[w].dead = {} /\ walk' = [walk EXCEPT ![w] = Idle]
  /\ UNCHANGED <<hub, published, latest, clients, subs, leaked, page, byThread, disturbed>>

\* the decoder connects to the audio port and goes
Connect ==
  /\ hub = "audio" /\ clients = 0 /\ clients' = clients + 1
  /\ UNCHANGED <<hub, published, latest, subs, leaked, page, walks>>
Disconnect ==
  /\ clients > 0 /\ clients' = clients - 1
  /\ UNCHANGED <<hub, published, latest, subs, leaked, page, walks>>

\* the lines of the decoder: sound, an end or a silence, an encrypted call with or without sound
RawFrames == [encrypted : BOOLEAN, pcm : BOOLEAN, end : BOOLEAN]

\* parse_frame: <<>> for a line that says nothing
ParseFrame(raw) ==
  IF raw.encrypted THEN [encrypted |-> TRUE, pcm |-> FALSE]
  ELSE IF raw.pcm \/ raw.end THEN [encrypted |-> FALSE, pcm |-> raw.pcm] ELSE <<>>

\* Mutant: a full queue takes no frame.
OfferIfRoom(q, frame) == IF Len(q) >= Limit THEN q ELSE Append(q, frame)

\* a full queue loses its oldest frame
Offer(q, frame) == Append(IF Len(q) >= Limit THEN Tail(q) ELSE q, frame)

\* audio_hub.publish, spectrum_hub.publish, from the listener's handle
PublishFrame ==
  /\ clients > 0 /\ published < MaxPublished
  /\ \E raw \in RawFrames :
       /\ ParseFrame(raw) # <<>>
       /\ LET parsed == ParseFrame(raw)
              frame == [n |-> published + 1, encrypted |-> parsed.encrypted, pcm |-> parsed.pcm]
          IN  /\ published' = published + 1
              /\ latest' = <<[frame EXCEPT !.pcm = FALSE]>>
              /\ queue' = [p \in Pages |-> IF p \in subs THEN Offer(queue[p], frame) ELSE queue[p]]
  /\ UNCHANGED <<hub, clients, subs, leaked, open, left, sending, got, base, walks>>

--------------------------------------------------------------------------------
\* The websocket handlers.

\* ws_events, ws_audio, ws_spectrum up to the first await: subscribed, and what the audio hub
\* had last is on its way
Open(p) ==
  /\ LoopFree /\ p \notin open /\ open' = open \cup {p} /\ subs' = subs \cup {p}
  /\ base' = [base EXCEPT ![p] = published] /\ sending' = [sending EXCEPT ![p] = latest]
  /\ left' = [left EXCEPT ![p] = FALSE] /\ queue' = [queue EXCEPT ![p] = <<>>]
  /\ got' = [got EXCEPT ![p] = <<>>]
  /\ UNCHANGED <<hub, published, latest, clients, leaked, walks>>

\* the loop of the handler: the next of the queue, to be sent
Take(p) ==
  /\ LoopFree /\ p \in open /\ sending[p] = <<>> /\ queue[p] # <<>>
  /\ sending' = [sending EXCEPT ![p] = <<Head(queue[p])>>]
  /\ queue' = [queue EXCEPT ![p] = Tail(@)]
  /\ UNCHANGED <<hub, published, latest, clients, subs, leaked, open, left, got, base, walks>>

\* the browser has taken it
Sent(p) ==
  /\ LoopFree /\ sending[p] # <<>> /\ ~left[p]
  /\ got' = [got EXCEPT ![p] = @ \o sending[p]] /\ sending' = [sending EXCEPT ![p] = <<>>]
  /\ UNCHANGED <<hub, published, latest, clients, subs, leaked, open, left, queue, base, walks>>

\* the greeting of the audio hub, which is sent outside the try of the handler
Greeting(p) == hub = "audio" /\ got[p] = <<>> /\ sending[p] # <<>> /\ sending[p][1].n = base[p]

Forgotten(p) ==
  /\ open' = open \ {p} /\ left' = [left EXCEPT ![p] = FALSE]
  /\ queue' = [queue EXCEPT ![p] = <<>>] /\ sending' = [sending EXCEPT ![p] = <<>>]
  /\ got' = [got EXCEPT ![p] = <<>>] /\ base' = [base EXCEPT ![p] = 0]

\* the send to a browser that has gone: the handler ends and unsubscribes, unless it was the
\* greeting: then the queue stays with the hub for as long as the process lives. A later queue
\* of the page is another one for the walks of the threads.
SendFails(p) ==
  /\ LoopFree /\ sending[p] # <<>> /\ left[p] /\ Forgotten(p)
  /\ subs' = subs \ {p}
  /\ walk' = [w \in Publishers |->
       [walk[w] EXCEPT !.todo = @ \ {p}, !.seen = @ \ {p}, !.dead = @ \ {p}]]
  /\ leaked' = IF Greeting(p) THEN leaked + 1 ELSE leaked
  /\ leaked' <= MaxLeaked
  /\ UNCHANGED <<hub, published, latest, clients, byThread, disturbed>>

\* the browser goes, and nobody tells the handler
Leave(p) ==
  /\ p \in open /\ ~left[p] /\ left' = [left EXCEPT ![p] = TRUE]
  /\ UNCHANGED <<hub, published, latest, clients, subs, leaked, open, queue, sending, got, base, walks>>

Next ==
  \/ \E w \in Publishers : Publish(w) \/ WalkEnds(w) \/ PublishEnds(w)
  \/ \E w \in Publishers, p \in Pages : Deliver(w, p) \/ Discard(w, p)
  \/ Connect \/ Disconnect \/ PublishFrame
  \/ \E p \in Pages : Open(p) \/ Take(p) \/ Sent(p) \/ SendFails(p) \/ Leave(p)

Spec == Init /\ [][Next]_vars

--------------------------------------------------------------------------------
\* all a page was or is to be sent
Held(p) == got[p] \o sending[p] \o queue[p]

\* by the event loop, and not in a thread
FromLoop(n) == n \notin byThread

\* the loop is through with it, and no thread took a subscriber away meanwhile
Whole(n) == FromLoop(n) /\ n # walk["loop"].event /\ n \notin disturbed

\* A page that is subscribed to the event bus is sent every event the loop published since it
\* subscribed, once and in the order of the bus, whatever threads publish or other pages do
\* meanwhile: the bus loses events only with the page, or when a thread discards a subscriber
\* during the walk of the loop, which raises then; order and once hold even so (publish, ws_events).
LoopEventsArrive ==
  hub = "events" => \A p \in subs :
    /\ \A n \in base[p] + 1 .. published : Whole(n) => \E i \in DOMAIN Held(p) : Held(p)[i].n = n
    /\ \A i \in DOMAIN Held(p) : FromLoop(Held(p)[i].n) => Held(p)[i].n \in base[p] + 1 .. published
    /\ \A i, j \in DOMAIN Held(p) :
         i < j /\ FromLoop(Held(p)[i].n) /\ FromLoop(Held(p)[j].n) => Held(p)[i].n < Held(p)[j].n

\* A page that is subscribed to a frame hub, however slow it is, is sent frames in their order,
\* never one twice, the greeting included, and the newest frame is always among them; none of
\* an encrypted call has sound (publish, parse_frame, ws_audio).
FreshFrames ==
  hub = "audio" => \A p \in subs :
    /\ \A i, j \in DOMAIN Held(p) : i < j => Held(p)[i].n < Held(p)[j].n
    /\ published > 0 => Held(p) # <<>> /\ Held(p)[Len(Held(p))].n = published
    /\ \A i \in DOMAIN Held(p) : ~(Held(p)[i].encrypted /\ Held(p)[i].pcm)
================================================================================
