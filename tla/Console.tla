------------------------------- MODULE Console ----------------------------------
(***************************************************************************)
(* The components of the console process that share no state with the     *)
(* others: the initial state picks one, whose steps are the steps of the   *)
(* behaviour, and the variables of the others stay as they are.  Each is   *)
(* so considered on its own, over the states it has on its own;            *)
(* Credentials, which has one initial state, rests in it.                  *)
(***************************************************************************)
EXTENDS Credentials, Sequences

CONSTANTS
  Pages, Threads, Limit, MaxPublished, MaxLeaked,                \* LiveHubs
  Worlds, AckTtl, MaxAcked,                                      \* Alerts
  Browsers, Keys, OldKey, Passwords, Torn,                       \* ConsoleFiles
  MaxFrames, MaxBytes,                                           \* KissStream
  MaxConns, QueueMax, MaxPackets,                                \* AprsFeeds
  Radios, Algids, Kids, Dedupe, Retention, MaxTime, MaxRows,     \* EncryptedCalls
  None

VARIABLES
  part,
  hub, published, latest, clients, subs, leaked, open, gone, queue, sending, shown, base,
  walker, byThread, disturbed,
  world, acked, seen, listed, told, again, quiet,
  file, auth, loop, asking, writer, overlap, cookies, cut, saved, used,
  sent, place, inFrame, esc, buf, connected, frames, spoiled, lost,
  installed, switched, step, conn, first, sees, strays, consumer, taken, calls, queues, packets, ingested,
  net, identity, heard, keyRows, index, archive, enabled, clock

Hubs == INSTANCE LiveHubs WITH left <- gone, got <- shown, walk <- walker
Board == INSTANCE Alerts
Disk == INSTANCE ConsoleFiles WITH thread <- writer, mixed <- overlap
Kiss == INSTANCE KissStream
Feeds == INSTANCE AprsFeeds WITH enabled <- switched, pc <- step, thread <- consumer,
          queue <- queues, sent <- packets
Crypt == INSTANCE EncryptedCalls

\* a queue holds something, and the event loop is no worker thread
ASSUME HubAssumption == Limit \in Nat \ {0} /\ "loop" \notin Threads

ASSUME AlertAssumption == AckTtl \in Nat

ASSUME KissAssumption == MaxBytes \in Nat

ASSUME FeedAssumption == MaxConns \in Nat /\ QueueMax \in Nat /\ MaxPackets \in Nat

\* what settings.json may hold, what the event loop writes, and what a thread has read
Contents == [stale : Disk!Stales, title : {"RadioTAK", "County"}, marker : BOOLEAN, key : Keys \cup {OldKey, None}]
Writes == [what : {"settings"}, data : Contents, more : Contents \cup {None}, operator : BOOLEAN,
           browser : Browsers \cup {None}, open : BOOLEAN]
            \cup [what : {"auth"}, data : Passwords]
Reads == [data : Contents, open : BOOLEAN]

\* an empty file, and no file, write or read, are none of them
ASSUME FileAssumption ==
  /\ OldKey # None /\ None # Torn
  /\ None \notin Contents /\ Torn \notin Contents /\ None \notin Writes /\ None \notin Reads

\* An algorithm of P25 is a byte, and that of an encrypted net is not 0x80 for none; the id of a
\* key has 16 bits.
ASSUME CallAssumption ==
  /\ \A a \in Algids : a \in Nat /\ a <= 255 /\ a # 128
  /\ \A k \in Kids : k \in Nat /\ k <= 65535
  /\ Dedupe \in Nat /\ Retention \in Nat /\ MaxTime \in Nat

\* None is no id, no text and no ids
ASSUME NoneAssumption ==
  None \notin Nat /\ None \notin [prefixed : BOOLEAN, digits : Seq(Nat)] /\ None \notin [algid : Nat, kid : Nat]

hubs == <<hub, published, latest, clients, subs, leaked, open, gone, queue, sending, shown, base,
          walker, byThread, disturbed>>
board == <<world, acked, seen, listed, told, again, quiet>>
disk == <<file, auth, loop, asking, writer, overlap, cookies, cut, saved, used>>
kiss == <<sent, place, inFrame, esc, buf, connected, frames, spoiled, lost>>
feeds == <<installed, switched, step, conn, first, sees, strays, consumer, taken, calls, queues, packets, ingested>>
crypt == <<net, identity, heard, keyRows, index, archive, enabled, clock>>

Off == "off"
HubsOff == /\ hub = Off /\ published = Off /\ latest = Off /\ clients = Off /\ subs = Off /\ leaked = Off
           /\ open = Off /\ gone = Off /\ queue = Off /\ sending = Off /\ shown = Off /\ base = Off
           /\ walker = Off /\ byThread = Off /\ disturbed = Off
BoardOff == /\ world = Off /\ acked = Off /\ seen = Off /\ listed = Off /\ told = Off /\ again = Off
            /\ quiet = Off
DiskOff == /\ file = Off /\ auth = Off /\ loop = Off /\ asking = Off /\ writer = Off /\ overlap = Off
           /\ cookies = Off /\ cut = Off /\ saved = Off /\ used = Off
KissOff == /\ sent = Off /\ place = Off /\ inFrame = Off /\ esc = Off /\ buf = Off /\ connected = Off
           /\ frames = Off /\ spoiled = Off /\ lost = Off
FeedsOff == /\ installed = Off /\ switched = Off /\ step = Off /\ conn = Off /\ first = Off
            /\ sees = Off /\ strays = Off /\ consumer = Off /\ taken = Off
            /\ calls = Off /\ queues = Off /\ packets = Off /\ ingested = Off
CryptOff == /\ net = Off /\ identity = Off /\ heard = Off /\ keyRows = Off /\ index = Off
            /\ archive = Off /\ enabled = Off /\ clock = Off

ConsoleInit ==
  /\ Init
  /\ part \in {"credentials", "hubs", "alerts", "files", "kiss", "feeds", "calls"}
  /\ IF part = "hubs" THEN Hubs!Init ELSE HubsOff
  /\ IF part = "alerts" THEN Board!Init ELSE BoardOff
  /\ IF part = "files" THEN Disk!Init ELSE DiskOff
  /\ IF part = "kiss" THEN Kiss!Init ELSE KissOff
  /\ IF part = "feeds" THEN Feeds!Init ELSE FeedsOff
  /\ IF part = "calls" THEN Crypt!Init ELSE CryptOff

ConsoleVars == <<part, vars, hubs, board, disk, kiss, feeds, crypt>>

ConsoleNext ==
  /\ UNCHANGED part
  /\ \/ /\ part = "credentials" /\ Next
        /\ UNCHANGED <<hubs, board, disk, kiss, feeds, crypt>>
     \/ /\ part = "hubs" /\ Hubs!Next
        /\ UNCHANGED <<vars, board, disk, kiss, feeds, crypt>>
     \/ /\ part = "alerts" /\ Board!Next
        /\ UNCHANGED <<vars, hubs, disk, kiss, feeds, crypt>>
     \/ /\ part = "files" /\ Disk!Next
        /\ UNCHANGED <<vars, hubs, board, kiss, feeds, crypt>>
     \/ /\ part = "kiss" /\ Kiss!Next
        /\ UNCHANGED <<vars, hubs, board, disk, feeds, crypt>>
     \/ /\ part = "feeds" /\ Feeds!Next
        /\ UNCHANGED <<vars, hubs, board, disk, kiss, crypt>>
     \/ /\ part = "calls" /\ Crypt!Next
        /\ UNCHANGED <<vars, hubs, board, disk, kiss, feeds>>

ConsoleSpec == ConsoleInit /\ [][ConsoleNext]_ConsoleVars

--------------------------------------------------------------------------------
\* What the event loop publishes reaches every subscribed page, unless a thread disturbs its walk
\* (LiveHubs, EventBus.publish).
LoopEventsArrive == part = "hubs" => Hubs!LoopEventsArrive

\* A slow page is sent the newest frames, in order (LiveHubs, AudioHub.publish).
FreshFrames == part = "hubs" => Hubs!FreshFrames

\* An acknowledged alert stays acknowledged while its condition lasts (Alerts, AlertStore).
AckHolds == part = "alerts" => Board!AckHolds

\* A condition that lasts is announced once (Alerts, AlertStore.note_seen).
ToldOnce == part = "alerts" => Board!ToldOnce

\* No save and no migration of the settings ends a session, unless writes were cut off or
\* overlapped, or an empty file was written over (ConsoleFiles, _ensure_secret_key).
SessionsLast == part = "files" => Disk!SessionsLast

\* What an operator saved is what is loaded (ConsoleFiles, update_settings, load_settings_file).
SavedIsLoaded == part = "files" => Disk!SavedIsLoaded

\* A KISS frame is handed on as it was sent (KissStream, KissDecoder.feed).
FramesWhole == part = "kiss" => Kiss!FramesWhole

\* APRS-IS packets are ingested once and in order, but for those of consumers left behind
\* (AprsFeeds, _is_loop).
IngestedInOrder == part = "feeds" => Feeds!IngestedInOrder

\* A heard keyset of the pages is the key of the call (EncryptedCalls, collect_heard_keysets).
KeysetFills == part = "calls" => Crypt!KeysetFills

\* A call is archived once, however late it arrives (EncryptedCalls, record_decode).
ArchivedOnce == part = "calls" => Crypt!ArchivedOnce

(* Two sentences of the repository that the code does not keep. *)

\* An acknowledgement suppresses its alert until the condition clears or an hour is over, of
\* every alert (the docstring of services/alerts.py).
AckHoldsForAll == part = "alerts" => Board!AckHoldsForAll

\* An algorithm without a name is shown as ALGID 0xNN (the comment of ALGID_NAMES).
UnknownStaysNamed == part = "calls" => Crypt!UnknownStaysNamed
================================================================================
