----------------------------- MODULE EncryptedCalls -----------------------------
(***************************************************************************)
(* Encrypted calls without a position (pipeline.process_decode): the call  *)
(* is matched against the traffic keys, remembered on the identity of its  *)
(* radio, and archived, where calls of the same radio, group and key       *)
(* within DEDUPE_SECONDS are one row.  Each is one step of the event loop. *)
(***************************************************************************)
EXTENDS CipherIds, FiniteSets, FiniteSetsExt

CONSTANTS
  Radios,
  Algids,       \* a net uses one algorithm
  Kids,
  Dedupe,       \* DEDUPE_SECONDS
  Retention,    \* metadata_retention_days
  MaxTime,      \* bound: the clock
  MaxRows       \* bound: rows of the archive

VARIABLES
  net,      \* the algorithm in use
  identity, \* radio_identities: the last call of each radio, None before one
  heard,    \* history: the ids that call really had
  keyRows,  \* traffic_keys
  index,    \* the keys the decoder has indexed, since it was last restarted
  archive,  \* encrypted_traffic_events
  enabled,  \* the archive is switched on
  clock     \* utcnow

vars == <<net, identity, heard, keyRows, index, archive, enabled, clock>>

Ids == [algid: {net}, kid: Kids]
NoDetails == [alg |-> None, kid |-> None]

Init ==
  /\ net \in Algids /\ identity = [r \in Radios |-> None] /\ heard = [r \in Radios |-> None]
  /\ keyRows = {} /\ index = {}
  /\ archive = {} /\ enabled \in BOOLEAN /\ clock = 0

--------------------------------------------------------------------------------
\* an encrypted call as it arrives: the numbers were turned into text (DecodeEventIn), or the
\* ids are in the details only, the ALGID in hexadecimal, or there are none
Events(ids) ==
  {[alg |-> Decimal(ids.algid), algHex |-> Hex(ids.algid), kid |-> Decimal(ids.kid), details |-> NoDetails],
   [alg |-> None, algHex |-> None, kid |-> None,
    details |-> [alg |-> Hex(ids.algid), kid |-> Decimal(ids.kid)]],
   [alg |-> None, algHex |-> None, kid |-> None, details |-> NoDetails]}

\* key_loaded: the decoder says so, or the key is in the table (matching_key)
KeyLoaded(real, resolved) == real \in index \/ resolved \in keyRows

\* observe_call: the text of the ids is what is remembered
ObserveCall(r, resolved, loaded) ==
  identity' = [identity EXCEPT ![r] =
    [alg |-> Describe(resolved.algid),
     kid |-> IF resolved.kid = None THEN None ELSE Decimal(resolved.kid), loaded |-> loaded]]

SameCall(row, r, resolved) == row.radio = r /\ row.ids = resolved

\* Mutant: only the rows seen after the call are looked at.
MergeableLater(r, resolved, at) == {row \in archive : SameCall(row, r, resolved) /\ row.at > at}

\* the rows record_decode may count this call to; one from the future is as good
Mergeable(r, resolved, at) ==
  {row \in archive : SameCall(row, r, resolved) /\ row.at + Dedupe >= at}

Merged(row, loaded) ==
  [row EXCEPT !.state = DecryptState(row.ids, loaded), !.matched = @ \/ loaded]

NewRow(r, resolved, at, loaded) ==
  [radio |-> r, ids |-> resolved, at |-> at, state |-> DecryptState(resolved, loaded), matched |-> loaded]

\* record_decode, when the archive is on: the newest of the rows, or a new one
RecordDecode(r, resolved, at, loaded) ==
  LET rows == Mergeable(r, resolved, at)
      newest == CHOOSE row \in rows : \A other \in rows : other.at <= row.at
  IN  /\ archive' = IF rows = {} THEN archive \cup {NewRow(r, resolved, at, loaded)}
                     ELSE (archive \ {newest}) \cup {Merged(newest, loaded)}
      /\ Cardinality(archive') <= MaxRows

\* process_decode: observed_at is the decoder's, so calls arrive late and out of order; a
\* failing archive changes nothing else
Decode(r, ids) ==
  \E event \in Events(ids), at \in 0 .. clock :
    LET resolved == Resolve(event)
        real == IF resolved.kid = None THEN None ELSE ids
        loaded == KeyLoaded(real, resolved)
    IN  /\ ObserveCall(r, resolved, loaded)
        /\ heard' = [heard EXCEPT ![r] = real]
        /\ \/ enabled /\ RecordDecode(r, resolved, at, loaded)
           \/ UNCHANGED archive
        /\ UNCHANGED <<net, keyRows, index, enabled, clock>>

--------------------------------------------------------------------------------
\* sdr_key_add from the link of a heard keyset, as the SDR page offers it
AddHeardKey(r) ==
  /\ identity[r] # None
  /\ LET shown == Keyset(identity[r].alg, identity[r].kid)
         key == FormKey(Link(shown))
     IN  /\ shown.algid # None /\ shown.kid # None /\ key # None /\ key \notin keyRows
         /\ keyRows' = keyRows \cup {key}
  /\ UNCHANGED <<net, identity, heard, index, archive, enabled, clock>>

DeleteKey(key) ==
  /\ key \in keyRows /\ keyRows' = keyRows \ {key}
  /\ UNCHANGED <<net, identity, heard, index, archive, enabled, clock>>

DecoderRestart ==
  /\ index # keyRows /\ index' = keyRows
  /\ UNCHANGED <<net, identity, heard, keyRows, archive, enabled, clock>>

\* clear_heard_history(observed, encryption): units that are not approved lose their row
Clear ==
  /\ archive' = {} /\ \E gone \in SUBSET Radios :
       /\ identity' = [r \in Radios |-> IF r \in gone THEN None ELSE identity[r]]
       /\ heard' = [r \in Radios |-> IF r \in gone THEN None ELSE heard[r]]
  /\ UNCHANGED <<net, keyRows, index, enabled, clock>>

\* retention_loop: purge_expired
Purge ==
  /\ archive' = {row \in archive : row.at + Retention >= clock} /\ archive' # archive
  /\ UNCHANGED <<net, identity, heard, keyRows, index, enabled, clock>>

Tick ==
  /\ clock < MaxTime /\ clock' = clock + 1
  /\ UNCHANGED <<net, identity, heard, keyRows, index, archive, enabled>>

Next ==
  \/ \E r \in Radios :
       \/ \E ids \in Ids : Decode(r, ids)
       \/ AddHeardKey(r)
  \/ \E key \in keyRows : DeleteKey(key)
  \/ DecoderRestart \/ Clear \/ Purge \/ Tick

Spec == Init /\ [][Next]_vars

--------------------------------------------------------------------------------
\* encrypted_badge of an identity, as the pages of the units show it
Badge(row) == [ids |-> Keyset(row.alg, row.kid), onFile |-> row.loaded]

\* A radio's last call, if its algorithm is one of the registry, is shown with the ids it had
\* (the badge, the heard keysets), and the key stored through the link on the page is the key
\* of that call: through str(), coerce_algid, 02X, coerce_algid, 0x and parse_int_id.
KeysetFills ==
  \A r \in Radios :
    heard[r] # None /\ heard[r].algid \in Known =>
      LET shown == Keyset(identity[r].alg, identity[r].kid)
      IN  shown = heard[r] /\ FormKey(Link(shown)) = heard[r]

\* What the comment of ALGID_NAMES says of every other algorithm: it stays ALGID 0xNN.
UnknownStaysNamed ==
  \A r \in Radios : heard[r] # None => Badge(identity[r]).ids.algid = heard[r].algid

\* Two rows of one radio and key are further apart than the window, in whatever order their
\* calls arrived: a call is never archived twice over for arriving late (record_decode).
ArchivedOnce ==
  \A a, b \in archive :
    a # b /\ a.radio = b.radio /\ a.ids = b.ids => a.at > b.at + Dedupe \/ b.at > a.at + Dedupe
================================================================================
