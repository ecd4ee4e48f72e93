------------------------------- MODULE KissStream -------------------------------
(***************************************************************************)
(* The frames of Direwolf's KISS port (aprs_rf_gateway/kiss_client.py): a  *)
(* byte stream that is decoded one byte at a time, over connections that   *)
(* end anywhere in a frame.  One decoder serves the connections of one     *)
(* kiss_frames, which its consumer (_rf_loop) may leave.                   *)
(***************************************************************************)
EXTENDS Naturals, Sequences

CONSTANTS
  MaxFrames,  \* bound: frames that are sent
  MaxBytes    \* bound: bytes of a frame

\* the bytes that matter, and "data" for every other
Bytes == {"FEND", "FESC", "TFEND", "data"}
Payloads == UNION {[1 .. n -> Bytes] : n \in 1 .. MaxBytes}

VARIABLES
  sent,      \* history: the frames Direwolf sent
  place,     \* the byte the socket gives next: its frame, where in it, and which of an escape
  inFrame, esc, buf,   \* KissDecoder
  connected,
  frames,    \* history: what kiss_frames yielded, with the frame that ended it
  spoiled,   \* history: the decoder was in a frame when a connection ended
  lost       \* history: the frames a connection ended before the end of

decoder == <<inFrame, esc, buf>>
vars == <<sent, place, decoder, connected, frames, spoiled, lost>>

Start(n) == [frame |-> n, pos |-> 0, half |-> FALSE]

Init ==
  /\ sent = <<>> /\ place = Start(1) /\ connected = FALSE /\ frames = <<>> /\ spoiled = FALSE /\ lost = {}
  /\ inFrame = FALSE /\ esc = FALSE /\ buf = <<>>

Send ==
  /\ connected /\ Len(sent) < MaxFrames
  /\ \E payload \in Payloads : sent' = Append(sent, payload)
  /\ UNCHANGED <<place, decoder, connected, frames, spoiled, lost>>

\* Direwolf: a payload between two FEND, in which FEND and FESC are escaped, by two bytes
Payload == sent[place.frame]
InPayload == place.pos \in DOMAIN Payload
Escapes == InPayload /\ Payload[place.pos] \in {"FEND", "FESC"}
Byte ==
  IF ~InPayload THEN "FEND"
  ELSE IF ~Escapes THEN Payload[place.pos]
  ELSE IF ~place.half THEN "FESC"
  ELSE IF Payload[place.pos] = "FEND" THEN "TFEND" ELSE "TFESC"
NextPlace ==
  IF Escapes /\ ~place.half THEN [place EXCEPT !.half = TRUE]
  ELSE IF place.pos > Len(Payload) THEN Start(place.frame + 1)
  ELSE [place EXCEPT !.pos = @ + 1, !.half = FALSE]

\* the frames that are not read to their end
Unread == place.frame .. Len(sent)

\* Mutant: an escaped byte is taken as it is.
UnescapedAsIs(byte) == byte

\* the byte an escape stands for
Unescaped(byte) == IF byte = "TFEND" THEN "FEND" ELSE IF byte = "TFESC" THEN "FESC" ELSE byte

\* KissDecoder.feed, one byte of it
Feed ==
  /\ connected /\ Unread # {} /\ place' = NextPlace
  /\ LET ends == inFrame /\ ~esc /\ Byte = "FEND"
     IN  /\ inFrame' = (inFrame \/ Byte = "FEND")
         /\ esc' = (inFrame /\ ~esc /\ Byte = "FESC")
         /\ buf' = IF ~inFrame \/ ends THEN <<>>
                    ELSE IF esc THEN Append(buf, Unescaped(Byte))
                    ELSE IF Byte = "FESC" THEN buf ELSE Append(buf, Byte)
         /\ frames' = IF ends /\ buf # <<>>
                       THEN Append(frames, [payload |-> buf, of |-> place.frame, whole |-> ~spoiled])
                       ELSE frames
         /\ spoiled' = (spoiled /\ ~ends)
  /\ UNCHANGED <<sent, connected, lost>>

\* the connection ends, with what is left of it; the decoder is not told
Drop ==
  /\ connected /\ connected' = FALSE /\ place' = Start(Len(sent) + 1)
  /\ spoiled' = (spoiled \/ buf # <<>> \/ esc)
  /\ lost' = lost \cup Unread
  /\ UNCHANGED <<sent, decoder, frames>>

\* reader.read raises, or the consumer leaves: its packet raises, or the operator has turned RF
\* off. What is left of the chunk goes, decoded or not, and the next kiss_frames has a decoder
\* of its own.
Leave ==
  /\ connected /\ connected' = FALSE /\ place' = Start(Len(sent) + 1)
  /\ inFrame' = FALSE /\ esc' = FALSE /\ buf' = <<>> /\ spoiled' = FALSE
  /\ lost' = lost \cup Unread
  /\ UNCHANGED <<sent, frames>>

Connect == ~connected /\ connected' = TRUE /\ UNCHANGED <<sent, place, decoder, frames, spoiled, lost>>

Next == Send \/ Feed \/ Drop \/ Leave \/ Connect

Spec == Init /\ [][Next]_vars

--------------------------------------------------------------------------------
\* What is handed on is, byte for byte, a frame Direwolf sent, each at most once and in its
\* order, however the stream is cut up and whatever bytes the frame is made of; except what
\* was begun on one connection and ended on the next. And only what a connection ended in the
\* middle of is lost (feed, kiss_frames).
FramesWhole ==
  /\ \A i \in DOMAIN frames : frames[i].whole => frames[i].payload = sent[frames[i].of]
  /\ Unread = {} => \A n \in DOMAIN sent \ lost : \E i \in DOMAIN frames : frames[i].of = n
  /\ \A i, j \in DOMAIN frames : i < j => frames[i].of < frames[j].of \/ ~frames[i].whole
================================================================================
