-------------------------------- MODULE Playlist --------------------------------
(***************************************************************************)
(* The functions of sdrtrunk/playlist.py: from the table of radio systems  *)
(* to the channels of the decoder's playlist, and to the listen states the *)
(* pages show for the same table.  A system is the row                     *)
(* [enabled, auto, tuned] (tuned: it has control channels) or NoRow; the   *)
(* table is a sequence in the order of the page.  A channel is             *)
(* [system, auto], and stands for its first control channel as well.       *)
(***************************************************************************)
EXTENDS Naturals, Sequences, FiniteSets, SequencesExt

CONSTANTS NoRow, Factory, NoFile

Row == [enabled: BOOLEAN, auto: BOOLEAN, tuned: BOOLEAN]

IsListening(row) == row # NoRow /\ row.enabled /\ row.auto
SetRowListening(row, on) == [row EXCEPT !.enabled = on, !.auto = on]

\* how many of the elements before i satisfy P
Before(i, P(_)) == Cardinality({j \in 1 .. i - 1 : P(j)})

\* Mutant: the tuner after the last is handed out too.
ListenStateOneMore(flags, tuners, i) ==
  IF ~flags[i] THEN "off"
  ELSE IF Before(i, LAMBDA j : flags[j]) <= tuners THEN "active" ELSE "starved"

\* what the page shows: listening rows take the tuners in the order of the table
ListenState(flags, tuners, i) ==
  IF ~flags[i] THEN "off"
  ELSE IF Before(i, LAMBDA j : flags[j]) < tuners THEN "active" ELSE "starved"

AssignListenStates(flags, tuners) == [i \in DOMAIN flags |-> ListenState(flags, tuners, i)]

\* what is written: enabled rows with control channels, whether they start or not
SystemsFromRows(order, rows) ==
  LET kept[n \in 0 .. Len(order)] ==
        IF n = 0 THEN <<>>
        ELSE LET row == rows[order[n]]
             IN  IF row # NoRow /\ row.enabled /\ row.tuned
                   THEN Append(kept[n - 1], [system |-> order[n], auto |-> row.auto])
                   ELSE kept[n - 1]
  IN  kept[Len(order)]

\* and only the first auto-start channels keep it, one a tuner
ApplyTunerSlots(channels, tuners) ==
  [i \in DOMAIN channels |->
    [channels[i] EXCEPT !.auto = @ /\ Before(i, LAMBDA j : channels[j].auto) < tuners]]

PlaylistOf(order, rows, tuners) == ApplyTunerSlots(SystemsFromRows(order, rows), tuners)

Started(channels) == {channels[i].system : i \in {j \in DOMAIN channels : channels[j].auto}}

\* apply_tuner_center_frequency: only a file the decoder has written is changed
Stamp(center, systems) == IF center = NoFile \/ systems = <<>> THEN center ELSE Head(systems).system

\* the first channel that starts: what a rebuild stamps
ListeningCenter(center, channels) == Stamp(center, SelectSeq(channels, LAMBDA c : c.auto))

\* the first channel of the file, started or not: what a restart stamps
ReapplyCenter(center, channels) == IF channels = NoFile THEN center ELSE Stamp(center, channels)
================================================================================
