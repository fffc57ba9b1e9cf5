---------------------------- MODULE TelemetryGate ----------------------------
(************************************************************************** *)
(* The telemetry emitter of src-tauri/src/main.rs over the shared layers.  *)
(*                                                                         *)
(* Every 16 ms the emitter takes one sample under the transport's lock     *)
(* (Transport::sample_telemetry, engine.rs).  The sample compares digests  *)
(* of versions with the digests of the last payloads and clones only the   *)
(* layers whose digest moved; the emitter then sends them and remembers    *)
(* the new digests.  `sent` is what the last payloads contained.           *)
(* The payloads' way to the frontend is the subject of module Telemetry.   *)
(************************************************************************** *)
EXTENDS PlaybackLayers

VARIABLES
  telem,   \* TelemetryState: the last digests and the log interest
  sent     \* the layers' contents in the last emitted payloads

gateVars == <<telem, sent>>
vars == <<layers, published, playing, cycle, realized, parallel, telem, sent>>

Logs == Layers \ Overlays

\* TelemetryLogInterest: none, either sparse layer, both, or everything.
Interests == (SUBSET Recorded) \cup {Logs}

\* Mutant of TimelineDigest: it counts events instead of reading versions.
TimelineDigestOfCounts ==
  [published |-> published,
   versions |-> [l \in Overlays |-> Cardinality(layers[l].events)]]

TimelineDigest ==
  [published |-> published, versions |-> [l \in Overlays |-> layers[l].version]]

\* LogDigest: layers outside the interest count as version 0.
LogDigest(interest) ==
  [l \in Logs |-> IF l \in interest THEN layers[l].version ELSE 0]

\* What a payload carries for a set of layers.
Contents(ls) == [l \in ls |-> layers[l].events]

\* An Option<digest> is the set of at most one digest.
TelemetryState ==
  [last_timeline : SUBSET [published : [is_playing : BOOLEAN, current_cycle : Nat],
                           versions : [Overlays -> Nat]],
   last_log : SUBSET [Logs -> Nat],
   log_interest : Interests]

GateInit ==
  /\ telem = [last_timeline |-> {}, last_log |-> {}, log_interest |-> {}]
  /\ sent = [l \in Layers |-> {}]

\* sample_telemetry decides on the two payloads.
TimelineChanged == telem.last_timeline # {TimelineDigest}
LogChanged ==
  /\ telem.log_interest # {}
  /\ telem.last_log # {LogDigest(telem.log_interest)}

\* Mutant of Poll: without log interest the digest moves and nothing is sent.
PollInterested ==
  /\ telem' = [telem EXCEPT
       !.last_timeline = IF TimelineChanged THEN {TimelineDigest} ELSE @,
       !.last_log = IF LogChanged THEN {LogDigest(telem.log_interest)} ELSE @]
  /\ sent' = [l \in Layers |->
       IF telem.log_interest # {} /\ (TimelineChanged \/ LogChanged)
       THEN layers[l].events ELSE sent[l]]
  /\ UNCHANGED layerVars

\* One poll of the emitter, under the telemetry lock from the sample to the
\* last emit.
Poll ==
  /\ telem' = [telem EXCEPT
       !.last_timeline = IF TimelineChanged THEN {TimelineDigest} ELSE @,
       !.last_log = IF LogChanged THEN {LogDigest(telem.log_interest)} ELSE @]
  /\ sent' = [l \in Layers |->
       IF \/ l \in Overlays /\ TimelineChanged
          \/ l \in telem.log_interest /\ LogChanged
       THEN layers[l].events ELSE sent[l]]
  /\ UNCHANGED layerVars

\* transport_set_telemetry_interest: a change of interest forgets the last
\* log digest, so that the next poll hydrates the new subset.
SetInterest(interest) ==
  /\ interest # telem.log_interest
  /\ telem' = [telem EXCEPT !.log_interest = interest, !.last_log = {}]
  /\ UNCHANGED <<layerVars, sent>>

GateNext ==
  \/ LayersNext /\ UNCHANGED gateVars
  \/ Poll
  \/ \E interest \in Interests : SetInterest(interest)

Init == LayersInit /\ GateInit
Spec == Init /\ [][GateNext]_vars

\* The emitter thread never stops polling.
FairSpec == Spec /\ WF_vars(Poll)

-----------------------------------------------------------------------------
(************************************************************************** *)
(* Properties                                                              *)
(************************************************************************** *)

GateTypeOK ==
  /\ LayersTypeOK
  /\ telem \in TelemetryState
  /\ sent \in [Layers -> SUBSET Event]

\* "Two equal digests mean the timeline payload would be identical"
\* (snapshot.rs): when the remembered timeline digest is the current one, the
\* payload last sent is exactly what the overlay layers hold now.
TimelineGateSound ==
  telem.last_timeline = {TimelineDigest} =>
    \A l \in Overlays : sent[l] = layers[l].events

\* The same of the log layers the frontend asked for: narrowing and widening
\* the interest never leaves a requested layer stale behind an equal digest.
LogGateSound ==
  telem.last_log = {LogDigest(telem.log_interest)} =>
    \A l \in telem.log_interest : sent[l] = layers[l].events

\* The emitter implements a mirror of the overlay layers: a poll that sends
\* nothing because the digests agree is as good as one that copies, and what
\* was sent is again and again what the layers hold, however the scheduler
\* goes on writing.  (Only the emitter's own fairness is assumed.)
Timeline == INSTANCE Mirror WITH source <- Contents(Overlays),
                                 mirror <- [l \in Overlays |-> sent[l]]
MirrorsTimeline == Timeline!Spec
=============================================================================
