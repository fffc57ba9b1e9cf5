------------------------------ MODULE Telemetry ------------------------------
(************************************************************************** *)
(* The telemetry stream from the emitter to the React frontend:            *)
(* transport_get_snapshot and the emitter (src-tauri/src/main.rs), the     *)
(* timeline-epoch gate (ui/src/telemetryGating.ts) and its callers in      *)
(* ui/src/App.tsx.                                                         *)
(*                                                                         *)
(* Timeline snapshots, positions and the answers of the snapshot commands  *)
(* travel on channels whose relative order is not guaranteed.  A command   *)
(* reads the layers and the digests in two critical sections of the        *)
(* transport's lock, under one hold of the telemetry lock.  The mount      *)
(* effect, the watchdog and the user's resets call it without looking at   *)
(* each other's calls.                                                     *)
(************************************************************************** *)
EXTENDS TelemetryGate, Sequences

CONSTANTS
  Resets,      \* bound: the resets of the user that may be under way at once
  MaxEpoch,    \* bound on the epochs that polls and resets begin at
  MaxInFlight  \* bound on the messages in flight on one event channel

ASSUME StreamAssumption ==
  /\ MaxEpoch \in Nat /\ MaxInFlight \in Nat \ {0}
  /\ "mount" \notin Resets /\ "watchdog" \notin Resets

\* Who calls transportGetSnapshot.
Callers == {"mount", "watchdog"} \cup Resets

VARIABLES
  timeline_epoch,  \* TelemetryState::timeline_epoch
  timelineCh,      \* transport_timeline_snapshot events under way
  positionCh,      \* transport_position events under way
  request,         \* each caller's command: "none", "asked", "read", "answered"
  answer,          \* their snapshots, from the first critical section on
  last_position,   \* last_position_sig
  ui,              \* what the frontend shows and its gate state
  listening        \* how many of the two event listeners are registered

streamVars == <<timeline_epoch, timelineCh, positionCh, request, answer,
                last_position, ui, listening>>
allVars == <<vars, streamVars>>

\* An optional value is the set of at most one value.
Position(epoch) == [epoch |-> epoch, published |-> published]

TelemetryInit ==
  /\ Init
  /\ timeline_epoch = 0
  /\ timelineCh = <<>>
  /\ positionCh = <<>>
  /\ request = [c \in Callers |-> IF c = "mount" THEN "asked" ELSE "none"]
  /\ answer = [c \in Callers |-> {}]
  /\ last_position = {}
  /\ ui = [shown |-> [l \in Overlays |-> {}], promoted |-> 0,
           live |-> {}, pending |-> {}]
  /\ listening = 0

\* The telemetry lock is free unless a snapshot command is between its reads.
LockFree == \A c \in Callers : request[c] # "read"

\* An event reaches only listeners registered when it is emitted.
Emitted(ch, message, registered) == IF registered THEN Append(ch, message) ELSE ch

\* One poll of spawn_snapshot_emitter with its two emits.
EmitterPoll ==
  /\ LockFree
  /\ TimelineChanged => timeline_epoch < MaxEpoch
  /\ Len(timelineCh) < MaxInFlight /\ Len(positionCh) < MaxInFlight
  /\ Poll
  /\ LET epoch == IF TimelineChanged THEN timeline_epoch + 1 ELSE timeline_epoch
         moves == published.is_playing \/ last_position # {published} IN
     /\ timeline_epoch' = epoch
     /\ timelineCh' = IF TimelineChanged
          THEN Emitted(timelineCh,
                 [epoch |-> epoch, published |-> published,
                  layers |-> Contents(Overlays)], listening >= 1)
          ELSE timelineCh
     /\ positionCh' = IF moves THEN Emitted(positionCh, Position(epoch), listening = 2)
                      ELSE positionCh
     /\ last_position' = IF moves THEN {published} ELSE last_position
  /\ UNCHANGED <<request, answer, ui, listening>>

\* transport_get_snapshot, first critical section: Transport::snapshot.
ReadSnapshot(c) ==
  /\ LockFree
  /\ request[c] = "asked"
  /\ request' = [request EXCEPT ![c] = "read"]
  /\ answer' = [answer EXCEPT ![c] = {[published |-> published, layers |-> Contents(Overlays), epoch |-> 0]}]
  /\ UNCHANGED <<vars, timeline_epoch, timelineCh, positionCh, last_position,
                 ui, listening>>

\* Second critical section: sample_telemetry's digests become the remembered
\* ones, with interest "none" for the logs, and the answer gets a new epoch.
ReadDigests(c) ==
  /\ request[c] = "read"
  /\ timeline_epoch' = timeline_epoch + 1
  /\ telem' = [telem EXCEPT !.last_timeline = {TimelineDigest},
                            !.last_log = {LogDigest({})}]
  /\ last_position' = {published}
  /\ request' = [request EXCEPT ![c] = "answered"]
  /\ answer' = [answer EXCEPT ![c] = {[a EXCEPT !.epoch = timeline_epoch + 1] : a \in @}]
  /\ UNCHANGED <<layerVars, sent, timelineCh, positionCh, ui, listening>>

\* acceptTransportSnapshot: the answer replaces everything shown, though that
\* of a later command be there already.
AcceptSnapshot(c) ==
  /\ request[c] = "answered"
  /\ \E a \in answer[c] :
       ui' = [shown |-> a.layers, promoted |-> a.epoch,
              live |-> {[epoch |-> a.epoch, published |-> a.published]},
              pending |-> {}]
  /\ request' = [request EXCEPT ![c] = "none"]
  /\ answer' = [answer EXCEPT ![c] = {}]
  /\ UNCHANGED <<vars, timeline_epoch, timelineCh, positionCh, last_position, listening>>

\* The mount effect registers its listeners once its own answer is in.
RegisterListener ==
  /\ request["mount"] = "none"
  /\ listening < 2
  /\ listening' = listening + 1
  /\ UNCHANGED <<vars, timeline_epoch, timelineCh, positionCh, request, answer,
                 last_position, ui>>

\* promoteTimelineSnapshot: the grid is replaced; a buffered position of the
\* same epoch is fresher than the snapshot's own clock.
PromoteTimeline ==
  /\ timelineCh # <<>>
  /\ LET s == Head(timelineCh)
         buffered == {p \in ui.pending : p.epoch = s.epoch} IN
     ui' = [shown |-> s.layers, promoted |-> s.epoch,
            live |-> IF buffered # {} THEN buffered
                     ELSE {[epoch |-> s.epoch, published |-> s.published]},
            pending |-> {}]
  /\ timelineCh' = Tail(timelineCh)
  /\ UNCHANGED <<vars, timeline_epoch, positionCh, request, answer,
                 last_position, listening>>

\* Mutant of GatePosition: an older grid's position is shown.
GatePositionShowsOld ==
  /\ positionCh # <<>>
  /\ LET p == Head(positionCh) IN
     ui' = IF p.epoch <= ui.promoted
             THEN [ui EXCEPT !.live = {p}, !.pending = {}]
           ELSE [ui EXCEPT !.pending = {p}]
  /\ positionCh' = Tail(positionCh)
  /\ UNCHANGED <<vars, timeline_epoch, timelineCh, request, answer,
                 last_position, listening>>

\* gatePosition: an older grid's position is dropped, a newer one is buffered.
GatePosition ==
  /\ positionCh # <<>>
  /\ LET p == Head(positionCh) IN
     ui' = IF p.epoch < ui.promoted THEN ui
           ELSE IF p.epoch = ui.promoted
             THEN [ui EXCEPT !.live = {p}, !.pending = {}]
           ELSE [ui EXCEPT !.pending = {p}]
  /\ positionCh' = Tail(positionCh)
  /\ UNCHANGED <<vars, timeline_epoch, timelineCh, request, answer,
                 last_position, listening>>

\* A caller asks for a snapshot, at most one at a time.
Ask(c) ==
  /\ request[c] = "none"
  /\ request' = [request EXCEPT ![c] = "asked"]
  /\ UNCHANGED <<vars, timeline_epoch, timelineCh, positionCh, answer,
                 last_position, ui, listening>>

\* Mutant of Watchdog: it waits only for the very first grid.
WatchdogFirstOnly == ui.pending # {} /\ ui.promoted = 0 /\ Ask("watchdog")

\* The rAF watchdog: a position buffered for more than 100 ms asks for a full
\* snapshot, unless the watchdog itself already has (timelineResyncInFlightRef).
Watchdog == ui.pending # {} /\ Ask("watchdog")

\* handleResetTransportSync: after a Resync the user's reset asks for one too,
\* whoever else is waiting for one.
ResetSync(c) == timeline_epoch + 1 < MaxEpoch /\ Ask(c)

TelemetryNext ==
  \/ LayersNext /\ UNCHANGED <<gateVars, streamVars>>
  \/ EmitterPoll
  \/ \E c \in Callers : ReadSnapshot(c) \/ ReadDigests(c) \/ AcceptSnapshot(c)
  \/ RegisterListener
  \/ PromoteTimeline
  \/ GatePosition
  \/ Watchdog
  \/ \E c \in Resets : ResetSync(c)

TelemetrySpec == TelemetryInit /\ [][TelemetryNext]_allVars

\* The IPC delivers, the browser's frame loop runs and commands are served.
TelemetryFair ==
  /\ TelemetrySpec
  /\ WF_allVars(PromoteTimeline) /\ WF_allVars(GatePosition) /\ WF_allVars(Watchdog)
  /\ \A c \in Callers : /\ WF_allVars(ReadSnapshot(c)) /\ WF_allVars(ReadDigests(c))
                        /\ WF_allVars(AcceptSnapshot(c))

-----------------------------------------------------------------------------
(************************************************************************** *)
(* Properties                                                              *)
(************************************************************************** *)

TelemetryTypeOK ==
  /\ GateTypeOK
  /\ timeline_epoch \in Nat
  /\ request \in [Callers -> {"none", "asked", "read", "answered"}]
  /\ \A c \in Callers : (answer[c] # {}) = (request[c] \in {"read", "answered"})
  /\ ui.promoted \in Nat
  /\ listening \in 0 .. 2

\* The playhead never moves over a grid that is not the shown one: the live
\* position always has the promoted epoch and a buffered one is of a grid
\* still to come, whatever order the three channels deliver in
\* (telemetryGating.ts, acceptTransportSnapshot).  (With the types.)
PlayheadOnPromoted ==
  /\ TelemetryTypeOK
  /\ \A p \in ui.live : p.epoch = ui.promoted
  /\ \A p \in ui.pending : p.epoch > ui.promoted

\* Epochs identify payloads: two grids the frontend may still be given, in
\* flight or shown, with one epoch are the same grid.
EpochIdentifiesGrid ==
  LET grids == {timelineCh[i] : i \in 1 .. Len(timelineCh)}
               \cup UNION {answer[c] : c \in {d \in Callers : request[d] = "answered"}} IN
  /\ \A g, h \in grids : g.epoch = h.epoch => g.layers = h.layers
  /\ \A g \in grids : g.epoch = ui.promoted => g.layers = ui.shown

\* Together: the playhead moves over the very grid its position was read in.
PlayheadOnShownGrid == PlayheadOnPromoted /\ EpochIdentifiesGrid

\* The frozen playhead recovers: a buffered position is released eventually,
\* by its grid or, when the event with its grid was lost or an answer that was
\* late took the grid back, by the watchdog's snapshot.
PendingReleased == ui.pending # {} ~> ui.pending = {}
=============================================================================
