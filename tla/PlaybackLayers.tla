--------------------------- MODULE PlaybackLayers ---------------------------
(************************************************************************** *)
(* The playback metadata layers of crates/cseq-transport/src/layers.rs and *)
(* the scheduler's writes to them in engine.rs.                            *)
(*                                                                         *)
(* Every layer is one LayerStore: its visible events, a sequence counter   *)
(* and a version.  The scheduler thread writes the stores one critical     *)
(* section (shared.lock()) at a time; between two of them the telemetry    *)
(* threads may read.  The payload of an event is abstracted to its arrival *)
(* index `id` in the store, the cycle it belongs to and, on the layers     *)
(* that stamp one, its sequence number.                                    *)
(************************************************************************** *)
EXTENDS Naturals, FiniteSets

CONSTANTS
  Overlays,   \* CycleWindow layers: channel_hocket, realized_rhythm, track_flow
  Recorded,   \* CapOnly layers record() fills: seed_trace, trigger_decision
  Conflicts,  \* the CapOnly layer push() fills: parallel_conflict
  DebugLogs,  \* midi_debug and automation, which outlive a run
  Cap,        \* capacity of each layer
  Batches,    \* numbers of events one realized cycle gives a layer
  MaxCycle,   \* bound on the playhead cycle
  MaxArrived  \* bound, by layer, on the events that ever enter its store

RealizedLayers == Overlays \cup Recorded \cup Conflicts
Layers == RealizedLayers \cup DebugLogs

ASSUME LayersAssumption ==
  /\ Overlays \cap Recorded = {} /\ Overlays \cap Conflicts = {}
  /\ Recorded \cap Conflicts = {} /\ DebugLogs \cap RealizedLayers = {}
ASSUME CapAssumption == Cap \in [Layers -> Nat \ {0}]
ASSUME BatchesAssumption == Batches \subseteq Nat
ASSUME BoundsAssumption == MaxCycle \in Nat /\ MaxArrived \in [Layers -> Nat]

VARIABLES
  layers,     \* the stores behind the mutex
  published,  \* is_playing and current_cycle behind the mutex
  playing,    \* the scheduler's own is_playing
  cycle,      \* the scheduler's own cycle
  realized,   \* realized_up_to_cycle: cycles below it are in the queue
  parallel    \* whether a parallel runtime is engaged

layerVars == <<layers, published, playing, cycle, realized, parallel>>

Event == [id : Nat, cycle : Nat, seq : Nat]
Store == [events : SUBSET Event, arrived : Nat, next_sequence : Nat, version : Nat]

EmptyStore == [events |-> {}, arrived |-> 0, next_sequence |-> 0, version |-> 0]

(************************************************************************** *)
(* LayerStore operations                                                   *)
(************************************************************************** *)

\* Mutant of Newest: trim pops at the wrong end.
NewestEvicted(events, cap) ==
  {e \in events : Cardinality({f \in events : f.id <= e.id}) <= cap}

\* trim: what is left once the oldest events past the capacity are evicted.
Newest(events, cap) ==
  {e \in events : Cardinality({f \in events : f.id >= e.id}) <= cap}

\* The n events of cycle c a caller appends, unstamped (sequence 0).
Plain(s, n, c) == {[id |-> s.arrived + k, cycle |-> c, seq |-> 0] : k \in 1 .. n}

\* The same with a sequence number taken for each (take_sequence).
Stamped(s, n, c) ==
  {[id |-> s.arrived + k, cycle |-> c, seq |-> s.next_sequence + k] : k \in 1 .. n}

\* record: append a batch, evict, one version step if contents changed.
Record(s, new, n, cap) ==
  LET all == s.events \cup new IN
  [events |-> Newest(all, cap),
   arrived |-> s.arrived + n,
   next_sequence |-> s.next_sequence,
   version |-> IF n > 0 \/ Cardinality(all) > cap THEN s.version + 1
               ELSE s.version]

\* record_conflict_decisions: n times take_sequence and push, and push
\* always steps the version.
PushStamped(s, n, c, cap) ==
  [events |-> Newest(s.events \cup Stamped(s, n, c), cap),
   arrived |-> s.arrived + n,
   next_sequence |-> s.next_sequence + n,
   version |-> s.version + n]

\* Mutant of Clear: the version stays.
ClearUnversioned(s) ==
  [events |-> {}, arrived |-> s.arrived, next_sequence |-> 0, version |-> s.version]

\* clear: restart the sequence, step the version only if it had events.
Clear(s) ==
  [events |-> {},
   arrived |-> s.arrived,
   next_sequence |-> 0,
   version |-> IF s.events # {} THEN s.version + 1 ELSE s.version]

\* retain_window on a CycleWindow store: RETAIN_CYCLES_BEHIND is 1 and
\* RETAIN_CYCLES_AHEAD is 2.
InWindow(e, current) == e.cycle + 1 >= current /\ e.cycle <= current + 2

\* Mutant of Retain: pruning steps the version only when nothing is left.
RetainUnversioned(s, current) ==
  LET kept == {e \in s.events : InWindow(e, current)} IN
  [events |-> kept,
   arrived |-> s.arrived,
   next_sequence |-> s.next_sequence,
   version |-> IF kept = {} /\ s.events # {} THEN s.version + 1 ELSE s.version]

Retain(s, current) ==
  LET kept == {e \in s.events : InWindow(e, current)} IN
  [events |-> kept,
   arrived |-> s.arrived,
   next_sequence |-> s.next_sequence,
   version |-> IF Cardinality(kept) # Cardinality(s.events) THEN s.version + 1
               ELSE s.version]

(************************************************************************** *)
(* PlaybackLayers operations over every store                              *)
(************************************************************************** *)

\* clear_realized: the debug logs are history and survive.
ClearRealized(ls) == [l \in Layers |-> IF l \in RealizedLayers THEN Clear(ls[l]) ELSE ls[l]]

\* retain_window: CapOnly stores never consult it.
RetainWindow(ls, current) ==
  [l \in Layers |-> IF l \in Overlays THEN Retain(ls[l], current) ELSE ls[l]]

\* record_cycle: batch[l] events of cycle c for each realized layer.
RecordCycle(ls, batch, c) ==
  [l \in Layers |->
     IF l \in Overlays \cup Recorded
       THEN Record(ls[l], Plain(ls[l], batch[l], c), batch[l], Cap[l])
     ELSE IF l \in Conflicts
       THEN PushStamped(ls[l], batch[l], c, Cap[l])
     ELSE ls[l]]

HasRoom(l, n) == layers[l].arrived + n <= MaxArrived[l]

-----------------------------------------------------------------------------
(************************************************************************** *)
(* The scheduler's critical sections                                       *)
(************************************************************************** *)

LayersInit ==
  /\ layers = [l \in Layers |-> EmptyStore]
  /\ published = [is_playing |-> FALSE, current_cycle |-> 0]
  /\ playing = FALSE
  /\ cycle = 0
  /\ realized = 0
  /\ parallel = FALSE

\* Play on a stopped transport restarts the run.
Play ==
  /\ ~playing
  /\ playing' = TRUE
  /\ cycle' = 0
  /\ realized' = 0
  /\ layers' = ClearRealized(layers)
  /\ UNCHANGED <<published, parallel>>

\* Stop clears what was realized.
Stop ==
  /\ playing
  /\ playing' = FALSE
  /\ layers' = ClearRealized(layers)
  /\ UNCHANGED <<published, cycle, realized, parallel>>

\* Resync, SetScore, SetRhythmPlayback, SetParallelPlayback and
\* SetSynthPrograms while playing: the queue and the realized layers restart
\* at the current cycle; the mode may change with the config.
Reapply(p) ==
  /\ playing
  /\ layers' = ClearRealized(layers)
  /\ realized' = cycle
  /\ parallel' = p
  /\ UNCHANGED <<published, playing, cycle>>

\* The clock moves into the next cycle.
AdvanceCycle ==
  /\ playing
  /\ cycle < MaxCycle
  /\ cycle' = cycle + 1
  /\ UNCHANGED <<layers, published, playing, realized, parallel>>

\* One cycle is realized, two ahead of the playhead at most.
RealizeCycle(batch) ==
  /\ playing
  /\ realized < cycle + 2
  /\ \A l \in RealizedLayers : HasRoom(l, batch[l])
  /\ layers' = RecordCycle(layers, batch, realized)
  /\ realized' = realized + 1
  /\ UNCHANGED <<published, playing, cycle, parallel>>

\* A dispatched or released MIDI message, or an automation change, is logged.
LogDebug(l) ==
  /\ HasRoom(l, 1)
  /\ layers' = [layers EXCEPT ![l] = PushStamped(@, 1, cycle, Cap[l])]
  /\ UNCHANGED <<published, playing, cycle, realized, parallel>>

\* End of a loop iteration: the scalars are published, and single-track
\* playback prunes the overlay layers in the same critical section.
Publish ==
  /\ published' = [is_playing |-> playing,
                   current_cycle |-> IF playing THEN cycle
                                     ELSE published.current_cycle]
  /\ layers' = IF playing /\ ~parallel THEN RetainWindow(layers, cycle)
               ELSE layers
  /\ UNCHANGED <<playing, cycle, realized, parallel>>

LayersNext ==
  \/ Play
  \/ Stop
  \/ \E p \in BOOLEAN : Reapply(p)
  \/ AdvanceCycle
  \/ \E batch \in [RealizedLayers -> Batches] : RealizeCycle(batch)
  \/ \E l \in DebugLogs : LogDebug(l)
  \/ Publish

LayersSpec == LayersInit /\ [][LayersNext]_layerVars

(************************************************************************** *)
(* Properties                                                              *)
(************************************************************************** *)

LayersTypeOK ==
  /\ layers \in [Layers -> Store]
  /\ \A l \in Layers : IsFiniteSet(layers[l].events)
  /\ published \in [is_playing : BOOLEAN, current_cycle : Nat]
  /\ playing \in BOOLEAN /\ parallel \in BOOLEAN
  /\ cycle \in Nat /\ realized \in Nat

\* Whatever mixture of batches, pushes, clears and window pruning the
\* scheduler performs, no store ever holds more than its capacity
\* (LayerStore::trim runs inside record and push).
WithinCapacity == \A l \in Layers : Cardinality(layers[l].events) <= Cap[l]

\* A layer never has a hole: what is visible is the newest run of arrivals
\* since the last clear.  Eviction takes the oldest and the cycle window,
\* although it prunes by cycle and not by age, takes a prefix as well.
Unbroken ==
  \A l \in Layers : \A e \in layers[l].events : \A k \in e.id .. layers[l].arrived :
    \E f \in layers[l].events : f.id = k

\* The sequence numbers a stamped layer shows follow the order of arrival and
\* never repeat, although a clear restarts the counter (LayerStore::clear,
\* take_sequence).
SequenceFollowsArrival ==
  \A l \in Conflicts \cup DebugLogs : \A e, f \in layers[l].events :
    e.id < f.id => e.seq < f.seq

\* Neither a hole in what a layer shows nor a false order of it.
NoHoles == Unbroken /\ SequenceFollowsArrival

\* The version of a layer moves exactly when its visible contents move, and
\* never backwards, whichever operation changed them: this is what lets the
\* sampler compare versions instead of contents.
VersionTellsContents ==
  [][\A l \in Layers :
       /\ layers'[l].version >= layers[l].version
       /\ layers'[l].version > layers[l].version <=>
            layers'[l].events # layers[l].events]_layerVars
=============================================================================
