--------------------------- MODULE TelemetryProofs ---------------------------
(************************************************************************** *)
(* Proofs about PlaybackLayers, TelemetryGate and Telemetry, each of which *)
(* extends the one before it, for every set of layers, capacity and bound. *)
(*                                                                         *)
(* Layers: a store never exceeds its capacity, its version moves exactly   *)
(* when its contents do, and what it keeps has no holes.                   *)
(* Gate: comparing digests of versions is as good as comparing contents.   *)
(* Stream: whatever order the channels deliver in, the playhead moves over *)
(* the grid its position was read in.                                      *)
(************************************************************************** *)
EXTENDS Telemetry, FiniteSetTheorems, WellFoundedInduction, TLAPS

-----------------------------------------------------------------------------
(************************************************************************** *)
(* PlaybackLayers.  The inductive invariant says of each store that it is  *)
(* finite, that its arrival indices are below its counter, and that it is  *)
(* trimmed: what eviction left, eviction would leave again.  NoHoles takes *)
(* (HolesInv) that a store holds every arrival from its oldest on, and that*)
(* cycles and sequence numbers follow the arrivals.                        *)
(************************************************************************** *)

Trimmed(events, cap) ==
  \A e \in events : Cardinality({f \in events : f.id >= e.id}) <= cap

StoreOK(s, cap) ==
  /\ s \in Store
  /\ IsFiniteSet(s.events)
  /\ Trimmed(s.events, cap)
  /\ \A e \in s.events : e.id <= s.arrived

\* What any operation on a store has to do with its version.
Moves(s, t) ==
  /\ t.version >= s.version
  /\ t.version > s.version <=> t.events # s.events

LayersInv ==
  /\ LayersTypeOK
  /\ \A l \in Layers : StoreOK(layers[l], Cap[l])

-----------------------------------------------------------------------------
\* A non-empty finite set of events has an oldest one.
LEMMA Oldest ==
  ASSUME NEW events, events \subseteq Event, IsFiniteSet(events), events # {}
  PROVE  \E e \in events : \A f \in events : e.id <= f.id
<1> DEFINE older(e) == {f \in events : f.id < e.id}
           sets == {older(e) : e \in events}
<1>1. sets \subseteq FiniteSubsetsOf(events) /\ sets # {}
  <2>1. ASSUME NEW e \in events
        PROVE  older(e) \in SUBSET events /\ IsFiniteSet(older(e))
    BY FS_Subset
  <2> QED
    BY <2>1 DEF FiniteSubsetsOf
<1>2. PICK o \in sets : \A u \in sets : ~ (<<u, o>> \in StrictSubsetOrdering(events))
  BY <1>1, FS_StrictSubsetOrderingWellFounded, WFMin
<1>3. PICK e \in events : o = older(e)
  BY <1>2
<1>4. ASSUME NEW f \in events, f.id < e.id
      PROVE  FALSE
  <2>1. older(f) \subseteq older(e) /\ f \in older(e) /\ f \notin older(f)
    BY <1>4 DEF Event
  <2>2. <<older(f), o>> \in StrictSubsetOrdering(events)
    BY <2>1, <1>3, <1>1 DEF StrictSubsetOrdering
  <2> QED
    BY <2>2, <1>2
<1> QED
  BY <1>4 DEF Event

\* A trimmed store is within its capacity: its oldest event sees all of it.
LEMMA TrimmedFits ==
  ASSUME NEW cap \in Nat, NEW events, events \subseteq Event,
         IsFiniteSet(events), Trimmed(events, cap)
  PROVE  Cardinality(events) <= cap
<1>1. CASE events = {}
  BY <1>1, FS_EmptySet
<1>2. CASE events # {}
  <2>3. PICK e \in events : \A f \in events : e.id <= f.id
    BY <1>2, Oldest
  <2>4. {f \in events : f.id >= e.id} = events
    BY <2>3 DEF Event
  <2> QED
    BY <2>4 DEF Trimmed
<1> QED
  BY <1>1, <1>2

\* A subset of a trimmed set of events is trimmed.
LEMMA TrimmedSubset ==
  ASSUME NEW cap \in Nat, NEW events, IsFiniteSet(events), Trimmed(events, cap),
         NEW kept \in SUBSET events
  PROVE  Trimmed(kept, cap)
<1> SUFFICES ASSUME NEW e \in kept
             PROVE  Cardinality({f \in kept : f.id >= e.id}) <= cap
  BY DEF Trimmed
<1> DEFINE seen == {f \in events : f.id >= e.id}
           left == {f \in kept : f.id >= e.id}
<1>1. IsFiniteSet(seen) /\ Cardinality(seen) <= cap
  BY FS_Subset DEF Trimmed
<1>2. left \in SUBSET seen
  OBVIOUS
<1>3. Cardinality(left) <= Cardinality(seen) /\ IsFiniteSet(left)
  BY <1>1, <1>2, FS_Subset
<1> QED
  BY <1>1, <1>3, FS_CardinalityType

\* Eviction leaves a trimmed set.
LEMMA NewestTrims ==
  ASSUME NEW cap \in Nat, NEW events, IsFiniteSet(events)
  PROVE  /\ Newest(events, cap) \in SUBSET events
         /\ IsFiniteSet(Newest(events, cap))
         /\ Trimmed(Newest(events, cap), cap)
<1> DEFINE left == Newest(events, cap)
<1>1. left \in SUBSET events /\ IsFiniteSet(left)
  BY FS_Subset DEF Newest
<1>2. ASSUME NEW e \in left
      PROVE  Cardinality({f \in left : f.id >= e.id}) <= cap
  <2> DEFINE all == {f \in events : f.id >= e.id}
             some == {f \in left : f.id >= e.id}
  <2>1. Cardinality(all) <= cap
    BY <1>2 DEF Newest
  <2>2. IsFiniteSet(all) /\ some \in SUBSET all
    BY <1>1, FS_Subset
  <2>3. IsFiniteSet(some) /\ Cardinality(some) <= Cardinality(all)
    BY <2>2, FS_Subset
  <2> QED
    BY <2>1, <2>2, <2>3, FS_CardinalityType
<1> QED
  BY <1>1, <1>2 DEF Trimmed

\* Eviction leaves a trimmed set alone.
LEMMA NewestOfTrimmed ==
  ASSUME NEW cap, NEW events, Trimmed(events, cap)
  PROVE  Newest(events, cap) = events
BY DEF Newest, Trimmed

-----------------------------------------------------------------------------
\* What each of the LayerStore operations does to a store.

LEMMA ClearStore ==
  ASSUME NEW cap \in Nat, NEW s, StoreOK(s, cap)
  PROVE  StoreOK(Clear(s), cap) /\ Moves(s, Clear(s))
<1>1. s \in Store /\ Clear(s) \in Store /\ Clear(s).events = {}
  BY DEF StoreOK, Store, Clear
<1>2. StoreOK(Clear(s), cap)
  BY <1>1, FS_EmptySet DEF StoreOK, Trimmed
<1>3. Moves(s, Clear(s))
  BY <1>1 DEF Moves, Clear, Store
<1> QED
  BY <1>2, <1>3

LEMMA RetainStore ==
  ASSUME NEW cap \in Nat, NEW s, StoreOK(s, cap), NEW current \in Nat
  PROVE  StoreOK(Retain(s, current), cap) /\ Moves(s, Retain(s, current))
<1> DEFINE kept == {e \in s.events : InWindow(e, current)}
           t == Retain(s, current)
<1>1. s \in Store /\ IsFiniteSet(s.events) /\ Trimmed(s.events, cap)
  BY DEF StoreOK
<1>2. /\ kept \in SUBSET s.events
      /\ IsFiniteSet(kept)
      /\ Cardinality(kept) # Cardinality(s.events) <=> kept # s.events
  BY <1>1, FS_Subset
<1>3. Trimmed(kept, cap)
  BY <1>1, <1>2, TrimmedSubset
<1>4. /\ t \in Store /\ t.events = kept /\ t.arrived = s.arrived
      /\ t.version = IF Cardinality(kept) # Cardinality(s.events)
                     THEN s.version + 1 ELSE s.version
  BY <1>1, <1>2 DEF Store, Retain
<1>5. StoreOK(t, cap)
  BY <1>2, <1>3, <1>4 DEF StoreOK
<1>6. Moves(s, t)
  BY <1>1, <1>2, <1>4 DEF Moves, Store
<1> QED
  BY <1>5, <1>6

\* A batch of n events that arrive after everything in the store, one at each
\* index, the newest of them at the new counter.
Fresh(s, new, n) ==
  /\ new \in SUBSET Event /\ IsFiniteSet(new)
  /\ \A e \in new : s.arrived < e.id /\ e.id <= s.arrived + n
  /\ \A e, f \in new : e.id = f.id => e = f
  /\ n > 0 => \E e \in new : e.id = s.arrived + n

LEMMA FreshBatches ==
  ASSUME NEW s \in Store, NEW n \in Nat, NEW c \in Nat
  PROVE  Fresh(s, Plain(s, n, c), n) /\ Fresh(s, Stamped(s, n, c), n)
<1>1. IsFiniteSet(1 .. n)
  BY FS_Interval
<1>2. IsFiniteSet(Plain(s, n, c))
  <2> DEFINE g == [k \in 1 .. n |-> [id |-> s.arrived + k, cycle |-> c, seq |-> 0]]
  <2>1. g \in Surjection(1 .. n, Plain(s, n, c))
    BY DEF Surjection, Plain
  <2> QED
    BY <1>1, <2>1, FS_Surjection
<1>3. IsFiniteSet(Stamped(s, n, c))
  <2> DEFINE g == [k \in 1 .. n |-> [id |-> s.arrived + k, cycle |-> c,
                                     seq |-> s.next_sequence + k]]
  <2>1. g \in Surjection(1 .. n, Stamped(s, n, c))
    BY DEF Surjection, Stamped
  <2> QED
    BY <1>1, <2>1, FS_Surjection
<1>4. s.arrived \in Nat /\ s.next_sequence \in Nat
  BY DEF Store
<1>5. n > 0 => n \in 1 .. n
  OBVIOUS
<1>6. Fresh(s, Plain(s, n, c), n)
  <2> DEFINE new == Plain(s, n, c)
  <2>1. \A e \in new : \E k \in 1 .. n :
          e = [id |-> s.arrived + k, cycle |-> c, seq |-> 0]
    BY DEF Plain
  <2>2. new \in SUBSET Event
    BY <1>4, <2>1 DEF Event
  <2>3. \A e \in new : s.arrived < e.id /\ e.id <= s.arrived + n
    BY <1>4, <2>1
  <2>4. \A e, f \in new : e.id = f.id => e = f
    BY <1>4, <2>1
  <2>5. ASSUME n > 0 PROVE \E e \in new : e.id = s.arrived + n
    <3> DEFINE last == [id |-> s.arrived + n, cycle |-> c, seq |-> 0]
    <3>1. last \in new
      BY <1>5, <2>5 DEF Plain
    <3> QED
      BY <3>1
  <2> QED
    BY <1>2, <2>2, <2>3, <2>4, <2>5 DEF Fresh
<1>7. Fresh(s, Stamped(s, n, c), n)
  <2> DEFINE new == Stamped(s, n, c)
  <2>1. \A e \in new : \E k \in 1 .. n :
          e = [id |-> s.arrived + k, cycle |-> c, seq |-> s.next_sequence + k]
    BY DEF Stamped
  <2>2. new \in SUBSET Event
    BY <1>4, <2>1 DEF Event
  <2>3. \A e \in new : s.arrived < e.id /\ e.id <= s.arrived + n
    BY <1>4, <2>1
  <2>4. \A e, f \in new : e.id = f.id => e = f
    BY <1>4, <2>1
  <2>5. ASSUME n > 0 PROVE \E e \in new : e.id = s.arrived + n
    <3> DEFINE last == [id |-> s.arrived + n, cycle |-> c, seq |-> s.next_sequence + n]
    <3>1. last \in new
      BY <1>5, <2>5 DEF Stamped
    <3> QED
      BY <3>1
  <2> QED
    BY <1>3, <2>2, <2>3, <2>4, <2>5 DEF Fresh
<1> QED
  BY <1>6, <1>7

\* Appending a fresh batch and evicting: the contents change exactly when the
\* batch is not empty.
LEMMA AppendBatch ==
  ASSUME NEW cap \in Nat \ {0}, NEW s, StoreOK(s, cap), NEW n \in Nat,
         NEW new, Fresh(s, new, n)
  PROVE  LET all == s.events \cup new
             left == Newest(all, cap) IN
         /\ left \in SUBSET Event
         /\ IsFiniteSet(left)
         /\ Trimmed(left, cap)
         /\ \A e \in left : e.id <= s.arrived + n
         /\ n > 0 <=> left # s.events
         /\ n = 0 => Cardinality(all) <= cap
<1> DEFINE all == s.events \cup new
           left == Newest(all, cap)
<1>1. /\ s \in Store /\ s.arrived \in Nat /\ s.events \subseteq Event
      /\ IsFiniteSet(s.events) /\ Trimmed(s.events, cap)
      /\ \A e \in s.events : e.id <= s.arrived
  BY DEF StoreOK, Store
<1>2. all \in SUBSET Event /\ IsFiniteSet(all)
  BY <1>1, FS_Union DEF Fresh
<1>3. left \in SUBSET all /\ IsFiniteSet(left) /\ Trimmed(left, cap)
  BY <1>2, NewestTrims
<1>4. \A e \in left : e.id <= s.arrived + n
  <2>1. \A e \in s.events : e.id \in Nat
    BY <1>1 DEF Event
  <2>2. \A e \in s.events : e.id <= s.arrived + n
    BY <1>1, <2>1
  <2>3. \A e \in new : e.id <= s.arrived + n
    BY DEF Fresh
  <2> QED
    BY <1>3, <2>2, <2>3
<1>5. ASSUME n = 0
      PROVE  left = s.events /\ Cardinality(all) <= cap
  <2>1. all = s.events
    BY <1>1, <1>5 DEF Fresh, Event
  <2> QED
    BY <1>1, <2>1, NewestOfTrimmed, TrimmedFits
<1>6. ASSUME n > 0
      PROVE  left # s.events
  <2>1. PICK e \in new : e.id = s.arrived + n
    BY <1>6 DEF Fresh
  <2>2. {f \in all : f.id >= e.id} = {e}
    BY <1>1, <1>6, <2>1 DEF Fresh, Event
  <2>3. Cardinality({e}) = 1
    BY FS_Singleton
  <2>4. e \in left
    BY <2>2, <2>3 DEF Newest
  <2>5. e \notin s.events
    BY <1>1, <1>6, <2>1
  <2> QED
    BY <2>4, <2>5
<1>7. n > 0 <=> left # s.events
  BY <1>5, <1>6
<1>8. left \in SUBSET Event
  BY <1>2, <1>3
<1> HIDE DEF left, all
<1>9. /\ left \in SUBSET Event /\ IsFiniteSet(left) /\ Trimmed(left, cap)
      /\ \A e \in left : e.id <= s.arrived + n
      /\ n > 0 <=> left # s.events
      /\ n = 0 => Cardinality(all) <= cap
  BY <1>3, <1>4, <1>5, <1>7, <1>8
<1> QED
  BY <1>9 DEF left, all

LEMMA RecordStore ==
  ASSUME NEW cap \in Nat \ {0}, NEW s, StoreOK(s, cap), NEW n \in Nat, NEW c \in Nat
  PROVE  LET t == Record(s, Plain(s, n, c), n, cap) IN StoreOK(t, cap) /\ Moves(s, t)
<1> DEFINE all == s.events \cup Plain(s, n, c)
           left == Newest(all, cap)
           t == Record(s, Plain(s, n, c), n, cap)
<1>1. s \in Store
  BY DEF StoreOK
<1>2. Fresh(s, Plain(s, n, c), n)
  BY <1>1, FreshBatches
<1>3. /\ left \in SUBSET Event /\ IsFiniteSet(left) /\ Trimmed(left, cap)
      /\ \A e \in left : e.id <= s.arrived + n
      /\ n > 0 <=> left # s.events
      /\ n = 0 => Cardinality(all) <= cap
  BY <1>2, AppendBatch
<1>4. IsFiniteSet(all)
  BY <1>2, FS_Union DEF StoreOK, Fresh
<1>5. /\ t \in Store /\ t.events = left /\ t.arrived = s.arrived + n
      /\ t.version = IF n > 0 \/ Cardinality(all) > cap
                     THEN s.version + 1 ELSE s.version
  <2>1. t = [events |-> left, arrived |-> s.arrived + n,
             next_sequence |-> s.next_sequence,
             version |-> IF n > 0 \/ Cardinality(all) > cap
                         THEN s.version + 1 ELSE s.version]
    BY DEF Record
  <2> HIDE DEF t, left, all
  <2> QED
    BY <1>1, <1>3, <2>1 DEF Store
<1>6. StoreOK(t, cap)
  BY <1>3, <1>5 DEF StoreOK
<1>7. Moves(s, t)
  BY <1>1, <1>3, <1>4, <1>5, FS_CardinalityType DEF Moves, Store
<1> QED
  BY <1>6, <1>7

LEMMA PushStore ==
  ASSUME NEW cap \in Nat \ {0}, NEW s, StoreOK(s, cap), NEW n \in Nat, NEW c \in Nat
  PROVE  LET t == PushStamped(s, n, c, cap) IN StoreOK(t, cap) /\ Moves(s, t)
<1> DEFINE left == Newest(s.events \cup Stamped(s, n, c), cap)
           t == PushStamped(s, n, c, cap)
<1>1. s \in Store
  BY DEF StoreOK
<1>2. Fresh(s, Stamped(s, n, c), n)
  BY <1>1, FreshBatches
<1>3. /\ left \in SUBSET Event /\ IsFiniteSet(left) /\ Trimmed(left, cap)
      /\ \A e \in left : e.id <= s.arrived + n
      /\ n > 0 <=> left # s.events
  BY <1>2, AppendBatch
<1>4. /\ t \in Store /\ t.events = left /\ t.arrived = s.arrived + n
      /\ t.version = s.version + n
  BY <1>1, <1>3 DEF PushStamped, Store
<1>5. StoreOK(t, cap)
  BY <1>3, <1>4 DEF StoreOK
<1>6. Moves(s, t)
  BY <1>1, <1>3, <1>4 DEF Moves, Store
<1> QED
  BY <1>5, <1>6

-----------------------------------------------------------------------------
\* The same for the operations on every store.

Kept == \A l \in Layers : StoreOK(layers'[l], Cap[l]) /\ Moves(layers[l], layers'[l])

LEMMA CapType == \A l \in Layers : Cap[l] \in Nat \ {0} /\ Cap[l] \in Nat
BY CapAssumption

LEMMA SameStore ==
  ASSUME NEW s, NEW cap, StoreOK(s, cap)
  PROVE  Moves(s, s)
BY DEF Moves, StoreOK, Store

LEMMA UnchangedKeeps ==
  ASSUME LayersInv, UNCHANGED layers
  PROVE  Kept
BY SameStore DEF Kept, LayersInv

LEMMA ClearRealizedKeeps ==
  ASSUME LayersInv, layers' = ClearRealized(layers)
  PROVE  Kept
<1> SUFFICES ASSUME NEW l \in Layers
             PROVE  StoreOK(layers'[l], Cap[l]) /\ Moves(layers[l], layers'[l])
  BY DEF Kept
<1>1. StoreOK(layers[l], Cap[l])
  BY DEF LayersInv
<1>2. layers'[l] = IF l \in RealizedLayers THEN Clear(layers[l]) ELSE layers[l]
  BY DEF ClearRealized
<1> QED
  BY <1>1, <1>2, ClearStore, SameStore, CapType

LEMMA RetainWindowKeeps ==
  ASSUME LayersInv, layers' = RetainWindow(layers, cycle)
  PROVE  Kept
<1> SUFFICES ASSUME NEW l \in Layers
             PROVE  StoreOK(layers'[l], Cap[l]) /\ Moves(layers[l], layers'[l])
  BY DEF Kept
<1>1. StoreOK(layers[l], Cap[l]) /\ cycle \in Nat
  BY DEF LayersInv, LayersTypeOK
<1>2. layers'[l] = IF l \in Overlays THEN Retain(layers[l], cycle) ELSE layers[l]
  BY DEF RetainWindow
<1> QED
  BY <1>1, <1>2, RetainStore, SameStore, CapType

LEMMA RecordCycleKeeps ==
  ASSUME LayersInv, NEW batch \in [RealizedLayers -> Batches],
         layers' = RecordCycle(layers, batch, realized)
  PROVE  Kept
<1> SUFFICES ASSUME NEW l \in Layers
             PROVE  StoreOK(layers'[l], Cap[l]) /\ Moves(layers[l], layers'[l])
  BY DEF Kept
<1>1. StoreOK(layers[l], Cap[l]) /\ realized \in Nat
  BY DEF LayersInv, LayersTypeOK
<1>2. CASE l \in Overlays \cup Recorded
  <2>1. batch[l] \in Nat
    BY <1>2, BatchesAssumption DEF RealizedLayers
  <2>2. layers'[l] = Record(layers[l], Plain(layers[l], batch[l], realized),
                            batch[l], Cap[l])
    BY <1>2 DEF RecordCycle
  <2> QED
    BY <1>1, <2>1, <2>2, RecordStore, CapType
<1>3. CASE l \in Conflicts /\ l \notin Overlays \cup Recorded
  <2>1. batch[l] \in Nat
    BY <1>3, BatchesAssumption DEF RealizedLayers
  <2>2. layers'[l] = PushStamped(layers[l], batch[l], realized, Cap[l])
    BY <1>3 DEF RecordCycle
  <2> QED
    BY <1>1, <2>1, <2>2, PushStore, CapType
<1>4. CASE l \notin Overlays \cup Recorded \cup Conflicts
  <2>1. layers'[l] = layers[l]
    BY <1>4 DEF RecordCycle
  <2> QED
    BY <1>1, <2>1, SameStore
<1> QED
  BY <1>2, <1>3, <1>4

LEMMA LogDebugKeeps ==
  ASSUME LayersInv, NEW d \in DebugLogs,
         layers' = [layers EXCEPT ![d] = PushStamped(@, 1, cycle, Cap[d])]
  PROVE  Kept
<1> SUFFICES ASSUME NEW l \in Layers
             PROVE  StoreOK(layers'[l], Cap[l]) /\ Moves(layers[l], layers'[l])
  BY DEF Kept
<1>1. StoreOK(layers[l], Cap[l]) /\ cycle \in Nat /\ layers \in [Layers -> Store]
  BY DEF LayersInv, LayersTypeOK
<1>2. layers'[l] = IF l = d THEN PushStamped(layers[l], 1, cycle, Cap[l]) ELSE layers[l]
  BY <1>1
<1> QED
  BY <1>1, <1>2, PushStore, SameStore, CapType

\* Every critical section keeps every store in order.
LEMMA StepKeeps ==
  ASSUME LayersInv, LayersNext
  PROVE  Kept
<1>1. CASE Play
  BY <1>1, ClearRealizedKeeps DEF Play
<1>2. CASE Stop
  BY <1>2, ClearRealizedKeeps DEF Stop
<1>3. CASE \E p \in BOOLEAN : Reapply(p)
  BY <1>3, ClearRealizedKeeps DEF Reapply
<1>4. CASE AdvanceCycle
  BY <1>4, UnchangedKeeps DEF AdvanceCycle
<1>5. CASE \E batch \in [RealizedLayers -> Batches] : RealizeCycle(batch)
  BY <1>5, RecordCycleKeeps DEF RealizeCycle
<1>6. CASE \E l \in DebugLogs : LogDebug(l)
  BY <1>6, LogDebugKeeps DEF LogDebug
<1>7. CASE Publish
  BY <1>7, RetainWindowKeeps, UnchangedKeeps DEF Publish
<1> QED
  BY <1>1, <1>2, <1>3, <1>4, <1>5, <1>6, <1>7 DEF LayersNext

LEMMA LayersInitInv == LayersInit => LayersInv
<1> SUFFICES ASSUME LayersInit PROVE LayersInv
  OBVIOUS
<1>1. EmptyStore \in Store /\ IsFiniteSet(EmptyStore.events) /\ EmptyStore.events = {}
  BY FS_EmptySet DEF EmptyStore, Store
<1>2. \A cap : StoreOK(EmptyStore, cap)
  BY <1>1 DEF StoreOK, Trimmed
<1> QED
  BY <1>1, <1>2 DEF LayersInit, LayersInv, LayersTypeOK

LEMMA LayersStep == LayersInv /\ [LayersNext]_layerVars => LayersInv'
<1> SUFFICES ASSUME LayersInv, [LayersNext]_layerVars PROVE LayersInv'
  OBVIOUS
<1>1. Kept
  BY StepKeeps, UnchangedKeeps DEF layerVars
<1>2. \E g : layers' = [l \in Layers |-> g[l]]
  <2>1. CASE LayersNext
    <3>1. layers \in [Layers -> Store]
      BY DEF LayersInv, LayersTypeOK
    <3> QED
      BY <2>1, <3>1
      DEF LayersNext, Play, Stop, Reapply, AdvanceCycle, RealizeCycle, LogDebug,
          Publish, ClearRealized, RetainWindow, RecordCycle
  <2>2. CASE UNCHANGED layerVars
    BY <2>2 DEF layerVars, LayersInv, LayersTypeOK
  <2> QED
    BY <2>1, <2>2
<1>3. layers' \in [Layers -> Store] /\ \A l \in Layers : IsFiniteSet(layers'[l].events)
  BY <1>1, <1>2 DEF Kept, StoreOK
<1> DEFINE rest == /\ published \in [is_playing : BOOLEAN, current_cycle : Nat]
                   /\ playing \in BOOLEAN /\ parallel \in BOOLEAN
                   /\ cycle \in Nat /\ realized \in Nat
<1>4. rest'
  <2>0. rest
    BY DEF LayersInv, LayersTypeOK
  <2>1. CASE Play
    BY <2>0, <2>1 DEF Play
  <2>2. CASE Stop
    BY <2>0, <2>2 DEF Stop
  <2>3. ASSUME NEW p \in BOOLEAN, Reapply(p) PROVE rest'
    BY <2>0, <2>3 DEF Reapply
  <2>4. CASE AdvanceCycle
    BY <2>0, <2>4 DEF AdvanceCycle
  <2>5. ASSUME NEW batch \in [RealizedLayers -> Batches], RealizeCycle(batch)
        PROVE  rest'
    BY <2>0, <2>5 DEF RealizeCycle
  <2>6. ASSUME NEW l \in DebugLogs, LogDebug(l) PROVE rest'
    BY <2>0, <2>6 DEF LogDebug
  <2>7. CASE Publish
    BY <2>0, <2>7 DEF Publish
  <2>8. CASE UNCHANGED layerVars
    BY <2>0, <2>8 DEF layerVars
  <2> QED
    BY <2>1, <2>2, <2>3, <2>4, <2>5, <2>6, <2>7, <2>8 DEF LayersNext
<1> QED
  BY <1>1, <1>3, <1>4 DEF Kept, LayersInv, LayersTypeOK

\* The inductive invariant holds throughout.
THEOREM LayersInvariant == LayersSpec => []LayersInv
BY LayersInitInv, LayersStep, PTL DEF LayersSpec

\* Type correctness of the layers.
THEOREM LayersType == LayersSpec => []LayersTypeOK
<1>1. LayersInv => LayersTypeOK
  BY DEF LayersInv
<1> QED
  BY <1>1, LayersInvariant, PTL

\* No store ever exceeds its capacity, for every capacity and batch size.
THEOREM LayersWithinCapacity == LayersSpec => []WithinCapacity
<1>1. LayersInv => WithinCapacity
  BY TrimmedFits, CapType DEF LayersInv, StoreOK, Store, WithinCapacity
<1> QED
  BY <1>1, LayersInvariant, PTL

\* The version of a layer moves exactly when its contents do.
THEOREM VersionsTell == LayersSpec => VersionTellsContents
<1>1. LayersInv /\ [LayersNext]_layerVars =>
        [\A l \in Layers :
           /\ layers'[l].version >= layers[l].version
           /\ layers'[l].version > layers[l].version <=>
                layers'[l].events # layers[l].events]_layerVars
  BY StepKeeps DEF Kept, Moves
<1> QED
  BY <1>1, LayersInvariant, PTL DEF LayersSpec, VersionTellsContents

-----------------------------------------------------------------------------
\* No holes.  Eviction takes the oldest events, so that what it leaves is a
\* run of arrivals.  The cycle window does not look at the age of an event:
\* that it takes a prefix too needs the cycles of an overlay layer to follow
\* the arrivals and to stay below realized, which stays within two cycles of
\* the playhead.

\* The events are all the arrivals from the oldest of them to the last.
Whole(events, last) ==
  \A e \in events : \A k \in e.id .. last : \E f \in events : f.id = k

\* Sequence numbers follow the arrivals, up to the counter.
Sequenced(events, counter) ==
  /\ \A e \in events : e.seq <= counter
  /\ \A e, f \in events : e.id < f.id => e.seq < f.seq

\* Cycles follow the arrivals, below the next one to be realized.
Timed(events, next) ==
  /\ \A e \in events : e.cycle < next
  /\ \A e, f \in events : e.id <= f.id => e.cycle <= f.cycle

HolesInv ==
  /\ LayersInv
  /\ realized <= cycle + 2
  /\ \A l \in Layers : Whole(layers[l].events, layers[l].arrived)
  /\ \A l \in Overlays : Timed(layers[l].events, realized)
  /\ \A l \in Conflicts \cup DebugLogs :
       Sequenced(layers[l].events, layers[l].next_sequence)

LEMMA NewestWhole ==
  ASSUME NEW cap \in Nat, NEW events, events \subseteq Event, IsFiniteSet(events),
         NEW last \in Nat, Whole(events, last)
  PROVE  Whole(Newest(events, cap), last)
<1> SUFFICES ASSUME NEW e \in Newest(events, cap), NEW k \in e.id .. last
             PROVE  \E f \in Newest(events, cap) : f.id = k
  BY DEF Whole
<1> DEFINE from(e1) == {f \in events : f.id >= e1.id}
<1>1. e \in events /\ Cardinality(from(e)) <= cap
  BY DEF Newest
<1>2. PICK f \in events : f.id = k
  BY <1>1 DEF Whole
<1>3. from(f) \in SUBSET from(e) /\ IsFiniteSet(from(e))
  BY <1>1, <1>2, FS_Subset DEF Event
<1>4. Cardinality(from(f)) <= Cardinality(from(e)) /\ IsFiniteSet(from(f))
  BY <1>3, FS_Subset
<1>5. Cardinality(from(f)) <= cap
  BY <1>1, <1>3, <1>4, FS_CardinalityType
<1> QED
  BY <1>2, <1>5 DEF Newest

\* A batch that arrives after everything else leaves no hole.
LEMMA BatchWhole ==
  ASSUME NEW cap \in Nat, NEW s, StoreOK(s, cap), Whole(s.events, s.arrived),
         NEW n \in Nat, NEW new, new \subseteq Event, IsFiniteSet(new),
         \A e \in new : s.arrived < e.id,
         \A k \in s.arrived + 1 .. s.arrived + n : \E f \in new : f.id = k
  PROVE  Whole(Newest(s.events \cup new, cap), s.arrived + n)
<1> DEFINE all == s.events \cup new
<1>1. s \in Store /\ s.arrived \in Nat /\ s.events \subseteq Event
  BY DEF StoreOK, Store
<1>2. all \subseteq Event /\ IsFiniteSet(all)
  BY <1>1, FS_Union DEF StoreOK
<1>3. Whole(all, s.arrived + n)
  <2> SUFFICES ASSUME NEW e \in all, NEW k \in e.id .. s.arrived + n
               PROVE  \E f \in all : f.id = k
    BY DEF Whole
  <2>1. e.id \in Nat
    BY <1>2 DEF Event
  <2>2. CASE k <= s.arrived
    <3>1. e \in s.events /\ k \in e.id .. s.arrived
      BY <1>1, <2>1, <2>2
    <3> QED
      BY <3>1 DEF Whole
  <2>3. CASE k > s.arrived
    <3>1. k \in s.arrived + 1 .. s.arrived + n
      BY <1>1, <2>1, <2>3
    <3> QED
      BY <3>1
  <2> QED
    BY <1>1, <2>1, <2>2, <2>3
<1> QED
  BY <1>1, <1>2, <1>3, NewestWhole

LEMMA RecordWhole ==
  ASSUME NEW cap \in Nat, NEW s, StoreOK(s, cap), Whole(s.events, s.arrived),
         NEW n \in Nat, NEW c \in Nat
  PROVE  LET t == Record(s, Plain(s, n, c), n, cap)
             u == PushStamped(s, n, c, cap) IN
         Whole(t.events, t.arrived) /\ Whole(u.events, u.arrived)
<1>1. s \in Store /\ s.arrived \in Nat /\ s.next_sequence \in Nat
  BY DEF StoreOK, Store
<1>2. Whole(Newest(s.events \cup Plain(s, n, c), cap), s.arrived + n)
  <2> DEFINE new == Plain(s, n, c)
  <2>1. new \subseteq Event /\ IsFiniteSet(new) /\ \A e \in new : s.arrived < e.id
    BY <1>1, FreshBatches DEF Fresh
  <2>2. ASSUME NEW k \in s.arrived + 1 .. s.arrived + n
        PROVE  \E f \in new : f.id = k
    <3> DEFINE f == [id |-> s.arrived + (k - s.arrived), cycle |-> c, seq |-> 0]
    <3>1. k - s.arrived \in 1 .. n /\ f.id = k
      BY <1>1
    <3>2. f \in new
      BY <3>1 DEF Plain
    <3> QED
      BY <3>1, <3>2
  <2> HIDE DEF new
  <2>3. Whole(Newest(s.events \cup new, cap), s.arrived + n)
    BY <2>1, <2>2, BatchWhole
  <2> QED
    BY <2>3 DEF new
<1>3. Whole(Newest(s.events \cup Stamped(s, n, c), cap), s.arrived + n)
  <2> DEFINE new == Stamped(s, n, c)
  <2>1. new \subseteq Event /\ IsFiniteSet(new) /\ \A e \in new : s.arrived < e.id
    BY <1>1, FreshBatches DEF Fresh
  <2>2. ASSUME NEW k \in s.arrived + 1 .. s.arrived + n
        PROVE  \E f \in new : f.id = k
    <3> DEFINE f == [id |-> s.arrived + (k - s.arrived), cycle |-> c,
                     seq |-> s.next_sequence + (k - s.arrived)]
    <3>1. k - s.arrived \in 1 .. n /\ f.id = k
      BY <1>1
    <3>2. f \in new
      BY <3>1 DEF Stamped
    <3> QED
      BY <3>1, <3>2
  <2> HIDE DEF new
  <2>3. Whole(Newest(s.events \cup new, cap), s.arrived + n)
    BY <2>1, <2>2, BatchWhole
  <2> QED
    BY <2>3 DEF new
<1> QED
  BY <1>2, <1>3 DEF Record, PushStamped

LEMMA RecordTimed ==
  ASSUME NEW cap \in Nat, NEW s, StoreOK(s, cap), NEW n \in Nat, NEW c \in Nat,
         Timed(s.events, c)
  PROVE  Timed(Record(s, Plain(s, n, c), n, cap).events, c + 1)
<1> DEFINE all == s.events \cup Plain(s, n, c)
<1>1. /\ s \in Store /\ s.arrived \in Nat /\ s.events \subseteq Event
      /\ \A e \in s.events : e.id <= s.arrived
  BY DEF StoreOK, Store
<1>2. \A e \in Plain(s, n, c) : e \in Event /\ s.arrived < e.id /\ e.cycle = c
  <2>1. \A e \in Plain(s, n, c) : e \in Event /\ s.arrived < e.id
    BY <1>1, FreshBatches DEF Fresh
  <2>2. \A e \in Plain(s, n, c) : e.cycle = c
    BY DEF Plain
  <2> QED
    BY <2>1, <2>2
<1>3. \A e \in s.events : e.id \in Nat /\ e.cycle \in Nat
  BY <1>1 DEF Event
<1>4. \A e \in all : e.cycle < c + 1
  BY <1>2, <1>3 DEF Timed
<1>5. ASSUME NEW e \in all, NEW f \in all, e.id <= f.id
      PROVE  e.cycle <= f.cycle
  <2>1. CASE e \in s.events /\ f \in s.events
    BY <1>5, <2>1 DEF Timed
  <2>2. CASE f \notin s.events
    BY <1>2, <1>4, <2>2, <1>3
  <2>3. CASE f \in s.events /\ e \notin s.events
    <3>1. f.id <= s.arrived /\ s.arrived < e.id /\ e.id \in Nat
      BY <1>1, <1>2, <2>3 DEF Event
    <3> QED
      BY <1>1, <1>3, <1>5, <2>3, <3>1
  <2> QED
    BY <2>1, <2>2, <2>3
<1>6. Newest(all, cap) \subseteq all
  BY DEF Newest
<1> HIDE DEF all
<1>7. Timed(Newest(all, cap), c + 1)
  BY <1>4, <1>5, <1>6 DEF Timed
<1> QED
  BY <1>7 DEF Record, all

LEMMA PushSequenced ==
  ASSUME NEW cap \in Nat, NEW s, StoreOK(s, cap), NEW n \in Nat, NEW c \in Nat,
         Sequenced(s.events, s.next_sequence)
  PROVE  LET t == PushStamped(s, n, c, cap) IN Sequenced(t.events, t.next_sequence)
<1> DEFINE new == Stamped(s, n, c)
           all == s.events \cup new
<1>1. /\ s \in Store /\ s.arrived \in Nat /\ s.next_sequence \in Nat
      /\ \A e \in s.events : e.id <= s.arrived
      /\ \A e \in s.events : e.id \in Nat /\ e.seq \in Nat
  BY DEF StoreOK, Store, Event
<1>2. \A e \in new : \E k \in 1 .. n : e.id = s.arrived + k /\ e.seq = s.next_sequence + k
  BY DEF Stamped
<1>3. \A e \in all : e.seq <= s.next_sequence + n
  BY <1>1, <1>2 DEF Sequenced
<1>4. ASSUME NEW e \in all, NEW f \in all, e.id < f.id
      PROVE  e.seq < f.seq
  <2>1. CASE e \in s.events /\ f \in s.events
    BY <1>4, <2>1 DEF Sequenced
  <2>2. CASE e \in s.events /\ f \in new
    BY <1>1, <1>2, <2>2 DEF Sequenced
  <2>3. CASE e \in new /\ f \in s.events
    BY <1>1, <1>2, <1>4, <2>3
  <2>4. CASE e \in new /\ f \in new
    BY <1>1, <1>2, <1>4, <2>4
  <2> QED
    BY <2>1, <2>2, <2>3, <2>4
<1>5. Newest(all, cap) \subseteq all
  BY DEF Newest
<1> HIDE DEF all
<1>6. Sequenced(Newest(all, cap), s.next_sequence + n)
  BY <1>3, <1>4, <1>5 DEF Sequenced
<1> QED
  BY <1>6 DEF PushStamped, all

\* Pruning by cycle takes a prefix.
LEMMA RetainWhole ==
  ASSUME NEW cap \in Nat, NEW s, StoreOK(s, cap), Whole(s.events, s.arrived),
         NEW next \in Nat, NEW current \in Nat, Timed(s.events, next),
         next <= current + 2
  PROVE  LET t == Retain(s, current) IN
         Whole(t.events, t.arrived) /\ Timed(t.events, next)
<1> DEFINE kept == {e \in s.events : InWindow(e, current)}
<1>1. s \in Store /\ s.arrived \in Nat /\ \A e \in s.events : e.id \in Nat /\ e.cycle \in Nat
  BY DEF StoreOK, Store, Event
<1>2. ASSUME NEW e \in kept, NEW k \in e.id .. s.arrived
      PROVE  \E f \in kept : f.id = k
  <2>1. PICK f \in s.events : f.id = k
    BY DEF Whole
  <2>2. e.cycle <= f.cycle /\ f.cycle < next
    BY <1>1, <2>1 DEF Timed
  <2>3. InWindow(f, current)
    BY <1>1, <2>2 DEF InWindow
  <2> QED
    BY <2>1, <2>3
<1>3. Timed(kept, next)
  BY DEF Timed
<1> QED
  BY <1>2, <1>3 DEF Retain, Whole

-----------------------------------------------------------------------------

LEMMA EmptyHasNoHoles ==
  \A n : Whole({}, n) /\ Timed({}, n) /\ Sequenced({}, n)
BY DEF Whole, Timed, Sequenced

LEMMA HolesInit == LayersInit => HolesInv
<1> SUFFICES ASSUME LayersInit PROVE HolesInv
  OBVIOUS
<1>1. \A l \in Layers : layers[l].events = {}
  BY DEF LayersInit, EmptyStore
<1>2. Overlays \cup Conflicts \cup DebugLogs \subseteq Layers
  BY DEF Layers, RealizedLayers
<1>3. LayersInv /\ realized <= cycle + 2
  BY LayersInitInv DEF LayersInit
<1> QED
  BY <1>1, <1>2, <1>3, EmptyHasNoHoles DEF HolesInv

\* Clearing what was realized: only the debug logs keep events.
LEMMA ClearHasNoHoles ==
  ASSUME HolesInv, layers' = ClearRealized(layers)
  PROVE  /\ \A l \in Layers : Whole(layers'[l].events, layers'[l].arrived)
         /\ \A n : \A l \in Overlays : Timed(layers'[l].events, n)
         /\ \A l \in Conflicts \cup DebugLogs :
              Sequenced(layers'[l].events, layers'[l].next_sequence)
<1>1. \A l \in RealizedLayers : layers'[l].events = {}
  BY DEF ClearRealized, Clear, Layers
<1>2. \A l \in DebugLogs : layers'[l] = layers[l]
  BY LayersAssumption DEF ClearRealized, Layers
<1> QED
  BY <1>1, <1>2, EmptyHasNoHoles DEF HolesInv, Layers, RealizedLayers

LEMMA HolesStep == HolesInv /\ [LayersNext]_layerVars => HolesInv'
<1> SUFFICES ASSUME HolesInv, [LayersNext]_layerVars PROVE HolesInv'
  OBVIOUS
<1>0. /\ LayersInv /\ LayersInv'
      /\ \A l \in Layers : StoreOK(layers[l], Cap[l]) /\ Cap[l] \in Nat
      /\ cycle \in Nat /\ realized \in Nat /\ layers \in [Layers -> Store]
      /\ Overlays \cup Conflicts \cup DebugLogs \subseteq Layers
  BY LayersStep, CapType DEF HolesInv, LayersInv, LayersTypeOK, Layers, RealizedLayers
<1>1. CASE Play
  BY <1>0, <1>1, ClearHasNoHoles DEF Play, HolesInv
<1>2. CASE Stop
  BY <1>0, <1>2, ClearHasNoHoles DEF Stop, HolesInv
<1>3. ASSUME NEW p \in BOOLEAN, Reapply(p) PROVE HolesInv'
  BY <1>0, <1>3, ClearHasNoHoles DEF Reapply, HolesInv
<1>4. CASE AdvanceCycle
  BY <1>0, <1>4 DEF AdvanceCycle, HolesInv
<1>5. ASSUME NEW batch \in [RealizedLayers -> Batches], RealizeCycle(batch)
      PROVE  HolesInv'
  <2>1. /\ layers' = RecordCycle(layers, batch, realized)
        /\ realized' = realized + 1 /\ cycle' = cycle
        /\ realized < cycle + 2
    BY <1>5 DEF RealizeCycle
  <2>2. \A l \in RealizedLayers : batch[l] \in Nat
    BY BatchesAssumption
  <2>3. \A l \in Overlays \cup Recorded :
          layers'[l] = Record(layers[l], Plain(layers[l], batch[l], realized),
                              batch[l], Cap[l])
    BY <2>1 DEF RecordCycle, Layers, RealizedLayers
  <2>4. \A l \in Conflicts :
          layers'[l] = PushStamped(layers[l], batch[l], realized, Cap[l])
    BY <2>1, LayersAssumption DEF RecordCycle, Layers, RealizedLayers
  <2>5. \A l \in DebugLogs : layers'[l] = layers[l]
    BY <2>1, LayersAssumption DEF RecordCycle, Layers, RealizedLayers
  <2>6. ASSUME NEW l \in Layers
        PROVE  Whole(layers'[l].events, layers'[l].arrived)
    <3>1. Whole(layers[l].events, layers[l].arrived)
      BY DEF HolesInv
    <3>2. CASE l \in RealizedLayers
      BY <1>0, <2>2, <2>3, <2>4, <3>1, <3>2, RecordWhole DEF RealizedLayers
    <3>3. CASE l \in DebugLogs
      BY <2>5, <3>1, <3>3
    <3> QED
      BY <3>2, <3>3 DEF Layers
  <2>7. ASSUME NEW l \in Overlays
        PROVE  Timed(layers'[l].events, realized')
    <3>1. Timed(layers[l].events, realized) /\ l \in Layers /\ l \in RealizedLayers
      BY <1>0 DEF HolesInv, RealizedLayers
    <3> QED
      BY <1>0, <2>1, <2>2, <2>3, <3>1, RecordTimed
  <2>8. ASSUME NEW l \in Conflicts \cup DebugLogs
        PROVE  Sequenced(layers'[l].events, layers'[l].next_sequence)
    <3>1. Sequenced(layers[l].events, layers[l].next_sequence) /\ l \in Layers
      BY <1>0 DEF HolesInv
    <3>2. CASE l \in Conflicts
      BY <1>0, <2>2, <2>4, <3>1, <3>2, PushSequenced DEF RealizedLayers
    <3>3. CASE l \in DebugLogs
      BY <2>5, <3>1, <3>3
    <3> QED
      BY <3>2, <3>3
  <2> QED
    BY <1>0, <2>1, <2>6, <2>7, <2>8 DEF HolesInv
<1>6. ASSUME NEW d \in DebugLogs, LogDebug(d)
      PROVE  HolesInv'
  <2>1. /\ layers'[d] = PushStamped(layers[d], 1, cycle, Cap[d])
        /\ \A l \in Layers \ {d} : layers'[l] = layers[l]
        /\ cycle' = cycle /\ realized' = realized
    BY <1>0, <1>6 DEF LogDebug
  <2>2. Whole(layers'[d].events, layers'[d].arrived)
    BY <1>0, <2>1, RecordWhole DEF HolesInv
  <2>3. Sequenced(layers'[d].events, layers'[d].next_sequence)
    BY <1>0, <2>1, PushSequenced DEF HolesInv
  <2>4. d \notin Overlays
    BY LayersAssumption DEF RealizedLayers
  <2> QED
    BY <1>0, <2>1, <2>2, <2>3, <2>4 DEF HolesInv
<1>7. CASE Publish
  <2>1. cycle' = cycle /\ realized' = realized
    BY <1>7 DEF Publish
  <2>2. CASE layers' = layers
    BY <1>0, <2>1, <2>2 DEF HolesInv
  <2>3. CASE layers' = RetainWindow(layers, cycle)
    <3>1. \A l \in Overlays : layers'[l] = Retain(layers[l], cycle)
      BY <2>3 DEF RetainWindow, Layers, RealizedLayers
    <3>2. \A l \in Layers \ Overlays : layers'[l] = layers[l]
      BY <2>3 DEF RetainWindow
    <3>3. ASSUME NEW l \in Overlays
          PROVE  /\ Whole(layers'[l].events, layers'[l].arrived)
                 /\ Timed(layers'[l].events, realized)
      BY <1>0, <3>1, RetainWhole DEF HolesInv
    <3>4. (Conflicts \cup DebugLogs) \cap Overlays = {}
      BY LayersAssumption DEF RealizedLayers
    <3> QED
      BY <1>0, <2>1, <3>2, <3>3, <3>4 DEF HolesInv
  <2> QED
    BY <1>7, <2>2, <2>3 DEF Publish
<1>8. CASE UNCHANGED layerVars
  BY <1>0, <1>8 DEF layerVars, HolesInv
<1> QED
  BY <1>1, <1>2, <1>3, <1>4, <1>5, <1>6, <1>7, <1>8 DEF LayersNext

\* What a layer shows is a run of arrivals in the order of its sequence
\* numbers, for any capacities, batches and window.
THEOREM LayersNoHoles == LayersSpec => []NoHoles
<1>1. HolesInv => NoHoles
  BY DEF HolesInv, NoHoles, Unbroken, SequenceFollowsArrival, Whole, Sequenced
<1> QED
  BY <1>1, HolesInit, HolesStep, PTL DEF LayersSpec

-----------------------------------------------------------------------------
(************************************************************************** *)
(* TelemetryGate.  The inductive invariant relates each remembered version to*)
(* the current one: it is never ahead, and if it is the same then what was *)
(* sent is what the layer holds.  That it is inductive rests on the version*)
(* discipline of the stores (StepKeeps).                                   *)
(************************************************************************** *)

\* A version remembered of a layer is worth what was sent of it.
Remembered(version, l) ==
  /\ version <= layers[l].version
  /\ version = layers[l].version => sent[l] = layers[l].events

GateInv ==
  /\ LayersInv
  /\ GateTypeOK
  /\ \A d \in telem.last_timeline : \A l \in Overlays : Remembered(d.versions[l], l)
  /\ \A d \in telem.last_log : \A l \in telem.log_interest : Remembered(d[l], l)

LEMMA InterestsAreLogs == \A interest \in Interests : interest \subseteq Logs
<1>1. Recorded \subseteq Logs
  BY LayersAssumption DEF Logs, Layers, RealizedLayers
<1> QED
  BY <1>1 DEF Interests

LEMMA OverlaysAreLayers == Overlays \subseteq Layers /\ Logs \subseteq Layers
BY DEF Layers, RealizedLayers, Logs

LEMMA DigestTypes ==
  ASSUME LayersInv, NEW interest
  PROVE  /\ TimelineDigest \in
              [published : [is_playing : BOOLEAN, current_cycle : Nat],
               versions : [Overlays -> Nat]]
         /\ LogDigest(interest) \in [Logs -> Nat]
<1>1. \A l \in Layers : layers[l].version \in Nat
  BY DEF LayersInv, LayersTypeOK, Store
<1>2. published \in [is_playing : BOOLEAN, current_cycle : Nat]
  BY DEF LayersInv, LayersTypeOK
<1> QED
  BY <1>1, <1>2, OverlaysAreLayers DEF TimelineDigest, LogDigest

LEMMA GateInitInv == Init => GateInv
<1> SUFFICES ASSUME Init PROVE GateInv
  OBVIOUS
<1>1. LayersInv
  BY LayersInitInv DEF Init
<1>2. telem \in TelemetryState /\ telem.last_timeline = {} /\ telem.last_log = {}
  BY DEF Init, GateInit, TelemetryState, Interests
<1>3. sent \in [Layers -> SUBSET Event]
  BY DEF Init, GateInit
<1> QED
  BY <1>1, <1>2, <1>3 DEF GateInv, GateTypeOK, LayersInv

\* The scheduler's writes: a layer that changed has a higher version.
LEMMA WriteKeepsRemembered ==
  ASSUME Kept, LayersInv, NEW l \in Layers, NEW version \in Nat,
         Remembered(version, l), sent' = sent
  PROVE  Remembered(version, l)'
<1>1. StoreOK(layers[l], Cap[l]) /\ StoreOK(layers'[l], Cap[l])
      /\ Moves(layers[l], layers'[l])
  BY DEF Kept, LayersInv
<1>2. layers[l].version \in Nat /\ layers'[l].version \in Nat
  BY <1>1 DEF StoreOK, Store
<1> QED
  BY <1>1, <1>2 DEF Remembered, Moves

LEMMA GateStep == GateInv /\ [GateNext]_vars => GateInv'
<1> SUFFICES ASSUME GateInv, [GateNext]_vars PROVE GateInv'
  OBVIOUS
<1> USE DEF GateInv
<1>0. /\ telem \in TelemetryState /\ sent \in [Layers -> SUBSET Event]
      /\ telem.log_interest \subseteq Logs
      /\ \A l \in Layers : layers[l].version \in Nat /\ layers[l].events \in SUBSET Event
  BY InterestsAreLogs DEF GateTypeOK, TelemetryState, LayersTypeOK, Store
<1>1. ASSUME LayersNext \/ UNCHANGED layerVars, UNCHANGED gateVars
      PROVE  GateInv'
  <2>1. LayersInv'
    BY <1>1, LayersStep
  <2>2. Kept
    BY <1>1, StepKeeps, UnchangedKeeps DEF layerVars
  <2>3. telem' = telem /\ sent' = sent
    BY <1>1 DEF gateVars
  <2>4. GateTypeOK'
    BY <1>0, <2>1, <2>3 DEF GateTypeOK, LayersInv
  <2>5. \A d \in telem.last_timeline : \A l \in Overlays : Remembered(d.versions[l], l)'
    <3> SUFFICES ASSUME NEW d \in telem.last_timeline, NEW l \in Overlays
                 PROVE  Remembered(d.versions[l], l)'
      OBVIOUS
    <3>1. d.versions[l] \in Nat
      BY <1>0 DEF TelemetryState
    <3> QED
      BY <2>2, <2>3, <3>1, WriteKeepsRemembered, OverlaysAreLayers
  <2>6. \A d \in telem.last_log : \A l \in telem.log_interest : Remembered(d[l], l)'
    <3> SUFFICES ASSUME NEW d \in telem.last_log, NEW l \in telem.log_interest
                 PROVE  Remembered(d[l], l)'
      OBVIOUS
    <3>1. d[l] \in Nat
      BY <1>0 DEF TelemetryState
    <3> QED
      BY <1>0, <2>2, <2>3, <3>1, WriteKeepsRemembered, OverlaysAreLayers
  <2> QED
    BY <2>1, <2>3, <2>4, <2>5, <2>6
<1>2. CASE Poll
  <2>1. layers' = layers /\ LayersInv' /\ LayersTypeOK'
    BY <1>2, LayersStep DEF Poll, layerVars, LayersInv
  <2>2. /\ TimelineDigest \in
              [published : [is_playing : BOOLEAN, current_cycle : Nat],
               versions : [Overlays -> Nat]]
        /\ LogDigest(telem.log_interest) \in [Logs -> Nat]
    BY DigestTypes
  <2>3. /\ telem' \in TelemetryState
        /\ telem'.log_interest = telem.log_interest
        /\ telem'.last_timeline = IF TimelineChanged THEN {TimelineDigest}
                                  ELSE telem.last_timeline
        /\ telem'.last_log = IF LogChanged THEN {LogDigest(telem.log_interest)}
                             ELSE telem.last_log
    BY <1>0, <1>2, <2>2 DEF Poll, TelemetryState
  <2>4. /\ sent' \in [Layers -> SUBSET Event]
        /\ \A l \in Layers : sent'[l] = sent[l] \/ sent'[l] = layers[l].events
        /\ TimelineChanged => \A l \in Overlays : sent'[l] = layers[l].events
        /\ LogChanged => \A l \in telem.log_interest : sent'[l] = layers[l].events
    BY <1>0, <1>2, OverlaysAreLayers DEF Poll
  <2>5. ASSUME NEW d \in telem'.last_timeline, NEW l \in Overlays
        PROVE  Remembered(d.versions[l], l)'
    <3>1. CASE TimelineChanged
      <4>1. d = TimelineDigest
        BY <2>3, <2>5, <3>1
      <4>2. d.versions[l] = layers[l].version
        BY <4>1 DEF TimelineDigest
      <4> QED
        BY <1>0, <2>1, <2>4, <3>1, <4>2, OverlaysAreLayers DEF Remembered
    <3>2. CASE ~ TimelineChanged
      BY <2>1, <2>3, <2>4, <2>5, <3>2, OverlaysAreLayers DEF Remembered
    <3> QED
      BY <3>1, <3>2
  <2>6. ASSUME NEW d \in telem'.last_log, NEW l \in telem.log_interest
        PROVE  Remembered(d[l], l)'
    <3>1. CASE LogChanged
      <4>1. d = LogDigest(telem.log_interest)
        BY <2>3, <2>6, <3>1
      <4>2. d[l] = layers[l].version
        BY <1>0, <4>1 DEF LogDigest
      <4> QED
        BY <1>0, <2>1, <2>4, <3>1, <4>2, OverlaysAreLayers DEF Remembered
    <3>2. CASE ~ LogChanged
      BY <1>0, <2>1, <2>3, <2>4, <2>6, <3>2, OverlaysAreLayers DEF Remembered
    <3> QED
      BY <3>1, <3>2
  <2> QED
    BY <2>1, <2>3, <2>4, <2>5, <2>6 DEF GateTypeOK
<1>3. ASSUME NEW interest \in Interests, SetInterest(interest)
      PROVE  GateInv'
  <2>1. layers' = layers /\ sent' = sent /\ LayersInv' /\ LayersTypeOK'
    BY <1>3, LayersStep DEF SetInterest, layerVars, LayersInv
  <2>2. /\ telem' \in TelemetryState
        /\ telem'.last_timeline = telem.last_timeline
        /\ telem'.last_log = {}
    BY <1>0, <1>3 DEF SetInterest, TelemetryState
  <2> QED
    BY <1>0, <2>1, <2>2 DEF GateTypeOK, Remembered
<1> QED
  BY <1>1, <1>2, <1>3 DEF GateNext, vars, layerVars, gateVars

\* The inductive invariant holds throughout.
THEOREM GateInvariant == Spec => []GateInv
BY GateInitInv, GateStep, PTL DEF Spec

\* Type correctness of layers, digests and payloads.
THEOREM GateType == Spec => []GateTypeOK
<1>1. GateInv => GateTypeOK
  BY DEF GateInv
<1> QED
  BY <1>1, GateInvariant, PTL

\* An equal timeline digest means the last payload is current (snapshot.rs).
THEOREM TimelineGate == Spec => []TimelineGateSound
<1>1. GateInv => TimelineGateSound
  BY DEF GateInv, TimelineGateSound, Remembered, TimelineDigest
<1> QED
  BY <1>1, GateInvariant, PTL

\* An equal log digest means every layer of the interest is current.
THEOREM LogGate == Spec => []LogGateSound
<1>1. GateInv => LogGateSound
  <2> SUFFICES ASSUME GateInv, telem.last_log = {LogDigest(telem.log_interest)},
                      NEW l \in telem.log_interest
               PROVE  sent[l] = layers[l].events
    BY DEF LogGateSound
  <2>1. l \in Logs
    BY InterestsAreLogs DEF GateInv, GateTypeOK, TelemetryState
  <2>2. LogDigest(telem.log_interest)[l] = layers[l].version
    BY <2>1 DEF LogDigest
  <2> QED
    BY <2>2 DEF GateInv, Remembered
<1> QED
  BY <1>1, GateInvariant, PTL

\* The emitter implements the safety part of a mirror of the timeline.
THEOREM EmitterMirrors == Spec => Timeline!SafeSpec
<1> DEFINE source == Contents(Overlays)
           mirror == [l \in Overlays |-> sent[l]]
<1>1. Init => Timeline!Init
  BY OverlaysAreLayers DEF Init, LayersInit, GateInit, Timeline!Init, Contents, EmptyStore
<1>2. GateInv /\ [GateNext]_vars => [Timeline!Next]_<<source, mirror>>
  <2> SUFFICES ASSUME GateInv, [GateNext]_vars
               PROVE  mirror' = mirror \/ (mirror' = source /\ source' = source)
    BY DEF Timeline!Next, Timeline!Write, Timeline!Poll
  <2>1. CASE sent' = sent
    BY <2>1
  <2>2. CASE Poll
    <3>1. layers' = layers /\ source' = source
      BY <2>2 DEF Poll, layerVars, Contents
    <3>2. CASE TimelineChanged
      BY <2>2, <3>1, <3>2, OverlaysAreLayers DEF Poll, Contents
    <3>3. CASE ~ TimelineChanged
      <4>1. \A l \in Overlays : sent'[l] = sent[l]
        BY <2>2, <3>3, OverlaysAreLayers, InterestsAreLogs
        DEF Poll, Logs, GateInv, GateTypeOK, TelemetryState
      <4> QED
        BY <4>1
    <3> QED
      BY <3>2, <3>3
  <2> QED
    BY <2>1, <2>2 DEF GateNext, SetInterest, vars, gateVars
<1> QED
  BY <1>1, <1>2, GateInvariant, PTL DEF Spec, Timeline!SafeSpec

-----------------------------------------------------------------------------
(************************************************************************** *)
(* Telemetry.  The inductive invariant says where epochs are: each is given*)
(* to one grid, which is under way on the event channel, in the answer of a*)
(* snapshot command, or promoted, and in one of these places only.         *)
(************************************************************************** *)

Clock == [is_playing : BOOLEAN, current_cycle : Nat]
Grid == [epoch : Nat, published : Clock, layers : [Overlays -> SUBSET Event]]
Positions == [epoch : Nat, published : Clock]

StreamTypeOK ==
  /\ TelemetryTypeOK
  /\ timelineCh \in Seq(Grid) /\ positionCh \in Seq(Positions)
  /\ answer \in [Callers -> SUBSET Grid]
  /\ ui \in [shown : [Overlays -> SUBSET Event], promoted : Nat,
             live : SUBSET Positions, pending : SUBSET Positions]

\* The events' epochs grow, and are of the emitter's counter.
EpochsGrow ==
  /\ \A m, n \in 1 .. Len(timelineCh) : m < n => timelineCh[m].epoch < timelineCh[n].epoch
  /\ \A m \in 1 .. Len(timelineCh) : timelineCh[m].epoch <= timeline_epoch

\* The answer that a caller's command has given and that is not accepted yet.
Given(c) == {a \in answer[c] : request[c] = "answered"}

\* An epoch is in one place.
EpochsApart ==
  /\ \A m \in 1 .. Len(timelineCh) : timelineCh[m].epoch # ui.promoted
  /\ ui.promoted <= timeline_epoch
  /\ \A c \in Callers : \A a, b \in answer[c] : a = b
  /\ \A c \in Callers : \A a \in Given(c) :
       /\ a.epoch <= timeline_epoch /\ a.epoch # ui.promoted
       /\ \A m \in 1 .. Len(timelineCh) : timelineCh[m].epoch # a.epoch
  /\ \A c, d \in Callers : c # d => \A a \in Given(c), b \in Given(d) : a.epoch # b.epoch

StreamInv ==
  /\ LayersInv /\ StreamTypeOK
  /\ EpochsGrow /\ EpochsApart
  /\ \A p \in ui.live : p.epoch = ui.promoted
  /\ \A p \in ui.pending : p.epoch > ui.promoted
-----------------------------------------------------------------------------
(************************************************************************** *)
(* What is read and sent                                                   *)
(************************************************************************** *)

LEMMA ReadTypes ==
  ASSUME LayersInv
  PROVE  Contents(Overlays) \in [Overlays -> SUBSET Event] /\ published \in Clock
BY OverlaysAreLayers DEF LayersInv, LayersTypeOK, Store, Contents, Clock

LEMMA Appended ==
  ASSUME NEW S, NEW s \in Seq(S), NEW m \in S
  PROVE  /\ Append(s, m) \in Seq(S) /\ Len(Append(s, m)) = Len(s) + 1
         /\ \A n \in 1 .. Len(s) : Append(s, m)[n] = s[n]
         /\ Append(s, m)[Len(s) + 1] = m
OBVIOUS

LEMMA Taken ==
  ASSUME NEW S, NEW s \in Seq(S), s # <<>>
  PROVE  /\ Head(s) \in S /\ Head(s) = s[1] /\ 1 \in 1 .. Len(s)
         /\ Tail(s) \in Seq(S) /\ Len(Tail(s)) = Len(s) - 1
         /\ \A n \in 1 .. Len(Tail(s)) : n + 1 \in 1 .. Len(s) /\ Tail(s)[n] = s[n + 1]
OBVIOUS

LEMMA EpochTypes ==
  ASSUME StreamInv
  PROVE  /\ timelineCh \in Seq(Grid) /\ Len(timelineCh) \in Nat
         /\ timeline_epoch \in Nat /\ ui.promoted \in Nat
         /\ \A c \in Callers : \A a \in Given(c) : a.epoch \in Nat
         /\ \A m \in 1 .. Len(timelineCh) : timelineCh[m].epoch \in Nat
<1>1. /\ timelineCh \in Seq(Grid) /\ answer \in [Callers -> SUBSET Grid]
      /\ timeline_epoch \in Nat /\ ui.promoted \in Nat
  BY DEF StreamInv, StreamTypeOK, TelemetryTypeOK
<1>2. Len(timelineCh) \in Nat /\ \A m \in 1 .. Len(timelineCh) : timelineCh[m] \in Grid
  BY <1>1
<1>3. \A g \in Grid : g.epoch \in Nat
  BY DEF Grid
<1>4. \A c \in Callers : Given(c) \subseteq Grid
  BY <1>1 DEF Given
<1> QED
  BY <1>1, <1>2, <1>3, <1>4

\* A step of one caller's command leaves the other commands alone.
LEMMA OneCommand ==
  ASSUME StreamInv, NEW c \in Callers,
         request'[c] \in {"none", "asked", "read", "answered"}, answer'[c] \in SUBSET Grid,
         (answer'[c] # {}) = (request'[c] \in {"read", "answered"}),
         request' = [request EXCEPT ![c] = request'[c]],
         answer' = [answer EXCEPT ![c] = answer'[c]]
  PROVE  /\ request' \in [Callers -> {"none", "asked", "read", "answered"}]
         /\ answer' \in [Callers -> SUBSET Grid]
         /\ \A d \in Callers : (answer'[d] # {}) = (request'[d] \in {"read", "answered"})
         /\ \A d \in Callers : d # c => answer'[d] = answer[d] /\ Given(d)' = Given(d)
<1>1. /\ request \in [Callers -> {"none", "asked", "read", "answered"}]
      /\ answer \in [Callers -> SUBSET Grid]
      /\ \A d \in Callers : (answer[d] # {}) = (request[d] \in {"read", "answered"})
  BY DEF StreamInv, StreamTypeOK, TelemetryTypeOK
<1>2. \A d \in Callers : d # c => request'[d] = request[d] /\ answer'[d] = answer[d]
  BY <1>1
<1>3. \A d \in Callers : (answer'[d] # {}) = (request'[d] \in {"read", "answered"})
  BY <1>1, <1>2
<1>4. /\ request' \in [Callers -> {"none", "asked", "read", "answered"}]
      /\ answer' \in [Callers -> SUBSET Grid]
  BY <1>1
<1> QED
  BY <1>2, <1>3, <1>4 DEF Given

\* A snapshot sent with a new epoch.
LEMMA SentGrows ==
  ASSUME StreamInv, NEW grid \in Grid, grid.epoch = timeline_epoch + 1,
         timeline_epoch' = timeline_epoch + 1,
         timelineCh' = Append(timelineCh, grid) \/ timelineCh' = timelineCh,
         UNCHANGED <<request, answer, ui>>
  PROVE  timelineCh' \in Seq(Grid) /\ EpochsGrow' /\ EpochsApart'
<1>0. /\ timelineCh \in Seq(Grid) /\ timeline_epoch \in Nat /\ ui.promoted \in Nat
      /\ \A c \in Callers : \A a \in Given(c) : a.epoch \in Nat
      /\ Len(timelineCh) \in Nat
      /\ \A m \in 1 .. Len(timelineCh) : timelineCh[m].epoch \in Nat
  BY EpochTypes
<1>3. \A c \in Callers : Given(c)' = Given(c)
  BY DEF Given
<1>1. CASE timelineCh' = timelineCh
  BY <1>0, <1>1, <1>3 DEF StreamInv, EpochsGrow, EpochsApart
<1>2. CASE timelineCh' = Append(timelineCh, grid)
  <2>1. /\ timelineCh' \in Seq(Grid) /\ Len(timelineCh') = Len(timelineCh) + 1
        /\ \A n \in 1 .. Len(timelineCh) : timelineCh'[n] = timelineCh[n]
        /\ timelineCh'[Len(timelineCh) + 1] = grid
    BY <1>0, <1>2, Appended
  <2>2. \A n \in 1 .. Len(timelineCh') : n \in 1 .. Len(timelineCh) \/ n = Len(timelineCh) + 1
    BY <1>0, <2>1
  <2>3. \A n \in 1 .. Len(timelineCh) : timelineCh[n].epoch <= timeline_epoch
    BY DEF StreamInv, EpochsGrow
  <2>4. EpochsGrow'
    <3>1. \A m \in 1 .. Len(timelineCh') : timelineCh'[m].epoch <= timeline_epoch'
      BY <1>0, <2>1, <2>2, <2>3
    <3>2. ASSUME NEW m \in 1 .. Len(timelineCh'), NEW n \in 1 .. Len(timelineCh'), m < n
          PROVE  timelineCh'[m].epoch < timelineCh'[n].epoch
      <4>1. m \in 1 .. Len(timelineCh)
        BY <1>0, <2>1, <3>2
      <4>2. CASE n \in 1 .. Len(timelineCh)
        BY <2>1, <3>2, <4>1, <4>2 DEF StreamInv, EpochsGrow
      <4>3. CASE n = Len(timelineCh) + 1
        BY <1>0, <2>1, <2>3, <4>1, <4>3
      <4> QED
        BY <2>2, <4>2, <4>3
    <3> QED
      BY <3>1, <3>2 DEF EpochsGrow
  <2>5. EpochsApart'
    BY <1>0, <1>3, <2>1, <2>2 DEF StreamInv, EpochsApart
  <2> QED
    BY <2>1, <2>4, <2>5
<1> QED
  BY <1>1, <1>2

\* A snapshot received.
LEMMA ReceivedGrows ==
  ASSUME StreamInv, timelineCh # <<>>, timelineCh' = Tail(timelineCh),
         ui'.promoted = Head(timelineCh).epoch,
         UNCHANGED <<timeline_epoch, request, answer>>
  PROVE  timelineCh' \in Seq(Grid) /\ EpochsGrow' /\ EpochsApart'
<1>0. /\ timelineCh \in Seq(Grid) /\ timeline_epoch \in Nat
      /\ Len(timelineCh) \in Nat
      /\ \A m \in 1 .. Len(timelineCh) : timelineCh[m].epoch \in Nat
  BY EpochTypes
<1>1. /\ Head(timelineCh) = timelineCh[1] /\ 1 \in 1 .. Len(timelineCh)
      /\ timelineCh' \in Seq(Grid) /\ Len(timelineCh') = Len(timelineCh) - 1
      /\ \A n \in 1 .. Len(timelineCh') :
           n + 1 \in 1 .. Len(timelineCh) /\ timelineCh'[n] = timelineCh[n + 1]
  BY <1>0, Taken
<1>2. EpochsGrow'
  <2>1. ASSUME NEW m \in 1 .. Len(timelineCh'), NEW n \in 1 .. Len(timelineCh'), m < n
        PROVE  timelineCh'[m].epoch < timelineCh'[n].epoch
    <3>1. m + 1 < n + 1
      BY <2>1, <1>1
    <3> QED
      BY <1>1, <3>1 DEF StreamInv, EpochsGrow
  <2> QED
    BY <1>1, <2>1 DEF StreamInv, EpochsGrow
<1>3. \A n \in 1 .. Len(timelineCh') : timelineCh'[n].epoch # ui'.promoted
  <2> SUFFICES ASSUME NEW n \in 1 .. Len(timelineCh')
               PROVE  timelineCh'[n].epoch # ui'.promoted
    OBVIOUS
  <2>1. 1 < n + 1
    BY <1>1
  <2>2. timelineCh[1].epoch < timelineCh[n + 1].epoch
    BY <1>1, <2>1 DEF StreamInv, EpochsGrow
  <2> QED
    BY <1>0, <1>1, <2>2
<1>4. ui'.promoted <= timeline_epoch
  BY <1>1 DEF StreamInv, EpochsGrow
<1>5. ASSUME NEW c \in Callers, NEW a \in Given(c)
      PROVE  /\ a.epoch # ui'.promoted
             /\ \A n \in 1 .. Len(timelineCh') : timelineCh'[n].epoch # a.epoch
  BY <1>1, <1>5 DEF StreamInv, EpochsApart
<1>6. \A c \in Callers : Given(c)' = Given(c)
  BY DEF Given
<1> QED
  BY <1>1, <1>2, <1>3, <1>4, <1>5, <1>6 DEF StreamInv, EpochsApart

-----------------------------------------------------------------------------
(************************************************************************** *)
(* Types                                                                   *)
(************************************************************************** *)

\* A step that leaves the layers and what the emitter remembers alone.
LEMMA SameGate ==
  ASSUME LayersInv, GateTypeOK, UNCHANGED vars
  PROVE  LayersInv' /\ GateTypeOK'
<1>1. LayersInv'
  BY LayersStep DEF vars, layerVars
<1> QED
  BY <1>1 DEF vars, GateTypeOK, LayersInv

LEMMA PollTypes ==
  ASSUME LayersInv, GateTypeOK, Poll
  PROVE  LayersInv' /\ GateTypeOK' /\ UNCHANGED layerVars
<1>1. UNCHANGED layerVars /\ LayersInv' /\ LayersTypeOK'
  BY LayersStep DEF Poll, LayersInv
<1>2. telem' \in TelemetryState
  BY DigestTypes DEF Poll, TelemetryState, GateTypeOK
<1>3. sent' \in [Layers -> SUBSET Event]
  BY DEF Poll, GateTypeOK, LayersInv, LayersTypeOK, Store
<1> QED
  BY <1>1, <1>2, <1>3 DEF GateTypeOK

LEMMA DigestsTypes ==
  ASSUME LayersInv, GateTypeOK, NEW c \in Callers, ReadDigests(c)
  PROVE  LayersInv' /\ GateTypeOK'
<1>1. LayersInv' /\ LayersTypeOK' /\ sent' = sent
  BY LayersStep DEF ReadDigests, LayersInv
<1>2. telem' \in TelemetryState
  BY DigestTypes DEF ReadDigests, TelemetryState, GateTypeOK
<1> QED
  BY <1>1, <1>2 DEF GateTypeOK

-----------------------------------------------------------------------------
(************************************************************************** *)
(* The invariant                                                           *)
(************************************************************************** *)

LEMMA StreamInit == TelemetryInit => StreamInv
<1> SUFFICES ASSUME TelemetryInit PROVE StreamInv
  OBVIOUS
<1>1. LayersInv /\ GateTypeOK
  BY GateInitInv DEF TelemetryInit, GateInv
<1>2. StreamTypeOK
  BY <1>1, StreamAssumption DEF TelemetryInit, StreamTypeOK, TelemetryTypeOK, Callers
<1> QED
  BY <1>1, <1>2 DEF TelemetryInit, StreamInv, EpochsGrow, EpochsApart, Given, Callers

LEMMA PollStep == StreamInv /\ EmitterPoll => StreamInv'
<1> SUFFICES ASSUME StreamInv, EmitterPoll PROVE StreamInv'
  OBVIOUS
<1>1. LayersInv' /\ GateTypeOK'
  BY PollTypes DEF EmitterPoll, StreamInv, StreamTypeOK, TelemetryTypeOK
<1>2. Contents(Overlays) \in [Overlays -> SUBSET Event] /\ published \in Clock
  BY ReadTypes DEF StreamInv
<1> DEFINE grid == [epoch |-> timeline_epoch + 1, published |-> published,
                    layers |-> Contents(Overlays)]
<1>3. grid \in Grid /\ grid.epoch = timeline_epoch + 1
  BY <1>2, EpochTypes DEF Grid
<1>4. /\ timeline_epoch' \in Nat
      /\ timeline_epoch' \in {timeline_epoch, timeline_epoch + 1}
  BY StreamAssumption DEF EmitterPoll, StreamInv, StreamTypeOK, TelemetryTypeOK
<1>5. timelineCh' \in Seq(Grid) /\ EpochsGrow' /\ EpochsApart'
  <2>1. CASE TimelineChanged
    <3>1. /\ timeline_epoch' = timeline_epoch + 1
          /\ timelineCh' = Append(timelineCh, grid) \/ timelineCh' = timelineCh
          /\ UNCHANGED <<request, answer, ui>>
      BY <2>1 DEF EmitterPoll, Emitted
    <3> HIDE DEF grid
    <3> QED
      BY <1>3, <3>1, SentGrows
  <2>2. CASE ~TimelineChanged
    <3>1. UNCHANGED <<timeline_epoch, timelineCh, request, answer, ui>>
      BY <2>2 DEF EmitterPoll
    <3> QED
      BY <3>1, EpochTypes DEF StreamInv, EpochsGrow, EpochsApart, Given
  <2> QED
    BY <2>1, <2>2
<1>6. positionCh' \in Seq(Positions)
  <2>1. timeline_epoch' \in Nat
    BY <1>4
  <2>2. Position(timeline_epoch') \in Positions
    BY <1>2, <2>1 DEF Position, Positions
  <2>3. positionCh \in Seq(Positions)
    BY DEF StreamInv, StreamTypeOK
  <2>4. positionCh' = Append(positionCh, Position(timeline_epoch')) \/ positionCh' = positionCh
    BY DEF EmitterPoll, Emitted
  <2> QED
    BY <2>2, <2>3, <2>4, Appended
<1>7. UNCHANGED <<request, answer, ui, listening>>
  BY DEF EmitterPoll
<1> QED
  BY <1>1, <1>4, <1>5, <1>6, <1>7 DEF StreamInv, StreamTypeOK, TelemetryTypeOK

LEMMA ReadSnapshotStep ==
  ASSUME StreamInv, NEW c \in Callers, ReadSnapshot(c)
  PROVE  StreamInv'
<1>1. LayersInv' /\ GateTypeOK'
  BY SameGate DEF ReadSnapshot, StreamInv, StreamTypeOK, TelemetryTypeOK
<1> DEFINE read == [published |-> published, layers |-> Contents(Overlays), epoch |-> 0]
<1>2. read \in Grid
  BY ReadTypes DEF Grid, StreamInv
<1> HIDE DEF read
<1>3. /\ request' = [request EXCEPT ![c] = "read"] /\ answer' = [answer EXCEPT ![c] = {read}]
      /\ UNCHANGED <<timeline_epoch, timelineCh, positionCh, ui, listening>>
  BY DEF ReadSnapshot, read
<1>4. /\ request' \in [Callers -> {"none", "asked", "read", "answered"}]
      /\ answer' \in [Callers -> SUBSET Grid]
      /\ \A d \in Callers : (answer'[d] # {}) = (request'[d] \in {"read", "answered"})
      /\ answer'[c] = {read} /\ Given(c)' = {}
      /\ \A d \in Callers : d # c => answer'[d] = answer[d] /\ Given(d)' = Given(d)
  <2>1. request'[c] = "read" /\ answer'[c] = {read}
    BY <1>2, <1>3 DEF StreamInv, StreamTypeOK, TelemetryTypeOK
  <2>2. /\ request'[c] \in {"none", "asked", "read", "answered"} /\ answer'[c] \in SUBSET Grid
        /\ (answer'[c] # {}) = (request'[c] \in {"read", "answered"})
    BY <2>1, <1>2, <1>3
  <2>3. /\ request' = [request EXCEPT ![c] = request'[c]]
        /\ answer' = [answer EXCEPT ![c] = answer'[c]]
    BY <2>1, <1>2, <1>3
  <2>4. /\ request' \in [Callers -> {"none", "asked", "read", "answered"}]
        /\ answer' \in [Callers -> SUBSET Grid]
        /\ \A d \in Callers : (answer'[d] # {}) = (request'[d] \in {"read", "answered"})
        /\ \A d \in Callers : d # c => answer'[d] = answer[d] /\ Given(d)' = Given(d)
    BY <2>2, <2>3, OneCommand
  <2>5. Given(c)' = {g \in {read} : "read" = "answered"}
    BY <2>1 DEF Given
  <2> QED
    BY <2>1, <2>4, <2>5
<1>5. StreamTypeOK'
  BY <1>1, <1>3, <1>4 DEF StreamInv, StreamTypeOK, TelemetryTypeOK
<1>6. EpochsGrow' /\ EpochsApart'
  BY <1>3, <1>4 DEF StreamInv, EpochsGrow, EpochsApart
<1> QED
  BY <1>1, <1>3, <1>5, <1>6 DEF StreamInv

LEMMA ReadDigestsStep ==
  ASSUME StreamInv, NEW c \in Callers, ReadDigests(c)
  PROVE  StreamInv'
<1>1. LayersInv' /\ GateTypeOK'
  BY DigestsTypes DEF StreamInv, StreamTypeOK, TelemetryTypeOK
<1>2. /\ timeline_epoch' = timeline_epoch + 1 /\ timeline_epoch' \in Nat
      /\ request' = [request EXCEPT ![c] = "answered"]
      /\ UNCHANGED <<timelineCh, positionCh, ui, listening>>
  BY DEF ReadDigests, StreamInv, StreamTypeOK, TelemetryTypeOK
<1>3. /\ answer \in [Callers -> SUBSET Grid] /\ answer[c] # {}
      /\ \A a, b \in answer[c] : a = b
  BY <1>2 DEF ReadDigests, StreamInv, StreamTypeOK, TelemetryTypeOK, EpochsApart
<1>4. PICK a \in Grid : answer[c] = {a}
  BY <1>3
<1> DEFINE final == [a EXCEPT !.epoch = timeline_epoch + 1]
<1>5. final \in Grid /\ final.epoch = timeline_epoch + 1
  BY <1>2, <1>4 DEF Grid
<1>6. answer' = [answer EXCEPT ![c] = {final}]
  BY <1>3, <1>4 DEF ReadDigests
<1> HIDE DEF final
<1>7. /\ request' \in [Callers -> {"none", "asked", "read", "answered"}]
      /\ answer' \in [Callers -> SUBSET Grid]
      /\ \A d \in Callers : (answer'[d] # {}) = (request'[d] \in {"read", "answered"})
      /\ answer'[c] = {final} /\ Given(c)' = {final}
      /\ \A d \in Callers : d # c => answer'[d] = answer[d] /\ Given(d)' = Given(d)
  <2>1. request'[c] = "answered" /\ answer'[c] = {final}
    BY <1>2, <1>5, <1>6 DEF StreamInv, StreamTypeOK, TelemetryTypeOK
  <2>2. /\ request'[c] \in {"none", "asked", "read", "answered"} /\ answer'[c] \in SUBSET Grid
        /\ (answer'[c] # {}) = (request'[c] \in {"read", "answered"})
    BY <2>1, <1>2, <1>5, <1>6
  <2>3. /\ request' = [request EXCEPT ![c] = request'[c]]
        /\ answer' = [answer EXCEPT ![c] = answer'[c]]
    BY <2>1, <1>2, <1>5, <1>6
  <2>4. /\ request' \in [Callers -> {"none", "asked", "read", "answered"}]
        /\ answer' \in [Callers -> SUBSET Grid]
        /\ \A d \in Callers : (answer'[d] # {}) = (request'[d] \in {"read", "answered"})
        /\ \A d \in Callers : d # c => answer'[d] = answer[d] /\ Given(d)' = Given(d)
    BY <2>2, <2>3, OneCommand
  <2>5. Given(c)' = {g \in {final} : "answered" = "answered"}
    BY <2>1 DEF Given
  <2> QED
    BY <2>1, <2>4, <2>5
<1>8. StreamTypeOK'
  BY <1>1, <1>2, <1>7 DEF StreamInv, StreamTypeOK, TelemetryTypeOK
<1>9. EpochsGrow' /\ EpochsApart'
  <2>1. /\ \A m \in 1 .. Len(timelineCh) : timelineCh[m].epoch < timeline_epoch + 1
        /\ ui.promoted < timeline_epoch + 1
        /\ \A d \in Callers : \A b \in Given(d) : b.epoch < timeline_epoch + 1
    BY EpochTypes DEF StreamInv, EpochsGrow, EpochsApart
  <2>2. EpochsGrow'
    BY <1>2, <2>1, EpochTypes DEF StreamInv, EpochsGrow
  <2>3. ASSUME NEW d \in Callers, NEW b \in Given(d)'
        PROVE  /\ b.epoch <= timeline_epoch' /\ b.epoch # ui'.promoted
               /\ \A m \in 1 .. Len(timelineCh') : timelineCh'[m].epoch # b.epoch
    <3>1. CASE d = c
      BY <1>2, <1>5, <1>7, <2>1, <2>3, <3>1, EpochTypes
    <3>2. CASE d # c
      BY <1>2, <1>7, <2>1, <2>3, <3>2, EpochTypes DEF StreamInv, EpochsApart
    <3> QED
      BY <3>1, <3>2
  <2>4. ASSUME NEW d \in Callers, NEW e \in Callers, d # e, NEW b \in Given(d)', NEW g \in Given(e)'
        PROVE  b.epoch # g.epoch
    <3>1. CASE d # c /\ e # c
      BY <1>7, <2>4, <3>1 DEF StreamInv, EpochsApart
    <3>2. CASE d = c \/ e = c
      BY <1>5, <1>7, <2>1, <2>4, <3>2, EpochTypes
    <3> QED
      BY <3>1, <3>2
  <2>5. \A d \in Callers : \A b, g \in answer'[d] : b = g
    BY <1>7 DEF StreamInv, EpochsApart
  <2>6. /\ \A m \in 1 .. Len(timelineCh') : timelineCh'[m].epoch # ui'.promoted
        /\ ui'.promoted <= timeline_epoch'
    BY <1>2, <2>1, EpochTypes DEF StreamInv, EpochsApart
  <2> QED
    BY <2>2, <2>3, <2>4, <2>5, <2>6 DEF EpochsApart
<1> QED
  BY <1>1, <1>2, <1>8, <1>9 DEF StreamInv

LEMMA AcceptSnapshotStep ==
  ASSUME StreamInv, NEW c \in Callers, AcceptSnapshot(c)
  PROVE  StreamInv'
<1>1. LayersInv' /\ GateTypeOK'
  BY SameGate DEF AcceptSnapshot, StreamInv, StreamTypeOK, TelemetryTypeOK
<1>2. PICK a \in Given(c) :
        ui' = [shown |-> a.layers, promoted |-> a.epoch,
               live |-> {[epoch |-> a.epoch, published |-> a.published]},
               pending |-> {}]
  BY DEF AcceptSnapshot, Given
<1>3. /\ request' = [request EXCEPT ![c] = "none"] /\ answer' = [answer EXCEPT ![c] = {}]
      /\ UNCHANGED <<timeline_epoch, timelineCh, positionCh, listening>>
  BY DEF AcceptSnapshot
<1>4. /\ a \in Grid /\ a.epoch <= timeline_epoch
      /\ \A m \in 1 .. Len(timelineCh) : timelineCh[m].epoch # a.epoch
      /\ \A d \in Callers : d # c => \A b \in Given(d) : b.epoch # a.epoch
  <2>1. a \in Grid
    BY <1>2 DEF StreamInv, StreamTypeOK, Given
  <2> QED
    BY <1>2, <2>1 DEF StreamInv, EpochsApart
<1>5. /\ ui' \in [shown : [Overlays -> SUBSET Event], promoted : Nat,
                  live : SUBSET Positions, pending : SUBSET Positions]
      /\ ui'.promoted \in Nat /\ ui'.promoted = a.epoch
      /\ ui'.pending = {} /\ \A p \in ui'.live : p.epoch = a.epoch
  BY <1>2, <1>4 DEF Grid, Positions
<1>6. /\ request' \in [Callers -> {"none", "asked", "read", "answered"}]
      /\ answer' \in [Callers -> SUBSET Grid]
      /\ \A d \in Callers : (answer'[d] # {}) = (request'[d] \in {"read", "answered"})
      /\ answer'[c] = {} /\ Given(c)' = {}
      /\ \A d \in Callers : d # c => answer'[d] = answer[d] /\ Given(d)' = Given(d)
  <2>1. request'[c] = "none" /\ answer'[c] = {}
    BY <1>3 DEF StreamInv, StreamTypeOK, TelemetryTypeOK
  <2>2. /\ request'[c] \in {"none", "asked", "read", "answered"} /\ answer'[c] \in SUBSET Grid
        /\ (answer'[c] # {}) = (request'[c] \in {"read", "answered"})
    BY <2>1, <1>3
  <2>3. /\ request' = [request EXCEPT ![c] = request'[c]]
        /\ answer' = [answer EXCEPT ![c] = answer'[c]]
    BY <2>1, <1>3
  <2>4. /\ request' \in [Callers -> {"none", "asked", "read", "answered"}]
        /\ answer' \in [Callers -> SUBSET Grid]
        /\ \A d \in Callers : (answer'[d] # {}) = (request'[d] \in {"read", "answered"})
        /\ \A d \in Callers : d # c => answer'[d] = answer[d] /\ Given(d)' = Given(d)
    BY <2>2, <2>3, OneCommand
  <2>5. Given(c)' = {g \in {} : "none" = "answered"}
    BY <2>1 DEF Given
  <2> QED
    BY <2>1, <2>4, <2>5
<1>7. StreamTypeOK'
  BY <1>1, <1>3, <1>5, <1>6 DEF StreamInv, StreamTypeOK, TelemetryTypeOK
<1>8. EpochsGrow' /\ EpochsApart'
  BY <1>3, <1>4, <1>5, <1>6 DEF StreamInv, EpochsGrow, EpochsApart
<1> QED
  BY <1>1, <1>5, <1>7, <1>8 DEF StreamInv

LEMMA PromoteStep == StreamInv /\ PromoteTimeline => StreamInv'
<1> SUFFICES ASSUME StreamInv, PromoteTimeline PROVE StreamInv'
  OBVIOUS
<1>1. LayersInv' /\ GateTypeOK'
  BY SameGate DEF PromoteTimeline, StreamInv, StreamTypeOK, TelemetryTypeOK
<1> DEFINE s == Head(timelineCh)
           buffered == {p \in ui.pending : p.epoch = s.epoch}
<1>2. /\ timelineCh # <<>> /\ timelineCh' = Tail(timelineCh)
      /\ ui' = [shown |-> s.layers, promoted |-> s.epoch,
                live |-> IF buffered # {} THEN buffered
                         ELSE {[epoch |-> s.epoch, published |-> s.published]},
                pending |-> {}]
      /\ UNCHANGED <<timeline_epoch, positionCh, request, answer, listening>>
  BY DEF PromoteTimeline
<1>3. s \in Grid /\ s.epoch <= timeline_epoch
  BY <1>2, EpochTypes, Taken DEF StreamInv, EpochsGrow
<1>4. timeline_epoch \in Nat /\ buffered \subseteq Positions
      /\ \A p \in buffered : p.epoch = s.epoch
  BY DEF StreamInv, StreamTypeOK, TelemetryTypeOK
<1> HIDE DEF s, buffered
<1>5. /\ ui' \in [shown : [Overlays -> SUBSET Event], promoted : Nat,
                  live : SUBSET Positions, pending : SUBSET Positions]
      /\ ui'.promoted \in Nat /\ ui'.promoted = s.epoch
      /\ ui'.pending = {} /\ \A p \in ui'.live : p.epoch = s.epoch
  BY <1>2, <1>3, <1>4, StreamAssumption DEF Grid, Positions
<1>6. timelineCh' \in Seq(Grid) /\ EpochsGrow' /\ EpochsApart'
  BY <1>2, <1>5, ReceivedGrows DEF s
<1>7. StreamTypeOK'
  BY <1>1, <1>2, <1>5, <1>6 DEF StreamInv, StreamTypeOK, TelemetryTypeOK
<1> QED
  BY <1>1, <1>5, <1>6, <1>7 DEF StreamInv

LEMMA GatePositionStep == StreamInv /\ GatePosition => StreamInv'
<1> SUFFICES ASSUME StreamInv, GatePosition PROVE StreamInv'
  OBVIOUS
<1>1. LayersInv' /\ GateTypeOK'
  BY SameGate DEF GatePosition, StreamInv, StreamTypeOK, TelemetryTypeOK
<1> DEFINE p == Head(positionCh)
<1>2. /\ positionCh # <<>> /\ positionCh' = Tail(positionCh)
      /\ ui' = IF p.epoch < ui.promoted THEN ui
               ELSE IF p.epoch = ui.promoted
                 THEN [ui EXCEPT !.live = {p}, !.pending = {}]
               ELSE [ui EXCEPT !.pending = {p}]
      /\ UNCHANGED <<timeline_epoch, timelineCh, request, answer, listening>>
  BY DEF GatePosition
<1>3. positionCh \in Seq(Positions) /\ positionCh' \in Seq(Positions) /\ p \in Positions
  BY <1>2, Taken DEF StreamInv, StreamTypeOK
<1> HIDE DEF p
<1>4. /\ ui \in [shown : [Overlays -> SUBSET Event], promoted : Nat,
                 live : SUBSET Positions, pending : SUBSET Positions]
      /\ p.epoch \in Nat
  BY <1>3 DEF StreamInv, StreamTypeOK, Positions
<1>5. /\ ui' \in [shown : [Overlays -> SUBSET Event], promoted : Nat,
                  live : SUBSET Positions, pending : SUBSET Positions]
      /\ ui'.promoted = ui.promoted
  BY <1>2, <1>3, <1>4
<1>6. /\ \A q \in ui'.live : q.epoch = ui.promoted
      /\ \A q \in ui'.pending : q.epoch > ui.promoted
  BY <1>2, <1>4 DEF StreamInv
<1>7. StreamTypeOK'
  BY <1>1, <1>2, <1>3, <1>5 DEF StreamInv, StreamTypeOK, TelemetryTypeOK
<1> QED
  BY <1>1, <1>2, <1>5, <1>6, <1>7 DEF StreamInv, EpochsGrow, EpochsApart, Given

\* A listener or a write of the scheduler.
LEMMA AsideStep ==
  ASSUME StreamInv, LayersInv', GateTypeOK', listening' \in 0 .. 2,
         UNCHANGED <<timeline_epoch, timelineCh, positionCh, request, answer, ui>>
  PROVE  StreamInv'
<1>1. StreamTypeOK'
  BY DEF StreamInv, StreamTypeOK, TelemetryTypeOK
<1> QED
  BY <1>1 DEF StreamInv, EpochsGrow, EpochsApart, Given

LEMMA AskStep ==
  ASSUME StreamInv, NEW c \in Callers, Ask(c)
  PROVE  StreamInv'
<1>1. LayersInv' /\ GateTypeOK'
  BY SameGate DEF Ask, StreamInv, StreamTypeOK, TelemetryTypeOK
<1>2. /\ request' = [request EXCEPT ![c] = "asked"]
      /\ UNCHANGED <<timeline_epoch, timelineCh, positionCh, answer, ui, listening>>
  BY DEF Ask
<1>3. answer[c] = {} /\ answer \in [Callers -> SUBSET Grid] /\ {} \in SUBSET Grid
  BY DEF Ask, StreamInv, StreamTypeOK, TelemetryTypeOK
<1>4. answer' = [answer EXCEPT ![c] = {}]
  BY <1>2, <1>3
<1>5. /\ request' \in [Callers -> {"none", "asked", "read", "answered"}]
      /\ \A d \in Callers : (answer'[d] # {}) = (request'[d] \in {"read", "answered"})
      /\ \A d \in Callers : Given(d)' \subseteq Given(d)
  <2>1. request'[c] = "asked" /\ answer'[c] = {}
    BY <1>2, <1>3, <1>4 DEF StreamInv, StreamTypeOK, TelemetryTypeOK
  <2>2. /\ request'[c] \in {"none", "asked", "read", "answered"} /\ answer'[c] \in SUBSET Grid
        /\ (answer'[c] # {}) = (request'[c] \in {"read", "answered"})
    BY <2>1, <1>2, <1>3, <1>4
  <2>3. /\ request' = [request EXCEPT ![c] = request'[c]]
        /\ answer' = [answer EXCEPT ![c] = answer'[c]]
    BY <2>1, <1>2, <1>3, <1>4
  <2>4. /\ request' \in [Callers -> {"none", "asked", "read", "answered"}]
        /\ answer' \in [Callers -> SUBSET Grid]
        /\ \A d \in Callers : (answer'[d] # {}) = (request'[d] \in {"read", "answered"})
        /\ \A d \in Callers : d # c => answer'[d] = answer[d] /\ Given(d)' = Given(d)
    BY <2>2, <2>3, OneCommand
  <2>5. Given(c)' = {g \in {} : "asked" = "answered"}
    BY <2>1 DEF Given
  <2> QED
    BY <2>1, <2>4, <2>5
<1>6. StreamTypeOK'
  BY <1>1, <1>2, <1>5 DEF StreamInv, StreamTypeOK, TelemetryTypeOK
<1>7. EpochsGrow' /\ EpochsApart'
  BY <1>2, <1>5 DEF StreamInv, EpochsGrow, EpochsApart
<1> QED
  BY <1>1, <1>2, <1>6, <1>7 DEF StreamInv

LEMMA StreamStep == StreamInv /\ [TelemetryNext]_allVars => StreamInv'
<1> SUFFICES ASSUME StreamInv, [TelemetryNext]_allVars PROVE StreamInv'
  OBVIOUS
<1>0. LayersInv /\ GateTypeOK /\ listening \in 0 .. 2
  BY DEF StreamInv, StreamTypeOK, TelemetryTypeOK
<1>1. CASE LayersNext /\ UNCHANGED <<gateVars, streamVars>>
  <2>1. LayersInv' /\ LayersTypeOK'
    BY <1>0, <1>1, LayersStep DEF LayersInv
  <2>2. GateTypeOK'
    BY <1>0, <1>1, <2>1 DEF GateTypeOK, gateVars
  <2>3. /\ UNCHANGED <<timeline_epoch, timelineCh, positionCh, request, answer, ui>>
        /\ listening' \in 0 .. 2
    BY <1>0, <1>1 DEF streamVars
  <2> QED
    BY <2>1, <2>2, <2>3, AsideStep
<1>2. CASE RegisterListener
  <2>1. UNCHANGED vars /\ listening' \in 0 .. 2
    BY <1>0, <1>2 DEF RegisterListener
  <2>2. UNCHANGED <<timeline_epoch, timelineCh, positionCh, request, answer, ui>>
    BY <1>2 DEF RegisterListener
  <2>3. LayersInv' /\ GateTypeOK'
    BY <1>0, <2>1, SameGate
  <2> QED
    BY <2>1, <2>2, <2>3, AsideStep
<1>4. CASE Watchdog \/ \E c \in Resets : ResetSync(c)
  BY <1>4, AskStep DEF Watchdog, ResetSync, Callers
<1>5. CASE \E c \in Callers : ReadSnapshot(c) \/ ReadDigests(c) \/ AcceptSnapshot(c)
  BY <1>5, ReadSnapshotStep, ReadDigestsStep, AcceptSnapshotStep
<1>3. CASE UNCHANGED allVars
  <2>1. LayersInv' /\ GateTypeOK'
    BY <1>0, <1>3, SameGate DEF allVars
  <2>2. /\ UNCHANGED <<timeline_epoch, timelineCh, positionCh, request, answer, ui>>
        /\ listening' \in 0 .. 2
    BY <1>0, <1>3 DEF allVars, streamVars
  <2> QED
    BY <2>1, <2>2, AsideStep
<1> QED
  BY <1>1, <1>2, <1>3, <1>4, <1>5, PollStep, PromoteStep, GatePositionStep
  DEF TelemetryNext

-----------------------------------------------------------------------------
(************************************************************************** *)
(* Theorems                                                                *)
(************************************************************************** *)

\* The channels carry grids and positions, and every counter stays in range.
THEOREM StreamType == TelemetrySpec => []StreamTypeOK
<1>1. StreamInv => StreamTypeOK
  BY DEF StreamInv
<1> QED
  BY <1>1, StreamInit, StreamStep, PTL DEF TelemetrySpec

\* Whatever order snapshots, positions and answers arrive in, and whichever
\* of them are lost before the listeners are registered, the live position is
\* of the grid shown, a buffered one of a grid to come, and an epoch names
\* one grid (telemetryGating.ts, acceptTransportSnapshot, next_epoch).
THEOREM PlayheadStaysOnGrid == TelemetrySpec => []PlayheadOnShownGrid
<1>1. StreamInv => PlayheadOnPromoted
  BY DEF StreamInv, StreamTypeOK, PlayheadOnPromoted
<1>2. StreamInv => EpochIdentifiesGrid
  <2> SUFFICES ASSUME StreamInv PROVE EpochIdentifiesGrid
    OBVIOUS
  <2> DEFINE under == {timelineCh[i] : i \in 1 .. Len(timelineCh)}
             given == UNION {answer[c] : c \in {d \in Callers : request[d] = "answered"}}
  <2>1. ASSUME NEW g \in under, NEW h \in under, g.epoch = h.epoch
        PROVE  g = h
    <3>1. PICK m \in 1 .. Len(timelineCh), n \in 1 .. Len(timelineCh) :
             g = timelineCh[m] /\ h = timelineCh[n]
      OBVIOUS
    <3>2. ~(m < n) /\ ~(n < m)
      BY <2>1, <3>1, EpochTypes DEF StreamInv, EpochsGrow
    <3> QED
      BY <3>1, <3>2
  <2>6. \A g \in given : \E c \in Callers : g \in Given(c)
    BY DEF Given
  <2>2. \A g \in under, h \in given : g.epoch # h.epoch
    BY <2>6 DEF StreamInv, EpochsApart
  <2>3. ASSUME NEW g \in given, NEW h \in given, g.epoch = h.epoch
        PROVE  g = h
    <3>1. PICK c \in Callers, d \in Callers : g \in Given(c) /\ h \in Given(d)
      BY <2>6
    <3>2. c = d
      BY <2>3, <3>1 DEF StreamInv, EpochsApart
    <3> QED
      BY <3>1, <3>2 DEF StreamInv, EpochsApart, Given
  <2>4. \A g \in under \cup given : g.epoch # ui.promoted
    BY <2>6 DEF StreamInv, EpochsApart
  <2> HIDE DEF under, given
  <2>5. /\ \A g, h \in under \cup given : g.epoch = h.epoch => g.layers = h.layers
        /\ \A g \in under \cup given : g.epoch = ui.promoted => g.layers = ui.shown
    BY <2>1, <2>2, <2>3, <2>4
  <2> QED
    BY <2>5 DEF EpochIdentifiesGrid, under, given
<1>3. StreamInv => PlayheadOnShownGrid
  BY <1>1, <1>2 DEF PlayheadOnShownGrid
<1> QED
  BY <1>3, StreamInit, StreamStep, PTL DEF TelemetrySpec
=============================================================================
