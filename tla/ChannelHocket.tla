--------------------------- MODULE ChannelHocket ---------------------------
(***************************************************************************)
(* The channel hocket (cseq-rhythm lib.rs): the notes of a cycle are dealt *)
(* out to MIDI channels by a walker.  A Markov walker goes by the channels *)
(* it chose last; a Euclidean one steps through a pattern woven from       *)
(* layers.  Rules of the transport may force a channel on the walker or    *)
(* reset it.                                                               *)
(*                                                                         *)
(* Draws from the random stream are sets here: the choices that some draw  *)
(* can make.  Weighted lists are sequences of records with a weight.       *)
(***************************************************************************)
EXTENDS Rationals, FiniteSets

Grid == INSTANCE DumkaGrid

CONSTANT FastScanBound  \* slots a magnet scans before it solves congruences
ASSUME ScanAssumption == FastScanBound \in Nat \ {0}

Channels == 1..16
MaxEuclidSteps == 64
MaxEuclidLayers == 16

----------------------------------------------------------------------------
(* What a specification has to satisfy (validate_channel_hocket_spec).  It *)
(* is checked when a walker is made and again at every note group.         *)

Enabled(spec, channel) == channel \in ToSet(spec.channels)
AllEnabled(spec, weights) == \A i \in DOMAIN weights : Enabled(spec, weights[i].channel)
ContextLen(spec) == IF spec.order = "first" THEN 1 ELSE 2

ValidEuclid(spec, e) ==
  /\ e.steps \in 1..MaxEuclidSteps
  /\ Len(e.layers) =< MaxEuclidLayers
  /\ AllEnabled(spec, e.layers)
  /\ \A i, j \in DOMAIN e.layers : e.layers[i].channel = e.layers[j].channel => i = j
  /\ \A i \in DOMAIN e.layers :
       /\ e.layers[i].run > 0
       /\ e.placement = "stack" => e.layers[i].steps \in 1..MaxEuclidSteps
  /\ e.placement = "partition" => FoldLeft(LAMBDA a, l : a + l.pulses, 0, e.layers) =< e.steps
  /\ \A i \in DOMAIN e.anchor : Enabled(spec, e.anchor[i])

ValidSpec(spec) ==
  /\ spec.channels # <<>>
  /\ ToSet(spec.channels) \subseteq Channels /\ IsInjective(spec.channels)
  /\ Enabled(spec, spec.fallback) /\ AllEnabled(spec, spec.fallbackWeights)
  /\ \A i \in DOMAIN spec.entries :
       /\ Len(spec.entries[i].channels) = ContextLen(spec)
       /\ \A j \in DOMAIN spec.entries[i].channels : Enabled(spec, spec.entries[i].channels[j])
  /\ \A i \in DOMAIN spec.accents :
       /\ spec.accents[i].min =< spec.accents[i].max
       /\ AtMost(Zero, spec.accents[i].probability) /\ AtMost(spec.accents[i].probability, Whole(100))
       /\ AllEnabled(spec, spec.accents[i].weights)
  /\ \A i \in DOMAIN spec.positions :
       /\ spec.positions[i].nth > 0
       /\ AllEnabled(spec, spec.positions[i].renderWeights)
       /\ AllEnabled(spec, spec.positions[i].resetWeights)
  /\ \A i \in DOMAIN spec.transitions :
       /\ Len(spec.transitions[i].from) = ContextLen(spec)
       /\ \A j \in DOMAIN spec.transitions[i].from : Enabled(spec, spec.transitions[i].from[j])
       /\ Enabled(spec, spec.transitions[i].to)
  /\ spec.mode = "euclid" => spec.euclid # <<>> /\ ValidEuclid(spec, spec.euclid[1])

----------------------------------------------------------------------------
(* The Euclidean pattern.                                                  *)

\* rotate_euclid_mask: later by a number of slots.
Rotated(mask, by) == [i \in DOMAIN mask |-> mask[((i - 1 - by) % Len(mask)) + 1]]

Unclaimed(channel) == [channel |-> channel, layer |-> 0]

\* euclid_partition_table: each layer takes its pulses, evenly, from the slots
\* that the layers before it left.
PartitionTable(e, fallback) ==
  LET Claim(state, l) ==
        LET layer == e.layers[l]
            domain == Len(state.left)
            pulses == IF layer.pulses < domain THEN layer.pulses ELSE domain
            Taken(mask) ==
              [table |-> [s \in DOMAIN state.table |->
                            IF \E i \in DOMAIN mask : mask[i] /\ state.left[i] = s
                            THEN [channel |-> layer.channel, layer |-> l] ELSE state.table[s]],
               left |-> SelectSeq(state.left, LAMBDA s : \E i \in DOMAIN mask : ~mask[i] /\ state.left[i] = s)]
        IN IF pulses = 0 THEN state ELSE Taken(Rotated(Grid!BurstMask(pulses, domain, layer.run), layer.rotation))
      start == [table |-> [s \in 1..e.steps |-> Unclaimed(fallback)], left |-> [s \in 1..e.steps |-> s]]
  IN FoldLeft(Claim, start, [l \in DOMAIN e.layers |-> l]).table

\* euclid_stack_masks: layers of their own lengths, the first that sounds wins.
StackMasks(e) ==
  LET Mask(l) ==
        LET pulses == IF l.pulses < l.steps THEN l.pulses ELSE l.steps
            mask == Rotated(Grid!BurstMask(pulses, l.steps, l.run), l.rotation)
        IN [i \in DOMAIN mask |-> mask[i] # l.invert]
  IN [l \in DOMAIN e.layers |-> [channel |-> e.layers[l].channel, mask |-> Mask(e.layers[l])]]

\* euclid_gcd and euclid_stack_period.
EuclidGcd(a, b) == CHOOSE d \in 1..a : a % d = 0 /\ b % d = 0 /\ \A c \in (d + 1)..a : a % c # 0 \/ b % c # 0
StackPeriod(masks) ==
  FoldLeft(LAMBDA p, m : (p \div EuclidGcd(p, Len(m.mask))) * Len(m.mask), 1, masks)

\* ensure_tables
Tables(spec) ==
  LET e == spec.euclid[1]
      Stack(masks) == [kind |-> "stack", masks |-> masks, period |-> StackPeriod(masks), fallback |-> spec.fallback]
      Partition(table) == [kind |-> "partition", table |-> table, period |-> Len(table), fallback |-> spec.fallback]
  IN IF e.placement = "stack" THEN Stack(StackMasks(e)) ELSE Partition(PartitionTable(e, spec.fallback))

\* EuclidAssignerTables::slot_at
SlotAt(tables, index) ==
  IF tables.kind = "partition" THEN tables.table[(index % tables.period) + 1]
  ELSE LET Sounds(l) == tables.masks[l].mask[(index % Len(tables.masks[l].mask)) + 1]
           sounding == {l \in DOMAIN tables.masks : Sounds(l)}
           first == CHOOSE l \in sounding : \A k \in sounding : l =< k
       IN IF sounding = {} THEN Unclaimed(tables.fallback)
          ELSE [channel |-> tables.masks[first].channel, layer |-> first]

----------------------------------------------------------------------------
(* The magnet: the next slot that plays a channel.  Past a linear scan the *)
(* layers of a stack are congruences, merged one by one in a search that   *)
(* gives a branch up once it cannot come before the best index found.      *)

\* first_congruent_at_or_after
FirstFrom(c, start) ==
  IF start =< c.residue THEN c.residue
  ELSE c.residue + ((start - c.residue + c.modulus - 1) \div c.modulus) * c.modulus

\* merge_euclid_congruence
Merged(c, residue, modulus) ==
  LET trials == modulus \div EuclidGcd(c.modulus, modulus)
      hits == {k \in 0..(trials - 1) : (c.residue + k * c.modulus) % modulus = residue}
      k == CHOOSE k \in hits : \A j \in hits : k =< j
      m == c.modulus * trials
  IN IF hits = {} THEN <<>> ELSE <<[residue |-> (c.residue + k * c.modulus) % m, modulus |-> m]>>

\* search_euclid_constraints; best is empty until an index is found.
RECURSIVE Search(_, _, _, _, _)
Search(constraints, i, c, start, best) ==
  LET Beaten(index) == best # <<>> /\ index >= best[1]
      earliest == FirstFrom(c, start)
      Branches(constraint) ==
        LET merged == FlattenSeq([r \in DOMAIN constraint.residues |->
                                    Merged(c, constraint.residues[r], constraint.modulus)])
        IN SortSeq(merged, LAMBDA a, b : FirstFrom(a, start) < FirstFrom(b, start))
      Try(found, branch) ==
        IF found # <<>> /\ FirstFrom(branch, start) >= found[1] THEN found
        ELSE Search(constraints, i + 1, branch, start, found)
  IN CASE Beaten(earliest) -> best
       [] i > Len(constraints) -> <<earliest>>
       [] OTHER -> FoldLeft(Try, best, Branches(constraints[i]))

\* next_index_matching_stack_constraints: wanted[l] says whether layer l is to
\* sound, for the layers it names.
NextMatching(masks, wanted, start) ==
  LET Residues(l) == SelectSeq([i \in 1..Len(masks[l].mask) |-> i - 1],
                               LAMBDA r : masks[l].mask[r + 1] = wanted[l])
      all == [l \in DOMAIN wanted |-> [modulus |-> Len(masks[l].mask), residues |-> Residues(l)]]
      binding == SelectSeq(all, LAMBDA c : Len(c.residues) \in 1..(c.modulus - 1))
      sorted == SortSeq(binding, LAMBDA a, b : Len(a.residues) < Len(b.residues))
  IN IF \E l \in DOMAIN wanted : all[l].residues = <<>> THEN <<>>
     ELSE Search(sorted, 1, [residue |-> 0, modulus |-> 1], start, <<>>)

\* next_stack_index_for_channel: a layer wins where it sounds and those above
\* it do not, the fallback where none does.
NextOfStack(tables, start, channel) ==
  LET layers == {l \in DOMAIN tables.masks : tables.masks[l].channel = channel}
      Wins(l) == [k \in 1..l |-> k = l]
      found == UNION {ToSet(NextMatching(tables.masks, Wins(l), start)) : l \in layers}
               \cup (IF channel = tables.fallback
                     THEN ToSet(NextMatching(tables.masks, [k \in DOMAIN tables.masks |-> FALSE], start)) ELSE {})
  IN IF found = {} THEN <<>> ELSE <<CHOOSE i \in found : \A j \in found : i =< j>>

\* EuclidAssignerTables::next_index_for_channel
NextIndex(tables, start, channel) ==
  LET bound == IF tables.kind = "stack" /\ FastScanBound < tables.period THEN FastScanBound ELSE tables.period
      near == {d \in 0..(bound - 1) : SlotAt(tables, start + d).channel = channel}
  IN CASE near # {} -> <<start + CHOOSE d \in near : \A j \in near : d =< j>>
       [] tables.period = bound -> <<>>
       [] OTHER -> NextOfStack(tables, start, channel)

----------------------------------------------------------------------------
(* The walkers.                                                            *)

NoRegion == <<>>
MarkovStart == [history |-> <<>>, pending |-> <<>>]
EuclidStart == [region |-> NoRegion, index |-> 0]

\* EuclidAssigner::enter_region
EnterRegion(walker, region) ==
  IF walker.region = region THEN walker ELSE [region |-> region, index |-> 0]

Positive(weights) == {weights[i] : i \in {j \in DOMAIN weights : weights[j].weight > 0}}

\* choose_channel_entry, choose_channel_fallback, choose_channel_transition.
Entries(spec) ==
  LET chosen == {e.channels : e \in Positive(spec.entries)}
  IN IF chosen = {} THEN {[i \in 1..ContextLen(spec) |-> spec.fallback]} ELSE chosen
Fallbacks(spec) ==
  LET chosen == {w.channel : w \in Positive(spec.fallbackWeights)}
  IN IF chosen = {} THEN {spec.fallback} ELSE chosen
Transitions(spec, context) == {t.to : t \in {u \in Positive(spec.transitions) : u.from = context}}

\* Only the last channels matter to a walker, and how many there have been.
Remember(spec, history, channel) ==
  LET all == Append(history, channel)
  IN IF Len(all) > ContextLen(spec) THEN Tail(all) ELSE all

\* resolve_next_channel_choice: until it has a context the walker plays an
\* entry, without the part of it that forced channels have filled already.
MarkovNext(spec, walker) ==
  LET filled == Len(walker.history)
      Rest(entry) == SubSeq(entry, filled + 1, Len(entry))
      pendings == IF walker.pending # <<>> THEN {walker.pending} ELSE {Rest(e) : e \in Entries(spec)}
      Step(channel, pending) == [channel |-> channel,
                                 walker |-> [history |-> Remember(spec, walker.history, channel), pending |-> pending]]
      onward == Transitions(spec, walker.history)
  IN IF filled < ContextLen(spec) THEN {Step(Head(p), Tail(p)) : p \in pendings}
     ELSE {Step(c, walker.pending) : c \in IF onward = {} THEN Fallbacks(spec) ELSE onward}

\* EuclidAssigner::next_choice_with_spec
EuclidNext(tables, walker) ==
  {[channel |-> SlotAt(tables, walker.index).channel, walker |-> [walker EXCEPT !.index = @ + 1]]}

\* next_choice, force_channel and reset_channel of the walker a spec calls for.
NextChoices(spec, tables, walker) ==
  IF spec.mode = "euclid" THEN EuclidNext(tables, walker) ELSE MarkovNext(spec, walker)

Forced(spec, tables, walker, channel) ==
  LET Jump(found) == IF found = <<>> THEN walker.index + 1 ELSE found[1] + 1
  IN IF spec.mode = "euclid" THEN [walker EXCEPT !.index = Jump(NextIndex(tables, walker.index, channel))]
     ELSE [walker EXCEPT !.history = Remember(spec, @, channel)]

Reset(spec, walker, channel) ==
  IF spec.mode = "euclid" THEN [walker EXCEPT !.index = 0]
  ELSE [history |-> [i \in 1..ContextLen(spec) |-> channel], pending |-> <<>>]

----------------------------------------------------------------------------
(* The seed of a cycle (resolve_seed).  Seeds are symbols: "mix" is the    *)
(* seed a cycle derives from an authored one, "new" the first draw of it.  *)

Latest(history, max) == IF Len(history) > max THEN SubSeq(history, Len(history) - max + 1, Len(history)) ELSE history

\* The outcomes: each a seed, where it came from, and the mode it leaves.
ResolveSeed(mode, cycle, globalSeed) ==
  LET Plain(seed, source) == {[seed |-> seed, source |-> source, mode |-> mode]}
      kept == Latest(mode.history, mode.max)
      fresh == <<"new", mode.seed, cycle>>
      old == IF kept # <<>> /\ mode.historyWeight > 0
             THEN {[seed |-> kept[i], source |-> "history", mode |-> [mode EXCEPT !.history = kept]] : i \in DOMAIN kept}
             ELSE {}
      new == IF mode.newWeight > 0
             THEN {[seed |-> fresh, source |-> "new",
                    mode |-> [mode EXCEPT !.history = Latest(Append(kept, fresh), mode.max)]]}
             ELSE {}
  IN CASE mode.kind = "followGlobal" -> Plain(globalSeed, "followGlobal")
       [] mode.kind = "locked" -> Plain(mode.seed, "locked")
       [] mode.kind = "perCycle" -> Plain(<<"mix", mode.seed, cycle>>, "perCycle")
       [] mode.kind = "history" -> old \cup new
=============================================================================
