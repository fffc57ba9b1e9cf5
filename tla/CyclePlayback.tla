--------------------------- MODULE CyclePlayback ---------------------------
(***************************************************************************)
(* The realization of a track, cycle after cycle (cseq-transport           *)
(* overlay.rs, realize_and_enqueue): the rhythm configuration is automated *)
(* and repaired, the pipeline of the score makes the tree of the cycle, a  *)
(* generator lays its rhythm over it, the notes are queued, routed to      *)
(* channels one group after the other, and mapped to the reference clock.  *)
(* What seeds are consumed is recorded, and a recorded path can be played  *)
(* again.                                                                  *)
(*                                                                         *)
(* A score is [tree, length, pipeline], a rhythm a sequence of length at   *)
(* most one.  A seed path is [entries, wildcards].                         *)
(***************************************************************************)
EXTENDS RhythmOverlay

CONSTANTS Sessions,     \* what a user may load: [score, rhythm, tempo]
          MaxCycles,    \* bound: cycles of a playback
          TempoSamples  \* LOCAL_TEMPO_AUTOMATION_SAMPLES, small

ASSUME PlaybackAssumption == {PPQN, MaxCycles, TempoSamples} \subseteq Nat \ {0}

VARIABLES session,    \* as authored
          score, rhythm,
          path,       \* the seed path of the configuration, if any
          cycle,
          stage,      \* "idle", "routing", "failed"
          work,       \* the cycle in the making
          published,  \* the cycle that was queued, until the next one begins
          trace,      \* seed entries consumed since playback started
          pools       \* the seed modes that every recorded cycle left

vars == <<session, score, rhythm, path, cycle, stage, work, published, trace, pools>>

----------------------------------------------------------------------------
(* Seed paths.                                                             *)

\* seed_path_entries_for_domain: nothing where a wildcard frees the choice.
SeedEntries(cyc, domain) ==
  LET Freed(p) == \E w \in p.wildcards : w.domain = domain /\ (\A c \in ToSet(w.cycle) : c = cyc)
  IN IF path = <<>> \/ Freed(path[1]) THEN <<>>
     ELSE SelectSeq(path[1].entries, LAMBDA e : e.cycle = cyc /\ e.domain = domain)

NextEntry(entries, used) == IF used < Len(entries) THEN <<entries[used + 1]>> ELSE <<>>

\* draw is what the random stream of a seed made of it, the same when replayed.
Entry(cyc, domain, seed, after) ==
  [cycle |-> cyc, domain |-> domain, seed |-> seed, after |-> after, draw |-> {}]
HistoryOf(mode) == IF mode.kind = "history" THEN mode.history ELSE <<>>

\* Mutant of Consumed: a replayed seed leaves the pool alone.
ConsumedInPassing(mode, cyc, domain, globalSeed, replay) ==
  IF replay # <<>> THEN {[entry |-> replay[1], mode |-> mode]}
  ELSE {[entry |-> Entry(cyc, domain, r.seed, HistoryOf(r.mode)), mode |-> r.mode] :
          r \in ResolveSeed(mode, cyc, globalSeed)}

\* A seed mode resolved or replayed: the outcomes [entry, mode].  A replayed
\* mode takes over the history the entry left.
Consumed(mode, cyc, domain, globalSeed, replay) ==
  IF replay # <<>>
  THEN {[entry |-> replay[1],
         mode |-> IF mode.kind = "history" THEN [mode EXCEPT !.history = replay[1].after] ELSE mode]}
  ELSE {[entry |-> Entry(cyc, domain, r.seed, HistoryOf(r.mode)), mode |-> r.mode] :
          r \in ResolveSeed(mode, cyc, globalSeed)}

----------------------------------------------------------------------------
(* The pipeline (apply_pipeline_for_cycle_mut_inner).                      *)

WholeBeats(length) == IF length[2] = 1 /\ length[1] > 0 THEN <<length[1]>> ELSE <<>>
Beats(length) == IF WholeBeats(length) = <<>> THEN 1 ELSE length[1]  \* score_cycle_beats, or 1

\* One switch on one pulse: refused before or after its seed is consumed.
Switched(state, i, p, cyc) ==
  LET edit == state.pipeline[i]
      beats == WholeBeats(state.length)
      node == At(state.tree, p)
      replay == NextEntry(SeedEntries(cyc, "global"), state.used)
      After(c, new) ==
        [state EXCEPT !.pipeline[i].seedMode = c.mode, !.used = @ + Len(replay), !.entries = Append(@, c.entry),
                      !.ok = new # Failed,
                      !.tree = IF new = Failed THEN @ ELSE Put(@, p, new[1]),
                      !.spans = IF new = Failed THEN @ ELSE Spans(edit.switch, beats[1])]
      consumed == Consumed(edit.seedMode, cyc, "global", <<>>, replay)
  IN IF beats = <<>> \/ ~ValidSwitch(edit.switch, beats[1]) \/ node.kind \notin {"note", "rest"} \/ consumed = {}
     THEN {[state EXCEPT !.ok = FALSE]}
     ELSE {After(c, SwitchNode(node, edit.switch, beats[1], cyc)) : c \in consumed}

\* One transform: a switch draws its seed, the others are plain edits.
Transformed(state, i, cyc) ==
  LET edit == state.pipeline[i]
      paths == Selected(state.tree, edit.target)
      Plain(new) == IF new = Failed THEN [state EXCEPT !.ok = FALSE] ELSE [state EXCEPT !.tree = new[1]]
  IN CASE ~state.ok \/ ~edit.enabled -> {state}
       [] edit.op # "switch" -> {Plain(ApplyOne(state.tree, edit))}
       [] paths = {} -> {[state EXCEPT !.ok = FALSE]}
       [] OTHER -> FoldSet(LAMBDA p, states : UNION {IF s.ok THEN Switched(s, i, p, cyc) ELSE {s} : s \in states},
                           {state}, paths)

\* Every way the pipeline of a score may go, the authored tree left as it is.
PipelineOutcomes(sc, cyc) ==
  LET start == [ok |-> TRUE, tree |-> sc.tree, length |-> sc.length, spans |-> <<>>,
                pipeline |-> sc.pipeline, used |-> 0, entries |-> <<>>]
  IN FoldLeft(LAMBDA states, i : UNION {Transformed(s, i, cyc) : s \in states}, {start},
              [i \in DOMAIN sc.pipeline |-> i])

----------------------------------------------------------------------------
(* The generator (apply_generator_to_tree).                                *)

\* What it may resolve for the accent spans, [cells, draw]; none is an error.
Generated(generator, accents, automation, cyc, beats, replay) ==
  LET total == FoldLeft(LAMBDA a, s : a + s.matras, 0, accents)
      density == IF automation = <<>> THEN generator.density
                 ELSE ExampleDensity(generator.density, Heard(automation[1], BeatTime(automation[1], cyc, 0, beats)))
      Draws(d) == IF replay # <<>> THEN {replay[1].draw} ELSE ExampleSets(d, total)
      Pattern(seed) == IF seed = Failed THEN {} ELSE ToSet(SeedCells(seed[1], beats, accents))
      found == IF generator.kind = "example"
               THEN {[cells |-> ExampleCells(accents, s), draw |-> s] : s \in Draws(density)}
               ELSE {[cells |-> c, draw |-> {}] : c \in Pattern(Compiled(generator.text))}
  IN {g \in found : ValidCells(accents, g.cells)}

\* The outcomes [ok, tree, events, mode, entries] for a config.
OverlayOutcomes(config, p, cyc) ==
  LET beats == Beats(p.length)
      accents == AccentSpans(p.spans)
      generator == config.generator
      replay == SeedEntries(cyc, "generator")
      Plain == [ok |-> TRUE, tree |-> p.tree, events |-> <<>>, mode |-> generator.seedMode, entries |-> <<>>]
      Done(laid, c, draw) ==
        IF laid = Failed THEN [Plain EXCEPT !.ok = FALSE]
        ELSE [ok |-> TRUE, tree |-> laid[1].tree, events |-> laid[1].events, mode |-> c.mode,
              entries |-> <<[c.entry EXCEPT !.draw = draw]>>]
      found == Generated(generator, accents, config.automation, cyc, beats, replay)
      consumed == Consumed(generator.seedMode, cyc, "generator", <<>>, replay)
  IN IF ~generator.enabled \/ accents = <<>> THEN {Plain}
     ELSE IF consumed = {} \/ found = {} THEN {[Plain EXCEPT !.ok = FALSE]}
     ELSE {Done(Overlaid(p.tree, p.length, p.spans, accents, g.cells), c, g.draw) : g \in found, c \in consumed}

----------------------------------------------------------------------------
(* The queue, and the mapping to the reference clock.                      *)

Queued(events) ==
  [i \in DOMAIN events |-> [tick |-> Ticks(events[i].at), on |-> events[i].on, channel |-> 1,
                            pitch |-> events[i].pitch, vel |-> events[i].vel]]

\* capture_note_groups_local, for triggers: a note lasts to the first note-off
\* after it that no other note has taken.
Captured(queue) ==
  LET Ends(taken, i) ==
        {j \in DOMAIN queue \ taken : /\ ~queue[j].on /\ queue[j].tick > queue[i].tick
                                      /\ queue[j].channel = queue[i].channel /\ queue[j].pitch = queue[i].pitch}
      Earliest(ends) == CHOOSE j \in ends : \A k \in ends : \/ queue[j].tick < queue[k].tick
                                                            \/ queue[j].tick = queue[k].tick /\ j =< k
      Take(state, start, ends) ==
        IF ends = {} THEN [state EXCEPT !.groups = Append(@, <<start, start + 1>>)]
        ELSE [taken |-> state.taken \cup {Earliest(ends)},
              groups |-> Append(state.groups, <<start, queue[Earliest(ends)].tick>>)]
      Step(state, i) == IF queue[i].on THEN Take(state, queue[i].tick, Ends(state.taken, i)) ELSE state
  IN FoldLeft(Step, [taken |-> {}, groups |-> <<>>], [i \in DOMAIN queue |-> i]).groups

\* Mutant of Mapped: every event is mapped alone.
MappedAlone(queue, map) == [i \in DOMAIN queue |-> [queue[i] EXCEPT !.tick = ToReference(map, @)]]

\* map_parallel_queue_ticks: the notes of a queue, first in first out, keep a
\* width; everything else maps alone.
Mapped(queue, map) ==
  LET limit == ReferenceDuration(map)
      Key(i) == <<queue[i].channel, queue[i].pitch>>
      Sets(ticks, on, off) ==
        LET low == ToReference(map, queue[on].tick)
            high == ToReference(map, queue[off].tick)
            squeezed == queue[off].tick > queue[on].tick /\ high =< low
        IN [ticks EXCEPT ![on] = IF squeezed /\ low >= limit THEN limit - 1 ELSE low,
                         ![off] = IF squeezed THEN IF low < limit THEN low + 1 ELSE limit ELSE high]
      Step(state, i) ==
        LET same == {j \in DOMAIN state.open : Key(state.open[j]) = Key(i)}
        IN IF queue[i].on THEN [state EXCEPT !.open = Append(@, i)]
           ELSE IF same = {} THEN state
           ELSE [open |-> RemoveAt(state.open, FirstOf(same)),
                 ticks |-> Sets(state.ticks, state.open[FirstOf(same)], i)]
      Result(ticks) == [i \in DOMAIN queue |-> [queue[i] EXCEPT !.tick = ticks[i]]]
      alone == [i \in DOMAIN queue |-> ToReference(map, queue[i].tick)]
  IN Result(FoldLeft(Step, [open |-> <<>>, ticks |-> alone], [i \in DOMAIN queue |-> i]).ticks)

\* score_automation_playback_source: the first switch that has lanes, of a score
\* of whole beats.
ScoreSource(sc) ==
  LET Speaks(edit) == /\ edit.enabled /\ edit.op = "switch"
                      /\ \E set \in ToSet(edit.switch.automation) : set.tracks # <<>>
      found == SelectSeq(sc.pipeline, Speaks)
  IN IF WholeBeats(sc.length) = <<>> \/ found = <<>> THEN <<>> ELSE <<found[1].switch>>

\* LocalTempoAutomationMap::from_cycle: the tempo lanes of the score are heard
\* first, then those of the rhythm.
CycleMap(ticksPerCycle) ==
  LET Sets(sources) == FlattenSeq([i \in DOMAIN sources |-> sources[i].automation])
      sets == Sets(ScoreSource(score)) \o Sets(rhythm)
      Bpm(part) == Tempo(sets, [i \in DOMAIN sets |-> PartTime(sets[i], cycle, part, TempoSamples)], session.tempo.own)
  IN TempoMap([i \in 1..(TempoSamples + 1) |-> Bpm(i - 1)], ticksPerCycle, session.tempo.reference)

----------------------------------------------------------------------------
(* The cycle in the making.                                                *)

Effective == [i \in DOMAIN rhythm |-> RepairedConfig(AutomatedConfig(rhythm[i], cycle, Beats(score.length)))]

NoWork == [queue |-> <<>>, groups |-> <<>>, next |-> 1, spec |-> <<>>, mode |-> <<>>, walker |-> <<>>,
           generator |-> <<>>, entries |-> <<>>, automation |-> <<>>, spans |-> <<>>, tree |-> <<>>, routed |-> <<>>,
           config |-> <<>>, map |-> <<>>, notes |-> <<>>, captured |-> <<>>]

\* The channel shaper, before the first group.
Shaped(base, config, p) ==
  LET ticksPerCycle == Ticks(p.length)
      Ready(groups, spec, c) ==
        [base EXCEPT !.groups = groups, !.spec = <<[spec EXCEPT !.seedMode = c.mode]>>,
                     !.walker = IF spec.mode = "euclid" THEN EuclidStart ELSE MarkovStart,
                     !.entries = Append(@, c.entry)]
      Routed(groups, spec) ==
        IF groups = <<>> THEN {base}
        ELSE {Ready(groups, spec, c) :
                c \in {d \in Consumed(spec.seedMode, cycle, "channel", spec.globalSeed,
                                       SeedEntries(cycle, "channel")) : ValidSpec(spec)}}
  IN IF config.enabled /\ config.spec # <<>> THEN Routed(GroupsOfCycle(base.queue, ticksPerCycle), config.spec[1])
     ELSE {[base EXCEPT !.queue = Static(@, config.output)]}

\* Everything up to the routing of the first group.  The empty set is an error.
Started(p, config) ==
  LET Base(tree, queue, entries) ==
        [NoWork EXCEPT !.queue = queue, !.entries = entries, !.spans = p.spans, !.tree = tree, !.config = config,
                       !.map = CycleMap(Ticks(p.length)), !.notes = NoteGroups(queue), !.captured = Captured(queue)]
      Overlays == IF config = <<>> THEN {[ok |-> TRUE, tree |-> p.tree, events |-> <<>>, mode |-> <<>>, entries |-> <<>>]}
                  ELSE OverlayOutcomes(config[1], p, cycle)
      Channelled(base, o) ==
        IF config = <<>> THEN {base}
        ELSE Shaped([base EXCEPT !.generator = <<o.mode>>, !.automation = config[1].automation], config[1], p)
      Made(found, o) ==
        IF found = Failed \/ ~o.ok THEN {}
        ELSE Channelled(Base(o.tree, Queued(found[1] \o o.events), p.entries \o o.entries), o)
  IN IF p.ok THEN UNION {Made(Realize(o.tree, p.length), o) : o \in Overlays} ELSE {}

Init ==
  \E s \in Sessions :
    /\ session = s /\ score = s.score /\ rhythm = s.rhythm
    /\ path = <<>> /\ cycle = 0 /\ stage = "idle" /\ work = NoWork /\ published = <<>>
    /\ trace = <<>> /\ pools = <<>>

\* The realization starts: the seeds of the score are consumed even if what
\* comes after them fails.
BeginCycle ==
  /\ stage = "idle" /\ cycle < MaxCycles
  /\ \E p \in PipelineOutcomes(score, cycle) :
       /\ score' = [score EXCEPT !.pipeline = p.pipeline]
       /\ \E started \in {Started(p, Effective)} :
            \/ /\ started = {}
               /\ stage' = "failed" /\ work' = NoWork
            \/ \E w \in started : stage' = "routing" /\ work' = w
  /\ published' = <<>>
  /\ UNCHANGED <<session, rhythm, path, cycle, trace, pools>>

\* One group of the loop of apply_channel_hocket_to_queue: where it stands is
\* told by the specification of the cycle, all else by that of its tick.
ContextOf(group) ==
  IF work.spec[1].mode # "euclid" THEN [region |-> NoRegion, accent |-> FALSE]
  ELSE Context(group, work.spec[1].euclid[1].reset, Beats(score.length), Ticks(score.length), work.spans)
PositionOf(i) == Position(work.groups, i, Beats(score.length), Ticks(score.length), SectionRegions(work.spans))
SpecOf(group) == GroupSpec(work.spec[1], work.automation, cycle, group.start, Ticks(score.length))

RouteGroup ==
  /\ stage = "routing" /\ work.next =< Len(work.groups)
  /\ \E group \in {work.groups[work.next]} :
     \E spec \in {SpecOf(group)}, context \in {ContextOf(group)}, vel \in group.vel[1]..group.vel[2] :
     \E outcomes \in {Assignments(spec, work.walker, PositionOf(work.next), context, vel)} :
        \/ /\ outcomes = {}
           /\ stage' = "failed" /\ work' = NoWork
        \/ \E a \in outcomes :
             /\ work' = [work EXCEPT !.queue = Assigned(@, group, a.channel), !.walker = a.walker, !.next = @ + 1,
                                     !.routed = Append(@, [channel |-> a.channel, context |-> context, spec |-> spec,
                                                           pinned |-> Pinned(spec, context), vel |-> vel])]
             /\ UNCHANGED stage
  /\ UNCHANGED <<session, score, rhythm, path, cycle, published, trace, pools>>

\* sync_rhythm_playback_seed_state
Synced ==
  [i \in DOMAIN rhythm |->
     [rhythm[i] EXCEPT !.generator.seedMode = work.generator[1],
                       !.spec = [j \in DOMAIN @ |->
                         [@[j] EXCEPT !.seedMode = IF work.spec # <<>> THEN work.spec[1].seedMode
                                                   ELSE work.config[i].spec[j].seedMode]]]]

SeedModes(r, s) == <<[i \in DOMAIN r |-> <<r[i].generator.seedMode, [j \in DOMAIN r[i].spec |-> r[i].spec[j].seedMode]>>],
                     s.pipeline>>

\* The queue is sorted and mapped, the seeds go back to the configuration.
FinishCycle ==
  /\ stage = "routing" /\ work.next > Len(work.groups)
  /\ published' = <<[local |-> Sorted(work.queue), reference |-> Sorted(Mapped(Sorted(work.queue), work.map)),
                     map |-> work.map, notes |-> work.notes, routed |-> work.routed, spans |-> work.spans,
                     tree |-> work.tree, captured |-> work.captured]>>
  /\ rhythm' = Synced
  /\ trace' = trace \o work.entries
  /\ pools' = Append(pools, SeedModes(Synced, score))
  /\ cycle' = cycle + 1 /\ stage' = "idle" /\ work' = NoWork
  /\ UNCHANGED <<session, score, path>>

\* Playback starts over with the path that was recorded; the configuration
\* comes from the user again, the score is as playback left it.  A wildcard
\* frees a domain.
Replay ==
  /\ stage = "idle" /\ path = <<>> /\ cycle = MaxCycles
  /\ \E wildcards \in {{}, {[domain |-> "channel", cycle |-> <<>>]}, {[domain |-> "generator", cycle |-> <<0>>]}} :
       path' = <<[entries |-> trace, wildcards |-> wildcards]>>
  /\ rhythm' = session.rhythm /\ cycle' = 0 /\ trace' = <<>> /\ published' = <<>>
  /\ UNCHANGED <<session, score, stage, work, pools>>

Done == (stage = "failed" \/ (cycle = MaxCycles /\ path # <<>>)) /\ stage # "routing" /\ UNCHANGED vars

Next == BeginCycle \/ RouteGroup \/ FinishCycle \/ Replay \/ Done
Spec == Init /\ [][Next]_vars

----------------------------------------------------------------------------
(* Properties of the cycle that was published.                             *)

Cycles == ToSet(published)
Length == Ticks(score.length)

RECURSIVE Pulses(_, _, _)
Pulses(node, offset, dur) ==
  LET Parts(laid) == UNION {Pulses(node.kids[i], laid[i][1], laid[i][2]) : i \in DOMAIN laid}
  IN IF node.kind \in {"note", "rest"} THEN {offset}
     ELSE Parts(Laid(node, Shares(node.kids, IF node.kind = "tied" THEN Explicit ELSE node.policy)[1], offset, dur))

\* The accent spans of a divided cycle follow each other from its start to its
\* end, and each begins on a pulse of the tree and holds as many pulses as it
\* counts matras: spans and tree are built apart (emit_pulse_spans,
\* build_matra_nodes), and the groups need not fit the beats.
SpansMeetMatras ==
  \A c \in Cycles :
    \E accents \in {AccentSpans(c.spans)}, pulses \in {Pulses(c.tree, Zero, score.length)} :
      accents # <<>> =>
        /\ accents[1].start = Zero
        /\ \A i \in DOMAIN accents :
             \E end \in {Plus(accents[i].start, accents[i].dur)} :
               /\ end = IF i = Len(accents) THEN score.length ELSE accents[i + 1].start
               /\ accents[i].start \in pulses
               /\ Cardinality({t \in pulses : AtMost(accents[i].start, t) /\ Less(t, end)}) = accents[i].matras

\* A Dum-Ka pattern is heard as it is written: its notes are cut at the accent
\* spans, tied, and joined again by the overlay, and neither routing nor the
\* order of the queue may part a note from its end.
PatternHeard ==
  \A c \in Cycles : \A r \in ToSet(rhythm) :
    r.generator.enabled /\ r.generator.kind = "dumka" =>
      NotationKept(r.generator.text) /\
      {<<g.start, g.end>> : g \in ToSet(NoteGroups(c.local))}
        = {<<Ticks(e.start), Ticks(Plus(e.start, e.dur))>> : e \in ToSet(Compiled(r.generator.text)[1].events)}

\* Routing and the final sort keep notes whole: paired again in the order of
\* dispatch, the notes have the ends they had before, each on the channel it
\* was given.
RoutingKeepsPairs ==
  \A c \in Cycles :
    {<<g.start, g.end, c.local[g.on].channel>> : g \in ToSet(NoteGroups(c.local))}
      = {<<c.notes[i].start, c.notes[i].end,
           IF rhythm = <<>> THEN 1 ELSE IF c.routed = <<>> THEN rhythm[1].output ELSE c.routed[i].channel>> :
           i \in DOMAIN c.notes}

\* The first period of a partition in a region gives every layer its pulses,
\* whatever notes a bypassed accent pins in between.
LayersGetPulses ==
  \A c \in Cycles :
    \E woven \in {SelectSeq(c.routed, LAMBDA r : r.spec.mode = "euclid" /\ ~r.pinned)} :
      \A i \in DOMAIN woven :
        \E e \in ToSet(woven[i].spec.euclid) :
          (/\ e.placement = "partition" /\ i + e.steps - 1 =< Len(woven)
           /\ i = 1 \/ woven[i - 1].context.region # woven[i].context.region
           /\ \A j \in 1..(e.steps - 1) : woven[i + j].context.region = woven[i].context.region)
          => \A l \in DOMAIN e.layers :
               e.layers[l].pulses = Cardinality({j \in 0..(e.steps - 1) : woven[i + j].channel = e.layers[l].channel})

\* The magnet of a drive-chain accent goes to the nearest slot of its channel:
\* the search over congruences finds what a walk over one period finds.
MagnetIsNearest ==
  \A spec \in ToSet(work.spec) :
    spec.mode = "euclid" /\ stage = "routing" =>
      \E tables \in {Tables(spec)} : \A channel \in ToSet(spec.channels) :
        \E hits \in {{i \in work.walker.index..(work.walker.index + tables.period - 1) :
                       SlotAt(tables, i).channel = channel}} :
          NextIndex(tables, work.walker.index, channel) = IF hits = {} THEN <<>> ELSE <<Min(hits)>>

\* The weave keeps the quotas of its layers, and its walk finds its slots.
QuotasKept == LayersGetPulses /\ MagnetIsNearest

\* Mapped to the reference clock every note still lasts, ends within the cycle
\* and belongs to one note-on, however short the cycle has become.
NotesLast ==
  \A c \in Cycles :
    \E notes \in {NoteGroups(c.reference)} :
      /\ Len(notes) = Len(c.notes)
      /\ \A i \in DOMAIN notes : notes[i].start < notes[i].end /\ notes[i].end =< ReferenceDuration(c.map)

\* The two directions of the tempo map agree to the tick, on the side that has
\* fewer of them, and keep the order of ticks.
TempoMapInverts ==
  \A c \in Cycles : \A t \in 1..Length :
    /\ ToReference(c.map, t - 1) =< ToReference(c.map, t)
    /\ \E back \in {ToLocalTick(c.map, ToReference(c.map, t))} :
         back = t \/ ToReference(c.map, back) = ToReference(c.map, t)

\* What is mapped stays whole, by a map that can be undone.
MappedNotesLast == NotesLast /\ TempoMapInverts

\* A recorded path, played again without a wildcard, consumes the same seeds
\* and leaves the same pools, though the score went on with the pools of the
\* first playback.
ReplayRestoresPools ==
  path # <<>> /\ path[1].wildcards = {} =>
      /\ IsPrefix(trace, path[1].entries)
      /\ \A i \in (MaxCycles + 1)..Len(pools) : pools[i] = pools[i - MaxCycles]

\* A value that automation raises is raised once: the specification of a group
\* is the authored one, automated at the tick of the group.
AddedOnce ==
  \A c \in Cycles : \A i \in DOMAIN c.routed : \A r \in ToSet(session.rhythm) :
    r.automation # <<>> =>
      c.routed[i].spec.euclid =
        GroupSpec(r.spec[1], r.automation, cycle - 1, c.notes[i].start, Length).euclid
=============================================================================
