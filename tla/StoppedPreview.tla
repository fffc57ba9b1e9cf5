--------------------------- MODULE StoppedPreview ---------------------------
(***************************************************************************)
(* The desktop shell's half of a session (src-tauri main.rs): it builds a  *)
(* track's score and rhythm from the request of the editors, or refuses    *)
(* it, and shows any cycle of the request without playing it: the beats    *)
(* with the values that automation gives them, and the cells a generator   *)
(* puts into the spans.  The preview starts from the authored score every  *)
(* time; playback goes on with the score it left.                          *)
(*                                                                         *)
(* A request is [beats, switch, seedMode] for the score and a rhythm       *)
(* record for the playback; a session keeps the first as its request.      *)
(***************************************************************************)
EXTENDS CyclePlayback

CONSTANTS MaxStoppedPreview,  \* MAX_STOPPED_PREVIEW_CYCLE, small
          LivePreviewRadius   \* LIVE_PREVIEW_CYCLE_RADIUS

----------------------------------------------------------------------------
(* Requests (build_subdivision_switch_score and its validators).           *)

MaxBeats == 64
MaxHistory == 64

ValidAccents(accent) == \A range \in {accent.beat, accent.section, accent.jathi} : ValidRange(range)

\* validate_subdivision_weights and validate_jathi_weights, with the rule that
\* a boundary which may go by a gati per beat has one to choose.
ValidBoundary(gatis, jathis, custom) ==
  /\ ValidGatis(gatis) /\ ValidJathis(jathis)
  /\ \A i \in DOMAIN custom : ValidCustom(custom[i])
  /\ (\A i \in DOMAIN custom : custom[i].perBeat > 0) => SomePositive(gatis)

\* position_to_beat_rational: a position crosses the bridge as a float and is
\* snapped to the beat it stands for; 1.0e-6 stands for the float's error.
Snapped(position, beats) ==
  LET After(t) == IF t[2] = 1 /\ t[1] > 0 /\ t[1] < beats THEN <<Rat(t[1], beats)>> ELSE Failed
  IN After(Times(position, Whole(beats)))

ValidCounts(counts, inflections) ==
  counts # <<>> => /\ SomePositive(counts)
                   /\ \A i \in DOMAIN counts : counts[i][2] >= 0 /\ counts[i][1] =< Len(inflections)

\* A boundary that can never fire need not have a choice.
AcceptedInflection(f, beats) ==
  /\ f.probability \in 0..100
  /\ Less(Zero, f.position) /\ Less(f.position, One) /\ Snapped(f.position, beats) # Failed
  /\ ValidBoundary(IF f.probability = 0 THEN <<<<1, 1>>>> ELSE f.gatis, f.jathis, f.custom)
  /\ ValidGatis(f.gatis)

AcceptedSwitch(s, beats) ==
  /\ s.pitch =< 127 /\ s.vel \in 1..127
  /\ ValidAccents(s.accent)
  /\ ValidBoundary(s.gatis, s.jathis, s.custom)
  /\ \A i \in DOMAIN s.inflections : AcceptedInflection(s.inflections[i], beats)
  /\ \A i, j \in DOMAIN s.inflections :
       Snapped(s.inflections[i].position, beats) = Snapped(s.inflections[j].position, beats) => i = j
  /\ ValidCounts(s.counts, s.inflections)

\* Nothing is asked of the weights of a pool but that they are no less than 0.
AcceptedMode(mode) ==
  mode.kind = "history" => mode.historyWeight >= 0 /\ mode.newWeight >= 0 /\ mode.max =< MaxHistory

\* Score::subdivision_switch: one pulse for the cycle, one transform at its root.
SwitchScore(request) ==
  LET Moved(s) == [s EXCEPT !.inflections = [i \in DOMAIN @ |-> [@[i] EXCEPT !.position = Snapped(@, request.beats)[1]]]]
  IN [tree |-> SinglePulse(request.switch.pitch, <<request.switch.vel, request.switch.vel>>),
      length |-> Whole(request.beats),
      pipeline |-> <<[enabled |-> TRUE, op |-> "switch", target |-> <<"root">>, switch |-> Moved(request.switch),
                      seedMode |-> request.seedMode]>>]

BuiltScore(request) ==
  IF request.beats \in 1..MaxBeats /\ AcceptedSwitch(request.switch, request.beats) /\ AcceptedMode(request.seedMode)
  THEN <<SwitchScore(request)>> ELSE Failed

\* track_playback_config_from_request: a rhythm that would change nothing is
\* left out.
PlaybackConfig(r) ==
  LET channel == IF r.output < 1 THEN 1 ELSE IF r.output > 16 THEN 16 ELSE r.output
      automation == SelectSeq(r.automation, LAMBDA set : set.tracks # <<>>)
      shaped == r.enabled /\ r.spec # <<>>
  IN IF r.generator.enabled \/ automation # <<>> \/ shaped \/ channel # 1
     THEN <<[r EXCEPT !.output = channel, !.automation = automation, !.enabled = shaped]>> ELSE <<>>

\* build_track of parallel_set_playback, and the clamp of the reference.
LoadedTrack(request, r, own, reference) ==
  [request |-> <<request>>, score |-> BuiltScore(request)[1], rhythm |-> PlaybackConfig(r),
   tempo |-> [own |-> Limited(own, Slowest, Fastest), reference |-> Limited(reference, Slowest, Fastest)]]

----------------------------------------------------------------------------
(* The tree of a cycle, at random access.                                  *)

Pooled(sc) == \E i \in DOMAIN sc.pipeline : LET edit == sc.pipeline[i]
                                           IN edit.enabled /\ edit.op = "switch" /\ edit.seedMode.kind = "history"

\* Mutant of ThroughCycle: the cycle is made at once, whatever the pool.
ThroughCycleAtOnce(sc, cyc) == PipelineOutcomes(sc, cyc)

\* apply_pipeline_through_cycle_mut: a pool is played through the cycles before.
RECURSIVE ThroughCycle(_, _)
ThroughCycle(sc, cyc) ==
  LET before == IF ~Pooled(sc) \/ cyc = 0 THEN {sc.pipeline}
                ELSE {p.pipeline : p \in {q \in ThroughCycle(sc, cyc - 1) : q.ok}}
  IN UNION {PipelineOutcomes([sc EXCEPT !.pipeline = b], cyc) : b \in before}

\* preview_frames_from_root: the beats, and the equal parts of a section that
\* has them, which lie two levels down.
PreviewFrames(tree) ==
  LET IsCustom(child) == child.kids # <<>> /\ child.kids[1].kind = "subdivided"
      Parts(child, at, each) ==
        [i \in DOMAIN child.kids |-> [node |-> child.kids[i], start |-> Plus(at, Times(each, Whole(i - 1))),
                                      dur |-> each, division |-> <<i, Len(child.kids)>>]]
      Of(child, at) ==
        IF IsCustom(child) THEN Parts(child, at, Over(child.dur, Whole(Len(child.kids))))
        ELSE <<[node |-> child, start |-> at, dur |-> child.dur, division |-> <<>>]>>
      Step(state, child) == [at |-> Plus(state.at, child.dur), frames |-> state.frames \o Of(child, state.at)]
  IN FoldLeft(Step, [at |-> Zero, frames |-> <<>>], tree.kids).frames

\* preview_automation_beat_index
BeatIndex(at, beats) == LET beat == Floored(at) IN IF beat > beats - 1 THEN beats - 1 ELSE beat

\* The scale of preview_frames_from_root's fractions: the beats fill the cycle.
Scale(tree) == LET sum == Total([i \in DOMAIN tree.kids |-> tree.kids[i].dur])
               IN IF Less(Zero, sum) THEN Over(One, sum) ELSE One

----------------------------------------------------------------------------
(* The values of automation at a beat.                                     *)

\* automation_playback_targets: what a switch reads, with its base, its kind
\* and its range.  Targets of weights, which are shown but read no more, are
\* left out.
SwitchTargets(s) ==
  LET Lane(target, base, low) == [target |-> target, base |-> Whole(base), low |-> Whole(low), high |-> Whole(127), kind |-> "integer"]
      Ends(name, range) == <<Lane(<<name, "min">>, range[1], 0), Lane(<<name, "max">>, range[2], 0)>>
  IN <<Lane(<<"pitch">>, s.pitch, 0), Lane(<<"velocity">>, s.vel, 1)>>
     \o Ends("beatAccent", s.accent.beat) \o Ends("sectionAccent", s.accent.section)
     \o Ends("jathiAccent", s.accent.jathi)

\* automation_preview_targets: the same, and the tempo.
ScoreTargets(request, own) ==
  <<[target |-> <<"tempo">>, base |-> own, low |-> Slowest, high |-> Fastest, kind |-> "float"]>> \o SwitchTargets(request.switch)

\* sample_preview_automation_values
ShownScore(set, cyc, beat, beats, targets) ==
  LET Of(heard) ==
        FlattenSeq([i \in DOMAIN targets |->
          LET t == targets[i]
              found == Sampled(heard, t.target, t.base, t.kind, t.low, t.high)
          IN [k \in DOMAIN found |-> [target |-> t.target, value |-> found[k]]]])
  IN Of(Heard(set, BeatTime(set, cyc, beat, beats)))

\* automation_target_is_per_beat_post_score: what the routing reads anew for
\* every group of notes.
PerBeat(target) == target[1] \in {"fallback", "matrix", "accent", "position"}

\* append_post_score_preview_values: raw, at the beat for what is read per
\* group and at the first beat for the rest, once for each target.
Unbounded == Whole(10000)
ShownPost(set, cyc, beat, beats, covered) ==
  LET Fresh(i) == /\ set.tracks[i].enabled /\ set.tracks[i].target \notin covered
                  /\ \A j \in 1..(i - 1) : set.tracks[j].enabled => set.tracks[j].target # set.tracks[i].target
      own == SelectSeq([i \in DOMAIN set.tracks |-> i], Fresh)
      Value(target, there, first) ==
        Sampled(IF PerBeat(target) THEN there ELSE first, target, Zero, "float", Minus(Zero, Unbounded), Unbounded)
      Of(there, first) ==
        FlattenSeq([i \in DOMAIN own |->
          LET target == set.tracks[own[i]].target
              found == Value(target, there, first)
          IN [k \in DOMAIN found |-> [target |-> target, value |-> found[k]]]])
  IN Of(Heard(set, PartTime(set, cyc, beat, beats)), Heard(set, BeatTime(set, cyc, 0, beats)))

Shown(request, own, cyc, beat) ==
  LET targets == ScoreTargets(request, own)
      covered == {targets[i].target : i \in DOMAIN targets}
      Both(set) == ShownScore(set, cyc, beat, request.beats, targets) \o ShownPost(set, cyc, beat, request.beats, covered)
  IN IF request.switch.automation = <<>> THEN <<>> ELSE Both(request.switch.automation[1])

\* record_current_automation_state: what playback logs when it comes to a beat:
\* the targets of the first switch that has lanes, and every lane of the
\* rhythm as it is drawn.
ScoreLogged(sc, cyc, beat) ==
  LET Of(s) == ShownScore(s.automation[1], cyc, beat, Beats(sc.length), SwitchTargets(s))
      source == ScoreSource(sc)
  IN FlattenSeq([i \in DOMAIN source |-> Of(source[i])])

RhythmLogged(set, cyc, beat, beats) ==
  LET drawn == SelectSeq(set.tracks, LAMBDA track : track.enabled)
      Of(heard) ==
        FlattenSeq([i \in DOMAIN drawn |->
          LET found == Sampled(heard, drawn[i].target, Zero, "float", Minus(Zero, Unbounded), Unbounded)
          IN [k \in DOMAIN found |-> [target |-> drawn[i].target, value |-> found[k]]]])
  IN Of(Heard(set, BeatTime(set, cyc, beat, beats)))

ValueOf(shown, target, base) ==
  LET found == SelectSeq(shown, LAMBDA v : v.target = target)
  IN IF found = <<>> THEN base ELSE Rounded(Head(found).value)

----------------------------------------------------------------------------
(* The beats of a cycle (score_preview_subdivision_switch).                *)

PreviewBeat(frame, scale, spans, request, own, cyc) ==
  LET first == frame.node.kids[1]
      at == Times(frame.start, Whole(request.beats))
      index == BeatIndex(at, request.beats)
      start == Times(frame.start, scale)
      end == Plus(start, Times(frame.dur, scale))
      holding == SelectSeq(spans, LAMBDA x : x.kind = "gati" /\ AtMost(x.start, at) /\ Less(at, Plus(x.start, x.dur)))
      section == IF holding = <<>> THEN 1 ELSE Head(holding).section
      jathis == SelectSeq(spans, LAMBDA x : x.kind = "jathi" /\ x.section = section)
      Beat(shown) ==
        [beat |-> index + 1, start |-> start, end |-> IF Less(One, end) THEN One ELSE end,
         gati |-> IF holding = <<>> THEN Len(frame.node.kids) ELSE Head(holding).matras,
         effective |-> Len(frame.node.kids), division |-> frame.division, section |-> section,
         jathi |-> IF jathis = <<>> THEN <<>> ELSE <<Head(jathis).matras>>,
         pitch |-> first.pitch, accent |-> first.vel,
         base |-> ValueOf(shown, <<"velocity">>, request.switch.vel), shown |-> shown]
  IN Beat(Shown(request, own, cyc, index))

PreviewBeats(tree, spans, request, own, cyc) ==
  LET Made(frames, scale) == [i \in DOMAIN frames |-> PreviewBeat(frames[i], scale, spans, request, own, cyc)]
      Closed(beats) == IF beats = <<>> THEN beats ELSE [beats EXCEPT ![Len(beats)].end = One]
  IN Closed(Made(PreviewFrames(tree), Scale(tree)))

\* rhythm_span_matra_velocities: the velocity a note on each matra of a span
\* would have; a span without a note has none.
MatraVelocities(span, spans, leaves) ==
  LET Of(own) == IF own = <<>> THEN <<>>
                 ELSE [m \in 1..span.matras |-> LeafAt(own, BoundaryTime(span, spans, m - 1, span.matras)).vel]
  IN IF span.kind = "section" THEN <<>> ELSE Of(LeavesWithin(leaves, span))

\* pulse_span_to_dto: a span as the editors, and the generators they ask
\* about, see it.
SpanDto(span, spans, leaves) ==
  [span |-> span, subdivision |-> Subdivision(span), cuts |-> RhythmCuts(span, spans),
   velocities |-> MatraVelocities(span, spans, leaves)]

\* The preview of a cycle, from what the pipeline made of it.
Preview(p, request, own, cyc) ==
  LET Dtos(leaves) == [i \in DOMAIN p.spans |-> SpanDto(p.spans[i], p.spans, leaves)]
  IN [beats |-> PreviewBeats(p.tree, p.spans, request, own, cyc),
      spans |-> Dtos(Leaves(p.tree, <<>>, Zero, p.length)[1]), pipeline |-> p.pipeline]

----------------------------------------------------------------------------
(* The cells of a generator (resolve_generator_preview).                   *)

\* authored_cell_velocity and stamp_preview_cell_velocities: the velocity of
\* the matra a cell starts on, unless the generator gave it one.
Stamped(cell, velocities) ==
  LET Authored == IF velocities = <<>> THEN <<>>
                  ELSE <<velocities[IF cell.start < Len(velocities) THEN cell.start + 1 ELSE Len(velocities)]>>
  IN [cell EXCEPT !.vel = IF @ = <<>> THEN Authored ELSE @]

\* validate_generator_preview_cycle and generator_preview_live_cycles: a cycle
\* far out is shown only near one that plays.
PreviewCycleAllowed(cyc, live) ==
  cyc =< MaxStoppedPreview \/ \E l \in live : (IF cyc < l THEN l - cyc ELSE cyc - l) =< LivePreviewRadius

\* The cells for the accent spans the editors send back, with the velocities
\* they were shown.
GeneratorPreviews(generator, automation, dtos, cyc, beats, live) ==
  LET asked == SelectSeq(dtos, LAMBDA d : \E a \in ToSet(AccentSpans([i \in DOMAIN dtos |-> dtos[i].span])) : a = d.span)
      Cells(r, d) == [i \in DOMAIN r.cells |-> Stamped(r.cells[i], d.velocities)]
      Stamps(resolved) == [i \in DOMAIN resolved |-> [span |-> asked[i].span, cells |-> Cells(resolved[i], asked[i])]]
      found == Generated(generator, [i \in DOMAIN asked |-> asked[i].span], automation, cyc, beats, <<>>)
  IN IF ~PreviewCycleAllowed(cyc, live) THEN {} ELSE IF generator.enabled THEN {Stamps(g.cells) : g \in found} ELSE {<<>>}

----------------------------------------------------------------------------
(* What is shown is what plays.                                            *)

Authored == session.request # <<>>

Filled(c) == AccentSpans(c.spans) # <<>> /\ \E r \in ToSet(rhythm) : r.generator.enabled

\* A score the shell built from a request never fails to divide its cycle.
AcceptedPlays == Authored /\ stage = "failed" => \A p \in PipelineOutcomes(score, cycle) : p.ok

\* The beats follow each other through the cycle, each with as many matras as
\* its span says, and what is shown of its first note is what sounds there.
BeatsAreHeard(beats, c) ==
  \A i \in DOMAIN beats :
    \E b \in {beats[i]} :
      /\ b.start = IF i = 1 THEN Zero ELSE beats[i - 1].end
      /\ i = Len(beats) => b.end = One
      /\ b.gati = b.effective
      /\ ValueOf(b.shown, <<"pitch">>, b.pitch) = b.pitch
      /\ Filled(c) \/ \E e \in ToSet(c.local) :
           e.on /\ e.tick = Ticks(Times(b.start, score.length)) /\ e.vel = b.accent /\ e.pitch = b.pitch

\* The lanes of the routing show, at a beat, what routes a note that starts
\* with it.
LanesAreHeard(beats, c) ==
  \A i \in DOMAIN c.routed, k \in DOMAIN beats :
    /\ session.request[1].switch.automation = session.rhythm[1].automation
    /\ c.notes[i].start = Ticks(Times(beats[k].start, score.length))
    /\ beats[k].division = <<>>
    => \E shown \in {ToSet(SelectSeq(beats[k].shown, LAMBDA v : PerBeat(v.target)))} :
       \E heard \in {[t \in {v.target : v \in shown} |-> <<<<"replace", (CHOOSE v \in shown : v.target = t).value>>>>]} :
       \E spec \in {AutomatedSpec(session.rhythm[1].spec[1], heard)} :
         <<spec.fallback, spec.fallbackWeights, spec.transitions, spec.accents, spec.positions>>
           = <<c.routed[i].spec.fallback, c.routed[i].spec.fallbackWeights, c.routed[i].spec.transitions,
               c.routed[i].spec.accents, c.routed[i].spec.positions>>

\* What playback logs at a beat is what was shown for it.
LogIsShown(beats) ==
  \A k \in DOMAIN beats :
    \E b \in {beats[k].beat - 1}, shown \in {ToSet(beats[k].shown)} :
      /\ ToSet(ScoreLogged(score, cycle - 1, b)) \subseteq shown
      /\ \A set \in UNION {ToSet(r.automation) : r \in ToSet(rhythm)} :
           session.request[1].switch.automation = <<set>> =>
             {v \in ToSet(RhythmLogged(set, cycle - 1, b, Beats(score.length))) : PerBeat(v.target)}
               = {v \in shown : PerBeat(v.target)}

\* One way the generator may fill the spans is the one that was played: each
\* cell that starts a note shows the velocity of the note.
CellsAreHeard(spans, c) ==
  \A r \in ToSet(rhythm) :
    \E cells \in GeneratorPreviews(r.generator, r.automation, spans, cycle - 1, Beats(score.length), {cycle}) :
      \E all \in {[i \in DOMAIN spans |-> spans[i].span]} :
        Filled(c) =>
          {<<n.start, n.vel>> : n \in ToSet(c.notes)}
            = UNION {{<<Ticks(BoundaryTime(x.span, all, cell.start, x.span.matras)), cell.vel[1]>> :
                        cell \in {k \in ToSet(x.cells) : ~k.rest /\ ~k.from}} : x \in ToSet(cells)}

\* What you see is what plays: the preview of a cycle, made from the authored
\* request at random access, shows the spans, the beats, the lanes and the
\* cells that the first playback realizes and logs, and a pool of seeds that it leaves.
PreviewMatchesPlayback ==
  /\ AcceptedPlays
  /\ Authored /\ path = <<>> =>
       \A c \in Cycles :
         \E p \in ThroughCycle(session.score, cycle - 1) :
         \E v \in {Preview(p, session.request[1], session.tempo.own, cycle - 1)} :
           /\ [i \in DOMAIN v.spans |-> v.spans[i].span] = c.spans
           /\ v.pipeline = score.pipeline
           /\ BeatsAreHeard(v.beats, c) /\ LanesAreHeard(v.beats, c) /\ LogIsShown(v.beats) /\ CellsAreHeard(v.spans, c)
=============================================================================
