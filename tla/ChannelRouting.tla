--------------------------- MODULE ChannelRouting ---------------------------
(***************************************************************************)
(* The routing of one cycle's notes to MIDI channels (cseq-transport       *)
(* rewrite.rs).  The queue of a cycle pairs into note groups; each group,  *)
(* in the order of its note-on in the queue, is given a channel by a rule  *)
(* on its place, by a rule on its velocity or by the walker, with the      *)
(* specification as it is automated at the group's own tick.               *)
(*                                                                         *)
(* An event is [tick, on, channel, pitch, vel], vel the range its velocity *)
(* is drawn from.                                                          *)
(***************************************************************************)
EXTENDS HocketAutomation, SectionPlans

CONSTANT PPQN  \* ticks of a beat

Ticks(t) == Rounded(Times(t, Whole(PPQN)))  \* offset_to_ticks

----------------------------------------------------------------------------
(* Note groups.                                                            *)

\* collect_channel_note_groups: a note-off closes the note opened last at its
\* channel and pitch.
NoteGroups(queue) ==
  LET Same(i, j) == queue[i].pitch = queue[j].pitch /\ queue[i].channel = queue[j].channel
      Step(state, i) ==
        LET open == {j \in state.open : Same(i, j)}
        IN IF queue[i].on THEN [state EXCEPT !.open = @ \cup {i}]
           ELSE IF open = {} THEN state
           ELSE [open |-> state.open \ {Max(open)}, pairs |-> state.pairs \cup {<<Max(open), i>>}]
      Groups(pairs) ==
        SelectSeq([i \in DOMAIN queue |-> {p \in pairs : p[1] = i}], LAMBDA p : p # {})
      Group(p) == [on |-> p[1], off |-> p[2], start |-> queue[p[1]].tick, end |-> queue[p[2]].tick,
                   vel |-> queue[p[1]].vel]
      Listed(groups) == [i \in DOMAIN groups |-> Group(CHOOSE p \in groups[i] : TRUE)]
  IN Listed(Groups(FoldLeft(Step, [open |-> {}, pairs |-> {}], [i \in DOMAIN queue |-> i]).pairs))

\* Those that lie within the cycle.
GroupsOfCycle(queue, ticksPerCycle) ==
  SelectSeq(NoteGroups(queue), LAMBDA g : g.start >= 0 /\ g.end =< ticksPerCycle)

----------------------------------------------------------------------------
(* Where a group stands.                                                   *)

Region(span) == [section |-> span.section, start |-> Ticks(span.start), end |-> Ticks(Plus(span.start, span.dur))]
Regions(spans, kind) ==
  LET chosen == SelectSeq(spans, LAMBDA x : x.kind = kind)
  IN SelectSeq([i \in DOMAIN chosen |-> Region(chosen[i])], LAMBDA r : r.end > r.start)

\* channel_section_regions and channel_accent_regions.
SectionRegions(spans) == Regions(spans, "section")
AccentRegions(spans) ==
  LET jathis == Regions(spans, "jathi")
      gatis == SelectSeq(Regions(spans, "gati"), LAMBDA r :
                 \A i \in DOMAIN jathis : jathis[i].section # r.section)
  IN SortSeq(jathis \o gatis, LAMBDA a, b : a.start < b.start)

\* The first region a tick lies in, if any.
Containing(regions, tick) ==
  LET inside == {i \in DOMAIN regions : regions[i].start =< tick /\ tick < regions[i].end}
  IN IF inside = {} THEN <<>> ELSE <<regions[FirstOf(inside)]>>

\* channel_note_position_index: how many groups of its beat, and of its
\* section, have started when a group has, in the order of time.
Position(groups, i, beats, ticksPerCycle, sections) ==
  LET Beat(g) == BeatAtTick(g.start, ticksPerCycle, beats)
      Before(j) == groups[j].start < groups[i].start \/ (groups[j].start = groups[i].start /\ j =< i)
      Home(g) == Containing(sections, g.start)
      Ordinal(key(_)) == Cardinality({j \in DOMAIN groups : key(groups[j]) = key(groups[i]) /\ Before(j)})
  IN [inBeat |-> Ordinal(Beat), inSection |-> IF Home(groups[i]) = <<>> THEN 0 ELSE Ordinal(Home)]

\* euclid_group_contexts
Context(group, reset, beats, ticksPerCycle, spans) ==
  LET Key(found) == IF found = <<>> THEN NoRegion ELSE <<found[1].start>>
      Seen(accent) ==
        [region |-> CASE reset = "cycle" -> <<0>>
                      [] reset = "section" -> Key(Containing(SectionRegions(spans), group.start))
                      [] reset = "beat" -> <<BeatAtTick(group.start, ticksPerCycle, beats)>>
                      [] reset = "accentSpan" -> Key(accent),
         accent |-> accent # <<>> /\ accent[1].start = group.start]
  IN Seen(Containing(AccentRegions(spans), group.start))

----------------------------------------------------------------------------
(* The specification a group is routed by.                                 *)

\* channel_hocket_spec_for_group: automated at the phase of the group's tick;
\* only a Euclidean pattern is repaired after it.
GroupSpec(spec, automation, cycle, tick, ticksPerCycle) ==
  LET Resampled(set) == AutomatedSpec(spec, Heard(set, PartTime(set, cycle, tick, ticksPerCycle)))
      Settled(adjusted) == IF adjusted.mode = "euclid" THEN RepairedEuclid(adjusted) ELSE adjusted
  IN IF automation = <<>> \/ automation[1].tracks = <<>> THEN spec ELSE Settled(Resampled(automation[1]))

----------------------------------------------------------------------------
(* The assignment of a channel.  Each operator gives the set of outcomes   *)
(* [channel, walker] that some draw makes.                                 *)

Sent(channel, walker) == [channel |-> channel, walker |-> walker]
Onward(spec, tables, walker) == {Sent(n.channel, n.walker) : n \in NextChoices(spec, tables, walker)}
Rendered(channel, spec, tables, walker) == {Sent(channel, n.walker) : n \in NextChoices(spec, tables, walker)}

\* Candidates of choose_channel_weight.
Candidates(weights, spec) == {w.channel : w \in {v \in Positive(weights) : Enabled(spec, v.channel)}}

\* choose_channel_position_reset_channel
ResetTargets(rule, spec) ==
  LET custom == Candidates(rule.resetWeights, spec)
      fallbacks == Candidates(spec.fallbackWeights, spec)
  IN CASE rule.resetMode = "static" -> {spec.fallback}
       [] rule.resetMode = "weighted" -> IF fallbacks = {} THEN {spec.fallback} ELSE fallbacks
       [] rule.resetMode = "custom" -> custom

\* choose_channel_position_action
Actions(rule, spec) ==
  (IF rule.normal > 0 THEN {"normal"} ELSE {})
  \cup (IF rule.render > 0 /\ Candidates(rule.renderWeights, spec) # {} THEN {"render"} ELSE {})
  \cup (IF rule.reset > 0 /\ ResetTargets(rule, spec) # {} THEN {"reset"} ELSE {})

\* channel_position_rule_matches
Matches(rule, position) == rule.nth = IF rule.scope = "beat" THEN position.inBeat ELSE position.inSection

\* choose_position_channel_assignment: the first rule that matches and can act.
Placed(spec, position) ==
  LET able == {i \in DOMAIN spec.positions :
                 /\ spec.positions[i].enabled /\ Matches(spec.positions[i], position)
                 /\ Actions(spec.positions[i], spec) # {}}
  IN IF able = {} THEN <<>> ELSE <<spec.positions[FirstOf(able)]>>

ByPosition(rule, spec, tables, walker) ==
  UNION {CASE a = "normal" -> Onward(spec, tables, walker)
           [] a = "render" -> UNION {Rendered(c, spec, tables, walker) : c \in Candidates(rule.renderWeights, spec)}
           [] a = "reset" -> {Sent(c, Reset(spec, walker, c)) : c \in ResetTargets(rule, spec)}
         : a \in Actions(rule, spec)}

\* choose_accent_channel_assignment: rules that fit the velocity, one after the
\* other, until a roll succeeds; 0 stands for none.
Accenting(spec, vel) ==
  LET fits == SelectSeq(spec.accents, LAMBDA r : /\ Min({r.min, r.max}) =< vel /\ vel =< Max({r.min, r.max})
                                                  /\ Less(Zero, r.probability)
                                                  /\ Candidates(r.weights, spec) # {})
      sure == {i \in DOMAIN fits : AtMost(Whole(100), fits[i].probability)}
      heard == IF sure = {} THEN DOMAIN fits ELSE 1..FirstOf(sure)
      picks == UNION {{[channel |-> c, mode |-> fits[i].mode] : c \in Candidates(fits[i].weights, spec)} : i \in heard}
  IN picks \cup (IF sure = {} THEN {[channel |-> 0, mode |-> "none"]} ELSE {})

ByAccent(spec, tables, walker, vel) ==
  UNION {CASE a.mode = "none" -> Onward(spec, tables, walker)
           [] a.mode = "driveChain" -> {Sent(a.channel, Forced(spec, tables, walker, a.channel))}
           [] a.mode = "renderOnly" -> Rendered(a.channel, spec, tables, walker)
         : a \in Accenting(spec, vel)}

\* euclid_bypassed_accent_assignment: the pinned note takes no step.
Pinned(spec, context) ==
  spec.mode = "euclid" /\ context.accent /\ spec.euclid[1].accents = "bypass"
PinChannel(spec) == IF spec.euclid[1].anchor = <<>> THEN spec.fallback ELSE spec.euclid[1].anchor[1]

\* Mutant of Assignments: a pinned note takes a step.
AssignmentsPinnedStep(spec, walker, position, context, vel) ==
  LET Choose(tables) ==
        IF Pinned(spec, context) THEN Rendered(PinChannel(spec), spec, tables, EnterRegion(walker, context.region))
        ELSE Onward(spec, tables, EnterRegion(walker, context.region))
  IN IF ~ValidSpec(spec) \/ spec.mode # "euclid" THEN {} ELSE Choose(Tables(spec))

\* next_channel_assignment_for_group, after enter_region.  A walker checks the
\* specification at every call; no outcome is an error of the cycle.
Assignments(spec, walker, position, context, vel) ==
  LET Within(w) == IF spec.mode = "euclid" THEN EnterRegion(w, context.region) ELSE w
      Choose(tables, w) == LET rule == Placed(spec, position)
                           IN IF rule # <<>> THEN ByPosition(rule[1], spec, tables, w)
                              ELSE ByAccent(spec, tables, w, vel)
  IN IF Pinned(spec, context) THEN {Sent(PinChannel(spec), walker)}
     ELSE IF ~ValidSpec(spec) THEN {}
     ELSE Choose(IF spec.mode = "euclid" THEN Tables(spec) ELSE <<>>, Within(walker))

\* assign_channel_group
Assigned(queue, group, channel) ==
  [queue EXCEPT ![group.on].channel = channel, ![group.off].channel = channel]

\* apply_static_midi_channel_to_queue
Static(queue, channel) == [i \in DOMAIN queue |-> [queue[i] EXCEPT !.channel = channel]]

\* Mutant of Sorted: note-ons first.
SortedOnsFirst(queue) == Stably(queue, LAMBDA a, b : a.tick < b.tick \/ (a.tick = b.tick /\ a.on /\ ~b.on))

\* The queue by tick, note-offs first.
Sorted(queue) == Stably(queue, LAMBDA a, b : a.tick < b.tick \/ (a.tick = b.tick /\ ~a.on /\ b.on))
=============================================================================
