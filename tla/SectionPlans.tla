---------------------------- MODULE SectionPlans ----------------------------
(***************************************************************************)
(* The subdivision switch (cseq-transforms, apply_subdivision_switch): it  *)
(* cuts a cycle of whole beats into sections, gives every section a gati   *)
(* (how many matras a beat is divided into) or a grid of equal parts, and a *)
(* jathi (how many matras a group counts), and turns one pulse into the    *)
(* tree of matras.  Beside the tree it emits the pulse spans, the sections,*)
(* frames and groups that rhythm, routing and display go by.               *)
(*                                                                         *)
(* A weighted list is a sequence of <<value, weight>>; an optional custom  *)
(* grid is a sequence of length at most one.                               *)
(***************************************************************************)
EXTENDS ScoreTree, Automation

AllowedJathi == {3, 4, 5, 6, 7, 9, 11}
MaxGati == 64

----------------------------------------------------------------------------
(* What the transform accepts.                                             *)

ValidGatis(choices) == \A i \in DOMAIN choices : choices[i][1] \in 1..MaxGati /\ choices[i][2] >= 0
ValidJathis(choices) == \A i \in DOMAIN choices : choices[i][1] \in AllowedJathi /\ choices[i][2] >= 0
SomePositive(choices) == \E i \in DOMAIN choices : choices[i][2] > 0
ValidRange(range) == range[1] =< range[2] /\ range[2] =< 127

\* CustomSubdivisionSpec::validate
ValidCustom(c) ==
  /\ c.perBeat >= 0 /\ c.equalParts >= 0 /\ c.perBeat + c.equalParts > 0
  /\ c.equalParts > 0 =>
       /\ ValidGatis(c.counts)
       /\ \A i, j \in DOMAIN c.counts : c.counts[i][1] = c.counts[j][1] => i = j
       /\ SomePositive(c.counts) \/ c.divisions # <<>>
       /\ IF c.gatis = <<>> THEN c.divisions # <<>> ELSE ValidGatis(c.gatis) /\ SomePositive(c.gatis)
  /\ \A i \in DOMAIN c.divisions : ValidGatis(c.divisions[i]) /\ SomePositive(c.divisions[i])

\* One inflection of validate_subdivision_switch_inputs.
ValidInflection(f, beats) ==
  /\ f.probability \in 0..100
  /\ Less(Zero, f.position) /\ Less(f.position, One)
  /\ Times(f.position, Whole(beats))[2] = 1
  /\ ValidGatis(f.gatis) /\ ValidJathis(f.jathis)
  /\ \A i \in DOMAIN f.custom :
       /\ ValidCustom(f.custom[i])
       /\ f.probability > 0 /\ f.custom[i].perBeat > 0 => SomePositive(f.gatis)

ValidSwitch(s, beats) ==
  /\ beats > 0
  /\ ValidGatis(s.gatis) /\ ValidJathis(s.jathis)
  /\ \A i \in DOMAIN s.custom : ValidCustom(s.custom[i])
  /\ (\A i \in DOMAIN s.custom : s.custom[i].perBeat > 0) => SomePositive(s.gatis)
  /\ \A range \in {s.accent.beat, s.accent.section, s.accent.jathi} : ValidRange(range)
  /\ \A i \in DOMAIN s.inflections : ValidInflection(s.inflections[i], beats)
  /\ \A i, j \in DOMAIN s.inflections : s.inflections[i].position = s.inflections[j].position => i = j
  /\ s.counts # <<>> =>
       /\ SomePositive(s.counts)
       /\ \A i \in DOMAIN s.counts : s.counts[i][2] >= 0 /\ s.counts[i][1] =< Len(s.inflections)

----------------------------------------------------------------------------
(* Weighted lists are read as one authored choice.                         *)

\* choose_fixed_weighted_value: the first of the largest positive weights.
Heaviest(choices) ==
  LET positive == {i \in DOMAIN choices : choices[i][2] > 0}
      best == CHOOSE i \in positive :
                \A j \in positive : \/ choices[j][2] < choices[i][2]
                                    \/ choices[j][2] = choices[i][2] /\ i =< j
  IN IF positive = {} THEN <<>> ELSE <<choices[best][1]>>

\* Mutant of FitsSection: the groups may leave a part of the section over.
FitsSectionLoose(jathi, matras, frame) == matras > 0 /\ frame > 0 /\ jathi \in AllowedJathi /\ jathi % frame # 0

\* valid_jathi_for_section: the groups have to fill the section, and may not
\* be whole frames of it.
FitsSection(jathi, matras, frame) ==
  matras > 0 /\ frame > 0 /\ jathi \in AllowedJathi /\ matras % jathi = 0 /\ jathi % frame # 0

ChosenJathi(choices, matras, frame) ==
  Heaviest(SelectSeq(choices, LAMBDA c : FitsSection(c[1], matras, frame)))

\* choose_fixed_equal_parts_mode
UsesEqualParts(c) == c.equalParts > 0 /\ c.equalParts > c.perBeat

\* resolve_fixed_custom_grid: <<parts, gati>>, or nothing when the lists hold
\* no positive choice.  The legacy rows lend their first row's gatis.
CustomGrid(c) ==
  LET gatis == IF c.gatis # <<>> THEN Heaviest(c.gatis)
               ELSE IF c.divisions = <<>> THEN <<>> ELSE Heaviest(Head(c.divisions))
  IN Heaviest(c.counts) \o gatis

----------------------------------------------------------------------------
(* Sections.                                                               *)

\* What a boundary asks for: a grid (parts > 0), or a gati per beat.  gati is
\* empty when the lists leave nothing to choose.
Ask(custom, gatis) ==
  IF custom # <<>> /\ UsesEqualParts(custom[1])
  THEN LET grid == CustomGrid(custom[1])
       IN [parts |-> IF Len(grid) = 2 THEN grid[1] ELSE 0, gati |-> IF Len(grid) = 2 THEN Tail(grid) ELSE <<>>]
  ELSE [parts |-> 0, gati |-> Heaviest(gatis)]

\* Every boundary fires: change probabilities and count ladders are no longer
\* read.  The beats are those the inflections, sorted, stand on.
Boundaries(s, beats) ==
  LET Start(f) == Floored(Times(f.position, Whole(beats)))
      sorted == SortSeq(s.inflections, LAMBDA f, g : Less(f.position, g.position))
  IN <<[beat |-> 0, ask |-> Ask(s.custom, s.gatis), jathis |-> s.jathis]>>
     \o [i \in DOMAIN sorted |-> [beat |-> Start(sorted[i]), ask |-> Ask(sorted[i].custom, sorted[i].gatis),
                                  jathis |-> sorted[i].jathis]]

\* resolve_section_plan and resolve_custom_section_plan.
Plan(index, boundary, endBeat) ==
  LET span == endBeat - boundary.beat
      gati == boundary.ask.gati[1]
      parts == boundary.ask.parts
      matras == (IF parts > 0 THEN parts ELSE span) * gati
      frame == IF parts > 0 THEN matras ELSE gati
  IN [index |-> index, start |-> boundary.beat, end |-> endBeat, gati |-> gati, parts |-> parts,
      matras |-> matras, jathi |-> ChosenJathi(boundary.jathis, matras, frame)]

\* resolve_section_plans: fails if a boundary has nothing to choose.
SectionPlans(s, beats) ==
  LET Made(bs) ==
        LET End(i) == IF i = Len(bs) THEN beats ELSE bs[i + 1].beat
        IN IF \E i \in DOMAIN bs : bs[i].ask.gati = <<>> THEN Failed
           ELSE <<[i \in DOMAIN bs |-> Plan(i, bs[i], End(i))]>>
  IN Made(Boundaries(s, beats))

----------------------------------------------------------------------------
(* The frames of a section, and the matras in them.                        *)

\* custom_divisions, or one frame for each beat: where each starts and how
\* long it is, in beats, and its first matra.
Frames(plan) ==
  LET count == IF plan.parts > 0 THEN plan.parts ELSE plan.end - plan.start
      long == Rat(plan.end - plan.start, count)
  IN [i \in 1..count |->
        [start |-> Plus(Whole(plan.start), Times(long, Whole(i - 1))), dur |-> long,
         first |-> (i - 1) * plan.gati]]

\* accented_velocity: the boosts a matra gets, each a range that is drawn from
\* whichever way round it is written.
Accented(vel, accent, gatiStart, sectionStart, jathiStart) ==
  LET Up(v, range, when) ==
        IF when THEN <<v[1] + Min({range[1], range[2]}), v[2] + Max({range[1], range[2]})>> ELSE v
      gati == gatiStart /\ ~(accent.override /\ jathiStart)
      v == Up(Up(Up(<<vel, vel>>, accent.beat, gati), accent.jathi, jathiStart), accent.section, sectionStart)
      Clamp(x) == IF x < 1 THEN 1 ELSE IF x > 127 THEN 127 ELSE x
  IN <<Clamp(v[1]), Clamp(v[2])>>

\* What the automation of a switch says at a beat of the cycle.
HeardAtBeat(s, cycle, beats, beat) ==
  IF s.automation = <<>> THEN <<>> ELSE Heard(s.automation[1], BeatTime(s.automation[1], cycle, beat, beats))

\* sample_automation_u8
Raised8(heard, target, base, low) == Max({low, Whole8(heard, target, base, low, 127)})

\* sample_automation_accent
AccentAt(s, heard) ==
  LET Ends(name, range) ==
        [i \in 1..2 |-> Raised8(heard, <<name, IF i = 1 THEN "min" ELSE "max">>, range[i], 0)]
  IN [s.accent EXCEPT !.beat = Ends("beatAccent", @), !.section = Ends("sectionAccent", @),
                      !.jathi = Ends("jathiAccent", @)]

\* build_matra_nodes for the frame i of a section, automated by the beat that
\* the frame starts in.
Matras(s, cycle, beats, plan, i, frame) ==
  LET Starts(m) == plan.jathi # <<>> /\ (frame.first + m) % plan.jathi[1] = 0
      Made(pitch, vel, accent) ==
        [m \in 1..plan.gati |->
           Note(Rat(1, plan.gati), pitch, One, Accented(vel, accent, m = 1, i = 1 /\ m = 1, Starts(m - 1)),
                <<"matra", plan.index, i, m>>)]
      From(heard) == Made(Raised8(heard, <<"pitch">>, s.pitch, 0), Raised8(heard, <<"velocity">>, s.vel, 1),
                          AccentAt(s, heard))
  IN From(HeardAtBeat(s, cycle, beats, Floored(frame.start)))

\* The nodes a section adds under the divided pulse: one for each beat, or one
\* for the whole section holding its equal parts.
SectionNodes(s, cycle, plan, beats) ==
  LET Node(frame, i) ==
        Subdivided(IF plan.parts = 0 THEN Rat(1, beats) ELSE frame.dur, Matras(s, cycle, beats, plan, i, frame), Equal,
                   IF plan.parts = 0 THEN <<"beat", plan.start + i>> ELSE <<"div", plan.index, i>>)
      Nodes(frames) == [i \in DOMAIN frames |-> Node(frames[i], i)]
      Grouped(nodes) ==
        IF plan.parts = 0 THEN nodes
        ELSE <<Subdivided(Rat(plan.end - plan.start, beats), nodes, Equal, <<"section", plan.index>>)>>
  IN Grouped(Nodes(Frames(plan)))

\* apply_subdivision_switch on a pulse of a tree.
SwitchNode(node, s, beats, cycle) ==
  LET Built(plans) ==
        LET policy == IF \E i \in DOMAIN plans : plans[i].parts > 0 THEN Explicit ELSE Equal
        IN Subdivided(node.dur, FlattenSeq([i \in DOMAIN plans |-> SectionNodes(s, cycle, plans[i], beats)]),
                      policy, node.tag)
      Result(found) == IF found = Failed THEN Failed ELSE <<Built(found[1])>>
  IN IF ~ValidSwitch(s, beats) \/ node.kind \notin {"note", "rest"} THEN Failed
     ELSE Result(SectionPlans(s, beats))

----------------------------------------------------------------------------
(* The pulse spans (emit_pulse_spans), in beats of the cycle.              *)

Span(kind, section, start, dur, first, matras) ==
  [kind |-> kind, section |-> section, start |-> start, dur |-> dur, first |-> first, matras |-> matras]

\* custom_matra_boundary_time, and its counterpart for beats: the time of a
\* matra of a section, by the frame it lies in or ends.
MatraTime(plan, frames, matra) ==
  LET holding == {i \in DOMAIN frames : matra >= frames[i].first /\ matra =< frames[i].first + plan.gati}
      i == CHOOSE i \in holding : \A j \in holding : i =< j
  IN IF plan.parts = 0
     THEN Plus(Whole(plan.start), Rat(matra * (plan.end - plan.start), plan.matras))
     ELSE IF matra = plan.matras THEN Whole(plan.end)
     ELSE Plus(frames[i].start, Times(frames[i].dur, Rat(matra - frames[i].first, plan.gati)))

JathiSpans(plan, frames) ==
  LET jathi == plan.jathi[1]
      Group(k, from, to) == Span("jathi", plan.index, from, Minus(to, from), k * jathi, jathi)
  IN IF plan.jathi = <<>> THEN <<>>
     ELSE [k \in 1..(plan.matras \div jathi) |->
             Group(k - 1, MatraTime(plan, frames, (k - 1) * jathi), MatraTime(plan, frames, k * jathi))]

SpansOf(plan) ==
  LET All(frames) ==
        <<Span("section", plan.index, Whole(plan.start), Whole(plan.end - plan.start), 0, plan.matras)>>
        \o [i \in DOMAIN frames |->
              Span("gati", plan.index, frames[i].start, frames[i].dur, frames[i].first, plan.gati)]
        \o JathiSpans(plan, frames)
  IN All(Frames(plan))

\* The spans replace those of any switch applied before.
Spans(s, beats) ==
  LET Of(plans) == FlattenSeq([i \in DOMAIN plans |-> SpansOf(plans[i])])
  IN Of(SectionPlans(s, beats)[1])

\* rhythm_accent_spans: the groups of a section that has any, else its frames.
AccentSpans(spans) ==
  SelectSeq(spans, LAMBDA x : \/ x.kind = "jathi"
                              \/ x.kind = "gati" /\ \A i \in DOMAIN spans :
                                   ~(spans[i].kind = "jathi" /\ spans[i].section = x.section))

\* protected_cuts_for_span: the matras at which other spans of the section cut
\* a span; cuts between matras are passed over.
Cuts(span, spans) ==
  LET Edges(x) == {x.start, Plus(x.start, x.dur)}
      others == {i \in DOMAIN spans : spans[i] # span /\ spans[i].section = span.section
                                      /\ spans[i].kind # "section"}
      Inside(t) == Less(span.start, t) /\ Less(t, Plus(span.start, span.dur))
      Matra(t) == Times(Minus(t, span.start), Over(Whole(span.matras), span.dur))
  IN IF span.kind = "section" THEN {}
     ELSE {Matra(t)[1] : t \in {u \in UNION {Edges(spans[i]) : i \in others} : Inside(u) /\ Matra(u)[2] = 1}}

\* rhythm_protected_cuts_for_span: only the active accents cut.
RhythmCuts(span, spans) ==
  LET Active(active) == IF \E i \in DOMAIN active : active[i] = span THEN Cuts(span, active) ELSE {}
  IN Active(AccentSpans(spans))
=============================================================================
