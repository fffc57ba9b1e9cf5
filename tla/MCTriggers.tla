----------------------------- MODULE MCTriggers -----------------------------
(* Small followers: two ticks to a beat, source cycles of two beats, one    *)
(* band of the configuration exercised at a time.  Every configuration      *)
(* starts as the record of a patch and goes through editor and engine.      *)
EXTENDS TriggerCompiler, TriggerConfig

Tag(t) == Obj([type |-> Str(t)])
leaf(p) == Obj([type |-> Str("leaf"), predicate |-> p])
all(nodes) == Obj([type |-> Str("all"), nodes |-> Arr(nodes)])
any(nodes) == Obj([type |-> Str("any"), nodes |-> Arr(nodes)])
not(node) == Obj([type |-> Str("not"), node |-> node])
Matra(t, n) == Obj([type |-> Str(t), matra |-> Num(n)])
Count(t, op, n) == Obj([type |-> Str(t), op |-> op, count |-> Num(n)])
Rest == leaf(Tag("isRest"))

\* A source of n cycles of two beats: its onsets by cycle, in local ticks.
Source(n, onsets(_), gati) ==
  LET spans == {[beat |-> b, section |-> b, gati |-> gati,
                 from |-> [num |-> b, den |-> 1], to |-> [num |-> b + 1, den |-> 1]] :
                b \in 0 .. 1}
      Same == [t \in 0 .. 4 |-> t]
  IN {ResolveCycle(c, 2, spans, {[num |-> 1, den |-> 2]}, onsets(c), 4 * c, Same) : c \in 0 .. n}

OffBeat(c) == {2}
Sparse(c) == IF c % 2 = 0 THEN {} ELSE {0, 3}

When(beats, tree) == Obj([beats |-> beats, tree |-> tree])
AnyBeat == Tag("anyBeat")
At(n) == Obj([type |-> Str("at"), beat |-> Num(n)])

Base ==
  [sourceTrackId |-> Str("lead"), when |-> When(AnyBeat, Rest), lifetime |-> Tag("onePass"),
   reTrigger |-> Str("queue"), length |-> Tag("scoreCycle")]
Record(changed) == Obj(changed @@ Base)

Repeats(n) == Obj([type |-> Str("repeats"), passes |-> Num(n)])
Gate(p, boost, cooldown) ==
  Obj([probabilityPerMille |-> Num(p), missBoostPerMille |-> Num(boost),
       cooldownCycles |-> Num(cooldown), seed |-> Num(1)])
Snapped(grid, direction) == Obj([grid |-> grid, direction |-> Str(direction)])
Fraction(n) == Obj([type |-> Str("referenceBeatFraction"), divisions |-> Num(n)])
Multiple(n) == Obj([type |-> Str("referenceBeatMultiple"), beats |-> Num(n)])

\* Conditions: counts, sections, pulses, matras, under all, any and not.
Trees ==
  {all(<<leaf(Tag("isSectionStart")), leaf(Count("restCountInCycle", Str("atLeast"), 1))>>),
   not(any(<<leaf(Tag("hasJathiPulse")), leaf(Matra("matraIsSounding", 1))>>)),
   all(<<leaf(Matra("matraIsRest", 0)), leaf(Obj([type |-> Str("gatiIs"), gati |-> Num(2)]))>>),
   any(<<leaf(Count("soundingCountInCycle", Str("lessThan"), 2)), not(Rest)>>),
   leaf(Tag("isSounding"))}

\* Records nobody's inspector writes: unknown tags, empty and over-deep and
\* over-large trees, numbers out of bounds, texts for numbers, a legacy
\* condition, a list of starts too long or empty.
Odd ==
  {[when |-> When(At(9999), all(<<Tag("bogus"), leaf(Obj([type |-> Str("gatiIs"), gati |-> Num(0)]))>>))],
   [when |-> When(AnyBeat, not(not(not(not(leaf(Tag("isSounding")))))))],
   [when |-> When(AnyBeat, any(<<not(Rest), not(Rest), not(Rest)>>))],
   [when |-> When(Null, all(<<any(<<>>), leaf(Matra("matraIsSounding", -1))>>))],
   [when |-> When(At(1), leaf(Count("restCountInCycle", Text(3), 9999)))],
   [when |-> When(At(1), leaf(Obj([type |-> Str("gatiIs"), gati |-> Text(2)])))],
   [when |-> Null, condition |-> Obj([type |-> Str("gatiIs"), beat |-> Num(1), gati |-> Num(99)])],
   [when |-> Obj([beats |-> AnyBeat])],
   [lifetime |-> Repeats(0), maxRepeats |-> Num(0), length |-> Obj([type |-> Str("fixedBeats"), beats |-> Num(0)])],
   [lifetime |-> Repeats(3), maxRepeats |-> Num(2)],
   [gate |-> Gate(99, -1, 9999), launchQuantize |-> Snapped(Fraction(0), "later")],
   [gate |-> Arr(<<>>), startSelect |-> Obj([options |-> Arr(<<>>)])]}

\* A weighted start that moves some fires past later ones.
Late ==
  Obj([seed |-> Num(1),
       options |-> Arr(<<Obj([alignment |-> Obj([type |-> Str("afterEventTicks"), ticks |-> Num(6)]),
                              weight |-> Num(1)]),
                         Obj([alignment |-> Tag("atEvent")]),
                         Obj([alignment |-> Tag("atSourceReturn"), weight |-> Num(1)])>>)])

MCRecords ==
  {Record([reTrigger |-> Str(r), lifetime |-> Repeats(n)]) : r \in {"queue", "ignore", "restart"}, n \in 1 .. 2}
  \cup {Record([when |-> When(At(1), t)]) : t \in Trees}
  \cup {Record([launchAlignment |-> Tag(a), reTrigger |-> Str("ignore")]) :
          a \in {"atSourceCycleStart", "atNextReferenceBeat", "centerInRest", "atSourceReturn"}}
  \cup {Record([launchQuantize |-> q, reTrigger |-> Str("restart")]) :
          q \in {Snapped(Multiple(3), "next"), Snapped(Fraction(1), "nearest"),
                 Snapped(Tag("sourceGatiMatra"), "next"), Snapped(Fraction(1), "previous")}}
  \cup {Record([gate |-> g, startSelect |-> Late, reTrigger |-> Str(r)]) :
          g \in {Gate(10, 0, 2), Gate(2, 3, 0)}, r \in {"queue", "restart"}}
  \cup {Record(o) : o \in Odd}

MCScenarios ==
  {[record |-> r, cfg |-> Bands(EngineConfig(EditorConfig(r)), <<3, 5>>), cycles |-> s] :
     r \in MCRecords, s \in {Source(4, OffBeat, 2), Source(4, Sparse, 1)}}

ASSUME LaunchesAssumption == PlacedForward

\* What the editor shows of a trigger is what the engine runs, and opening a
\* condition in the editor's rows does not change it.  (Of the record the
\* scenario was loaded from.)
EditorShowsWhatRuns ==
  compiled = 0 => ShownIsRun(scenario.record) /\ RowsKeepMeaning(scenario.record, scenario.cycles)

=============================================================================
