--------------------------- MODULE TriggerConfig ---------------------------
(************************************************************************** *)
(* The configuration of a triggered track, from the record of a patch to    *)
(* what the compiler runs: the editor's normalizer (ui/src/patchIo.ts), the *)
(* engine's forgiving deserialization and its own normalization             *)
(* (crates/cseq-trigger/src/config.rs), and the flat editor of conditions   *)
(* (ui/src/triggerUi.ts).                                                   *)
(*                                                                          *)
(* A JSON value is a tagged pair: <<"n", 5>>, <<"s", "all">>, an object     *)
(* <<"o", record>>, an array <<"a", sequence>>, <<"t", 5>> a text that      *)
(* reads as a number, <<"b">>, <<"null">>, and <<"absent">> where a field   *)
(* is missing.  Numbers are already whole: both sides round them alike.     *)
(************************************************************************** *)
EXTENDS Triggers

CONSTANTS
  MaxNodes,         \* MAX_CONDITION_NODES, 256 in the code
  MaxStartOptions,  \* MAX_START_OPTIONS, 16 in the code
  MaxRepeatsCap,    \* MAX_REPEATS_CAP, 4096 in the code
  MaxRepeatsUsual   \* DEFAULT_MAX_REPEATS, 64 in the code

ASSUME TriggerConfigAssumption ==
  /\ MaxNodes \in Nat \ {0} /\ MaxStartOptions \in Nat \ {0}
  /\ MaxRepeatsUsual \in Nat \ {0} /\ MaxRepeatsUsual <= MaxRepeatsCap

Num(n) == <<"n", n>>
Str(s) == <<"s", s>>
Obj(r) == <<"o", r>>
Arr(s) == <<"a", s>>
Text(n) == <<"t", n>>
Null == <<"null">>
Absent == <<"absent">>

Field(v, name) == IF v[1] = "o" /\ name \in DOMAIN v[2] THEN v[2][name] ELSE Absent
Given(v) == v \notin {Null, Absent}
Clamp(n, low, high) == IF n < low THEN low ELSE IF n > high THEN high ELSE n

RestLeaf == Obj([type |-> Str("leaf"), predicate |-> Obj([type |-> Str("isRest")])])

\* The numbers a predicate carries, what stands for a missing one, the bounds.
Numbers ==
  [gati |-> [usual |-> 4, low |-> 1, high |-> 32],
   matra |-> [usual |-> 0, low |-> 0, high |-> 63],
   count |-> [usual |-> 0, low |-> 0, high |-> 256],
   beat |-> [usual |-> 0, low |-> 0, high |-> 63],
   ticks |-> [usual |-> 0, low |-> 0, high |-> 1000000],
   divisions |-> [usual |-> 1, low |-> 1, high |-> 64],
   beats |-> [usual |-> 1, low |-> 1, high |-> 64],
   probabilityPerMille |-> [usual |-> ProbabilityMax, low |-> 0, high |-> ProbabilityMax],
   missBoostPerMille |-> [usual |-> 0, low |-> 0, high |-> ProbabilityMax],
   cooldownCycles |-> [usual |-> 0, low |-> 0, high |-> 4096],
   weight |-> [usual |-> 1, low |-> 0, high |-> 1000000]]

\* The tagged unions of a configuration: the fields each tag carries.
Predicates ==
  [isRest |-> {}, isSounding |-> {}, isSectionStart |-> {}, hasJathiPulse |-> {},
   gatiIs |-> {"gati"}, matraIsRest |-> {"matra"}, matraIsSounding |-> {"matra"},
   restCountInCycle |-> {"op", "count"}, soundingCountInCycle |-> {"op", "count"}]
Alignments ==
  [atEvent |-> {}, atSourceCycleStart |-> {}, atNextReferenceBeat |-> {},
   afterEventTicks |-> {"ticks"}, centerInRest |-> {}, atSourceReturn |-> {}]
QuantizeGrids ==
  [referenceBeatFraction |-> {"divisions"}, referenceBeatMultiple |-> {"beats"},
   sourceGatiMatra |-> {}]
LegacyConditions ==
  [beatIsRest |-> {"beat"}, beatIsSounding |-> {"beat"}, sectionStartAtBeat |-> {"beat"},
   gatiIs |-> {"beat", "gati"}, jathiPulseAtBeat |-> {"beat"}]
Lifetimes == [onePass |-> {}, repeats |-> {"passes"}]
Lengths == [scoreCycle |-> {}, fixedBeats |-> {"beats"}]
ReTriggers == {"restart", "ignore", "queue"}
CountOps == {"atLeast", "atMost", "exactly", "moreThan", "lessThan"}

(************************************************************************** *)
(* patchIo.ts: the editor's normalizer                                     *)
(************************************************************************** *)

NumberValue(v, usual) == IF v[1] = "n" THEN v[2] ELSE usual
StringIn(v, tags, usual) == IF v[1] = "s" /\ v[2] \in tags THEN v[2] ELSE usual

EditorNumber(v, name) ==
  LET n == Numbers[name] IN Num(Clamp(NumberValue(Field(v, name), n.usual), n.low, n.high))

\* A tagged record of the editor: an unknown tag is the usual one.
EditorTagged(v, union, usual) ==
  LET tag == StringIn(Field(v, "type"), DOMAIN union, usual) IN
  Obj([type |-> Str(tag)]
      @@ [f \in union[tag] |->
            IF f = "op" THEN Str(StringIn(Field(v, f), CountOps, "atLeast"))
            ELSE EditorNumber(v, f)])

\* normalizeTriggerConditionNode
RECURSIVE EditorNode(_, _)
EditorNode(v, depth) ==
  LET tag == StringIn(Field(v, "type"), {"all", "any", "not"}, "leaf")
      listed == IF Field(v, "nodes")[1] = "a" THEN Field(v, "nodes")[2] ELSE <<>>
  IN CASE depth >= MaxDepth \/ v[1] # "o" -> RestLeaf
       [] tag = "leaf" ->
            Obj([type |-> Str("leaf"),
                 predicate |-> EditorTagged(Field(v, "predicate"), Predicates, "isRest")])
       [] tag = "not" ->
            Obj([type |-> Str("not"), node |-> EditorNode(Field(v, "node"), depth + 1)])
       [] listed = <<>> -> RestLeaf
       [] OTHER ->
            Obj([type |-> Str(tag),
                 nodes |-> Arr([n \in DOMAIN listed |-> EditorNode(listed[n], depth + 1)])])

\* conditionNodeCount, of a tree either side has normalized or read.
RECURSIVE NodeCount(_)
NodeCount(node) ==
  CASE node[2].type = Str("leaf") -> 1
    [] node[2].type = Str("not") -> 1 + NodeCount(node[2].node)
    [] OTHER -> 1 + MapThenSumSet(LAMBDA n : NodeCount(node[2].nodes[2][n]),
                                  DOMAIN node[2].nodes[2])

Selector(v, beat) ==
  IF Field(v, "type") = Str("anyBeat") THEN Obj([type |-> Str("anyBeat")])
  ELSE Obj([type |-> Str("at"), beat |-> beat])

\* normalizeWhenSpec: the depth is cut first, then the nodes are counted.
EditorWhenSpec(v) ==
  LET beats == Selector(Field(v, "beats"), EditorNumber(Field(v, "beats"), "beat"))
      tree == EditorNode(Field(v, "tree"), 0)
  IN Obj([beats |-> beats, tree |-> IF NodeCount(tree) > MaxNodes THEN RestLeaf ELSE tree])

\* whenSpecFromLegacyCondition, from_legacy_condition
LegacyPredicate ==
  [beatIsRest |-> "isRest", beatIsSounding |-> "isSounding",
   sectionStartAtBeat |-> "isSectionStart", jathiPulseAtBeat |-> "hasJathiPulse",
   gatiIs |-> "gatiIs"]

FromLegacy(condition) ==
  LET c == condition[2]
      kept == [f \in DOMAIN c \ {"type", "beat"} |-> c[f]]
  IN Obj([beats |-> Obj([type |-> Str("at"), beat |-> c.beat]),
          tree |-> Obj([type |-> Str("leaf"),
                        predicate |-> Obj([type |-> Str(LegacyPredicate[c.type[2]])] @@ kept)])])

\* effectiveTriggerWhen
EditorWhen(v) ==
  IF Given(Field(v, "when")) THEN EditorWhenSpec(Field(v, "when"))
  ELSE IF Given(Field(v, "condition"))
  THEN EditorWhenSpec(FromLegacy(EditorTagged(Field(v, "condition"), LegacyConditions, "beatIsRest")))
  ELSE EditorWhenSpec(Absent)

OrNull(isThere, read) == IF isThere THEN read ELSE Null

EditorStarts(v) ==
  LET options == Field(v, "options")[2]
      First(n) == 1 .. Minimum(Len(options), n)
  IN Obj([options |-> Arr([n \in First(MaxStartOptions) |->
                             Obj([alignment |-> EditorTagged(Field(options[n], "alignment"),
                                                             Alignments, "atEvent"),
                                  weight |-> EditorNumber(options[n], "weight")])]),
          seed |-> Num(Monus(NumberValue(Field(v, "seed"), 0), 0))])

EditorGate(v) ==
  Obj([f \in {"probabilityPerMille", "cooldownCycles", "missBoostPerMille"} |-> EditorNumber(v, f)]
      @@ [seed |-> Num(Monus(NumberValue(Field(v, "seed"), 0), 0))])

EditorQuantize(v) ==
  Obj([grid |-> EditorTagged(Field(v, "grid"), QuantizeGrids, "referenceBeatFraction"),
       direction |-> Str(StringIn(Field(v, "direction"), {"next", "nearest", "previous"}, "next"))])

EditorLifetime(v) ==
  IF Field(v, "type") = Str("repeats")
  THEN Obj([type |-> Str("repeats"),
            passes |-> Num(Clamp(NumberValue(Field(v, "passes"), 1), 1, MaxRepeatsCap))])
  ELSE Obj([type |-> Str("onePass")])

EditorLength(v) ==
  IF Field(v, "type") = Str("fixedBeats")
  THEN Obj([type |-> Str("fixedBeats"),
            beats |-> Num(Clamp(NumberValue(Field(v, "beats"), 1), 1, 256))])
  ELSE Obj([type |-> Str("scoreCycle")])

\* normalizeTriggerConfig, of a record with a source track.
EditorConfig(v) ==
  LET most == NumberValue(Field(v, "maxRepeats"), MaxRepeatsUsual)
      starts == Field(v, "startSelect")
      options == Field(starts, "options")
  IN Obj([sourceTrackId |-> Field(v, "sourceTrackId"),
          when |-> EditorWhen(v),
          launchAlignment |-> EditorTagged(Field(v, "launchAlignment"), Alignments, "atEvent"),
          launchQuantize |-> OrNull(Field(v, "launchQuantize")[1] = "o",
                                    EditorQuantize(Field(v, "launchQuantize"))),
          lifetime |-> EditorLifetime(Field(v, "lifetime")),
          reTrigger |-> Str(StringIn(Field(v, "reTrigger"), ReTriggers, "restart")),
          length |-> EditorLength(Field(v, "length")),
          maxRepeats |-> Num(IF most <= 0 THEN MaxRepeatsUsual ELSE Minimum(most, MaxRepeatsCap)),
          gate |-> OrNull(Field(v, "gate")[1] = "o", EditorGate(Field(v, "gate"))),
          startSelect |-> OrNull(options[1] = "a" /\ options[2] # <<>>, EditorStarts(starts))])

(************************************************************************** *)
(* config.rs: what the engine accepts and how it reads it                  *)
(************************************************************************** *)

\* The clamps of the engine's own normalizers.
Bounds ==
  [gati |-> <<1, 32>>, matra |-> <<0, 63>>, count |-> <<0, 256>>, beat |-> <<0, 63>>,
   ticks |-> <<0, 1000000>>, divisions |-> <<1, 64>>, beats |-> <<1, 64>>,
   probabilityPerMille |-> <<0, ProbabilityMax>>, missBoostPerMille |-> <<0, ProbabilityMax>>,
   cooldownCycles |-> <<0, 4096>>, weight |-> <<0, 1000000>>]

\* What a forgiving field stands for when nothing can be read from it.
Missing == [gati |-> 4, matra |-> 0, count |-> 0, beat |-> 0]

Scalar(v) == v[1] \notin {"o", "a"}
Unsigned(v) == v[1] = "n" /\ v[2] >= 0
UnsignedOrAbsent(v) == v = Absent \/ Unsigned(v)

\* The derived deserializers take exactly their tags and fields.
StrictTagged(v, union) ==
  /\ Field(v, "type")[1] = "s" /\ Field(v, "type")[2] \in DOMAIN union
  /\ \A f \in union[Field(v, "type")[2]] : Unsigned(Field(v, f))

PredicateReads(v) ==
  v[1] # "a" /\ \A f \in {"type", "gati", "matra", "op", "count"} : Scalar(Field(v, f))

\* Every field of a node is read, also those its tag has no use for.
RECURSIVE NodeReads(_)
NodeReads(v) ==
  /\ v[1] # "a"
  /\ v[1] = "o" =>
       /\ Scalar(Field(v, "type")) /\ PredicateReads(Field(v, "predicate"))
       /\ NodeReads(Field(v, "node"))
       /\ Field(v, "nodes")[1] = "a" =>
            \A n \in DOMAIN Field(v, "nodes")[2] : NodeReads(Field(v, "nodes")[2][n])

SelectorReads(v) == v[1] # "a" /\ Scalar(Field(v, "type")) /\ Scalar(Field(v, "beat"))

WhenReads(v) == v[1] = "o" /\ SelectorReads(Field(v, "beats")) /\ NodeReads(Field(v, "tree"))

StartsRead(v) ==
  LET options == Field(v, "options") IN
  /\ options[1] = "a" /\ UnsignedOrAbsent(Field(v, "seed"))
  /\ \A n \in DOMAIN options[2] :
       /\ StrictTagged(Field(options[2][n], "alignment"), Alignments)
       /\ UnsignedOrAbsent(Field(options[2][n], "weight"))

ConfigReads(v) ==
  /\ Field(v, "sourceTrackId")[1] = "s"
  /\ Given(Field(v, "when")) => WhenReads(Field(v, "when"))
  /\ Given(Field(v, "condition")) => StrictTagged(Field(v, "condition"), LegacyConditions)
  /\ Field(v, "launchAlignment") # Absent => StrictTagged(Field(v, "launchAlignment"), Alignments)
  /\ Given(Field(v, "launchQuantize")) =>
       /\ StrictTagged(Field(Field(v, "launchQuantize"), "grid"), QuantizeGrids)
       /\ Field(Field(v, "launchQuantize"), "direction")
            \in {Absent, Str("next"), Str("nearest"), Str("previous")}
  /\ StrictTagged(Field(v, "lifetime"), Lifetimes)
  /\ Field(v, "reTrigger") \in {Str(r) : r \in ReTriggers}
  /\ StrictTagged(Field(v, "length"), Lengths)
  /\ UnsignedOrAbsent(Field(v, "maxRepeats"))
  /\ Given(Field(v, "gate")) =>
       \A f \in {"probabilityPerMille", "cooldownCycles", "missBoostPerMille", "seed"} :
         UnsignedOrAbsent(Field(Field(v, "gate"), f))
  /\ Given(Field(v, "startSelect")) => StartsRead(Field(v, "startSelect"))

\* LooseU32: a negative number is 0, a text counts when it reads as a number.
LooseNumber(v, name) ==
  IF v[1] \in {"n", "t"} THEN Num(Monus(v[2], 0)) ELSE Num(Missing[name])

LooseOp(v) == StringIn(v, CountOps, "atLeast")

EnginePredicate(v) ==
  LET tag == StringIn(Field(v, "type"), DOMAIN Predicates, "isRest") IN
  Obj([type |-> Str(tag)]
      @@ [f \in Predicates[tag] |->
            IF f = "op" THEN Str(LooseOp(Field(v, f)))
            ELSE LooseNumber(Field(v, f), f)])

EngineSelector(v) == Selector(v, LooseNumber(Field(v, "beat"), "beat"))

\* A node of an unknown tag is a rest, whatever predicate it carries.
RECURSIVE EngineNode(_)
EngineNode(v) ==
  LET tag == StringIn(Field(v, "type"), {"all", "any", "not", "leaf"}, "none")
      listed == IF Field(v, "nodes")[1] = "a" THEN Field(v, "nodes")[2] ELSE <<>>
  IN CASE tag \in {"all", "any"} ->
            Obj([type |-> Str(tag), nodes |-> Arr([n \in DOMAIN listed |-> EngineNode(listed[n])])])
       [] tag = "not" -> Obj([type |-> Str("not"), node |-> EngineNode(Field(v, "node"))])
       [] tag = "leaf" -> Obj([type |-> Str("leaf"), predicate |-> EnginePredicate(Field(v, "predicate"))])
       [] tag = "none" -> RestLeaf

\* The numbers of a record brought within the engine's bounds.
Within(v) ==
  Obj([f \in DOMAIN v[2] |->
         IF f \in DOMAIN Bounds /\ v[2][f][1] = "n"
         THEN Num(Clamp(v[2][f][2], Bounds[f][1], Bounds[f][2])) ELSE v[2][f]])

\* ConditionNode::normalized
RECURSIVE NormalNode(_, _)
NormalNode(node, depth) ==
  LET n == node[2] IN
  CASE depth >= MaxDepth -> RestLeaf
    [] n.type = Str("leaf") -> Obj([n EXCEPT !.predicate = Within(@)])
    [] n.type = Str("not") -> Obj([n EXCEPT !.node = NormalNode(@, depth + 1)])
    [] n.nodes[2] = <<>> -> RestLeaf
    [] OTHER ->
         Obj([n EXCEPT !.nodes = Arr([k \in DOMAIN @[2] |-> NormalNode(@[2][k], depth + 1)])])

\* Mutant of NormalSpec: the engine cuts a tree one level above the editor.
NormalSpecShort(beats, tree) ==
  Obj([beats |-> Within(beats),
       tree |-> IF NodeCount(tree) > MaxNodes THEN RestLeaf ELSE NormalNode(tree, 1)])

\* WhenSpec::normalized: the nodes are counted before the depth is cut.
NormalSpec(beats, tree) ==
  Obj([beats |-> Within(beats),
       tree |-> IF NodeCount(tree) > MaxNodes THEN RestLeaf ELSE NormalNode(tree, 0)])

\* effective_when
EngineWhen(v) ==
  LET when == Field(v, "when")
      beats == EngineSelector(Field(when, "beats"))
      tree == IF Field(when, "tree") = Absent THEN RestLeaf ELSE EngineNode(Field(when, "tree"))
  IN IF Given(when) THEN NormalSpec(beats, tree)
     ELSE IF Given(Field(v, "condition"))
     THEN LET legacy == FromLegacy(Field(v, "condition"))[2]
          IN NormalSpec(legacy.beats, legacy.tree)
     ELSE NormalSpec(Selector(Absent, Num(0)), RestLeaf)

\* A field of bounded numbers, its default where it is missing.
Bounded(v, name, usual) ==
  LET n == Field(v, name) IN
  Num(Clamp(IF n = Absent THEN usual ELSE n[2], Bounds[name][1], Bounds[name][2]))
Seed(v) == IF Field(v, "seed") = Absent THEN Num(0) ELSE Field(v, "seed")

EngineGate(v) ==
  Obj([probabilityPerMille |-> Bounded(v, "probabilityPerMille", ProbabilityMax),
       cooldownCycles |-> Bounded(v, "cooldownCycles", 0),
       missBoostPerMille |-> Bounded(v, "missBoostPerMille", 0), seed |-> Seed(v)])

\* StartSelect::normalized; an empty list of options is no choice at all.
EngineStarts(v) ==
  LET options == Field(v, "options")[2] IN
  Obj([options |-> Arr([n \in 1 .. Minimum(Len(options), MaxStartOptions) |->
                          Obj([alignment |-> Within(options[n][2].alignment),
                               weight |-> Bounded(options[n], "weight", 1)])]),
       seed |-> Seed(v)])

EngineQuantize(v) ==
  Obj([grid |-> Within(v[2].grid),
       direction |-> IF Field(v, "direction") = Absent THEN Str("next") ELSE v[2].direction])

\* TriggerConfig::normalized of a record the engine reads: the passes of a run
\* are brought within maxRepeats, which the editor does not do.
EngineConfig(v) ==
  LET asked == Field(v, "maxRepeats")
      most == IF asked \in {Absent, Num(0)} THEN MaxRepeatsUsual ELSE Minimum(asked[2], MaxRepeatsCap)
      starts == Field(v, "startSelect")
      From(name, read) == IF Given(Field(v, name)) THEN read ELSE Null
  IN Obj([sourceTrackId |-> Field(v, "sourceTrackId"),
          when |-> EngineWhen(v),
          launchAlignment |-> IF Field(v, "launchAlignment") = Absent
                              THEN Obj([type |-> Str("atEvent")])
                              ELSE Within(Field(v, "launchAlignment")),
          launchQuantize |-> From("launchQuantize", EngineQuantize(Field(v, "launchQuantize"))),
          lifetime |-> IF v[2].lifetime[2].type = Str("repeats")
                       THEN Obj([v[2].lifetime[2] EXCEPT !.passes = Num(Clamp(@[2], 1, most))])
                       ELSE v[2].lifetime,
          reTrigger |-> v[2].reTrigger,
          length |-> IF v[2].length[2].type = Str("fixedBeats")
                     THEN Obj([v[2].length[2] EXCEPT !.beats = Num(Clamp(@[2], 1, 256))])
                     ELSE v[2].length,
          maxRepeats |-> Num(most),
          gate |-> From("gate", EngineGate(Field(v, "gate"))),
          startSelect |-> IF Given(starts) /\ Field(starts, "options")[2] # <<>>
                          THEN EngineStarts(starts) ELSE Null])

(************************************************************************** *)
(* What the compiler of Triggers runs                                      *)
(************************************************************************** *)

Untag(v) == [f \in DOMAIN v[2] |-> v[2][f][2]]

\* A tree as the sequence of its nodes, children first: the positions of a
\* child shift by what is written before it.
RECURSIVE Sequenced(_)
Sequenced(node) ==
  LET n == node[2]
      kids == IF n.type = Str("leaf") THEN <<>>
              ELSE IF n.type = Str("not") THEN <<Sequenced(n.node)>>
              ELSE [k \in DOMAIN n.nodes[2] |-> Sequenced(n.nodes[2][k])]
      before[k \in 0 .. Len(kids)] == IF k = 0 THEN 0 ELSE before[k - 1] + Len(kids[k])
      Shifted(k) == [i \in DOMAIN kids[k] |->
                       IF kids[k][i].op = "leaf" THEN kids[k][i]
                       ELSE [kids[k][i] EXCEPT !.nodes = {c + before[k - 1] : c \in @}]]
      roots == {before[k] : k \in DOMAIN kids}
  IN Append(FlattenSeq([k \in DOMAIN kids |-> Shifted(k)]),
            IF n.type = Str("leaf") THEN [op |-> "leaf", predicate |-> Untag(n.predicate)]
            ELSE [op |-> n.type[2], nodes |-> roots])

\* The bands of a configuration as Triggers reads them; phrase is the length
\* in ticks of the follower's own cycles, a fixed one taking their place.
Bands(config, phrase) ==
  LET c == config[2] IN
  [when |-> [beat |-> IF c.when[2].beats[2].type = Str("anyBeat") THEN None
                      ELSE c.when[2].beats[2].beat[2],
             tree |-> Sequenced(c.when[2].tree)],
   alignment |-> Untag(c.launchAlignment),
   starts |-> IF c.startSelect = Null THEN None
              ELSE [seed |-> c.startSelect[2].seed[2],
                    options |-> [n \in DOMAIN c.startSelect[2].options[2] |->
                                   LET o == c.startSelect[2].options[2][n][2]
                                   IN [alignment |-> Untag(o.alignment), weight |-> o.weight[2]]]],
   quantize |-> IF c.launchQuantize = Null THEN None
                ELSE [grid |-> Untag(c.launchQuantize[2].grid),
                      direction |-> c.launchQuantize[2].direction[2]],
   gate |-> IF c.gate = Null THEN None ELSE Untag(c.gate),
   passes |-> IF c.lifetime[2].type = Str("onePass") THEN 1 ELSE c.lifetime[2].passes[2],
   phrase |-> IF c.length[2].type = Str("fixedBeats") THEN <<c.length[2].beats[2] * Ppqn>> ELSE phrase,
   reTrigger |-> c.reTrigger[2]]

(************************************************************************** *)
(* triggerUi.ts: the flat editor of conditions                             *)
(************************************************************************** *)

\* leafToRow: a leaf, or a leaf negated once.
IsRow(node) ==
  \/ node[2].type = Str("leaf")
  \/ node[2].type = Str("not") /\ node[2].node[2].type = Str("leaf")

RowOf(node) ==
  IF node[2].type = Str("leaf") THEN [negated |-> FALSE, predicate |-> node[2].predicate]
  ELSE [negated |-> TRUE, predicate |-> node[2].node[2].predicate]

\* whenSpecToEditor: a tree of one level of rows is edited, any other only shown.
Editable(tree) ==
  \/ IsRow(tree)
  \/ /\ tree[2].type \in {Str("all"), Str("any")}
     /\ \A n \in DOMAIN tree[2].nodes[2] : IsRow(tree[2].nodes[2][n])

EditorRows(tree) ==
  IF IsRow(tree) THEN [combinator |-> "all", rows |-> <<RowOf(tree)>>]
  ELSE [combinator |-> tree[2].type[2],
        rows |-> [n \in DOMAIN tree[2].nodes[2] |-> RowOf(tree[2].nodes[2][n])]]

\* editorToWhenSpec
RowsTree(model) ==
  LET Leaf(p) == Obj([type |-> Str("leaf"), predicate |-> p])
      Node(row) == IF row.negated THEN Obj([type |-> Str("not"), node |-> Leaf(row.predicate)])
                   ELSE Leaf(row.predicate)
  IN IF model.rows = <<>> THEN RestLeaf
     ELSE Obj([type |-> Str(model.combinator),
               nodes |-> Arr([n \in DOMAIN model.rows |-> Node(model.rows[n])])])

(************************************************************************** *)
(* Properties                                                              *)
(************************************************************************** *)

\* What the editor keeps of a record the engine accepts, and runs unchanged,
\* down to the last number; but for the passes, which a maxRepeats set by hand
\* may cut.  What the engine has normalized it would not change again.
ShownIsRun(record) ==
  LET shown == EditorConfig(record)
      run == EngineConfig(shown)
      uncut == Obj([run[2] EXCEPT !.lifetime = shown[2].lifetime])
  IN /\ ConfigReads(shown)
     /\ uncut = shown
     /\ EngineConfig(run) = run /\ EditorConfig(run) = run

\* Editing a condition in rows and leaving it as it was does not change when it
\* holds, on any beat of any cycle, be its root at the depth the rows add.
RowsKeepMeaning(record, cycles) ==
  LET tree == EditorConfig(record)[2].when[2].tree IN
  Editable(tree) =>
    \A c \in cycles : \A b \in c.beats :
      Holds(Sequenced(tree), c, b) = Holds(Sequenced(RowsTree(EditorRows(tree))), c, b)
=============================================================================
