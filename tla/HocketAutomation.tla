-------------------------- MODULE HocketAutomation --------------------------
(***************************************************************************)
(* Automation of the rhythm playback (cseq-transport generator.rs), and    *)
(* the repairs that make a configuration safe after it (sections.rs).      *)
(*                                                                         *)
(* A target is a tuple for the dotted name of the code.  The automation of *)
(* a configuration is a sequence of length at most one, and the scope it   *)
(* is sampled in a time of its length.                                     *)
(***************************************************************************)
EXTENDS ChannelHocket, Automation

\* The first of a set of list indices.
FirstOf(indices) == CHOOSE i \in indices : \A j \in indices : i =< j

\* upsert_channel_weight and upsert_channel_transition: entries are told apart
\* by everything but their weight.
Upserted(list, item) ==
  LET same == {i \in DOMAIN list : [list[i] EXCEPT !.weight = 0] = [item EXCEPT !.weight = 0]}
  IN CASE same = {} -> IF item.weight > 0 THEN Append(list, item) ELSE list
       [] item.weight = 0 -> RemoveAt(list, FirstOf(same))
       [] OTHER -> [list EXCEPT ![FirstOf(same)] = item]

\* A list of weights under automation: wanted names the target of each item.
AutomatedList(list, heard, wanted) ==
  LET Held(l, item) == LET same == {i \in DOMAIN l : [l[i] EXCEPT !.weight = 0] = item}
                       IN IF same = {} THEN 0 ELSE l[FirstOf(same)].weight
      Step(l, w) ==
        IF ~HasSource(heard, w.target) THEN l
        ELSE Upserted(l, [w.item EXCEPT !.weight = WeightAt(heard, w.target, Held(l, w.item))])
  IN FoldLeft(Step, list, wanted)

ByChannel(spec, prefix) ==
  [i \in DOMAIN spec.channels |->
     [target |-> Append(prefix, spec.channels[i]), item |-> [channel |-> spec.channels[i], weight |-> 0]]]

\* channel_contexts, each with every channel it can go to.
ByTransition(spec) ==
  LET channels == spec.channels
      contexts == IF spec.order = "first" THEN [i \in DOMAIN channels |-> <<channels[i]>>]
                  ELSE FlattenSeq([i \in DOMAIN channels |->
                                     [j \in DOMAIN channels |-> <<channels[i], channels[j]>>]])
  IN FlattenSeq([i \in DOMAIN contexts |->
       [j \in DOMAIN channels |->
          [target |-> <<"matrix", contexts[i], channels[j]>>,
           item |-> [from |-> contexts[i], to |-> channels[j], weight |-> 0]]]])

\* automate_seed_mode
AutomatedSeed(mode, heard) ==
  IF mode.kind # "history" THEN mode
  ELSE [mode EXCEPT !.historyWeight = WeightAt(heard, <<"seed", "historyWeight">>, @),
                    !.newWeight = WeightAt(heard, <<"seed", "newSeedWeight">>, @),
                    !.max = Whole8(heard, <<"seed", "maxHistory">>, @, 0, 64)]

AutomatedEuclid(e, heard) ==
  LET Layer(i, l) ==
        LET Read(name, base, low, high) == Whole8(heard, <<"euclid", i, name>>, base, low, high)
        IN [l EXCEPT !.pulses = Read("pulses", @, 0, MaxEuclidSteps),
                     !.rotation = Read("rotation", @, 0, MaxEuclidSteps - 1),
                     !.run = Read("maxRun", @, 1, MaxEuclidSteps), !.steps = Read("steps", @, 1, MaxEuclidSteps)]
  IN [e EXCEPT !.steps = Whole8(heard, <<"euclid", "steps">>, @, 1, MaxEuclidSteps),
               !.layers = [i \in DOMAIN @ |-> Layer(i, @[i])]]

\* A rule that is switched off keeps no probability, but what automates the
\* probability comes after.
AutomatedAccent(spec, i, heard) ==
  LET rule == spec.accents[i]
      on == FlagAt(heard, <<"accent", i, "enabled">>, TRUE)
      low == Whole8(heard, <<"accent", i, "min">>, rule.min, 0, 127)
      high == Whole8(heard, <<"accent", i, "max">>, rule.max, 0, 127)
      sample == Sampled(heard, <<"accent", i, "probability">>, IF on THEN rule.probability ELSE Zero,
                        "float", Zero, Whole(100))
  IN [rule EXCEPT !.min = IF high < low THEN high ELSE low, !.max = IF high < low THEN low ELSE high,
                  !.probability = IF sample # <<>> THEN sample[1] ELSE IF on THEN @ ELSE Zero,
                  !.weights = AutomatedList(@, heard, ByChannel(spec, <<"accent", i, "channel">>))]

AutomatedPosition(spec, i, heard) ==
  LET Read(name, base) == WeightAt(heard, <<"position", i, name>>, base)
      rule == spec.positions[i]
  IN [rule EXCEPT !.enabled = FlagAt(heard, <<"position", i, "enabled">>, @),
                  !.nth = Whole8(heard, <<"position", i, "nth">>, @, 1, 4096),
                  !.normal = Read("normalMarkov", @), !.render = Read("renderOnly", @),
                  !.reset = Read("resetMarkov", @),
                  !.renderWeights = AutomatedList(@, heard, ByChannel(spec, <<"position", i, "render">>)),
                  !.resetWeights = AutomatedList(@, heard, ByChannel(spec, <<"position", i, "reset">>))]

\* automate_channel_hocket_spec
AutomatedSpec(spec, heard) ==
  [spec EXCEPT
     !.seedMode = AutomatedSeed(@, heard),
     !.fallback = Whole8(heard, <<"fallback", "static">>, @, 1, 16),
     !.fallbackWeights = AutomatedList(@, heard, ByChannel(spec, <<"fallback", "channel">>)),
     !.transitions = AutomatedList(@, heard, ByTransition(spec)),
     !.euclid = [i \in DOMAIN @ |-> AutomatedEuclid(@[i], heard)],
     !.accents = [i \in DOMAIN @ |-> AutomatedAccent(spec, i, heard)],
     !.positions = [i \in DOMAIN @ |-> AutomatedPosition(spec, i, heard)]]

\* apply_rhythm_playback_automation, at the first beat of a cycle.
AutomatedConfig(config, cycle, beats) ==
  LET Adjusted(heard) ==
        LET output == IF HasSource(heard, <<"midiOutputChannel">>) THEN <<"midiOutputChannel">> ELSE <<"outputChannel">>
        IN [config EXCEPT !.output = Whole8(heard, output, @, 1, 16), !.enabled = FlagAt(heard, <<"enabled">>, @),
                          !.spec = [i \in DOMAIN @ |-> AutomatedSpec(@[i], heard)]]
      set == config.automation[1]
  IN IF config.automation = <<>> \/ set.tracks = <<>> THEN config
     ELSE Adjusted(Heard(set, BeatTime(set, cycle, 0, beats)))

----------------------------------------------------------------------------
(* What is accepted, and what is repaired.                                 *)

MaxSeedHistory == 64

\* validate_seed_mode
ValidSeedMode(mode) ==
  mode.kind = "history" =>
    /\ mode.max =< MaxSeedHistory
    /\ (mode.historyWeight > 0 /\ mode.max > 0 /\ mode.history # <<>>) \/ mode.newWeight > 0

\* validate_rhythm_playback_config, but for the generator's own settings.
ValidConfig(config) ==
  /\ config.output \in Channels
  /\ config.enabled => /\ config.spec # <<>>
                       /\ ValidSeedMode(config.spec[1].seedMode)
                       /\ ValidSpec(config.spec[1])

\* repair_seed_mode
RepairedSeed(mode) ==
  LET max == IF mode.max > MaxSeedHistory THEN MaxSeedHistory ELSE mode.max
      kept == Latest(mode.history, max)
      idle == mode.newWeight = 0 /\ (mode.historyWeight = 0 \/ kept = <<>>)
  IN IF mode.kind # "history" THEN mode
     ELSE [mode EXCEPT !.max = max, !.history = kept, !.newWeight = IF idle THEN 1 ELSE @]

\* repair_euclid_channel_hocket_spec.  A missing pattern is made up.
DefaultEuclid == [placement |-> "partition", steps |-> 16, layers |-> <<>>, reset |-> "cycle",
                  accents |-> "woven", anchor |-> <<>>]
Clamped(n) == IF n < 1 THEN 1 ELSE IF n > MaxEuclidSteps THEN MaxEuclidSteps ELSE n
RepairedEuclid(spec) ==
  LET Firsts(layers) == SelectSeq([i \in DOMAIN layers |-> i], LAMBDA i :
                          /\ Enabled(spec, layers[i].channel)
                          /\ \A j \in 1..(i - 1) : layers[j].channel # layers[i].channel)
      Kept(layers) == LET own == Firsts(layers)
                      IN [i \in DOMAIN own |-> [layers[own[i]] EXCEPT !.run = IF @ = 0 THEN 1 ELSE @,
                                                                      !.steps = Clamped(@)]]
      Take(state, layer) ==
        LET pulses == IF layer.pulses > state.budget THEN state.budget ELSE layer.pulses
        IN [budget |-> state.budget - pulses, layers |-> Append(state.layers, [layer EXCEPT !.pulses = pulses])]
      Budgeted(layers, steps) == FoldLeft(Take, [budget |-> steps, layers |-> <<>>], layers).layers
      Repair(e, steps, layers) ==
        [e EXCEPT !.steps = steps, !.anchor = SelectSeq(@, LAMBDA c : Enabled(spec, c)),
                  !.layers = IF e.placement = "partition" THEN Budgeted(layers, steps) ELSE layers]
      Whole16(e) == Repair(e, Clamped(e.steps), Kept(SubSeq(e.layers, 1, IF Len(e.layers) > MaxEuclidLayers
                                                                        THEN MaxEuclidLayers ELSE Len(e.layers))))
  IN IF spec.euclid # <<>> THEN [spec EXCEPT !.euclid = <<Whole16(@[1])>>]
     ELSE IF spec.mode = "euclid" THEN [spec EXCEPT !.euclid = <<DefaultEuclid>>] ELSE spec

\* repair_channel_hocket_spec, and the fallback that is moved to a channel the
\* cycle may use.
RepairedSpec(spec) ==
  LET Ordered(rule) == IF rule.min > rule.max THEN [rule EXCEPT !.min = rule.max, !.max = rule.min] ELSE rule
      rules == [spec EXCEPT !.accents = [i \in DOMAIN @ |-> Ordered(@[i])],
                            !.positions = [i \in DOMAIN @ |-> [@[i] EXCEPT !.nth = IF @ = 0 THEN 1 ELSE @]],
                            !.seedMode = RepairedSeed(@)]
      usable == SelectSeq(spec.channels, LAMBDA c : c \in Channels)
  IN [RepairedEuclid(rules) EXCEPT !.fallback = IF Enabled(spec, @) \/ usable = <<>> THEN @ ELSE Head(usable)]

\* repair_rhythm_playback_config: what stays invalid is switched off.
RepairedConfig(config) ==
  LET Checked(c) == [c EXCEPT !.enabled = c.spec # <<>> /\ ValidSpec(c.spec[1])]
      output == IF config.output < 1 THEN 1 ELSE IF config.output > 16 THEN 16 ELSE config.output
      settled == [config EXCEPT !.output = output]
  IN IF ~config.enabled THEN settled
     ELSE Checked([settled EXCEPT !.spec = [i \in DOMAIN @ |-> RepairedSpec(@[i])]])
=============================================================================
