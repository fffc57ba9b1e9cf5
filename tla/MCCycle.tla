------------------------------ MODULE MCCycle ------------------------------
(***************************************************************************)
(* Sessions of two or three beats, each for one part of the realization:   *)
(* a woven and a stacked Euclidean hocket, a Dum-Ka pattern over groups    *)
(* that it does not fit, plain edits under a changing tempo, a score whose *)
(* tempo lane meets its rhythm's, seeds with a history, a pipeline that    *)
(* fails late, and automation that breaks and that raises what it reads.   *)
(***************************************************************************)
EXTENDS StoppedPreview

Fixed == [kind |-> "locked", seed |-> <<"s">>]
Pool(history, max) == [kind |-> "history", seed |-> <<"s">>, history |-> history, historyWeight |-> 1, newWeight |-> 1,
                       max |-> max]

----------------------------------------------------------------------------
(* Scores.                                                                 *)

Silent == [beat |-> <<0, 0>>, section |-> <<0, 0>>, jathi |-> <<0, 0>>, override |-> FALSE]
Cut(gati, jathi) ==
  [gatis |-> <<<<gati, 1>>>>, jathis |-> <<<<jathi, 1>>>>, custom |-> <<>>, accent |-> Silent, inflections |-> <<>>,
   counts |-> <<>>, pitch |-> 60, vel |-> 80, automation |-> <<>>]
Inflection(position, gati, jathi) ==
  [probability |-> 100, position |-> position, gatis |-> <<<<gati, 1>>>>, jathis |-> <<<<jathi, 1>>>>, custom |-> <<>>]
EqualParts(parts, gati) == [perBeat |-> 0, equalParts |-> 1, counts |-> <<<<parts, 1>>>>, gatis |-> <<<<gati, 1>>>>,
                            divisions |-> <<>>]

Request(beats, s, mode) == [beats |-> beats, switch |-> s, seedMode |-> mode]
Edit(op, target) == [enabled |-> TRUE, op |-> op, target |-> target]
Divide(target, count, policy) == [enabled |-> TRUE, op |-> "subdivide", target |-> target, count |-> count, policy |-> policy]

Score(beats, pipeline) == [tree |-> SinglePulse(60, <<80, 80>>), length |-> Whole(beats), pipeline |-> pipeline]

Bent == [Cut(4, 3) EXCEPT !.inflections = <<Inflection(<<2, 3>>, 3, 4)>>]
Parts == [Cut(4, 5) EXCEPT !.custom = <<EqualParts(3, 2)>>, !.jathis = <<<<3, 2>>, <<4, 1>>>>,
                           !.inflections = <<Inflection(<<1, 2>>, 4, 5)>>]
Loud == [Cut(4, 3) EXCEPT !.accent = [beat |-> <<10, 10>>, section |-> <<5, 5>>, jathi |-> <<19, 20>>,
                                      override |-> TRUE]]

----------------------------------------------------------------------------
(* Rhythms.                                                                *)

Layer(channel, pulses, rotation) ==
  [channel |-> channel, pulses |-> pulses, rotation |-> rotation, run |-> 1, steps |-> 4, invert |-> FALSE]
Euclid(placement, steps, layers, reset, accents) ==
  [placement |-> placement, steps |-> steps, layers |-> layers, reset |-> reset, accents |-> accents, anchor |-> <<>>]

Spec0 == [channels |-> <<1, 2, 3>>, order |-> "first", mode |-> "markov", fallback |-> 1, fallbackWeights |-> <<>>,
          entries |-> <<>>, transitions |-> <<>>, accents |-> <<>>, positions |-> <<>>, euclid |-> <<>>,
          seedMode |-> Fixed, globalSeed |-> <<"g">>]
Hocket(e) == [Spec0 EXCEPT !.mode = "euclid", !.euclid = <<e>>]

Written(lexemes, chars) == [lexemes |-> lexemes, chars |-> chars]
NoGenerator == [enabled |-> FALSE, kind |-> "example", density |-> 50, text |-> Written(<<>>, 0), seedMode |-> Fixed]
Dots(density) == [NoGenerator EXCEPT !.enabled = TRUE, !.density = density]
\* x E(1,2,1) [_ x]: the second note crosses a beat and a group.
Notation == Written(<<<<"x">>, <<"E">>, <<"(">>, <<"int", 1>>, <<",">>, <<"int", 2>>, <<",">>, <<"int", 1>>, <<")">>,
                      <<"[">>, <<"_">>, <<"x">>, <<"]">>>>, 16)
Pattern == [NoGenerator EXCEPT !.enabled = TRUE, !.kind = "dumka", !.text = Notation]
\* [x@3 x]@2
Short == [Pattern EXCEPT !.text = Written(<<<<"[">>, <<"x">>, <<"@">>, <<"int", 3>>, <<"x">>, <<"]">>, <<"@">>, <<"int", 2>>>>, 9)]

Rhythm(spec, generator) ==
  [output |-> 1, enabled |-> TRUE, spec |-> <<spec>>, automation |-> <<>>, generator |-> generator]

Point(time, value) == [time |-> time, anchor |-> <<>>, value |-> value, warp |-> <<>>]
Ramp(low, high) == [enabled |-> TRUE, interpolation |-> "linear", points |-> <<Point(Zero, low), Point(One, high)>>]
Surge == [enabled |-> TRUE, interpolation |-> "linear",
          points |-> <<Point(Zero, Whole(30)), Point(<<1, 4>>, Whole(60)), Point(<<1, 2>>, Whole(120)),
                       Point(<<3, 4>>, Whole(240)), Point(One, Whole(360))>>]
Track(target, combine, curve) == [target |-> target, enabled |-> TRUE, combine |-> combine, curves |-> <<curve>>]
Curves(tracks) == <<[length |-> 2, markers |-> <<>>, tracks |-> tracks]>>

----------------------------------------------------------------------------
(* The sessions.                                                           *)

Track1(name, request, r) == LoadedTrack(request, r, Whole(60), Whole(60)) @@ [name |-> name]
Edited1(name, sc, r) ==
  [name |-> name, request |-> <<>>, score |-> sc, rhythm |-> r, tempo |-> [own |-> Whole(60), reference |-> Whole(60)]]

Partition(reset, accents) == Euclid("partition", 4, <<Layer(2, 1, 1), Layer(3, 2, 0)>>, reset, accents)
Stack == Euclid("stack", 1, <<[Layer(2, 1, 0) EXCEPT !.steps = 3], [Layer(3, 2, 1) EXCEPT !.steps = 4, !.invert = TRUE],
                              [Layer(2, 2, 2) EXCEPT !.steps = 5, !.channel = 1]>>, "cycle", "woven")
Weave(accents, reset) == Track1("weave", Request(3, Bent, Fixed), Rhythm(Hocket(Partition(reset, accents)), NoGenerator))
Stacked ==
  Track1("stack", Request(2, Parts, Fixed),
         Rhythm([Hocket(Stack) EXCEPT !.accents = <<[min |-> 0, max |-> 127, probability |-> Whole(50), mode |-> "driveChain",
                                                     weights |-> <<[channel |-> 3, weight |-> 1]>>]>>],
                NoGenerator))

To(from, to) == [from |-> from, to |-> to, weight |-> 1]
Chain == [Spec0 EXCEPT !.order = "second", !.entries = <<[channels |-> <<2, 3>>, weight |-> 1]>>,
                       !.transitions = <<To(<<2, 3>>, 1), To(<<3, 1>>, 2), To(<<3, 1>>, 3)>>,
                       !.fallbackWeights = <<[channel |-> 3, weight |-> 1]>>,
                       !.accents = <<[min |-> 100, max |-> 127, probability |-> Whole(100), mode |-> "renderOnly",
                                      weights |-> <<[channel |-> 2, weight |-> 1]>>]>>,
                       !.positions = <<[enabled |-> TRUE, scope |-> "section", nth |-> 2, normal |-> 1, render |-> 1,
                                        reset |-> 1, resetMode |-> "custom",
                                        renderWeights |-> <<[channel |-> 1, weight |-> 1]>>,
                                        resetWeights |-> <<[channel |-> 3, weight |-> 1]>>]>>]
Crossing == Track1("crossing", Request(3, Loud, Fixed), Rhythm(Chain, Pattern))

Plain == Edited1("edits", Score(2, <<Divide(<<"root">>, 3, Weighted(<<2, 1, 1>>)), Divide(<<"path", <<2>>>>, 2, Equal),
                                     Edit("tiePairs", <<"root">>), Edit("remove", <<"path", <<1, 2>>>>)>>),
                 PlaybackConfig([Rhythm(Spec0, NoGenerator) EXCEPT
                                   !.enabled = FALSE, !.output = 5,
                                   !.automation = Curves(<<Track(<<"tempo">>, "replace", Surge)>>)]))
Fast == LoadedTrack(Request(2, Cut(6, 4), Fixed), Rhythm(Spec0, NoGenerator), Whole(500), Whole(60)) @@ [name |-> "fast"]

Pool2 ==
  Track1("pooled", Request(2, Cut(2, 3), Pool(<<>>, 2)),
         Rhythm([Hocket(Euclid("partition", 2, <<Layer(2, 1, 0)>>, "beat", "woven")) EXCEPT
                   !.seedMode = Pool(<<<<"old">>>>, 2)],
                [Short EXCEPT !.seedMode = Pool(<<<<"old">>>>, 1)]))
Late == Edited1("late", LET sc == SwitchScore(Request(2, Cut(2, 3), Pool(<<>>, 2)))
                        IN [sc EXCEPT !.pipeline = Append(@, Edit("tieAll", <<"path", <<1, 1>>>>))], <<>>)

\* The fallback leaves the enabled channels; pulses are raised.
Astray ==
  Track1("astray", Request(2, Cut(2, 3), Fixed),
         [Rhythm(Spec0, NoGenerator) EXCEPT
            !.automation = Curves(<<Track(<<"fallback", "static">>, "replace", Ramp(Whole(9), Whole(9)))>>)])
Raised ==
  Track1("raised", Request(2, Cut(2, 3), Fixed),
         [Rhythm(Hocket(Euclid("partition", 8, <<Layer(2, 1, 0)>>, "cycle", "woven")), Dots(100)) EXCEPT
            !.automation = Curves(<<Track(<<"euclid", 1, "pulses">>, "add", Ramp(Zero, Whole(2)))>>)])
Sparse == Track1("sparse", Request(2, Cut(2, 3), Fixed), Rhythm(Hocket(Partition("accentSpan", "bypass")), Dots(50)))

\* Lanes of the score and of its routing, seen in the preview.
Lanes == Curves(<<Track(<<"pitch">>, "replace", Ramp(Whole(60), Whole(72))),
                  Track(<<"velocity">>, "add", Ramp(Zero, Whole(20))),
                  Track(<<"accent", 1, "max">>, "replace", Ramp(Whole(100), Whole(127))),
                  Track(<<"fallback", "channel", 3>>, "replace", Ramp(Zero, Whole(4)))>>)
Seen == Track1("seen", Request(2, [Cut(2, 3) EXCEPT !.automation = Lanes, !.custom = <<EqualParts(3, 2)>>,
                                                    !.inflections = <<Inflection(<<1, 2>>, 2, 3)>>], Fixed),
               [Rhythm(Chain, NoGenerator) EXCEPT !.automation = Lanes])
\* The tempo lanes of the score and of its rhythm, one upon the other.
Swung == Track1("swung", Request(2, [Cut(5, 3) EXCEPT !.automation = Curves(<<Track(<<"tempo">>, "replace", Surge)>>)], Fixed),
                [Rhythm(Spec0, NoGenerator) EXCEPT
                   !.enabled = FALSE,
                   !.automation = Curves(<<Track(<<"tempo">>, "multiply", Ramp(<<1, 2>>, Whole(2)))>>)])
\* A rhythm that would change nothing is not there.
Bare == Track1("bare", Request(2, Cut(3, 4), Pool(<<<<"old">>>>, 2)),
               [Rhythm(Spec0, NoGenerator) EXCEPT !.enabled = FALSE])

\* Requests with and without something to choose, as far as they are accepted.
Offered == {<<>>, <<<<4, 0>>>>, <<<<4, 1>>, <<3, 2>>>>}
Grids == {<<>>, <<EqualParts(3, 2)>>, <<[EqualParts(3, 2) EXCEPT !.perBeat = 1]>>, <<[EqualParts(3, 2) EXCEPT !.perBeat = 2]>>}
Bends == {<<>>} \cup {<<[Inflection(<<1, 2>>, 2, 3) EXCEPT !.gatis = g, !.custom = c]>> : g \in Offered, c \in Grids}
Tried == {Request(2, [Cut(2, 3) EXCEPT !.gatis = g, !.custom = c, !.inflections = f], Fixed) :
            g \in Offered, c \in Grids, f \in Bends}
Divided ==
  {Track1("divided", r, [Rhythm(Spec0, NoGenerator) EXCEPT !.enabled = FALSE]) : r \in {t \in Tried : BuiltScore(t) # Failed}}

MCSessions ==
  Divided \cup
  {Weave("bypass", "section"), Weave("bypass", "cycle"), Weave("woven", "section"), Stacked, Crossing, Plain,
   Fast, Pool2, Late, Astray, Sparse, Seen, Swung, Bare}
MCRaised == {Raised}

\* Texts of a few signs, the limits among them, are read as they are written.
Signs == {<<"[">>, <<"]">>, <<"x">>, <<"_">>, <<"@">>, <<"*">>, <<"int", 2>>, <<"int", 4>>}
Calls == {<<<<"E">>, <<"(">>, <<"int", k>>, <<",">>, <<"int", n>>>> \o turn \o <<<<")">>>> \o after :
            k \in 0..2, n \in 1..5, turn \in {<<>>, <<<<",">>, <<"int", 3>>>>}, after \in {<<>>, <<<<"*">>, <<"int", 2>>>>}}
Inside(body) == {body, <<<<"[">>>> \o body \o <<<<"]">>>>, <<<<"[">>, <<"[">>>> \o body \o <<<<"]">>, <<"@">>, <<"int", 2>>, <<"]">>>>}
Texts == UNION {[1..n -> Signs] : n \in 1..4} \cup UNION {Inside(c) : c \in Calls}
ASSUME NotationKeptAssumption == \A t \in Texts : NotationKept(Written(t, Len(t)))

\* What a user may load is accepted.
ASSUME AcceptedAssumption ==
  \A s \in MCSessions \cup MCRaised : \A i \in DOMAIN s.rhythm : ValidConfig(s.rhythm[i])
=============================================================================
