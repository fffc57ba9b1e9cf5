----------------------------- MODULE Automation -----------------------------
(***************************************************************************)
(* Automation (cseq-model lib.rs, cseq-transport clock.rs): tracks of      *)
(* curves that replace, raise or scale a named value of a score or of the  *)
(* rhythm playback, sampled at a point of the automation's length; and the *)
(* map that an automated tempo makes between a track's own ticks and those *)
(* of the transport.                                                       *)
(*                                                                         *)
(* A set is [length, markers, tracks]; a track [target, enabled, combine,  *)
(* curves]; a curve [enabled, hold, points] with points [time, anchor,     *)
(* value, warp].  Values are fractions.  A sample is a sequence of length  *)
(* one, and empty where the code returns None.                             *)
(***************************************************************************)
EXTENDS Rationals

----------------------------------------------------------------------------
(* Times within the length of the automation, from 0 to 1.                 *)

TimeOf(n, d) == Rat(IF n > d THEN d ELSE n, d)

\* AutomationTime::from_beat
BeatTime(set, cycle, beat, beats) ==
  LET Within(b) == IF b > beats - 1 THEN beats - 1 ELSE b
  IN TimeOf((cycle % set.length) * beats + Within(beat), set.length * beats)

\* automation_time_for_cycle_tick and automation_time_for_cycle_fraction: a
\* cycle cut into parts, the last of which ends where the next cycle starts.
PartTime(set, cycle, part, parts) ==
  TimeOf((cycle % set.length) * parts + (IF part > parts THEN parts ELSE part), set.length * parts)

\* automation_beat_index_for_tick
BeatAtTick(tick, ticksPerCycle, beats) ==
  LET beat == (tick * beats) \div ticksPerCycle
  IN IF beat > beats - 1 THEN beats - 1 ELSE beat

----------------------------------------------------------------------------
(* One curve.                                                              *)

Power(t, n) == <<t[1]^n, t[2]^n>>
SmoothStep(t) == Rat(t[1] * t[1] * (3 * t[2] - 2 * t[1]), t[2]^3)

\* warp_automation_t, for whole exponents: how far between two points the
\* curve has gone when the time has gone t of the way.
Warped(t, warp) ==
  LET Out(x) == Minus(One, x)
      Half(x) == Times(<<1, 2>>, Power(Times(Whole(2), x), warp.power))
  IN CASE warp.kind = "hold" -> Zero
       [] warp.kind = "linear" -> t
       [] warp.kind = "smooth" -> Plus(t, Times(Minus(SmoothStep(t), t), warp.amount))
       [] warp.kind = "easeIn" -> Power(t, warp.power)
       [] warp.kind = "easeOut" -> Out(Power(Out(t), warp.power))
       [] warp.kind = "easeInOut" -> IF Less(t, <<1, 2>>) THEN Half(t) ELSE Out(Half(Out(t)))

\* automation_point_effective_time: an anchored point stands at its marker.
PointTime(point, markers) ==
  IF point.anchor # <<>> /\ point.anchor[1] \in DOMAIN markers THEN markers[point.anchor[1]] ELSE point.time

\* sample_number_with_markers: flat before the first point and after the last.
\* Of several points at one time the earliest window that holds it decides.
CurveSample(curve, at, markers) ==
  LET Timed(p) == [time |-> PointTime(p, markers), value |-> p.value, warp |-> p.warp]
      WarpOf(p) == IF p.warp = <<>> THEN [kind |-> curve.interpolation, amount |-> One] ELSE p.warp[1]
      Between(l, r) ==
        CASE at = l.time -> l.value
          [] at = r.time -> r.value
          [] OTHER -> Plus(l.value, Times(Minus(r.value, l.value),
                                          Warped(Over(Minus(at, l.time), Minus(r.time, l.time)), WarpOf(l))))
      Holding(points) == {i \in 1..(Len(points) - 1) : AtMost(points[i].time, at) /\ AtMost(at, points[i + 1].time)}
      Within(points, i) == Between(points[i], points[i + 1])
      Read(points) ==
        CASE AtMost(at, Head(points).time) -> Head(points).value
          [] AtMost(Last(points).time, at) -> Last(points).value
          [] OTHER -> Within(points, Min(Holding(points)))
  IN IF curve.points = <<>> THEN <<>>
     ELSE <<Read(Stably([i \in DOMAIN curve.points |-> Timed(curve.points[i])], LAMBDA p, q : Less(p.time, q.time)))>>

----------------------------------------------------------------------------
(* A target: all the tracks that address it.                               *)

Limited(x, low, high) == IF Less(x, low) THEN low ELSE IF Less(high, x) THEN high ELSE x

\* AutomationValueKind::coerce
Coerced(x, kind, low, high) ==
  LET limited == Limited(x, low, high)
  IN CASE kind = "boolean" -> IF AtMost(<<1, 2>>, limited) THEN One ELSE Zero
       [] kind = "integer" -> Whole(Rounded(limited))
       [] OTHER -> limited

\* The samples of the enabled curves of a track, each with how it combines.
TrackSamples(track, at, markers) ==
  LET Tagged(samples) == [i \in DOMAIN samples |-> <<track.combine, samples[i]>>]
  IN IF ~track.enabled THEN <<>>
     ELSE Tagged(FlattenSeq([i \in DOMAIN track.curves |->
            IF track.curves[i].enabled THEN CurveSample(track.curves[i], at, markers) ELSE <<>>]))

\* What a set says at a point: the samples of every target that it has any of.
Heard(set, at) ==
  LET Of(samples, target) ==
        FlattenSeq([i \in DOMAIN samples |-> IF set.tracks[i].target = target THEN samples[i] ELSE <<>>])
      By(samples) ==
        [t \in {set.tracks[i].target : i \in {k \in DOMAIN samples : samples[k] # <<>>}} |-> Of(samples, t)]
  IN By([i \in DOMAIN set.tracks |-> TrackSamples(set.tracks[i], at, set.markers)])

\* sample_typed_number_at_phase: what replaces is averaged, then the sums of
\* what adds and the products of what multiplies are applied.
Sampled(heard, target, base, kind, low, high) ==
  LET Of(samples, combine) ==
        FlattenSeq([i \in DOMAIN samples |-> IF samples[i][1] = combine THEN <<samples[i][2]>> ELSE <<>>])
      Mean(s) == IF s = <<>> THEN base ELSE Over(Total(s), Whole(Len(s)))
      Combined(samples) == Times(Plus(Mean(Of(samples, "replace")), Total(Of(samples, "add"))),
                                 FoldLeft(Times, One, Of(samples, "multiply")))
  IN IF target \in DOMAIN heard THEN <<Coerced(Combined(heard[target]), kind, low, high)>> ELSE <<>>

\* sample_automation_u8 and its kin: the sample, or what is there without one.
Whole8(heard, target, base, low, high) ==
  LET Read(sample) == IF sample = <<>> THEN base ELSE Rounded(sample[1])
  IN Read(Sampled(heard, target, Whole(base), "integer", Whole(low), Whole(high)))

\* sample_automation_weight
MaxWeight == 999
WeightAt(heard, target, base) ==
  LET Read(sample) == IF sample = <<>> THEN base ELSE Rounded(sample[1])
  IN Read(Sampled(heard, target, Whole(base), "weight", Zero, Whole(MaxWeight)))

\* sample_automation_bool
FlagAt(heard, target, base) ==
  LET Read(sample) == IF sample = <<>> THEN base ELSE sample[1] = One
  IN Read(Sampled(heard, target, IF base THEN One ELSE Zero, "boolean", Zero, One))

\* automation_target_has_enabled_source: a curve with a point always speaks.
HasSource(heard, target) == target \in DOMAIN heard

----------------------------------------------------------------------------
(* The tempo of a track, and its ticks on the reference clock.             *)

Slowest == Whole(20)
Fastest == Whole(400)

\* sample_transport_tempo_bpm(_at_cycle_fraction): the score's automation
\* first, then the rhythm's on what that leaves, each at its own time.
Tempo(sets, times, base) ==
  LET Step(bpm, i) ==
        LET Read(sample) == IF sample = <<>> THEN bpm ELSE sample[1]
        IN Read(Sampled(Heard(sets[i], times[i]), <<"tempo">>, bpm, "float", Slowest, Fastest))
  IN Limited(FoldLeft(Step, Limited(base, Slowest, Fastest), [i \in DOMAIN sets |-> i]), Slowest, Fastest)

\* LocalTempoAutomationMap::from_tempo_sampler: the reference ticks that have
\* passed at each of the samples of a cycle, by the trapezoid rule.
TempoMap(tempos, ticksPerCycle, reference) ==
  LET samples == Len(tempos) - 1
      Scale(i) == Over(reference, tempos[i])
      step == Rat(ticksPerCycle, samples)
      Next(sums, i) == Append(sums, Plus(Last(sums), Times(Times(Plus(Scale(i), Scale(i + 1)), <<1, 2>>), step)))
  IN [sums |-> FoldLeft(Next, <<Zero>>, [i \in 1..samples |-> i]), ticks |-> ticksPerCycle]

\* reference_duration_ticks
ReferenceDuration(map) == LET long == Rounded(Last(map.sums)) IN IF long < 1 THEN 1 ELSE long

\* map_local_tick
ToReference(map, tick) ==
  LET samples == Len(map.sums) - 1
      place == Rat(tick * samples, map.ticks)
      left == Floored(place) + 1
      Between(a, b) == Plus(a, Times(Minus(b, a), Minus(place, Whole(left - 1))))
  IN CASE tick = 0 -> 0
       [] tick >= map.ticks -> ReferenceDuration(map)
       [] OTHER -> Rounded(Between(map.sums[left], map.sums[left + 1]))

\* reference_tick_to_local_position: beyond the cycle it goes on at the mean.
ToLocal(map, reference) ==
  LET long == Last(map.sums)
      at == Whole(reference)
      reached == {i \in DOMAIN map.sums : AtMost(at, map.sums[i])}
      right == CHOOSE i \in reached : \A j \in reached : i =< j
      Gone(a, b) == IF a = b THEN Zero ELSE Over(Minus(at, a), Minus(b, a))
      Place(gone) == Times(Over(Plus(Whole(right - 2), gone), Whole(Len(map.sums) - 1)), Whole(map.ticks))
  IN CASE reference = 0 -> Zero
       [] AtMost(long, at) -> Plus(Whole(map.ticks),
            Times(Minus(at, long), Over(Whole(map.ticks), IF Less(long, One) THEN One ELSE long)))
       [] OTHER -> Place(Gone(map.sums[right - 1], map.sums[right]))

\* reference_tick_to_local_tick
ToLocalTick(map, reference) ==
  Rounded(Limited(ToLocal(map, reference), Zero, Whole(map.ticks)))
=============================================================================
