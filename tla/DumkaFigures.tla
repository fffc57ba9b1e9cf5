---------------------------- MODULE DumkaFigures ----------------------------
(***************************************************************************)
(* The figure operators of the Dum-Ka evolution (Fragment, Consolidate and *)
(* Reshape), the admission every operator shares, and the normalizations   *)
(* that bring an inherited pattern back under the leash and the density    *)
(* corridor before a cycle's operators run.                                *)
(***************************************************************************)
EXTENDS DumkaOperators

-----------------------------------------------------------------------------
(* Fragment: a sounding note or a silent run becomes a figure. *)

\* The silent runs between the onsets, before the first and after the last.
SilentRuns(onsets) ==
  {i \in {[start |-> Max({0} \union {End(o) : o \in {q \in onsets : q.slot < x}}),
           end |-> x, sounding |-> FALSE] : x \in SlotsOf(onsets) \union {Slots}} :
     i.end - i.start >= 2}

SoundingIntervals(onsets) ==
  {[start |-> o.slot, end |-> End(o), sounding |-> TRUE] :
     o \in {q \in onsets : q.dur >= 2 /\ End(q) <= Slots}}

Length(i) == i.end - i.start
Figure(i, k) == {i.start + p : p \in SoundingOf(Bjorklund(k, Length(i)))}

\* The sizes of a figure whose new onsets the row may place.
AllowedSizes(i, prime) ==
  {k \in KCandidates(Length(i)) :
     \A x \in Figure(i, k) \ {i.start} : AllowedSlot(prime, x)}

Intervals(s, how) ==
  {i \in SilentRuns(s.onsets) \union SoundingIntervals(s.onsets) :
     Covers(how.window, i.start, i.end) /\ AllowedSizes(i, how.prime) # {}}

\* Sounding notes first, then by the best pulse the figure would articulate.
InteriorBest(i) == Max({Rank[x] : x \in i.start + 1..i.end - 1})
FragmentsBefore(i, j) ==
  \/ i.sounding /\ ~j.sounding
  \/ i.sounding = j.sounding /\ InteriorBest(i) > InteriorBest(j)

\* A split note already sounds its first piece.
AddedOnsets(i, k) == IF i.sounding THEN k - 1 ELSE k

\* The sizes the corridor's ceiling and a cap on new onsets leave.
SizesWithin(s, i, how, c, cap) ==
  {k \in AllowedSizes(i, how.prime) :
     AddedOnsets(i, k) <= Max({0, c.ceiling - Count(s)}) /\ AddedOnsets(i, k) <= cap}

DrawnSizes(i, sizes, how) ==
  Pool(sizes, LAMBDA j, k : SimplerSize(Length(i), j, k), how.fill)

\* The pieces sustain to one another and cover the interval exactly.
ApplyFragment(s, i, k) ==
  LET Next(at, x) == Min({y \in at \union {i.end} : y > x})
      Placed(at) == WithOnsets(s, {o \in s.onsets : ~(i.sounding /\ o.slot = i.start)}
                                  \union {[slot |-> x, dur |-> Next(at, x) - x] : x \in at})
  IN Placed(Figure(i, k))

\* The first of the intervals after the picked one, in order, round again
\* to the picked one, that has a size left.
Fallback(intervals, picked, HasSize(_)) ==
  LET n == Cardinality(intervals)
      place(i) == Cardinality({j \in intervals : FragmentsBefore(j, i)})
      probe(i) == (place(i) - place(picked)) % n
      usable == {i \in intervals : HasSize(i)}
  IN {i \in usable : \A j \in usable : probe(i) <= probe(j)}

\* A row, or a walk with so many onsets of its budget left: the sizes beyond
\* the cap are not drawn, and an interval without one yields to the next.
Fragments(s, how, c, cap) ==
  LET intervals == Intervals(s, how)
      sizes(i) == SizesWithin(s, i, how, c, cap)
  IN UNION {UNION {{ApplyFragment(s, i, k) : k \in DrawnSizes(i, sizes(i), how)} :
                     i \in Fallback(intervals, picked, LAMBDA j : sizes(j) # {})} :
              picked \in Pool(intervals, FragmentsBefore, how.temperature)}

\* The same, for a row: no cap, and no other interval when the corridor
\* leaves the picked one no size.
RowFragments(s, how, c) ==
  UNION {{ApplyFragment(s, i, k) :
            k \in DrawnSizes(i, SizesWithin(s, i, how, c, Slots), how)} :
           i \in Pool(Intervals(s, how), FragmentsBefore, how.temperature)}

\* The stochastic layer draws from the corridor's sizes first and falls back
\* only when the drawn size exceeds what is left of the leash.
LayerFragments(s, how, c, left) ==
  LET intervals == Intervals(s, how)
      open(i) == SizesWithin(s, i, how, c, Slots)
      leashed(i) == SizesWithin(s, i, how, c, left)
      preferred(i) == DrawnSizes(i, open(i), how)
      fallback(picked) == Fallback(intervals, picked, LAMBDA j : leashed(j) # {})
  IN UNION {{ApplyFragment(s, i, k) :
               k \in {j \in preferred(i) : AddedOnsets(i, j) <= left}}
            \union
            (IF \A k \in preferred(i) : AddedOnsets(i, k) <= left THEN {}
             ELSE UNION {{ApplyFragment(s, j, k) : k \in DrawnSizes(j, leashed(j), how)} :
                           j \in fallback(i)}) :
              i \in Pool(intervals, FragmentsBefore, how.temperature)}

-----------------------------------------------------------------------------
(* Consolidate: a contiguous run becomes one note. *)

RunFrom(onsets, x) ==
  {o \in onsets : o.slot >= x /\ x..o.slot \subseteq Occupied(onsets)}

\* The first n onsets of a run.
Leading(run, n) ==
  {o \in run : Cardinality({p \in run : p.slot < o.slot}) < n}
FirstOf(run) == CHOOSE o \in run : \A p \in run : o.slot <= p.slot
RunEnd(run) == Max({End(o) : o \in run})

Runs(s, how) ==
  {run \in {RunFrom(s.onsets, x) : x \in {y \in SlotsOf(s.onsets) :
                                           y - 1 \notin Occupied(s.onsets)}} :
     /\ Cardinality(run) >= 2
     /\ Covers(how.window, FirstOf(run).slot, RunEnd(run))
     /\ \A o \in run \ {FirstOf(run)} : AllowedSlot(how.prime, o.slot)}

\* Weakest attachment first.
ConsolidatesBefore(run, other) ==
  LET weakest(r) == Min({Rank[o.slot] : o \in r \ {FirstOf(r)}})
  IN weakest(run) < weakest(other)

\* No more onsets are merged than the corridor's floor can lose.
Consolidations(s, how, c) ==
  LET removable == Count(s) - c.floor
      merge(run) == (s.onsets \ run)
                    \union {[slot |-> FirstOf(run).slot,
                             dur |-> RunEnd(run) - FirstOf(run).slot]}
  IN IF removable <= 0 THEN {}
     ELSE {WithOnsets(s, merge(Leading(run, removable + 1))) :
             run \in Pool(Runs(s, how), ConsolidatesBefore, how.temperature)}

-----------------------------------------------------------------------------
(* Reshape: the onsets of a beat or of the cycle on a Euclidean mask. *)

ReshapeWindows(s, how) ==
  LET beat(b) == [start |-> b * Subdivision, end |-> (b + 1) * Subdivision]
      windows == {beat(b) : b \in 0..Beats - 1} \union {[start |-> 0, end |-> Slots]}
  IN {w \in windows :
        /\ Length(w) >= 2
        /\ Covers(how.window, w.start, w.end)
        /\ \E o \in s.onsets : Fits(o, w)
        /\ \A o \in s.onsets : Fits(o, w) \/ End(o) <= w.start \/ o.slot >= w.end
        /\ \E x \in w.start..w.end - 1 : AllowedSlot(how.prime, x)}

\* By the strongest pulse inside; a beat before the cycle it begins.
ReshapesBefore(v, w) ==
  LET best(u) == Max({Rank[x] : x \in u.start..u.end - 1})
  IN \/ best(v) > best(w)
     \/ best(v) = best(w) /\ (v.start < w.start \/ (v.start = w.start /\ v.end < w.end))

\* The mask turned later by some slots, complemented if the draw says so.
\* A draw that would leave the whole pattern silent, or whose slots the row
\* may not use, is refused.
Refused == [onsets |-> {}, rotation |-> -1]
Reshape(s, w, turn, invert, how) ==
  LET inside == {o \in s.onsets : Fits(o, w)}
      Turned(mask) == {w.start + ((p + turn) % Length(w)) : p \in mask}
      Drawn(slots) == IF invert THEN (w.start..w.end - 1) \ slots ELSE slots
      Next(at, x) == IF how.tied THEN Min({y \in at \union {w.end} : y > x}) ELSE x + 1
      Placed(at) ==
        IF \/ \E x \in at : ~AllowedSlot(how.prime, x)
           \/ at = {} /\ inside = s.onsets
        THEN Refused
        ELSE WithOnsets(s, (s.onsets \ inside)
                           \union {[slot |-> x, dur |-> Next(at, x) - x] : x \in at})
  IN Placed(Drawn(Turned(SoundingOf(BurstMask(Cardinality(inside), Length(w), how.maxRun)))))

Reshapes(s, how) ==
  UNION {{Reshape(s, w, turn, invert, how) : turn \in 0..Length(w) - 1,
                                             invert \in how.inversions} :
           w \in Pool(ReshapeWindows(s, how), ReshapesBefore, how.temperature)}

-----------------------------------------------------------------------------
(* One operation of a row or of a walk: the patterns it may leave behind,  *)
(* each with whether it applied.                                           *)

NoCap == Slots + 1

Proposals(family, s, how, c, cap) ==
  CASE family = "remove" -> Removals(s, how)
    [] family = "add" -> Additions(s, how)
    [] family = "rotate" -> Rotations(s, how)
    [] family = "syncopate" -> Syncopations(s, how)
    [] family = "desyncopate" -> Desyncopations(s, how)
    [] family = "fragment" ->
         IF cap = NoCap THEN RowFragments(s, how, c) ELSE Fragments(s, how, c, cap)
    [] family = "consolidate" -> Consolidations(s, how, c)
    [] family = "reshape" -> Reshapes(s, how)

Families == {"remove", "add", "rotate", "syncopate", "desyncopate",
             "fragment", "consolidate", "reshape"}

\* An operation may fail whenever one of its draws proposes nothing or a
\* pattern that is not admissible.
Apply(family, s, how, c, cap) ==
  LET Judged(proposals, good) ==
        [applied |-> good,
         mayFail |-> \/ proposals = {}
                     \/ good # proposals
                     \/ /\ family = "fragment" /\ cap = NoCap
                        /\ \E i \in Pool(Intervals(s, how), FragmentsBefore, how.temperature) :
                             SizesWithin(s, i, how, c, cap) = {}]
      Admitted(proposals) ==
        Judged(proposals, {t \in proposals : t # Refused /\ Admissible(t, c)})
  IN Admitted(Proposals(family, s, how, c, cap))

-----------------------------------------------------------------------------
(* Normalization of an inherited pattern. *)

Budget(leashPercent, seedCount) == (leashPercent * seedCount + 99) \div 100

\* Weakest or strongest first, as the vectors of the code are sorted.
ByRank(slots, Before(_, _)) == SetToSortSeq(slots, Before)

\* The leash that only undoes what was added.
NormalizeToLeashUndoOnly(s, anchor, budget) ==
  LET held(t) == SymmetricDifference(t, anchor) <= budget
      without(t, x) == WithOnsets(t, {o \in t.onsets : o.slot # x})
      added == SlotsOf(s.onsets) \ SlotsOf(anchor.onsets)
  IN FoldLeft(LAMBDA t, x : IF held(t) THEN t ELSE without(t, x), s,
              ByRank(added, Weaker))

\* Under a tightened leash, the onsets the anchor lacks are undone, weakest
\* first, then those it has are restored, strongest first, as long as the
\* drift exceeds the budget and the result can be played; when that is not
\* enough the anchor itself is, at the pattern's rotation if it can be.
NormalizeToLeash(s, anchor, budget) ==
  LET held(t) == SymmetricDifference(t, anchor) <= budget
      try(t, u) == IF held(t) \/ ~Projectable(u) THEN t ELSE u
      without(t, x) == WithOnsets(t, {o \in t.onsets : o.slot # x})
      with(t, x) == WithOnsets(t, t.onsets \union {o \in anchor.onsets : o.slot = x})
      added == SlotsOf(s.onsets) \ SlotsOf(anchor.onsets)
      undone == FoldLeft(LAMBDA t, x : try(t, without(t, x)), s, ByRank(added, Weaker))
      missing == SlotsOf(anchor.onsets) \ SlotsOf(undone.onsets)
      restored == FoldLeft(LAMBDA t, x : try(t, with(t, x)), undone,
                           ByRank(missing, Stronger))
      turned == [anchor EXCEPT !.rotation = s.rotation]
  IN IF held(restored) THEN restored
     ELSE IF Projectable(turned) THEN turned ELSE anchor

\* An onset on a silent slot, or on a sustained one, which it cuts in two.
Articulate(s, x) ==
  LET cut == {o \in s.onsets : o.slot < x /\ x < End(o)}
      dur(o) == End(o) - x
  IN WithOnsets(s, (s.onsets \ cut)
       \union {[o EXCEPT !.dur = x - o.slot] : o \in cut}
       \union (IF cut = {} THEN {[slot |-> x, dur |-> 1]}
               ELSE {[slot |-> x, dur |-> dur(o)] : o \in cut}))

\* Edits applied one at a time until Done holds or none can be played.
Repeat(s, Done(_), Edits(_)) ==
  LET f[n \in 0..Slots] ==
        IF n = 0 THEN s
        ELSE LET t == f[n - 1]
                 playable == SelectSeq(Edits(t), Projectable)
             IN IF Done(t) \/ playable = <<>> THEN t ELSE playable[1]
  IN f[Slots]

NormalizeToDensity(s, c) ==
  LET without(t, x) == WithOnsets(t, {o \in t.onsets : o.slot # x})
      thinned(t) == LET xs == ByRank(SlotsOf(t.onsets), Weaker)
                    IN [i \in DOMAIN xs |-> without(t, xs[i])]
      filled(t) == LET xs == ByRank(Grid \ SlotsOf(t.onsets), Stronger)
                   IN [i \in DOMAIN xs |-> Articulate(t, xs[i])]
  IN Repeat(Repeat(s, LAMBDA t : Count(t) <= c.ceiling, thinned),
            LAMBDA t : Count(t) >= c.floor, filled)
=============================================================================
