--------------------------- MODULE DumkaOperators ---------------------------
(***************************************************************************)
(* The operators the Dum-Ka evolution fold edits a pattern with.           *)
(*                                                                         *)
(* A pattern is a record: "onsets", a set of [slot, dur] on the grid of    *)
(* the seed (the code keeps them in a vector sorted by slot), and          *)
(* "rotation", whole beats added to every slot when the pattern is played. *)
(* A window is a slot range whose end is exclusive; the window of a row    *)
(* without a scope is Unscoped, which no interval leaves.                  *)
(*                                                                         *)
(* An operator is the set of the patterns its draws can propose, before    *)
(* the common admission test; the empty set when it has no candidate left. *)
(* Placement is by Barlow rank alone (placementBias 0), and the structural *)
(* spans accept every pattern whose intervals are disjoint.                *)
(***************************************************************************)
EXTENDS DumkaGrid, FiniteSetsExt

CONSTANTS Beats,       \* beats of the cycle
          Subdivision  \* slots of one beat

ASSUME GridAssumption ==
  Beats \in Nat \ {0} /\ Subdivision \in Nat \ {0}

Slots == Beats * Subdivision
Grid == 0..Slots - 1
Rank == Indispensability(Strata(Beats, Subdivision))
Level == MetricalLevels(Strata(Beats, Subdivision))
DeepestLevel == Max({Level[x] : x \in Grid})

End(o) == o.slot + o.dur
SlotsOf(onsets) == {o.slot : o \in onsets}
Occupied(onsets) == UNION {o.slot..End(o) - 1 : o \in onsets}
Count(s) == Cardinality(s.onsets)
WithOnsets(s, onsets) == [s EXCEPT !.onsets = onsets]

\* How far one pattern has drifted from another: the slots only one sounds.
SymmetricDifference(s, t) ==
  Cardinality(SymDiff(SlotsOf(s.onsets), SlotsOf(t.onsets)))

-----------------------------------------------------------------------------
(* Admission. *)

\* No interval overlaps the next one or runs past the end of the cycle.
Disjoint(onsets) ==
  \A o \in onsets : /\ o.dur > 0
                    /\ End(o) <= Slots
                    /\ \A p \in onsets \ {o} : o.slot <= p.slot => End(o) <= p.slot

\* The slots wrap when a pattern is rotated; the durations do not.
Rotated(s) ==
  {[slot |-> (o.slot + s.rotation * Subdivision) % Slots, dur |-> o.dur] :
     o \in s.onsets}

Projectable(s) == Disjoint(Rotated(s))

\* A density corridor, in onsets: a floor no grid can hold yields to the
\* ceiling.
Corridor(floorPercent, ceilingPercent) ==
  LET top == (ceilingPercent * Slots) \div 100
  IN [floor |-> Min({(floorPercent * Slots + 99) \div 100, top}), ceiling |-> top]

InCorridor(s, c) == c.floor <= Count(s) /\ Count(s) <= c.ceiling

\* The rotation left out of the test.
AdmissibleUnrotated(s, c) == InCorridor(s, c) /\ Disjoint(s.onsets)

\* The one test every proposed pattern passes before it replaces another.
Admissible(s, c) == InCorridor(s, c) /\ Disjoint(s.onsets) /\ Projectable(s)

-----------------------------------------------------------------------------
(* Windows and candidate pools. *)

Unscoped == [start |-> 0, end |-> 2 * Slots]
Covers(w, first, last) == w.start <= first /\ last <= w.end
Fits(o, w) == Covers(w, o.slot, End(o))
HoldsSlot(w, x) == w.start <= x /\ x < w.end

\* The first elements of S in the order Before, more of them the warmer.
Pool(S, Before(_, _), temperature) ==
  {x \in S : Cardinality({y \in S : Before(y, x)})
               <= (temperature * (Cardinality(S) - 1)) \div 100}

Weaker(x, y) == Rank[x] < Rank[y]
Stronger(x, y) == Rank[x] > Rank[y]

\* A row may be confined to the slots only one prime of the grid's
\* refinement created; 1 stands for no such option.
Gcd(a, b) == Max({d \in 1..b : a % d = 0 /\ b % d = 0})
AllowedSlot(prime, x) ==
  (Subdivision \div Gcd(x % Subdivision, Subdivision)) % prime = 0

-----------------------------------------------------------------------------
(* One onset less, one more, all of them turned. *)

RemovableSlots(s, how) ==
  {o.slot : o \in {q \in s.onsets : Fits(q, how.window) /\ AllowedSlot(how.prime, q.slot)}}

\* The last onset of a pattern is never removed.
Removals(s, how) ==
  IF Count(s) <= 1 THEN {}
  ELSE {WithOnsets(s, {o \in s.onsets : o.slot # x}) :
          x \in Pool(RemovableSlots(s, how), Weaker, how.temperature)}

\* Silent means under no sustain, not merely free of an onset.
SilentSlots(s, how) ==
  {x \in Grid \ Occupied(s.onsets) :
     HoldsSlot(how.window, x) /\ AllowedSlot(how.prime, x)}

Additions(s, how) ==
  {WithOnsets(s, s.onsets \union {[slot |-> x, dur |-> 1]}) :
     x \in Pool(SilentSlots(s, how), Stronger, how.temperature)}

\* Inside a window the onsets themselves turn, unless one straddles an edge
\* or would; nothing is proposed when none moves.
WindowedRotate(s, w, direction) ==
  LET len == w.end - w.start
      step == IF direction = "later" THEN Subdivision ELSE len - (Subdivision % len)
      turn(o) == [o EXCEPT !.slot = w.start + ((o.slot - w.start + step) % len)]
      inside == {o \in s.onsets : Fits(o, w)}
      moved == {turn(o) : o \in inside}
  IN IF \/ \E o \in s.onsets \ inside : o.slot < w.end /\ End(o) > w.start
        \/ \E o \in moved : ~Fits(o, w)
        \/ \A o \in inside : turn(o) = o
     THEN {}
     ELSE {WithOnsets(s, (s.onsets \ inside) \union moved)}

Rotations(s, how) ==
  IF how.window # Unscoped THEN WindowedRotate(s, how.window, how.direction)
  ELSE LET step == IF how.direction = "later" THEN 1 ELSE Beats - 1
       IN {[s EXCEPT !.rotation = (@ + step) % Beats]}

-----------------------------------------------------------------------------
(* Displacement (Sioros): onsets against the metrical levels. *)

Back(x, k) == (x - k) % Slots

\* Walking back from pulse, the first place Stop holds, or pulse itself.
WalkBack(pulse, Stop(_)) ==
  LET k == Min({j \in 1..Slots : j = Slots \/ Stop(Back(pulse, j))})
  IN Back(pulse, k)

\* The silent pulse of the target level a syncopated onset lands on, if the
\* pulses crossed are silent and weaker than the one it leaves.
FindPrecedingPulse(on, pulse, target) ==
  LET p == WalkBack(pulse, LAMBDA x : \/ Level[x] <= Level[pulse]
                                      \/ x \in on
                                      \/ Level[x] = target)
  IN {x \in {p} : x \notin on /\ Level[x] = target}

SyncopationTarget(on, pulse, kind) ==
  IF \/ pulse \notin on
     \/ kind = 0 /\ Level[pulse] <= BeatLevel(Beats)
     \/ Level[pulse] + kind > DeepestLevel
  THEN {}
  ELSE FindPrecedingPulse(on, pulse, Level[pulse] + kind)

\* The nearest onset before a silent strong pulse, if it is weaker than
\* every silent pulse it would cross.
FindPrecedingOnset(on, pulse) ==
  LET p == WalkBack(pulse, LAMBDA x : Level[x] <= Level[pulse] \/ x \in on)
      crossed == {Back(pulse, j) : j \in 1..((pulse - p - 1) % Slots)}
  IN {x \in {p} \intersect on :
        Level[x] > Level[pulse] /\ \A c \in crossed : Level[x] < Level[c]}

\* The onset that resolves the syncopation felt at a silent pulse.
DesyncopateAt(on, pulse) ==
  LET p == Back(pulse, 1)
  IN IF pulse \in on THEN {}
     ELSE IF Level[pulse] > BeatLevel(Beats) /\ Level[p] = Level[pulse] /\ p \in on
          THEN {p}
          ELSE FindPrecedingOnset(on, pulse)

MoveOnset(s, from, to) ==
  WithOnsets(s, {IF o.slot = from THEN [o EXCEPT !.slot = to] ELSE o : o \in s.onsets})

\* Only the interval it leaves is looked at.
MoveFitsSource(s, from, to, w) ==
  \E o \in s.onsets : o.slot = from /\ Fits(o, w)

\* Both the interval an onset leaves and the one it takes lie in the window.
MoveFits(s, from, to, w) ==
  \E o \in s.onsets : o.slot = from /\ Fits(o, w) /\ Covers(w, to, to + o.dur)

Syncopations(s, how) ==
  {MoveOnset(s, v[1], v[2]) :
     v \in {u \in SlotsOf(s.onsets) \X Grid :
              /\ \E kind \in 0..DeepestLevel :
                   u[2] \in SyncopationTarget(SlotsOf(s.onsets), u[1], kind)
              /\ MoveFits(s, u[1], u[2], how.window)
              /\ AllowedSlot(how.prime, u[2])}}

Desyncopations(s, how) ==
  {MoveOnset(s, v[2], v[1]) :
     v \in {u \in Grid \X SlotsOf(s.onsets) :
              /\ u[2] \in DesyncopateAt(SlotsOf(s.onsets), u[1])
              /\ MoveFits(s, u[2], u[1], how.window)
              /\ AllowedSlot(how.prime, u[1])}}
=============================================================================
