--------------------------- MODULE DumkaEvolution ---------------------------
(***************************************************************************)
(* The evolution fold: the pattern a Dum-Ka track plays at a cycle is the  *)
(* seed taken through every cycle before it.  A cycle applies the plan's   *)
(* rows that are active in it, in order; when none has a scope this cycle  *)
(* of the seed holds, a layer runs in their stead: steering where a        *)
(* property curve is drawn, else the pacing curve, else one stochastic     *)
(* operation.                                                              *)
(*                                                                         *)
(* Three rails bound it.  The density corridor is never left.  The leash   *)
(* bounds the stochastic drift from an anchor, which every authored row    *)
(* and every curve cycle moves; and since the anchor moves, a floor on the *)
(* onset count stays with the count an author last set.                    *)
(*                                                                         *)
(* The draws are hashes of the seed value and are any value in range here; *)
(* the scores that choose among the prefixes of a walk are data, and any   *)
(* prefix may be the best.                                                 *)
(***************************************************************************)
EXTENDS DumkaFigures

CONSTANTS
  Projects,     \* what is authored: [seed, plan, curve, style]
  LeashSamples, \* the drift leash, in percent, automation may sample
  RailSamples,  \* density corridors, in percent, automation may sample
  Bands,        \* density bands a property curve may draw, in percent
  MaxOperations,\* operations of one curve or steering walk
  Horizon       \* the last cycle folded

VARIABLES
  project,     \* the authored project of this behaviour
  cycle,       \* the cycle being folded; 0 is the seed itself
  due,         \* the active rows this cycle has still to apply
  layerDue,    \* no active row holds its scope: the layer has still to run
  sample,      \* this cycle's leash and corridor
  state,       \* the pattern
  leashAnchor, \* the pattern the leash measures from
  countAnchor, \* the onset count an author last set
  ranges,      \* per ranged row: its accumulator
  lowest       \* the lowest count a ceiling or a tightened leash imposed
               \* since countAnchor was set

vars == <<project, cycle, due, layerDue, sample, state, leashAnchor,
          countAnchor, ranges, lowest>>

Rows(plan) == {plan[i] : i \in DOMAIN plan}
Open == [floor |-> 0, ceiling |-> 100]
NoScope == [start |-> 0, len |-> 0]
SeedCount == Cardinality(project.seed)

CorridorOf(percent) == Corridor(Min({percent.floor, percent.ceiling}), percent.ceiling)
SampledCorridor == CorridorOf(sample.rails)
SampledBudget == Budget(sample.leash, SeedCount)

\* A row carries its own corridor or none.
RowCorridor(row) == IF row.rails = Open THEN SampledCorridor ELSE CorridorOf(row.rails)

-----------------------------------------------------------------------------
(* Rows of the plan. *)

Active(plan, c) == SelectSeq(plan, LAMBDA row : row.from <= c /\ c <= row.to)

\* A scope beyond the seed's beats orphans the row.
ScopeHolds(row) == row.scope.start + row.scope.len <= Beats
Window(row) ==
  IF row.scope = NoScope THEN Unscoped
  ELSE [start |-> row.scope.start * Subdivision,
        end |-> (row.scope.start + row.scope.len) * Subdivision]

Manner(window, prime, direction) ==
  [window |-> window, prime |-> prime, direction |-> direction] @@ project.style
RowManner(row) == Manner(Window(row), row.prime, row.direction)
WalkManner == Manner(Unscoped, 1, "earlier")

CandidateCount(family, s, how) ==
  CASE family = "remove" ->
         Max({0, Cardinality(RemovableSlots(s, how)) - (IF Count(s) <= 1 THEN 1 ELSE 0)})
    [] family = "add" -> Cardinality(SilentSlots(s, how))
    [] family = "rotate" ->
         IF how.window = Unscoped THEN Beats ELSE Length(how.window) \div Subdivision
    [] family = "syncopate" -> Cardinality(Syncopations(s, how))
    [] family = "desyncopate" -> Cardinality(Desyncopations(s, how))
    [] family = "fragment" -> Cardinality(Intervals(s, how))
    [] family = "consolidate" -> Cardinality(Runs(s, how))
    [] family = "reshape" -> Cardinality(ReshapeWindows(s, how))

PinQuota(row, n) ==
  IF row.family = "rotate" THEN (row.intensity * n + 50) \div 100
                           ELSE (row.intensity * n + 99) \div 100

\* How much of a range's target is due after so many of its cycles.
Cumulative(pacing, target, step, len) ==
  IF step >= len THEN target
  ELSE IF pacing = "linear" THEN (target * step) \div len
       ELSE (target * step * step * (3 * len - 2 * step)) \div (len * len * len)

NoTarget == -1
NoRange == [remainder |-> 0, target |-> NoTarget, asked |-> 0, owed |-> 0]
IsPin(row) == row.from = row.to

\* The accumulator of a row after a cycle that offers it n candidates; a
\* range without candidates is passed over, unless its pace is its own.
Accumulate(row, range, n) ==
  LET total == row.intensity * n + range.remainder
      target == IF range.target = NoTarget THEN PinQuota(row, n) ELSE range.target
      len == row.to - row.from + 1
      step == cycle - row.from + 1
      step1 == Cumulative(row.pacing, target, step, len)
                - Cumulative(row.pacing, target, step - 1, len)
  IN IF row.pacing # "perCycle"
     THEN [range EXCEPT !.target = target, !.asked = @ + step1]
     ELSE IF n = 0 THEN range
     ELSE [range EXCEPT !.remainder = total % 100, !.asked = @ + total \div 100,
                        !.owed = @ + row.intensity * n]

\* The patterns n operations may leave behind, by their number: each admitted,
\* or stopped for good at one that fails.
Operated(family, s, how, c, n) ==
  LET Outcomes(t, out) ==
        {[stopped |-> FALSE, pattern |-> u] : u \in out.applied}
        \union (IF out.mayFail THEN {[stopped |-> TRUE, pattern |-> t]} ELSE {})
      Further(p) == IF p.stopped THEN {p}
                  ELSE Outcomes(p.pattern, Apply(family, p.pattern, how, c, NoCap))
      f[k \in 0..n] == IF k = 0 THEN {[stopped |-> FALSE, pattern |-> s]}
                       ELSE UNION {Further(p) : p \in f[k - 1]}
  IN f

\* n operations asked for: all of them applied, or stopped at one that fails.
OperationQuota(family, s, how, c, n) ==
  {p.pattern : p \in Operated(family, s, how, c, n)[n]}

\* A perceptual row keeps any prefix of its operations, the empty one too.
Trajectory(family, s, how, c, n) ==
  {p.pattern : p \in UNION Range(Operated(family, s, how, c, n))}

\* A row other than Stochastic: the corridor first, then its operations.
\* It is exempt from the leash; both anchors move to what it leaves.
ApplyRow(row) ==
  LET c == RowCorridor(row)
      how == RowManner(row)
      Quota(n, range) ==
        CASE n = 0 -> 0
          [] IsPin(row) -> PinQuota(row, n)
          [] OTHER -> range.asked - ranges[row.id].asked
  IN /\ \E normal \in {NormalizeToDensity(state, c)} :
          IF row.perceptual
          THEN /\ state' \in Trajectory(row.family, normal, how, c, MaxOperations)
               /\ UNCHANGED ranges
          ELSE \E n \in {CandidateCount(row.family, normal, how)} :
               \E range \in {Accumulate(row, ranges[row.id], n)} :
                 /\ state' \in OperationQuota(row.family, normal, how, c, Quota(n, range))
                 /\ ranges' = IF IsPin(row) THEN ranges ELSE [ranges EXCEPT ![row.id] = range]
     /\ leashAnchor' = state'
     /\ countAnchor' = Count(state')
     /\ lowest' = Count(state')

-----------------------------------------------------------------------------
(* Drift under the leash. *)

Lower(c) == Min({lowest, c.ceiling})

\* A tightened leash contracts what was inherited.
Contracted == NormalizeToLeash(state, leashAnchor, SampledBudget)
\* What drift starts from, with the lowest count that leaves behind.
Leashed(c) ==
  LET Lowest(contracted, current) ==
        [pattern |-> current,
         lowest |-> IF contracted = state THEN Lower(c) ELSE Min({Lower(c), Count(current)})]
      From(contracted) == Lowest(contracted, NormalizeToDensity(contracted, c))
  IN From(Contracted)

\* Every family but Rotate is measured against the leash.
OnLeash(family, t) ==
  family = "rotate" \/ SymmetricDifference(t, leashAnchor) <= SampledBudget

\* A Stochastic row: one operation of any family inside its scope, or none.
\* It moves neither anchor, and no count floor holds it.
ApplyStochasticRow(row) ==
  LET c == RowCorridor(row)
      Drift(current) ==
        \/ row.intensity < 100 /\ state' = current
        \/ \E family \in Families, direction \in {"earlier", "later"} :
           \E tries \in {Apply(family, current, Manner(Window(row), row.prime, direction), c, NoCap)} :
             \/ \E t \in tries.applied : state' = IF OnLeash(family, t) THEN t ELSE current
             \/ tries.mayFail /\ state' = current
  IN /\ \E leashed \in {Leashed(c)} : Drift(leashed.pattern) /\ lowest' = leashed.lowest
     /\ UNCHANGED <<leashAnchor, countAnchor, ranges>>

\* An operation may not take the count below the anchored floor, unless an
\* inherited shortfall shrinks.
FloorHolds(t, s) ==
  LET short(u) == Max({0, countAnchor - SampledBudget - Count(u)})
  IN short(t) = 0 \/ short(t) < short(s)

\* The stochastic layer: the leash, the corridor, and at most one operation.
Stochastic ==
  LET c == SampledCorridor
      left(current) == Max({0, SampledBudget - SymmetricDifference(current, leashAnchor)})
      tries(family, current, how) ==
        IF family = "fragment" THEN LayerFragments(current, how, c, left(current))
        ELSE Proposals(family, current, how, c, NoCap)
      Drift(current) ==
        \/ state' = current
        \/ \E family \in Families, direction \in {"earlier", "later"} :
           \E t \in tries(family, current, Manner(Unscoped, 1, direction)) :
             /\ t # Refused /\ Admissible(t, c)
             /\ OnLeash(family, t) /\ FloorHolds(t, current)
             /\ state' = t
  IN /\ \E leashed \in {Leashed(c)} : Drift(leashed.pattern) /\ lowest' = leashed.lowest
     /\ UNCHANGED <<leashAnchor, countAnchor, ranges>>

\* The onset counts a walk may occupy; a corridor below the anchored floor
\* wins.
CountBand(c) ==
  LET floor == Max({countAnchor - SampledBudget, c.floor})
  IN [floor |-> IF floor <= c.ceiling THEN floor ELSE c.floor, ceiling |-> c.ceiling]

CountGap(s, band) == Max({0, band.floor - Count(s), Count(s) - band.ceiling})

\* A walk: from the corridor-normalized pattern, one operation after another
\* of any family, each within the leash of where the walk began and within
\* the count band or on the way back to it; failures and refusals are passed
\* over.  Any pattern on the way may be kept.
Walk(c) ==
  LET band == CountBand(c)
      kept(start, s, t) == /\ SymmetricDifference(t, start) <= SampledBudget
                           /\ CountGap(t, band) = 0 \/ CountGap(t, band) < CountGap(s, band)
      left(start, s) == Max({0, SampledBudget - SymmetricDifference(s, start)})
      Tried(start, s) ==
        UNION {Apply(family, s, WalkManner, c, left(start, s)).applied : family \in Families}
      From(start) ==
        LET f[n \in 0..MaxOperations] ==
              IF n = 0 THEN {start}
              ELSE f[n - 1] \union
                   UNION {{t \in Tried(start, s) : kept(start, s, t)} : s \in f[n - 1]}
        IN f[MaxOperations]
  IN From(NormalizeToDensity(state, c))

WalkTo(c) ==
  /\ state' \in Walk(c)
  /\ leashAnchor' = state'
  /\ lowest' = Lower(c)
  /\ UNCHANGED <<countAnchor, ranges>>

\* Steering narrows the corridor to the drawn band where the two meet.
Steered(band) ==
  LET both == [floor |-> Max({Min({sample.rails.floor, sample.rails.ceiling}), band.floor}),
               ceiling |-> Min({sample.rails.ceiling, band.ceiling})]
      floor == (both.floor * Slots + 99) \div 100
      ceiling == (both.ceiling * Slots) \div 100
  IN IF both.floor > both.ceiling \/ floor > ceiling THEN SampledCorridor
     ELSE [floor |-> floor, ceiling |-> ceiling]

\* A zero target holds the pattern.  Where rows are active but orphaned, the
\* hold leaves out the corridor.
Hold(orphaned) ==
  /\ state' = IF orphaned THEN state ELSE NormalizeToDensity(state, SampledCorridor)
  /\ leashAnchor' = state'
  /\ lowest' = Lower(SampledCorridor)
  /\ UNCHANGED <<countAnchor, ranges>>

-----------------------------------------------------------------------------
(* The fold. *)

Init ==
  /\ project \in Projects
  /\ cycle = 0
  /\ due = <<>>
  /\ layerDue = FALSE
  /\ sample = [leash |-> 0, rails |-> Open]
  /\ state = [onsets |-> project.seed, rotation |-> 0]
  /\ leashAnchor = state
  /\ countAnchor = Count(state)
  /\ ranges = [id \in {row.id : row \in Rows(project.plan)} |-> NoRange]
  /\ lowest = Count(state)

\* A cycle begins: automation is sampled and the plan's active rows are due.
NextCycle ==
  /\ due = <<>> /\ ~layerDue
  /\ cycle < Horizon
  /\ cycle' = cycle + 1
  /\ \E leash \in LeashSamples, rails \in RailSamples :
       sample' = [leash |-> leash, rails |-> rails]
  /\ due' = Active(project.plan, cycle + 1)
  /\ layerDue' = \A i \in DOMAIN due' : ~ScopeHolds(due'[i])
  /\ UNCHANGED <<project, state, leashAnchor, countAnchor, ranges, lowest>>

\* The next active row is applied; an orphaned one changes nothing.
Row ==
  /\ due # <<>>
  /\ due' = Tail(due)
  /\ LET row == Head(due)
     IN IF ~ScopeHolds(row)
        THEN UNCHANGED <<state, leashAnchor, countAnchor, ranges, lowest>>
        ELSE IF row.family = "stochastic" THEN ApplyStochasticRow(row)
        ELSE ApplyRow(row)
  /\ UNCHANGED <<project, cycle, layerDue, sample>>

\* The layer of a cycle no row holds.
Layer ==
  /\ due = <<>> /\ layerDue
  /\ layerDue' = FALSE
  /\ \/ \E c \in {Steered(band) : band \in Bands}
                  \union (IF project.curve THEN {SampledCorridor} ELSE {}) : WalkTo(c)
     \/ project.curve /\ Hold(Active(project.plan, cycle) # <<>>)
     \/ ~project.curve /\ Stochastic
  /\ UNCHANGED <<project, cycle, due, sample>>

Next == NextCycle \/ Row \/ Layer

Spec == Init /\ [][Next]_vars
-----------------------------------------------------------------------------
(* Properties. *)

\* The step at hand is that of a row, or of a layer.
RowApplied == due # <<>> /\ due' = Tail(due)
LayerRan == layerDue /\ ~layerDue'

\* The fold stays in its types: onsets on the grid, a whole rotation of the
\* cycle, remainders below a hundred, and rows due only in their cycles.
TypeOK ==
  /\ project \in Projects
  /\ cycle \in 0..Horizon
  /\ \A i \in DOMAIN due : due[i].from <= cycle /\ cycle <= due[i].to
  /\ layerDue \in BOOLEAN
  /\ sample.leash \in 0..100 /\ CorridorOf(sample.rails).ceiling <= Slots
  /\ \A s \in {state, leashAnchor} :
       /\ s.onsets \subseteq [slot : Grid, dur : 1..Slots]
       /\ s.rotation \in 0..Beats - 1
  /\ countAnchor \in 0..Slots /\ lowest \in 0..countAnchor
  /\ \A id \in DOMAIN ranges : ranges[id].remainder \in 0..99

\* Every pattern of the fold can be played, turned as it is: no onset
\* swallows the next, and none sustains across the end of the cycle, in the
\* frame the operators edit and in the rotated one (evolve.rs, the trial
\* projection of every edit).  (With the types of the fold.)
PatternPlays ==
  /\ TypeOK
  /\ \A s \in {state, leashAnchor} : Disjoint(s.onsets) /\ Projectable(s)

\* Whatever the leash, the figures and the walks did, the count is inside
\* the corridor of the row or the layer that ran last: the density corridor
\* outranks every other rail.  The one exception is the hold of a cycle
\* whose rows are all orphaned.
OrphanedHold ==
  project.curve /\ state' = state /\ Active(project.plan, cycle) # <<>>
CorridorHeld ==
  [][/\ (RowApplied /\ ScopeHolds(Head(due))) => InCorridor(state', RowCorridor(Head(due)))
     /\ (LayerRan /\ ~OrphanedHold) => InCorridor(state', SampledCorridor)]_vars

\* With the corridor open, no layer and no unscoped Stochastic row leaves
\* the pattern further from its anchor than the leash allows, even when the
\* leash is tightened between two cycles; and where the anchor moves along,
\* one cycle goes no further than that from the cycle before, unless a drawn
\* density band pulls the pattern in first.
Drifts(row) ==
  row.family = "stochastic" /\ row.scope = NoScope /\ row.rails = Open
LeashHeld ==
  [][((LayerRan \/ (RowApplied /\ Drifts(Head(due)))) /\ sample.rails = Open)
     => /\ SymmetricDifference(state', leashAnchor') <= SampledBudget
        /\ (/\ leashAnchor' # leashAnchor
            /\ \A band \in Bands : InCorridor(state, Steered(band)))
           => SymmetricDifference(state', state) <= SampledBudget]_vars

\* A row confined to some beats leaves the rest of the pattern and its
\* rotation alone, unless the pattern has to be brought into its corridor
\* first: no sustain is cut, moved or merged across the scope's edge.
ScopeKept ==
  [][(/\ RowApplied
      /\ Head(due).scope # NoScope
      /\ Head(due).family # "stochastic"
      /\ InCorridor(state, RowCorridor(Head(due))))
       => LET outside(s) == {o \in s.onsets : ~Fits(o, Window(Head(due)))}
          IN outside(state') = outside(state) /\ state'.rotation = state.rotation]_vars

\* However often the anchor of the leash moves, the onset count stays within
\* one leash budget of the count an author last set, or as low as a ceiling
\* or a tightened leash brought it since: patterns do not decay to a single onset (the collapse
\* docs/DUMKA_DEFECT_POSTMORTEM.md tells of).
MaxBudget == Max({Budget(leash, SeedCount) : leash \in LeashSamples})
CountFloor == Count(state) >= Min({countAnchor - MaxBudget, lowest})

\* It does as long as the plan has no Stochastic row.
CountFloorOfLayers ==
  (\A row \in Rows(project.plan) : row.family # "stochastic") => CountFloor

\* The three rails of an evolution.
RailsHeld == CorridorHeld /\ LeashHeld /\ []CountFloorOfLayers

\* The quota a range of cycles asks for is the one it was authored with,
\* however its rounded parts fall on the cycles.
RangesAddUp ==
  \A row \in Rows(project.plan) :
    LET range == ranges[row.id]
        over == cycle > row.to \/ (cycle = row.to /\ row \notin {due[i] : i \in DOMAIN due})
    IN (~IsPin(row) /\ row.family # "stochastic" /\ ~row.perceptual) =>
         IF row.pacing = "perCycle"
         THEN 100 * range.asked + range.remainder = range.owed
         ELSE (over /\ range.target # NoTarget) => range.asked = range.target

\* What rows may do: where, and how much in all.
RowsHeld == ScopeKept /\ []RangesAddUp

=============================================================================
