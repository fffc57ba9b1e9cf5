------------------------------ MODULE Triggers ------------------------------
(************************************************************************** *)
(* The pure trigger crate (crates/cseq-trigger): what a triggered track     *)
(* observes of its source, when it fires, where the launch lands, what the  *)
(* gate accepts, and the windowed compiler that turns fires into launches.  *)
(*                                                                          *)
(* The splitmix hashes behind the gate and start rolls are abstracted to a  *)
(* small mix: what matters is that they read the fire's identity alone.     *)
(************************************************************************** *)
EXTENDS Integers, Sequences, FiniteSets, SequencesExt, FiniteSetsExt

CONSTANTS
  Ppqn,            \* ticks per reference beat
  ProbabilityMax,  \* GATE_PROBABILITY_MAX, 1000 in the code
  MaxDepth,        \* MAX_CONDITION_DEPTH, 32 in the code
  None             \* Option::None

ASSUME TriggersAssumption ==
  /\ Ppqn \in Nat \ {0} /\ ProbabilityMax \in Nat \ {0} /\ MaxDepth \in Nat \ {0}
  /\ None \notin Nat /\ None \notin [cycle : Nat, beat : Nat] /\ None \notin [start : Nat, end : Nat]

Minimum(a, b) == IF a < b THEN a ELSE b
Monus(a, b) == IF a > b THEN a - b ELSE 0  \* saturating_sub

(************************************************************************** *)
(* resolve.rs: structure and audibility of one source cycle                *)
(************************************************************************** *)

\* A position in beats, a fraction, on the tick grid, half a tick rounding up.
ToTick(pos) == (2 * pos.num * Ppqn + pos.den) \div (2 * pos.den)

\* The matra of a beat a group start falls in.
MatraOf(t, b) ==
  Minimum(((t - b.start) * b.gati) \div (b.end - b.start), b.gati - 1)

\* One beat of the cycle: its GatiBeat span or, without one, a unit beat.
ResolveBeat(n, spans, pulses, starts) ==
  LET span == {s \in spans : s.beat = n}
      real == IF span # {} THEN CHOOSE s \in span : TRUE
              ELSE [gati |-> 1, section |-> 0,
                    from |-> [num |-> n, den |-> 1],
                    to |-> [num |-> n + 1, den |-> 1]]
      inSection == {s.beat : s \in {s \in spans : s.section = real.section}}
      b == [start |-> ToTick(real.from), end |-> ToTick(real.to),
            gati |-> IF real.gati < 1 THEN 1 ELSE real.gati]
      within == {t \in starts : b.start <= t /\ t < b.end}
  IN [beat |-> n, gati |-> real.gati, start |-> b.start, end |-> b.end,
      sectionStart |-> inSection # {} /\ Min(inSection) = n,
      pulses |-> {ToTick(p) : p \in pulses} \cap (b.start .. b.end - 1),
      sounding |-> within # {},
      matras |-> {MatraOf(t, b) : t \in within}]

\* resolve_cycle_from_spans followed by remap_to_reference: base is the
\* reference start of the cycle and map its tempo map, a function on its ticks.
ResolveCycle(index, beats, spans, pulses, starts, base, map) ==
  LET At(t) == base + map[t]
      Remapped(b) == [b EXCEPT !.start = At(b.start), !.end = At(b.end),
                               !.pulses = {At(t) : t \in b.pulses}]
  IN [index |-> index, start |-> At(0), end |-> At(beats * Ppqn),
      beats |-> {Remapped(ResolveBeat(n, spans, pulses, starts)) : n \in 0 .. beats - 1}]

(************************************************************************** *)
(* evaluator.rs: the condition tree and the fires of a cycle               *)
(************************************************************************** *)

Compare(op, actual, threshold) ==
  CASE op = "atLeast" -> actual >= threshold
    [] op = "atMost" -> actual <= threshold
    [] op = "exactly" -> actual = threshold
    [] op = "moreThan" -> actual > threshold
    [] op = "lessThan" -> actual < threshold

Predicate(p, cycle, b) ==
  CASE p.type = "isRest" -> ~b.sounding
    [] p.type = "isSounding" -> b.sounding
    [] p.type = "isSectionStart" -> b.sectionStart
    [] p.type = "hasJathiPulse" -> b.pulses # {}
    [] p.type = "gatiIs" -> b.gati = p.gati
    [] p.type = "matraIsRest" -> p.matra < b.gati /\ p.matra \notin b.matras
    [] p.type = "matraIsSounding" -> p.matra \in b.matras
    [] p.type = "restCountInCycle" ->
         Compare(p.op, Cardinality({c \in cycle.beats : ~c.sounding}), p.count)
    [] p.type = "soundingCountInCycle" ->
         Compare(p.op, Cardinality({c \in cycle.beats : c.sounding}), p.count)

\* eval_node.  A tree is a sequence of nodes whose root is the last; a node
\* names its children by position.  Below the depth guard a node is FALSE.
Holds(tree, cycle, b) ==
  LET eval[n \in DOMAIN tree, depth \in 0 .. MaxDepth] ==
        LET node == tree[n] IN
        /\ depth < MaxDepth
        /\ CASE node.op = "leaf" -> Predicate(node.predicate, cycle, b)
             [] node.op = "all" -> \A k \in node.nodes : eval[k, depth + 1]
             [] node.op = "any" -> \E k \in node.nodes : eval[k, depth + 1]
             [] node.op = "not" -> \A k \in node.nodes : ~eval[k, depth + 1]
  IN eval[Len(tree), 0]

\* evaluate_cycle: the selected beats at which the tree holds.
Fires(when, cycle) ==
  {[cycle |-> cycle.index, cycleStart |-> cycle.start, beat |-> b.beat,
    event |-> b.start, end |-> b.end, gati |-> b.gati,
    return |-> {c.start : c \in {c \in cycle.beats : c.beat > b.beat /\ c.sounding}}] :
   b \in {b \in cycle.beats : /\ when.beat = None \/ b.beat = when.beat
                              /\ Holds(when.tree, cycle, b)}}

(************************************************************************** *)
(* Placement: alignment, weighted start, quantize                          *)
(************************************************************************** *)

\* The roll of a fire: a function of its identity, never of a counter.
Roll(seed, fire, upper) == (seed * 7 + fire.cycle * 5 + fire.beat * 3) % upper

\* choose_start: the first option whose cumulated weight passes the roll.
ChooseStart(select, fire) ==
  LET weight[n \in 0 .. Len(select.options)] ==
        IF n = 0 THEN 0 ELSE weight[n - 1] + select.options[n].weight
      total == weight[Len(select.options)]
      roll == Roll(select.seed + 1, fire, total)
  IN IF total = 0 THEN select.options[1].alignment
     ELSE select.options[Min({n \in DOMAIN select.options : roll < weight[n]})].alignment

AlignmentOf(cfg, fire) ==
  IF cfg.starts # None /\ cfg.starts.options # <<>>
  THEN ChooseStart(cfg.starts, fire) ELSE cfg.alignment

AnchorTick(alignment, fire) ==
  CASE alignment.type = "atEvent" -> fire.event
    [] alignment.type = "atSourceCycleStart" -> fire.cycleStart
    [] alignment.type = "atNextReferenceBeat" -> -((-fire.event) \div Ppqn) * Ppqn
    [] alignment.type = "afterEventTicks" -> fire.event + alignment.ticks
    [] alignment.type = "centerInRest" -> fire.event + (fire.end - fire.event) \div 2
    [] alignment.type = "atSourceReturn" ->
         IF fire.return # {} THEN Min(fire.return) ELSE fire.event

\* quantize_grid: the step of the grid and its phase.
GridStep(grid, fire) ==
  CASE grid.type = "referenceBeatFraction" -> Ppqn \div grid.divisions
    [] grid.type = "referenceBeatMultiple" -> Ppqn * grid.beats
    [] grid.type = "sourceGatiMatra" -> Ppqn \div fire.gati

GridPhase(grid, fire) == IF grid.type = "sourceGatiMatra" THEN fire.event ELSE 0

\* snap_to_grid: a grid finer than a tick leaves the tick alone, and a tick
\* before the phase snaps to it.
Snap(tick, step, phase, direction) ==
  LET rest == (tick - phase) % step
      lower == tick - rest
  IN IF step = 0 THEN tick
     ELSE IF tick < phase THEN phase
     ELSE CASE direction = "previous" -> lower
            [] direction = "next" -> IF rest = 0 THEN tick ELSE lower + step
            [] direction = "nearest" -> IF 2 * rest >= step THEN lower + step ELSE lower

LaunchTick(cfg, fire) ==
  LET anchor == AnchorTick(AlignmentOf(cfg, fire), fire)
      q == cfg.quantize
  IN IF q = None THEN anchor
     ELSE Snap(anchor, GridStep(q.grid, fire), GridPhase(q.grid, fire), q.direction)

(************************************************************************** *)
(* gate.rs                                                                 *)
(************************************************************************** *)

NoAccept == [misses |-> 0, last |-> None]

\* Mutant of OnCooldown: an accept of a later cycle does not count.
OnCooldownForward(gate, state, fire) ==
  state.last # None /\ fire.cycle >= state.last /\ fire.cycle - state.last < gate.cooldownCycles

OnCooldown(gate, state, fire) ==
  state.last # None /\ Monus(fire.cycle, state.last) < gate.cooldownCycles

\* evaluate_gate: a cooldown takes no roll and keeps the streak of misses; an
\* absent gate accepts and keeps no state.
EvaluateGate(gate, state, fire) ==
  LET threshold == Minimum(gate.probabilityPerMille + gate.missBoostPerMille * state.misses, ProbabilityMax)
  IN IF gate = None THEN [accept |-> TRUE, state |-> state]
     ELSE IF OnCooldown(gate, state, fire) THEN [accept |-> FALSE, state |-> state]
     ELSE IF Roll(gate.seed, fire, ProbabilityMax) < threshold
     THEN [accept |-> TRUE, state |-> [misses |-> 0, last |-> fire.cycle]]
     ELSE [accept |-> FALSE, state |-> [state EXCEPT !.misses = @ + 1]]

(************************************************************************** *)
(* compiler.rs: compile_window                                             *)
(************************************************************************** *)

FreshCarry ==
  [active |-> None, queued |-> None, nextRun |-> 0, nextLocal |-> 0,
   consumed |-> {}, gate |-> NoAccept]

Identity(fire) == [cycle |-> fire.cycle, beat |-> fire.beat]

\* Mutant of RunTicks: every phrase of a run is as long as its first.
RunTicksNominal(cfg, first) ==
  cfg.passes * cfg.phrase[(first % Len(cfg.phrase)) + 1]

\* Reference ticks of one run: passes phrases from local cycle first on.
RunTicks(cfg, first) ==
  LET ticks[n \in 0 .. cfg.passes] ==
        IF n = 0 THEN 0 ELSE ticks[n - 1] + cfg.phrase[((first + n - 1) % Len(cfg.phrase)) + 1]
  IN ticks[cfg.passes]

\* emit_launch
Emit(cfg, s, tick, id) ==
  LET first == s.carry.nextLocal IN
  [s EXCEPT
     !.launches = Append(@, [start |-> tick, first |-> first, passes |-> cfg.passes,
                             run |-> s.carry.nextRun, fire |-> id]),
     !.carry.active = [start |-> tick, end |-> tick + RunTicks(cfg, first)],
     !.carry.nextRun = @ + 1, !.carry.nextLocal = @ + cfg.passes]

\* An accepted fire meets the re-trigger policy.
ReTrigger(cfg, s, fire) ==
  LET active == s.carry.active # None /\ fire.tick < s.carry.active.end IN
  IF active /\ cfg.reTrigger = "ignore" THEN s
  ELSE IF active /\ cfg.reTrigger = "queue"
  THEN IF s.carry.queued = None
       THEN [s EXCEPT !.carry.queued = Identity(fire)] ELSE s
  ELSE [Emit(cfg, s, fire.tick, Identity(fire)) EXCEPT !.carry.queued = None]

FiresBefore(f, g) ==
  \/ f.tick < g.tick
  \/ f.tick = g.tick /\ f.cycle < g.cycle
  \/ f.tick = g.tick /\ f.cycle = g.cycle /\ f.beat < g.beat

\* The next of the window's fires in their order.
NextFire(fires) == CHOOSE f \in fires : \A g \in fires \ {f} : FiresBefore(f, g)

\* The next fire of the window is consumed, and gated before the policy.
TakeFire(cfg, s) ==
  LET fire == NextFire(s.fires)
      gated == EvaluateGate(cfg.gate, s.carry.gate, fire)
      taken == [s EXCEPT !.fires = @ \ {fire}, !.carry.gate = gated.state,
                         !.carry.consumed = @ \cup {Identity(fire)}]
  IN IF gated.accept THEN ReTrigger(cfg, taken, fire) ELSE taken

\* A queue release at a run's end comes before a fire of the same tick.
Releases(s, window) ==
  /\ s.carry.active # None /\ s.carry.queued # None
  /\ window.start <= s.carry.active.end /\ s.carry.active.end < window.end
  /\ s.fires = {} \/ s.carry.active.end <= NextFire(s.fires).tick

CompileStep(cfg, s, window) ==
  IF Releases(s, window)
  THEN Emit(cfg, [s EXCEPT !.carry.queued = None], s.carry.active.end, s.carry.queued)
  ELSE IF s.fires # {} THEN TakeFire(cfg, s) ELSE s

\* Mutant of Canonical: a run that ends with the window is forgotten too.
CanonicalEarly(carry, window) ==
  IF carry.active # None /\ carry.active.end <= window.end
  THEN [carry EXCEPT !.active = None, !.queued = None] ELSE carry

\* A run that ended inside the window is not carried into the next one.
Canonical(carry, window) ==
  IF carry.active # None /\ carry.active.end < window.end
  THEN [carry EXCEPT !.active = None, !.queued = None] ELSE carry

\* prune_consumed_fires, without its ceiling of 8192 identities.
PruneConsumed(consumed, cycles) ==
  {id \in consumed : cycles = {} \/ \E c \in cycles : c.index <= id.cycle}

\* The fires this window decides: not yet consumed, landing inside it.
Due(placed, consumed, window) ==
  {f \in placed : /\ Identity(f) \notin consumed
                  /\ window.start <= f.tick /\ f.tick < window.end}

\* The fires of the source cycles, at the ticks where they would launch.
Placed(cfg, cycles) ==
  {[cycle |-> f.cycle, beat |-> f.beat, tick |-> LaunchTick(cfg, f)] :
     f \in UNION {Fires(cfg.when, c) : c \in cycles}}

\* The loop of compile_window after so many iterations.
Looped(cfg, begin, window, count) ==
  LET state[n \in 0 .. count] ==
        IF n = 0 THEN begin ELSE CompileStep(cfg, state[n - 1], window)
  IN state[count]

\* What a window begins with: its fires, those before it counted as consumed.
Opened(placed, window, carry) ==
  [fires |-> Due(placed, carry.consumed, window), launches |-> <<>>,
   carry |-> [carry EXCEPT
     !.consumed = @ \cup {Identity(f) : f \in {f \in placed : f.tick < window.start}}]]

\* The loop is guarded by its own bound on iterations.
Compile(cfg, cycles, window, carry) ==
  LET Closed(s) == [launches |-> s.launches,
                    carry |-> [Canonical(s.carry, window) EXCEPT
                                 !.consumed = PruneConsumed(@, cycles)]]
      From(begin) == Closed(Looped(cfg, begin, window, 2 * Cardinality(begin.fires) + 8))
  IN From(Opened(Placed(cfg, cycles), window, carry))

(************************************************************************** *)
(* What the compiler is given, and its launches                            *)
(************************************************************************** *)

LaunchAlignment ==
  [type : {"atEvent", "atSourceCycleStart", "atNextReferenceBeat", "centerInRest", "atSourceReturn"}]
  \cup [type : {"afterEventTicks"}, ticks : Nat]

QuantizeGrid ==
  [type : {"referenceBeatFraction"}, divisions : Nat \ {0}]
  \cup [type : {"referenceBeatMultiple"}, beats : Nat \ {0}]
  \cup [type : {"sourceGatiMatra"}]

\* FollowerSpec, as far as launches depend on it.
WellFormed(cfg) ==
  /\ cfg.alignment \in LaunchAlignment
  /\ cfg.starts # None =>
       /\ cfg.starts.seed \in Nat
       /\ cfg.starts.options \in Seq([alignment : LaunchAlignment, weight : Nat])
  /\ cfg.quantize # None =>
       cfg.quantize \in [grid : QuantizeGrid, direction : {"previous", "next", "nearest"}]
  /\ cfg.gate # None => cfg.gate.cooldownCycles \in Nat
  /\ cfg.passes \in Nat
  /\ cfg.phrase \in Seq(Nat) \ {<<>>}
  /\ cfg.reTrigger \in {"restart", "ignore", "queue"}

ResolvedBeat ==
  [beat : Nat, gati : Nat \ {0}, start : Nat, end : Nat, sectionStart : BOOLEAN,
   pulses : SUBSET Nat, sounding : BOOLEAN, matras : SUBSET Int]

ResolvedCycle == [index : Nat, start : Nat, end : Nat, beats : SUBSET ResolvedBeat]

\* CompiledLaunch
Launch == [start : Nat, first : Nat, passes : Nat, run : Nat,
           fire : [cycle : Nat, beat : Nat]]

(************************************************************************** *)
(* config.rs: normalize_track_modes                                        *)
(************************************************************************** *)

\* requested[t] is the source track t asks for, or None.
Possible(requested) ==
  {t \in DOMAIN requested :
     /\ requested[t] # None /\ requested[t] # t /\ requested[t] \in DOMAIN requested}

\* The tracks that stay triggered: their source must itself be continuous.
Triggered(requested) ==
  {t \in Possible(requested) : requested[t] \notin Possible(requested)}
=============================================================================
