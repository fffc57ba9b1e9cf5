----------------------- MODULE TriggerCompilerProofs -----------------------
(************************************************************************** *)
(* The launches of a triggered follower, for every configuration, source    *)
(* and length of a playback: no run overlaps the next unless it restarts,   *)
(* numbers have no gap, accepts keep the cooldown (RunsNeverOverlap), and   *)
(* they are those of one compile of the whole (WindowingAssociative).       *)
(*                                                                          *)
(* The property speaks of the launches alone.  What makes it inductive is   *)
(* what the carry knows of them (OperatorProofs, Carried), and that all     *)
(* that lands before what is compiled is consumed: a window compiled again  *)
(* has no such fire left.  The exception is a fire placed before the cycle  *)
(* that fires it: LaunchesForward excludes it where windows are retried,    *)
(* and PlacedForward for windowing, since the window such a fire lands in   *)
(* is over before its cycle is captured.                                    *)
(************************************************************************** *)
EXTENDS TriggerCompiler, OperatorProofs

\* The carry knows every launch of the playback, and has consumed each fire
\* of the cycles seen so far that lands before what is compiled.
CompilerInv ==
  /\ scenario \in Scenarios
  /\ until \in 0 .. Horizon /\ compiled \in until .. Horizon
  /\ retries \in 0 .. MaxRetries
  /\ compiled # until => MaxRetries > 0
  /\ launches \in Seq(Launch)
  /\ Carried(Cfg, launches, carry, compiled)
  /\ \A f \in Placed(Cfg, Captured(compiled)) :
       f.tick < compiled => Identity(f) \in carry.consumed

\* What is captured of a scenario can be compiled.
LEMMA CapturedTyped ==
  ASSUME scenario \in Scenarios, NEW target
  PROVE  /\ WellFormed(Cfg)
         /\ Captured(target) \subseteq ResolvedCycle /\ IsFiniteSet(Captured(target))
         /\ \A c \in Captured(target) : IsFiniteSet(c.beats)
<1>1. Captured(target) \subseteq scenario.cycles
  BY DEF Captured
<1>2. IsFiniteSet(scenario.cycles) /\ scenario.cycles \subseteq ResolvedCycle
      /\ WellFormed(Cfg) /\ \A c \in scenario.cycles : IsFiniteSet(c.beats)
  BY CompilerAssumption DEF Cfg
<1> QED
  BY <1>1, <1>2, FS_Subset

\* Nothing is launched yet, and no cycle captured.
LEMMA InitKeeps == Init => CompilerInv
<1> SUFFICES ASSUME Init PROVE CompilerInv
  OBVIOUS
<1>1. carry = FreshCarry /\ launches = <<>> /\ until = 0 /\ compiled = 0 /\ retries = 0
      /\ scenario \in Scenarios
  BY DEF Init
<1>2. Horizon \in Nat /\ MaxRetries \in Nat
  BY CompilerAssumption
<1>3. launches \in Seq(Launch)
  BY <1>1
<1>4. Carried(Cfg, launches, carry, compiled)
  BY <1>1, FreshIsCarried
<1>5. ASSUME NEW f \in Placed(Cfg, Captured(compiled)), f.tick < compiled
      PROVE  FALSE
  <2>1. PICK c \in Captured(compiled) : TRUE
    BY PlacedOf
  <2>2. Captured(compiled) \subseteq ResolvedCycle
    BY <1>1, CapturedTyped
  <2>3. c.start \in Nat
    BY <2>1, <2>2 DEF ResolvedCycle
  <2>4. c.start < 0
    BY <1>1, <2>1 DEF Captured
  <2> QED
    BY <2>3, <2>4
<1> QED
  BY <1>1, <1>2, <1>3, <1>4, <1>5 DEF CompilerInv

\* The fires a window decides lie ahead of what is compiled, also when it is
\* compiled again.
LEMMA DueAhead ==
  ASSUME LaunchesForward, CompilerInv, NEW target \in compiled .. Horizon,
         NEW f \in Due(Placed(Cfg, Captured(target)), carry.consumed, [start |-> until, end |-> target])
  PROVE  compiled <= f.tick
<1>1. scenario \in Scenarios /\ until \in Nat /\ compiled \in Nat
  BY CompilerAssumption DEF CompilerInv
<1>2. /\ f \in Placed(Cfg, Captured(target)) /\ Identity(f) \notin carry.consumed
      /\ until <= f.tick
  BY DEF Due
<1>3. f.tick \in Int
  <2>1. Placed(Cfg, Captured(target)) \subseteq PlacedFire
    BY <1>1, CapturedTyped, PlacedTyped
  <2> QED
    BY <1>2, <2>1 DEF PlacedFire
<1>4. CASE compiled = until
  BY <1>2, <1>4
<1>5. CASE compiled # until
  <2>1. PICK c \in Captured(target) : f.cycle = c.index /\ f \in Placed(Cfg, {c})
    BY <1>2, PlacedOf, Zenon
  <2>2. c \in scenario.cycles
    BY <2>1 DEF Captured
  <2>3. c.start \in Nat
    BY <1>1, <2>2, CompilerAssumption DEF ResolvedCycle
  <2>4. CASE c.start < compiled
    <3>1. c \in Captured(compiled)
      BY <2>2, <2>4 DEF Captured
    <3>2. f \in Placed(Cfg, Captured(compiled))
      BY <2>1, <3>1, PlacedGrows
    <3> QED
      BY <1>1, <1>2, <1>3, <3>2 DEF CompilerInv
  <2>5. CASE compiled <= c.start
    <3>1. f.tick >= c.start
      BY <1>1, <1>5, <2>1, <2>2 DEF LaunchesForward, PlacedForward, CompilerInv, Cfg
    <3> QED
      BY <1>1, <1>3, <2>3, <2>5, <3>1
  <2> QED
    BY <1>1, <2>3, <2>4, <2>5
<1> QED
  BY <1>4, <1>5

\* One window, realized or not, keeps what the invariant says of the launches.
LEMMA WindowKeeps ==
  ASSUME LaunchesForward, CompilerInv, NEW target \in 1 .. Horizon,
         until < target, compiled <= target, CompileWindow(target), UNCHANGED scenario
  PROVE  /\ launches' \in Seq(Launch)
         /\ Carried(Cfg', launches', carry', compiled')
         /\ \A f \in Placed(Cfg', Captured(compiled)') :
              f.tick < compiled' => Identity(f) \in carry'.consumed
<1>1. scenario \in Scenarios /\ until \in Nat /\ compiled \in Nat /\ target \in Nat
      /\ Horizon \in Nat /\ launches \in Seq(Launch)
  BY CompilerAssumption DEF CompilerInv
<1>2. PICK window : window = [start |-> until, end |-> target]
  OBVIOUS
<1>3. window.start \in Nat /\ window.end = target
  BY <1>1, <1>2
<1>4. PICK cfg : cfg = Cfg
  OBVIOUS
<1>5. PICK cycles : cycles = Captured(target)
  OBVIOUS
<1>6. PICK out : out = Compile(cfg, cycles, window, carry)
  OBVIOUS
<1>7. carry' = out.carry /\ launches' = launches \o out.launches /\ compiled' = target
  BY <1>2, <1>4, <1>5, <1>6 DEF CompileWindow
<1>8. Cfg' = cfg /\ Captured(compiled)' = cycles
  BY <1>4, <1>5, <1>7 DEF Cfg, Captured
<1>9. WellFormed(cfg) /\ cycles \subseteq ResolvedCycle /\ IsFiniteSet(cycles)
      /\ \A c \in cycles : IsFiniteSet(c.beats)
  BY <1>1, <1>4, <1>5, CapturedTyped
<1>10. Carried(cfg, launches, carry, compiled)
  BY <1>4 DEF CompilerInv
<1>11. \A f \in Due(Placed(cfg, cycles), carry.consumed, window) : compiled <= f.tick
  <2>1. target \in compiled .. Horizon
    BY <1>1
  <2> QED
    BY <1>2, <1>4, <1>5, <2>1, DueAhead
<1>12. compiled <= window.end /\ window.end \in Nat
  BY <1>1, <1>3
<1>13. /\ out.launches \in Seq(Launch)
       /\ Carried(cfg, launches \o out.launches, out.carry, window.end)
       /\ \A f \in Placed(cfg, cycles) : f.tick < window.end => Identity(f) \in out.carry.consumed
  BY <1>1, <1>3, <1>6, <1>9, <1>10, <1>11, <1>12, CompileKeeps
<1>14. launches' \in Seq(Launch)
  BY <1>1, <1>7, <1>13, ConcatProperties
<1> QED
  BY <1>3, <1>7, <1>8, <1>13, <1>14

\* Every step keeps the invariant.
LEMMA StepOfSpecKeeps ==
  ASSUME LaunchesForward, CompilerInv, [Next]_vars
  PROVE  CompilerInv'
<1>1. Horizon \in Nat /\ MaxRetries \in Nat /\ retries \in 0 .. MaxRetries
  BY CompilerAssumption DEF CompilerInv
<1>2. ASSUME NEW target \in 1 .. Horizon, Realize(target)
      PROVE  CompilerInv'
  <2>1. until < target /\ compiled <= target /\ CompileWindow(target) /\ until' = target
        /\ compiled' = target /\ scenario' = scenario /\ retries' = retries
    BY <1>2 DEF Realize, CompileWindow
  <2>2. /\ launches' \in Seq(Launch)
        /\ Carried(Cfg', launches', carry', compiled')
        /\ \A f \in Placed(Cfg', Captured(compiled)') :
             f.tick < compiled' => Identity(f) \in carry'.consumed
    BY <2>1, WindowKeeps
  <2>3. scenario' \in Scenarios
    BY <2>1 DEF CompilerInv
  <2>4. until' \in 0 .. Horizon /\ compiled' \in until' .. Horizon /\ compiled' = until'
        /\ retries' \in 0 .. MaxRetries
    BY <1>1, <2>1
  <2> QED
    BY <2>2, <2>3, <2>4 DEF CompilerInv
<1>3. ASSUME NEW target \in 1 .. Horizon, RealizeFails(target)
      PROVE  CompilerInv'
  <2>1. until < target /\ compiled <= target /\ CompileWindow(target) /\ until' = until
        /\ compiled' = target /\ scenario' = scenario
        /\ retries < MaxRetries /\ retries' = retries + 1
    BY <1>3 DEF RealizeFails, CompileWindow
  <2>2. /\ launches' \in Seq(Launch)
        /\ Carried(Cfg', launches', carry', compiled')
        /\ \A f \in Placed(Cfg', Captured(compiled)') :
             f.tick < compiled' => Identity(f) \in carry'.consumed
    BY <2>1, WindowKeeps
  <2>3. scenario' \in Scenarios /\ until \in 0 .. Horizon
    BY <2>1 DEF CompilerInv
  <2>4. until' \in 0 .. Horizon /\ compiled' \in until' .. Horizon /\ MaxRetries > 0
        /\ retries' \in 0 .. MaxRetries
    BY <1>1, <2>1, <2>3
  <2> QED
    BY <2>2, <2>3, <2>4 DEF CompilerInv
<1>4. CASE UNCHANGED vars
  <2>1. scenario' = scenario /\ until' = until /\ compiled' = compiled /\ carry' = carry
        /\ launches' = launches /\ retries' = retries
    BY <1>4 DEF vars
  <2>2. Cfg' = Cfg /\ Captured(compiled)' = Captured(compiled)
    BY <2>1 DEF Cfg, Captured
  <2> QED
    BY <2>1, <2>2 DEF CompilerInv
<1> QED
  BY <1>2, <1>3, <1>4 DEF Next

\* The invariant says all the properties ask of the launches.
LEMMA InvariantSays == CompilerInv => RunsNeverOverlap
<1> SUFFICES ASSUME CompilerInv PROVE RunsNeverOverlap
  OBVIOUS
<1>1. /\ scenario \in Scenarios /\ launches \in Seq(Launch) /\ carry \in Carry
      /\ until \in 0 .. Horizon /\ compiled \in until .. Horizon /\ retries \in 0 .. MaxRetries
      /\ Remembers(Cfg, launches, carry) /\ InTurn(Cfg, launches) /\ Spaced(Cfg, launches, carry)
  BY DEF CompilerInv, Carried
<1>2. WellFormed(Cfg)
  BY <1>1, CapturedTyped
<1>3. Len(launches) \in Nat /\ DOMAIN launches = 1 .. Len(launches)
  BY <1>1
<1>4. TypeOK
  <2>1. /\ carry.nextRun \in Nat /\ carry.nextLocal \in Nat
        /\ carry.active = None \/ carry.active \in Run
        /\ carry.queued = None \/ carry.queued \in Id
    BY <1>1 DEF Carry
  <2>2. carry.queued # None => carry.active # None
    BY <1>1 DEF Remembers
  <2> QED
    BY <1>1, <2>1, <2>2 DEF TypeOK, Run, Id
<1>5. LocalCyclesContiguous
  BY <1>1, <1>4 DEF LocalCyclesContiguous, InTurn
<1>6. RunsApart
  <2> SUFFICES ASSUME Cfg.reTrigger # "restart", NEW i \in 1 .. Len(launches) - 1
               PROVE  launches[i + 1].start >= EndOf(Cfg, launches[i])
    <3>1. ASSUME NEW i \in 1 .. Len(launches) - 1
          PROVE  launches[i].passes = Cfg.passes
      BY <1>1, <1>3 DEF Remembers
    <3> QED
      BY <3>1 DEF RunsApart, EndOf, RunTicks
  <2> QED
    BY <1>1 DEF InTurn
<1>7. CooldownSpacesAccepts
  <2> SUFFICES ASSUME Cfg.gate # None, Cfg.gate.cooldownCycles # 0,
                      NEW i \in 1 .. Len(launches), NEW j \in 1 .. Len(launches), i < j
               PROVE  launches[j].fire.cycle - launches[i].fire.cycle >= Cfg.gate.cooldownCycles
    BY <1>3 DEF CooldownSpacesAccepts
  <2> QED
    BY <1>1 DEF Spaced, Cools
<1> QED
  BY <1>5, <1>6, <1>7 DEF RunsNeverOverlap

\* However a playback is cut into windows, and however often one is compiled
\* again, no run of a follower overlaps the next unless it restarts, no local
\* cycle is skipped and no two accepts lie within the cooldown.
THEOREM RunsApartAlways ==
  ASSUME LaunchesForward
  PROVE  Spec => []RunsNeverOverlap
<1>1. CompilerInv /\ [Next]_vars => CompilerInv'
  BY StepOfSpecKeeps
<1> QED
  BY <1>1, InitKeeps, InvariantSays, PTL DEF Spec

-----------------------------------------------------------------------------
(************************************************************************** *)
(* Windowing is associative                                                *)
(************************************************************************** *)

\* The playback so far is the compile of it all at once, and no fire is
\* consumed that is still to come.
WindowingInv ==
  /\ CompilerInv
  /\ WindowingAssociative
  /\ \A f \in Placed(Cfg, scenario.cycles) : Identity(f) \in carry.consumed => f.tick < compiled

\* All the source's fires, on ticks, and each known by its identity.
LEMMA AllPlaced ==
  ASSUME PlacedForward, scenario \in Scenarios
  PROVE  /\ Placed(Cfg, scenario.cycles) \subseteq WindowFire /\ IsFiniteSet(Placed(Cfg, scenario.cycles))
         /\ \A f, g \in Placed(Cfg, scenario.cycles) : Identity(f) = Identity(g) => f = g
<1>1. /\ WellFormed(Cfg) /\ scenario.cycles \subseteq ResolvedCycle /\ IsFiniteSet(scenario.cycles)
      /\ \A c, d \in scenario.cycles : c.index = d.index => c = d
      /\ \A c \in scenario.cycles : IsFiniteSet(c.beats)
      /\ \A c \in scenario.cycles : \A a, b \in c.beats : a.beat = b.beat => a = b
  BY CompilerAssumption DEF Cfg
<1>2. PICK placed : placed = Placed(Cfg, scenario.cycles)
  OBVIOUS
<1>3. placed \subseteq PlacedFire /\ IsFiniteSet(placed)
  BY <1>1, <1>2, PlacedTyped, PlacedFinite
<1>4. ASSUME NEW f \in placed
      PROVE  f \in WindowFire
  <2>1. PICK c \in scenario.cycles : f.cycle = c.index /\ f \in Placed(Cfg, {c})
    <3>1. f \in Placed(Cfg, scenario.cycles)
      BY <1>2
    <3> QED
      BY <3>1, PlacedOf, Zenon
  <2>2. f.tick >= c.start /\ c.start \in Nat
    BY <1>1, <2>1 DEF PlacedForward, Cfg, ResolvedCycle
  <2>3. f \in PlacedFire
    BY <1>3
  <2> QED
    BY <2>2, <2>3 DEF PlacedFire, WindowFire
<1>5. ASSUME NEW f \in placed, NEW g \in placed, Identity(f) = Identity(g)
      PROVE  f = g
  <2>1. PICK c \in scenario.cycles : \E b \in c.beats : f = PlacedAt(Cfg, c, b)
    <3>1. f \in Placed(Cfg, scenario.cycles)
      BY <1>2
    <3> QED
      BY <3>1, PlacedBeat
  <2>2. PICK b \in c.beats : f = PlacedAt(Cfg, c, b)
    BY <2>1
  <2>3. PICK d \in scenario.cycles : \E a \in d.beats : g = PlacedAt(Cfg, d, a)
    <3>1. g \in Placed(Cfg, scenario.cycles)
      BY <1>2
    <3> QED
      BY <3>1, PlacedBeat
  <2>4. PICK a \in d.beats : g = PlacedAt(Cfg, d, a)
    BY <2>3
  <2>5. f.cycle = c.index /\ f.beat = b.beat /\ g.cycle = d.index /\ g.beat = a.beat
    BY <2>2, <2>4 DEF PlacedAt
  <2>6. f.cycle = g.cycle /\ f.beat = g.beat
    BY <1>5 DEF Identity
  <2>7. c = d
    BY <1>1, <2>5, <2>6
  <2>8. a = b
    BY <1>1, <2>5, <2>6, <2>7
  <2> QED
    BY <2>2, <2>4, <2>7, <2>8
<1> QED
  BY <1>2, <1>3, <1>4, <1>5

\* A window decides the fires that land between what is compiled and its end.
LEMMA DueBetween ==
  ASSUME PlacedForward, WindowingInv, NEW target \in compiled .. Horizon
  PROVE  Due(Placed(Cfg, Captured(target)), carry.consumed, [start |-> until, end |-> target])
           = Landing(Placed(Cfg, scenario.cycles), compiled, target)
<1>1. CompilerInv /\ LaunchesForward /\ scenario \in Scenarios /\ until \in Nat /\ compiled \in Nat
      /\ until <= compiled /\ target \in Nat
  BY CompilerAssumption DEF WindowingInv, CompilerInv, LaunchesForward
<1>2. Placed(Cfg, scenario.cycles) \subseteq WindowFire
  BY <1>1, AllPlaced
<1>3. ASSUME NEW f \in Due(Placed(Cfg, Captured(target)), carry.consumed, [start |-> until, end |-> target])
      PROVE  f \in Landing(Placed(Cfg, scenario.cycles), compiled, target)
  <2>1. compiled <= f.tick
    BY <1>1, <1>3, DueAhead
  <2>2. f \in Placed(Cfg, Captured(target)) /\ f.tick < target
    BY <1>3 DEF Due
  <2>3. PICK c \in Captured(target) : f.cycle = c.index /\ f \in Placed(Cfg, {c})
    BY <2>2, PlacedOf, Zenon
  <2>4. c \in scenario.cycles
    BY <2>3 DEF Captured
  <2>5. f \in Placed(Cfg, scenario.cycles)
    BY <2>3, <2>4, PlacedGrows
  <2> QED
    BY <2>1, <2>2, <2>5 DEF Landing
<1>4. ASSUME NEW f \in Landing(Placed(Cfg, scenario.cycles), compiled, target)
      PROVE  f \in Due(Placed(Cfg, Captured(target)), carry.consumed, [start |-> until, end |-> target])
  <2>1. f \in Placed(Cfg, scenario.cycles) /\ compiled <= f.tick /\ f.tick < target
    BY <1>4 DEF Landing
  <2>2. f.tick \in Nat
    BY <1>2, <2>1 DEF WindowFire
  <2>3. PICK c \in scenario.cycles : f.cycle = c.index /\ f \in Placed(Cfg, {c})
    BY <2>1, PlacedOf, Zenon
  <2>4. c.start \in Nat /\ f.tick >= c.start
    BY <1>1, <2>3, CompilerAssumption DEF PlacedForward, Cfg, ResolvedCycle
  <2>5. c \in Captured(target)
    BY <1>1, <2>1, <2>2, <2>3, <2>4 DEF Captured
  <2>6. f \in Placed(Cfg, Captured(target))
    BY <2>3, <2>5, PlacedGrows
  <2>7. Identity(f) \notin carry.consumed
    BY <1>1, <2>1, <2>2 DEF WindowingInv
  <2> QED
    BY <1>1, <2>1, <2>2, <2>6, <2>7 DEF Due
<1> QED
  BY <1>3, <1>4

\* The window a step compiles goes on from the playback.
LEMMA WindowContinues ==
  ASSUME LaunchesForward, CompilerInv, NEW target \in compiled .. Horizon
  PROVE  Continues(Cfg, launches, compiled, Placed(Cfg, Captured(target)),
                   [start |-> until, end |-> target], carry)
<1>1. /\ scenario \in Scenarios /\ until \in Nat /\ compiled \in Nat /\ until <= compiled
      /\ target \in Nat /\ compiled <= target /\ launches \in Seq(Launch)
      /\ Carried(Cfg, launches, carry, compiled)
  BY CompilerAssumption DEF CompilerInv
<1>2. WellFormed(Cfg) /\ Captured(target) \subseteq ResolvedCycle /\ IsFiniteSet(Captured(target))
      /\ \A c \in Captured(target) : IsFiniteSet(c.beats)
  BY <1>1, CapturedTyped
<1>3. Placed(Cfg, Captured(target)) \subseteq PlacedFire /\ IsFiniteSet(Placed(Cfg, Captured(target)))
  BY <1>2, PlacedTyped, PlacedFinite
<1>4. \A f \in Due(Placed(Cfg, Captured(target)), carry.consumed, [start |-> until, end |-> target]) :
        compiled <= f.tick
  BY DueAhead
<1> QED
  BY <1>1, <1>2, <1>3, <1>4 DEF Continues

\* The parts of the carry, one by one.
LEMMA PartsAre ==
  ASSUME NEW c, NEW d
  PROVE  (\A part \in {"active", "queued", "nextRun", "nextLocal", "gate"} : c[part] = d[part])
           <=> SameCarry(c, d)
BY DEF SameCarry

\* One window keeps the playback what one compile gives.
LEMMA WindowAssociates ==
  ASSUME PlacedForward, WindowingInv, NEW target \in compiled .. Horizon,
         CompileWindow(target), UNCHANGED scenario
  PROVE  WindowingAssociative'
<1>1. /\ CompilerInv /\ LaunchesForward /\ scenario \in Scenarios /\ compiled \in Nat /\ until \in Nat
      /\ until <= compiled /\ target \in Nat /\ compiled <= target /\ launches \in Seq(Launch)
  BY CompilerAssumption DEF WindowingInv, CompilerInv, LaunchesForward
<1>2. PICK cfg : cfg = Cfg
  OBVIOUS
<1>3. PICK placed : placed = Placed(cfg, scenario.cycles)
  OBVIOUS
<1>4. PICK seen : seen = Placed(cfg, Captured(target))
  OBVIOUS
<1>5. PICK first, whole, window : /\ first = [start |-> 0, end |-> compiled]
                                  /\ whole = [start |-> 0, end |-> target]
                                  /\ window = [start |-> until, end |-> target]
  OBVIOUS
<1>6. PICK x : x = Ending(cfg, placed, first, FreshCarry)
  OBVIOUS
<1>7. PICK y : y = Ending(cfg, placed, whole, FreshCarry)
  OBVIOUS
<1>8. PICK z : z = Ending(cfg, seen, window, carry)
  OBVIOUS
<1>9. placed \subseteq WindowFire /\ IsFiniteSet(placed)
  BY <1>1, <1>2, <1>3, AllPlaced
<1>10. Continues(cfg, launches, compiled, seen, window, carry)
  <2>1. Continues(Cfg, launches, compiled, Placed(Cfg, Captured(target)),
                  [start |-> until, end |-> target], carry)
    BY <1>1, WindowContinues
  <2> QED
    BY <1>2, <1>4, <1>5, <2>1, Zenon
<1>11. Due(seen, carry.consumed, window) = Landing(placed, compiled, target)
  <2>1. Due(Placed(Cfg, Captured(target)), carry.consumed, [start |-> until, end |-> target])
          = Landing(Placed(Cfg, scenario.cycles), compiled, target)
    BY DueBetween
  <2> QED
    BY <1>2, <1>3, <1>4, <1>5, <2>1, Zenon
<1>12. x \in State
  <2>1. Continues(cfg, <<>>, 0, placed, first, FreshCarry)
    BY <1>1, <1>2, <1>5, <1>9, WholeContinues, CapturedTyped
  <2> QED
    BY <1>6, <2>1, LoopOf
<1>13. Whole(compiled).launches = x.launches /\ SameCarry(Whole(compiled).carry, Canonical(x.carry, first))
  BY <1>2, <1>3, <1>5, <1>6, <1>12, CompileIs DEF Whole
<1>14. launches = x.launches /\ SameCarry(carry, Canonical(x.carry, first))
  <2>1. launches = Whole(compiled).launches /\ SameCarry(carry, Whole(compiled).carry)
    BY PartsAre DEF WindowingInv, WindowingAssociative
  <2> QED
    BY <1>13, <2>1 DEF SameCarry
<1>15. /\ y \in State /\ z \in State /\ y.launches = x.launches \o z.launches
       /\ SameCarry(Canonical(z.carry, window), Canonical(y.carry, whole))
  <2>1. first = Span(compiled) /\ whole = Span(target) /\ window.end = target
    BY <1>5 DEF Span
  <2>2. Resumes(cfg, placed, launches, compiled, seen, window, carry)
    BY <1>6, <1>9, <1>10, <1>11, <1>14, <2>1 DEF Resumes
  <2>3. /\ x = Ending(cfg, placed, Span(compiled), FreshCarry)
        /\ y = Ending(cfg, placed, Span(window.end), FreshCarry)
        /\ z = Ending(cfg, seen, window, carry)
    BY <1>6, <1>7, <1>8, <2>1
  <2>4. Spliced(x, z, window, y)
    BY <2>2, <2>3, WindowsAssociate
  <2> QED
    BY <2>1, <2>4 DEF Spliced
<1>16. PICK w : w = Compile(cfg, scenario.cycles, whole, FreshCarry)
  OBVIOUS
<1>17. w.launches = y.launches /\ SameCarry(w.carry, Canonical(y.carry, whole))
  <2>1. y = Ending(cfg, Placed(cfg, scenario.cycles), whole, FreshCarry) /\ y \in State
    BY <1>3, <1>7, <1>15
  <2> QED
    BY <1>16, <2>1, CompileIs
<1>18. PICK out : out = Compile(cfg, Captured(target), window, carry)
  OBVIOUS
<1>19. out.launches = z.launches /\ SameCarry(out.carry, Canonical(z.carry, window))
  BY <1>4, <1>8, <1>15, <1>18, CompileIs
<1>20. carry' = out.carry /\ launches' = launches \o out.launches /\ compiled' = target
  BY <1>2, <1>5, <1>18 DEF CompileWindow
<1>21. Whole(compiled)' = w
  BY <1>2, <1>5, <1>16, <1>20 DEF Whole, Cfg
<1>22. launches' = w.launches
  BY <1>14, <1>15, <1>17, <1>19, <1>20
<1>23. SameCarry(carry', w.carry)
  BY <1>15, <1>17, <1>19, <1>20 DEF SameCarry
<1>24. \A part \in {"active", "queued", "nextRun", "nextLocal", "gate"} : carry'[part] = w.carry[part]
  BY <1>23, PartsAre
<1> QED
  BY <1>21, <1>22, <1>24 DEF WindowingAssociative

\* One window consumes no fire still to come.
LEMMA WindowLeaves ==
  ASSUME PlacedForward, WindowingInv, NEW target \in compiled .. Horizon,
         CompileWindow(target), UNCHANGED scenario
  PROVE  \A f \in Placed(Cfg', scenario'.cycles) : Identity(f) \in carry'.consumed => f.tick < compiled'
<1>1. /\ CompilerInv /\ LaunchesForward /\ scenario \in Scenarios /\ compiled \in Nat /\ target \in Nat
      /\ compiled <= target
  BY CompilerAssumption DEF WindowingInv, CompilerInv, LaunchesForward
<1>2. PICK placed : placed = Placed(Cfg, scenario.cycles)
  OBVIOUS
<1>3. placed \subseteq WindowFire /\ \A f, g \in placed : Identity(f) = Identity(g) => f = g
  BY <1>1, <1>2, AllPlaced
<1>4. PICK out : out = Compile(Cfg, Captured(target), [start |-> until, end |-> target], carry)
  OBVIOUS
<1>5. carry' = out.carry /\ compiled' = target /\ Placed(Cfg', scenario'.cycles) = placed
  BY <1>2, <1>4 DEF CompileWindow, Cfg
<1>6. out.carry.consumed \subseteq
        carry.consumed \cup Identities({f \in Placed(Cfg, Captured(target)) : f.tick < target})
  <2>1. PICK window : window = [start |-> until, end |-> target]
    OBVIOUS
  <2>2. Continues(Cfg, launches, compiled, Placed(Cfg, Captured(target)), window, carry)
    BY <1>1, <2>1, WindowContinues
  <2>3. window.end = target
    BY <2>1
  <2> QED
    BY <1>4, <2>1, <2>2, <2>3, WindowConsumes
<1>7. Placed(Cfg, Captured(target)) \subseteq placed
  BY <1>2 DEF Placed, Captured
<1>8. ASSUME NEW f \in placed, Identity(f) \in out.carry.consumed
      PROVE  f.tick < target
  <2>1. CASE Identity(f) \in carry.consumed
    <3>1. f.tick < compiled /\ f.tick \in Nat
      BY <1>2, <1>3, <2>1 DEF WindowingInv, WindowFire
    <3> QED
      BY <1>1, <3>1
  <2>2. CASE Identity(f) \in Identities({g \in Placed(Cfg, Captured(target)) : g.tick < target})
    BY <1>3, <1>7, <2>2 DEF Identities
  <2> QED
    BY <1>6, <1>8, <2>1, <2>2
<1> QED
  BY <1>5, <1>8

\* Nothing compiled is what a compile of nothing gives.
LEMMA InitAssociates ==
  ASSUME PlacedForward, Init
  PROVE  WindowingInv
<1>1. carry = FreshCarry /\ launches = <<>> /\ compiled = 0 /\ scenario \in Scenarios
  BY DEF Init
<1>2. PICK cfg : cfg = Cfg
  OBVIOUS
<1>3. PICK placed : placed = Placed(cfg, scenario.cycles)
  OBVIOUS
<1>4. PICK window : window = [start |-> 0, end |-> 0]
  OBVIOUS
<1>5. placed \subseteq WindowFire /\ IsFiniteSet(placed)
  BY <1>1, <1>2, <1>3, AllPlaced
<1>6. window.start = 0 /\ window.end = 0
  BY <1>4
<1>7. Continues(cfg, <<>>, 0, placed, window, FreshCarry)
  BY <1>1, <1>2, <1>5, <1>6, WholeContinues, CapturedTyped
<1>8. PICK begin : begin = Opened(placed, window, FreshCarry)
  OBVIOUS
<1>9. PICK s : s = Ending(cfg, placed, window, FreshCarry)
  OBVIOUS
<1>10. /\ begin \in State /\ begin.fires = Due(placed, FreshCarry.consumed, window) /\ begin.launches = <<>>
       /\ SameCarry(begin.carry, FreshCarry) /\ s \in State
  BY <1>7, <1>8, <1>9, LoopOf
<1>11. PICK n \in Nat : s = Looped(cfg, begin, window, n)
  BY <1>7, <1>8, <1>9, LoopOf
<1>12. Done(begin, window)
  <2>1. begin.fires = {}
    BY <1>5, <1>6, <1>10 DEF Due, WindowFire
  <2>2. begin.carry.active = None
    BY <1>10 DEF SameCarry, FreshCarry
  <2> QED
    BY <2>1, <2>2 DEF Done, Releases
<1>13. s = begin
  <2>1. Looped(cfg, begin, window, 0) = begin
    BY LoopedNext
  <2>2. Looped(cfg, begin, window, n) = Looped(cfg, begin, window, 0)
    BY <1>12, <2>1, DoneStays
  <2> QED
    BY <1>11, <2>1, <2>2
<1>14. Canonical(s.carry, window) = s.carry
  BY <1>10, <1>13 DEF Canonical, SameCarry, FreshCarry
<1>15. Whole(0).launches = s.launches /\ SameCarry(Whole(0).carry, Canonical(s.carry, window))
  BY <1>2, <1>3, <1>4, <1>9, <1>10, CompileIs DEF Whole
<1>16. Whole(compiled).launches = launches /\ SameCarry(carry, Whole(compiled).carry)
  BY <1>1, <1>10, <1>13, <1>14, <1>15 DEF SameCarry
<1>17. WindowingAssociative
  <2>1. \A part \in {"active", "queued", "nextRun", "nextLocal", "gate"} : carry[part] = Whole(compiled).carry[part]
    BY <1>16, PartsAre
  <2> QED
    BY <1>16, <2>1 DEF WindowingAssociative
<1> QED
  BY <1>1, <1>17, InitKeeps DEF WindowingInv, FreshCarry

\* Every step keeps the playback what one compile gives.
LEMMA StepAssociates ==
  ASSUME PlacedForward, WindowingInv, [Next]_vars
  PROVE  WindowingInv'
<1>1. CompilerInv /\ LaunchesForward /\ Horizon \in Nat /\ until \in Nat /\ compiled \in Nat
  BY CompilerAssumption DEF WindowingInv, CompilerInv, LaunchesForward
<1>2. CompilerInv'
  BY <1>1, StepOfSpecKeeps
<1>3. ASSUME NEW target \in 1 .. Horizon, Realize(target) \/ RealizeFails(target)
      PROVE  WindowingInv'
  <2>1. target \in compiled .. Horizon /\ CompileWindow(target) /\ scenario' = scenario
    BY <1>1, <1>3 DEF Realize, RealizeFails
  <2> QED
    BY <1>2, <2>1, WindowAssociates, WindowLeaves DEF WindowingInv
<1>4. CASE UNCHANGED vars
  <2>1. scenario' = scenario /\ compiled' = compiled /\ carry' = carry /\ launches' = launches
    BY <1>4 DEF vars
  <2>2. Cfg' = Cfg /\ Whole(compiled)' = Whole(compiled)
    BY <2>1 DEF Cfg, Whole
  <2> QED
    BY <1>2, <2>1, <2>2 DEF WindowingInv, WindowingAssociative
<1> QED
  BY <1>3, <1>4 DEF Next

\* However a playback is cut into windows, and however often one is compiled
\* again after a failure, the launches and the carry are those of one compile
\* of the whole, if no launch is placed before the cycle that fires it.
THEOREM WindowingAlways ==
  ASSUME PlacedForward
  PROVE  Spec => []WindowingAssociative
<1>1. WindowingInv /\ [Next]_vars => WindowingInv'
  BY StepAssociates
<1>2. Init => WindowingInv
  BY InitAssociates
<1>3. WindowingInv => WindowingAssociative
  BY DEF WindowingInv
<1> QED
  BY <1>1, <1>2, <1>3, PTL DEF Spec
=============================================================================
