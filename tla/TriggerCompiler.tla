-------------------------- MODULE TriggerCompiler --------------------------
(************************************************************************** *)
(* One triggered follower compiled window after window, as                  *)
(* realize_triggered_follower of crates/cseq-transport/src/parallel.rs does *)
(* it: each window starts where the last one ended, sees the source cycles  *)
(* realized so far and threads the carry.  A window whose realization fails *)
(* after the compile is compiled again from the same start, the carry being *)
(* already the new one.                                                     *)
(************************************************************************** *)
EXTENDS Triggers

CONSTANTS
  Scenarios,  \* a trigger's normalized configuration, its source's cycles
  Horizon,    \* bound on the reference ticks compiled
  MaxRetries  \* bound on the failed realizations

ASSUME CompilerAssumption ==
  /\ Horizon \in Nat /\ MaxRetries \in Nat
  /\ \A s \in Scenarios :
       /\ WellFormed(s.cfg)
       /\ s.cycles \subseteq ResolvedCycle /\ IsFiniteSet(s.cycles)
       /\ \A c, d \in s.cycles : c.index = d.index => c = d
       /\ \A c \in s.cycles : /\ IsFiniteSet(c.beats)
                              /\ \A a, b \in c.beats : a.beat = b.beat => a = b

VARIABLES
  scenario,   \* the configuration compiled, its source
  until,      \* the follower's realized_up_to_reference_tick
  compiled,   \* ticks compiled, ahead of until after a failure
  carry,
  launches,   \* every launch emitted
  retries

vars == <<scenario, until, compiled, carry, launches, retries>>

Cfg == scenario.cfg
Captured(target) == {c \in scenario.cycles : c.start < target}

Init ==
  /\ scenario \in Scenarios
  /\ until = 0
  /\ compiled = 0
  /\ carry = FreshCarry
  /\ launches = <<>>
  /\ retries = 0

\* One compile of [until, target).
CompileWindow(target) ==
  LET out == Compile(Cfg, Captured(target), [start |-> until, end |-> target], carry)
  IN /\ carry' = out.carry
     /\ launches' = launches \o out.launches
     /\ compiled' = target

\* The launches of the window are realized and the cursor advances.
Realize(target) ==
  /\ until < target /\ compiled <= target
  /\ CompileWindow(target)
  /\ until' = target
  /\ UNCHANGED <<scenario, retries>>

\* The realization of a launch fails after the compile: the cursor stays.
RealizeFails(target) ==
  /\ until < target /\ compiled <= target
  /\ retries < MaxRetries
  /\ CompileWindow(target)
  /\ retries' = retries + 1
  /\ UNCHANGED <<scenario, until>>

Next == \E target \in 1 .. Horizon : Realize(target) \/ RealizeFails(target)

Spec == Init /\ [][Next]_vars

(************************************************************************** *)
(* Properties                                                              *)
(************************************************************************** *)

\* The fold stays in its types, and a queued launch always has the run it
\* waits for: it is never orphaned.
TypeOK ==
  /\ until \in 0 .. Horizon /\ compiled \in until .. Horizon
  /\ retries \in 0 .. MaxRetries
  /\ launches \in Seq(Launch)
  /\ carry.nextRun \in Nat /\ carry.nextLocal \in Nat
  /\ carry.active = None \/ carry.active \in [start : Nat, end : Nat]
  /\ carry.queued = None \/ carry.queued \in [cycle : Nat, beat : Nat]
  /\ carry.queued # None => carry.active # None

\* A launch is not placed before the cycle that fires it.  A quantize grid that
\* reaches back over the start of a cycle can do that.
PlacedForward ==
  \A s \in Scenarios : \A c \in s.cycles : \A f \in Placed(s.cfg, {c}) : f.tick >= c.start

\* A window that is compiled again after a failure would then launch behind
\* what is already launched.
LaunchesForward == MaxRetries > 0 => PlacedForward

\* What one compile of everything up to a tick gives.
Whole(tick) ==
  Compile(Cfg, scenario.cycles, [start |-> 0, end |-> tick], FreshCarry)

\* The windows of a playback, however they are cut and however often one is
\* compiled again after a failure, launch what one compile of the whole span
\* launches, and carry the same run, queue, counters and gate out of it (the
\* windowing-is-associative claim of compiler.rs).
WindowingAssociative ==
  /\ launches = Whole(compiled).launches
  /\ \A part \in {"active", "queued", "nextRun", "nextLocal", "gate"} :
       carry[part] = Whole(compiled).carry[part]

\* Two accepted fires are the cooldown apart, whichever launches first: a
\* placement may launch a later cycle's fire before an earlier one's.
CooldownSpacesAccepts ==
  Cfg.gate # None =>
    \A i, j \in DOMAIN launches :
      i < j => LET a == launches[i].fire.cycle  b == launches[j].fire.cycle
               IN Cfg.gate.cooldownCycles = 0 \/ b - a >= Cfg.gate.cooldownCycles

\* Only a restart cuts a run short: under ignore and queue every phrase of a
\* run, however long each one is, is over when the next run starts.
RunsApart ==
  LET Phrases(l) ==
        LET ticks[n \in 0 .. l.passes] ==
              IF n = 0 THEN 0 ELSE ticks[n - 1] + Cfg.phrase[((l.first + n - 1) % Len(Cfg.phrase)) + 1]
        IN ticks[l.passes]
      EndOf(l) == l.start + Phrases(l)
  IN Cfg.reTrigger # "restart" =>
       \A i \in 1 .. Len(launches) - 1 : launches[i + 1].start >= EndOf(launches[i])

\* The follower's own cycles are numbered without gaps over its launches, and
\* no launch goes back in time: replay identities are reproducible.  (With the
\* types, to which the carry counts.)
LocalCyclesContiguous ==
  /\ TypeOK
  /\ \A i \in 1 .. Len(launches) - 1 :
       /\ launches[i + 1].first = launches[i].first + launches[i].passes
       /\ launches[i + 1].run = launches[i].run + 1
       /\ launches[i + 1].start >= launches[i].start

\* The launches of a follower, in turn: no two runs at once, no number missing,
\* no accept within the cooldown of another.
RunsNeverOverlap == RunsApart /\ LocalCyclesContiguous /\ CooldownSpacesAccepts

=============================================================================
