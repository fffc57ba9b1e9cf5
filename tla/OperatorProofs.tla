--------------------------- MODULE OperatorProofs ---------------------------
(************************************************************************** *)
(* What a compile of the triggers does, for every configuration, source,    *)
(* window and carry: its launches follow those before it, one after the     *)
(* other, with no number missing and the cooldown between accepts, and each *)
(* fire that lands before its end is consumed (CompileKeeps).               *)
(*                                                                          *)
(* That it goes on takes what the carry knows of the launches (Carried):    *)
(* the active run is the last launch, the counters go on from it, a queue   *)
(* waits on a run, the gate has seen the latest cycle accepted, and a run   *)
(* that is forgotten is over.  The same holds inside a window after each    *)
(* iteration of the loop (LoopInv), with every fire left ahead of all that  *)
(* is launched; the loop takes each of its fires before its bound is        *)
(* reached (LoopEnds).                                                      *)
(*                                                                          *)
(* That two windows compile to what one does (WindowsAssociate) takes that  *)
(* the loop of the whole span does what the loop of the first window does   *)
(* until that has no fire left (Shadows), then what the second does, and    *)
(* that what the window's end forgets, a run that is over, tells the loop   *)
(* nothing.                                                                 *)
(*                                                                          *)
(* A lane's walk goes on as it began (WalkIs), and a compile numbers its    *)
(* launches on (CompileCounts).                                             *)
(*                                                                          *)
(* Of the conflict pass: Excess counts what a set of events has too many    *)
(* note-offs; that pairing last in, first out takes one event each way      *)
(* (ClosedOnce, ClosesOne) and closes what can be closed (IsClosed,         *)
(* ClosesSome) gives that removing groups keeps the balance (BalanceKept).  *)
(* Events before all others pair, overlap and are deferred by themselves    *)
(* (GroupsSplit, ComponentsUnion, DeferSplit), and after deferral no        *)
(* note-off is left inside a note (DeferSettles).                           *)
(************************************************************************** *)
EXTENDS Triggers, TrackFlow, ChannelConflicts, FiniteSetTheorems, SequenceTheorems, TLAPS

-----------------------------------------------------------------------------
(************************************************************************** *)
(* Numbers, induction, sums                                                *)
(************************************************************************** *)

\* A set of natural numbers has a least one: otherwise the intervals below its
\* members would be finite sets without a minimal one.
LEMMA Least ==
  ASSUME NEW S, S \subseteq Nat, S # {}
  PROVE  \E m \in S : \A n \in S : m <= n
<1> DEFINE below == {0 .. m : m \in S}
<1>1. below \subseteq FiniteSubsetsOf(Nat) /\ below # {}
  <2>1. ASSUME NEW m \in S
        PROVE  0 .. m \subseteq Nat /\ IsFiniteSet(0 .. m)
    BY FS_Interval
  <2> QED
    BY <2>1 DEF FiniteSubsetsOf
<1>2. PICK o \in below : \A u \in below : ~(<<u, o>> \in StrictSubsetOrdering(Nat))
  BY <1>1, FS_StrictSubsetOrderingWellFounded, WFMin
<1>3. PICK m \in S : o = 0 .. m
  BY <1>2
<1>4. ASSUME NEW n \in S, n < m
      PROVE  FALSE
  <2>1. 0 .. n \in below /\ 0 .. n \subseteq 0 .. m /\ m \in 0 .. m /\ m \notin 0 .. n
    BY <1>4
  <2>2. <<0 .. n, o>> \in StrictSubsetOrdering(Nat)
    BY <2>1, <1>3 DEF StrictSubsetOrdering
  <2> QED
    BY <2>1, <2>2, <1>2
<1> QED
  BY <1>4

\* Induction, over a set: what holds of zero and passes on holds of all.
LEMMA Inductive ==
  ASSUME NEW S, 0 \in S, \A n \in Nat : n \in S => n + 1 \in S
  PROVE  Nat \subseteq S
<1> SUFFICES ASSUME Nat \ S # {}
             PROVE  FALSE
  OBVIOUS
<1>1. PICK m \in Nat \ S : \A n \in Nat \ S : m <= n
  BY Least
<1>2. m # 0 /\ m - 1 \in Nat /\ ~(m <= m - 1)
  BY <1>1
<1>3. m - 1 \in S
  BY <1>1, <1>2
<1>4. (m - 1) + 1 \in S
  BY <1>2, <1>3
<1> QED
  BY <1>1, <1>4

\* The least number of a set, as the community module picks it.
LEMMA MinIs ==
  ASSUME NEW S, S \subseteq Nat, S # {}
  PROVE  Min(S) \in S /\ \A n \in S : Min(S) <= n
BY Least DEF Min

\* A sum over the first numbers is a natural number, and defined.
LEMMA SumDefined ==
  ASSUME NEW g, NEW N \in Nat, \A n \in 1 .. N : g[n] \in Nat
  PROVE  \E f : /\ f = [n \in 0 .. N |-> IF n = 0 THEN 0 ELSE f[n - 1] + g[n]]
                /\ \A n \in 0 .. N : f[n] \in Nat
<1> DEFINE Sums(m, f) == /\ f = [n \in 0 .. m |-> IF n = 0 THEN 0 ELSE f[n - 1] + g[n]]
                         /\ \A n \in 0 .. m : f[n] \in Nat
           S == {m \in Nat : m <= N => \E f : Sums(m, f)}
<1>1. 0 \in S
  <2>1. Sums(0, [n \in 0 .. 0 |-> 0])
    OBVIOUS
  <2> QED
    BY <2>1
<1>2. ASSUME NEW m \in Nat, m \in S
      PROVE  m + 1 \in S
  <2> SUFFICES ASSUME m + 1 <= N
               PROVE  \E f : Sums(m + 1, f)
    OBVIOUS
  <2>1. PICK f : Sums(m, f)
    BY <1>2
  <2> DEFINE h == [n \in 0 .. m + 1 |-> IF n = m + 1 THEN f[m] + g[n] ELSE f[n]]
  <2>2. \A n \in 0 .. m : n \in 0 .. m + 1 /\ n # m + 1 /\ h[n] = f[n]
    OBVIOUS
  <2>3. h[m + 1] = f[m] + g[m + 1] /\ h[m + 1] \in Nat
    BY <2>1
  <2>4. ASSUME NEW n \in 0 .. m + 1
        PROVE  h[n] = (IF n = 0 THEN 0 ELSE h[n - 1] + g[n]) /\ h[n] \in Nat
    <3>1. CASE n = m + 1
      BY <2>2, <2>3, <3>1
    <3>2. CASE n \in 0 .. m /\ n # 0
      <4>1. n - 1 \in 0 .. m
        BY <3>2
      <4>2. f[n] = f[n - 1] + g[n] /\ f[n] \in Nat
        BY <2>1, <3>2
      <4> QED
        BY <2>2, <3>2, <4>1, <4>2
    <3>3. CASE n = 0
      <4>1. f[0] = 0 /\ 0 \in 0 .. m
        BY <2>1
      <4> QED
        BY <2>2, <3>3, <4>1
    <3> QED
      BY <3>1, <3>2, <3>3
  <2>5. h = [n \in 0 .. m + 1 |-> IF n = 0 THEN 0 ELSE h[n - 1] + g[n]]
    BY <2>4
  <2> HIDE DEF h
  <2> QED
    BY <2>4, <2>5
<1>3. N \in S
  BY <1>1, <1>2, Inductive
<1> QED
  BY <1>3
\* The partial sums are natural numbers.
LEMMA SumType ==
  ASSUME NEW g, NEW N \in Nat, \A n \in 1 .. N : g[n] \in Nat,
         NEW f, \A n \in 0 .. N : f[n] = IF n = 0 THEN 0 ELSE f[n - 1] + g[n]
  PROVE  \A n \in 0 .. N : f[n] \in Nat
<1> DEFINE S == {n \in Nat : n <= N => f[n] \in Nat}
<1>1. 0 \in S
  OBVIOUS
<1>2. ASSUME NEW n \in Nat, n \in S
      PROVE  n + 1 \in S
  <2> SUFFICES ASSUME n + 1 <= N
               PROVE  f[n + 1] \in Nat
    OBVIOUS
  <2>1. n + 1 \in 1 .. N /\ n + 1 \in 0 .. N /\ n + 1 # 0 /\ (n + 1) - 1 = n
    OBVIOUS
  <2>2. f[n + 1] = f[n] + g[n + 1] /\ g[n + 1] \in Nat /\ f[n] \in Nat
    BY <1>2, <2>1
  <2> QED
    BY <2>2
<1> HIDE DEF S
<1>3. Nat \subseteq S
  BY <1>1, <1>2, Inductive
<1> QED
  BY <1>3 DEF S
-----------------------------------------------------------------------------
(************************************************************************** *)
(* Placement                                                               *)
(************************************************************************** *)

\* A remainder lies below its divisor.
LEMMA RemainderType ==
  ASSUME NEW a \in Nat, NEW b \in Nat \ {0}
  PROVE  a % b \in Nat /\ a % b < b
OBVIOUS

\* A follower cycle has a length, whatever its number: the phrases wrap.
LEMMA PhraseType ==
  ASSUME NEW phrase \in Seq(Nat), Len(phrase) \in Nat \ {0}, NEW k \in Nat
  PROVE  phrase[(k % Len(phrase)) + 1] \in Nat
<1>1. PICK r \in Nat : r = k % Len(phrase) /\ r < Len(phrase)
  BY RemainderType
<1>2. r + 1 \in 1 .. Len(phrase)
  BY <1>1
<1> QED
  BY <1>1, <1>2, ElementOfSeq

\* A run takes a number of ticks.
LEMMA RunTicksType ==
  ASSUME NEW cfg, WellFormed(cfg), NEW first \in Nat
  PROVE  RunTicks(cfg, first) \in Nat
<1> DEFINE g == [n \in 1 .. cfg.passes |-> cfg.phrase[((first + n - 1) % Len(cfg.phrase)) + 1]]
           ticks[n \in 0 .. cfg.passes] ==
             IF n = 0 THEN 0 ELSE ticks[n - 1] + cfg.phrase[((first + n - 1) % Len(cfg.phrase)) + 1]
<1>1. cfg.passes \in Nat /\ cfg.phrase \in Seq(Nat) /\ Len(cfg.phrase) \in Nat \ {0}
  BY EmptySeq DEF WellFormed
<1>2. ASSUME NEW n \in 1 .. cfg.passes
      PROVE  g[n] \in Nat
  <2>1. first + n - 1 \in Nat
    BY <1>1
  <2>2. cfg.phrase[((first + n - 1) % Len(cfg.phrase)) + 1] \in Nat
    BY <1>1, <2>1, PhraseType
  <2> QED
    BY <2>2
<1>3. PICK f : /\ f = [n \in 0 .. cfg.passes |-> IF n = 0 THEN 0 ELSE f[n - 1] + g[n]]
               /\ \A n \in 0 .. cfg.passes : f[n] \in Nat
  BY <1>1, <1>2, SumDefined
<1>4. f = [n \in 0 .. cfg.passes |->
             IF n = 0 THEN 0
             ELSE f[n - 1] + cfg.phrase[((first + n - 1) % Len(cfg.phrase)) + 1]]
  <2>1. \A n \in 0 .. cfg.passes : n # 0 => n \in 1 .. cfg.passes
    BY <1>1
  <2> QED
    BY <1>3, <2>1
<1>5. ticks = [n \in 0 .. cfg.passes |->
                 IF n = 0 THEN 0
                 ELSE ticks[n - 1] + cfg.phrase[((first + n - 1) % Len(cfg.phrase)) + 1]]
  <2> HIDE DEF g
  <2> QED
    BY <1>4
<1> HIDE DEF ticks
<1>6. \A n \in 0 .. cfg.passes : ticks[n] = IF n = 0 THEN 0 ELSE ticks[n - 1] + g[n]
  <2>1. \A n \in 0 .. cfg.passes : n # 0 => n \in 1 .. cfg.passes
    BY <1>1
  <2> QED
    BY <1>5, <2>1
<1>7. ticks[cfg.passes] \in Nat
  <2> HIDE DEF g
  <2>1. \A n \in 0 .. cfg.passes : ticks[n] \in Nat
    BY <1>1, <1>2, <1>6, SumType
  <2> QED
    BY <1>1, <2>1
<1> QED
  BY <1>7 DEF RunTicks, ticks

\* A weighted choice of the start is one of the options.
LEMMA ChooseStartType ==
  ASSUME NEW select, select.seed \in Nat, select.options # <<>>,
         select.options \in Seq([alignment : LaunchAlignment, weight : Nat]),
         NEW fire, fire.cycle \in Nat, fire.beat \in Nat
  PROVE  ChooseStart(select, fire) \in LaunchAlignment
<1> DEFINE options == select.options
           g == [n \in 1 .. Len(options) |-> options[n].weight]
           weight[n \in 0 .. Len(options)] ==
             IF n = 0 THEN 0 ELSE weight[n - 1] + options[n].weight
           total == weight[Len(options)]
           roll == Roll(select.seed + 1, fire, total)
           passed == {n \in DOMAIN options : roll < weight[n]}
<1>1. Len(options) \in Nat \ {0} /\ DOMAIN options = 1 .. Len(options)
  BY EmptySeq, LenProperties
<1>2. \A n \in 1 .. Len(options) : options[n].alignment \in LaunchAlignment /\ options[n].weight \in Nat
  <2>1. \A n \in 1 .. Len(options) : options[n] \in [alignment : LaunchAlignment, weight : Nat]
    BY <1>1, ElementOfSeq
  <2> QED
    BY <2>1
<1>3. \A n \in 1 .. Len(options) : g[n] \in Nat
  BY <1>2
<1>4. PICK f : /\ f = [n \in 0 .. Len(options) |-> IF n = 0 THEN 0 ELSE f[n - 1] + g[n]]
               /\ \A n \in 0 .. Len(options) : f[n] \in Nat
  <2> HIDE DEF g
  <2> QED
    BY <1>1, <1>3, SumDefined
<1>5. f = [n \in 0 .. Len(options) |-> IF n = 0 THEN 0 ELSE f[n - 1] + options[n].weight]
  <2>1. \A n \in 0 .. Len(options) : n # 0 => n \in 1 .. Len(options)
    BY <1>1
  <2> QED
    BY <1>4, <2>1
<1>6. weight = [n \in 0 .. Len(options) |-> IF n = 0 THEN 0 ELSE weight[n - 1] + options[n].weight]
  <2> HIDE DEF g
  <2> QED
    BY <1>5
<1> HIDE DEF weight
<1>7. \A n \in 0 .. Len(options) : weight[n] = IF n = 0 THEN 0 ELSE weight[n - 1] + g[n]
  <2>1. \A n \in 0 .. Len(options) : n # 0 => n \in 1 .. Len(options)
    BY <1>1
  <2> QED
    BY <1>6, <2>1
<1>8. \A n \in 0 .. Len(options) : weight[n] \in Nat
  <2> HIDE DEF g
  <2> QED
    BY <1>1, <1>3, <1>7, SumType
<1>9. total \in Nat
  BY <1>1, <1>8
<1>10. CASE total = 0
  BY <1>1, <1>2, <1>10 DEF ChooseStart, weight
<1>11. CASE total # 0
  <2>1. roll \in Nat /\ roll < total
    <3>1. (select.seed + 1) * 7 + fire.cycle * 5 + fire.beat * 3 \in Nat
      <4>1. \A m, n, k \in Nat : (m + 1) * 7 + n * 5 + k * 3 \in Nat
        OBVIOUS
      <4> HIDE DEF options, g, total, roll, passed
      <4> QED
        BY <4>1
    <3> HIDE DEF total
    <3> QED
      BY <1>9, <1>11, <3>1, RemainderType DEF Roll
  <2>2. Len(options) \in passed
    BY <1>1, <2>1
  <2>3. passed \subseteq Nat
    BY <1>1
  <2>4. Min(passed) \in passed
    <3> HIDE DEF passed
    <3> QED
      BY <2>2, <2>3, MinIs
  <2>5. options[Min(passed)].alignment \in LaunchAlignment
    BY <1>1, <1>2, <2>4
  <2> QED
    BY <1>11, <2>5 DEF ChooseStart, weight
<1> QED
  BY <1>10, <1>11

\* What evaluate_cycle gives of a beat.
Fire ==
  [cycle : Nat, cycleStart : Nat, beat : Nat, event : Nat, end : Nat,
   gati : Nat \ {0}, return : SUBSET Nat]

\* A fire has the types of the beat and the cycle it is of.
LEMMA FiresTyped ==
  ASSUME NEW when, NEW cycle \in ResolvedCycle, NEW fire \in Fires(when, cycle)
  PROVE  fire \in Fire
<1>1. PICK b \in cycle.beats :
        fire = [cycle |-> cycle.index, cycleStart |-> cycle.start, beat |-> b.beat,
                event |-> b.start, end |-> b.end, gati |-> b.gati,
                return |-> {c.start : c \in {c \in cycle.beats : c.beat > b.beat /\ c.sounding}}]
  BY DEF Fires
<1>2. /\ cycle.index \in Nat /\ cycle.start \in Nat
      /\ \A c \in cycle.beats : c \in ResolvedBeat
  BY DEF ResolvedCycle
<1>3. \A c \in ResolvedBeat : c.beat \in Nat /\ c.start \in Nat /\ c.end \in Nat /\ c.gati \in Nat \ {0}
  BY DEF ResolvedBeat
<1>4. {c.start : c \in {c \in cycle.beats : c.beat > b.beat /\ c.sounding}} \subseteq Nat
  BY <1>2, <1>3
<1> QED
  BY <1>1, <1>2, <1>3, <1>4 DEF Fire

\* Division on the tick grid stays among the integers.
LEMMA QuotientType ==
  ASSUME NEW a \in Int, NEW b \in Nat \ {0}
  PROVE  a \div b \in Int /\ a % b \in Int
OBVIOUS

\* A launch is placed on a tick.
LEMMA LaunchTickType ==
  ASSUME NEW cfg, WellFormed(cfg), NEW fire \in Fire
  PROVE  LaunchTick(cfg, fire) \in Int
<1>1. /\ fire.cycle \in Nat /\ fire.cycleStart \in Nat /\ fire.beat \in Nat /\ fire.event \in Nat
      /\ fire.end \in Nat /\ fire.gati \in Nat \ {0} /\ fire.return \subseteq Nat
      /\ Ppqn \in Nat \ {0}
  BY TriggersAssumption DEF Fire
<1>2. AlignmentOf(cfg, fire) \in LaunchAlignment
  <2>1. CASE cfg.starts # None /\ cfg.starts.options # <<>>
    BY <1>1, <2>1, ChooseStartType DEF AlignmentOf, WellFormed
  <2>2. CASE ~(cfg.starts # None /\ cfg.starts.options # <<>>)
    BY <2>2 DEF AlignmentOf, WellFormed
  <2> QED
    BY <2>1, <2>2
<1>3. ASSUME NEW a \in LaunchAlignment
      PROVE  AnchorTick(a, fire) \in Int
  <2>1. CASE a.type = "atEvent"
    BY <1>1, <2>1 DEF AnchorTick
  <2>2. CASE a.type = "atSourceCycleStart"
    BY <1>1, <2>2 DEF AnchorTick
  <2>3. CASE a.type = "atNextReferenceBeat"
    <3>1. (-fire.event) \div Ppqn \in Int
      BY <1>1, QuotientType
    <3> QED
      BY <1>1, <2>3, <3>1 DEF AnchorTick
  <2>4. CASE a.type = "afterEventTicks"
    <3>1. a.ticks \in Nat
      BY <2>4 DEF LaunchAlignment
    <3> QED
      BY <1>1, <2>4, <3>1 DEF AnchorTick
  <2>5. CASE a.type = "centerInRest"
    <3>1. (fire.end - fire.event) \div 2 \in Int
      BY <1>1, QuotientType
    <3> QED
      BY <1>1, <2>5, <3>1 DEF AnchorTick
  <2>6. CASE a.type = "atSourceReturn"
    <3>1. fire.return # {} => Min(fire.return) \in Nat
      BY <1>1, MinIs
    <3> QED
      BY <1>1, <2>6, <3>1 DEF AnchorTick
  <2> QED
    BY <2>1, <2>2, <2>3, <2>4, <2>5, <2>6 DEF LaunchAlignment
<1>4. ASSUME NEW tick \in Int, NEW step \in Nat, NEW phase \in Nat,
             NEW direction \in {"previous", "next", "nearest"}
      PROVE  Snap(tick, step, phase, direction) \in Int
  <2>1. CASE step = 0
    BY <2>1 DEF Snap
  <2>2. CASE step # 0
    <3>1. (tick - phase) % step \in Int
      BY <2>2, QuotientType
    <3> QED
      BY <2>2, <3>1 DEF Snap
  <2> QED
    BY <2>1, <2>2
<1>5. CASE cfg.quantize = None
  BY <1>2, <1>3, <1>5 DEF LaunchTick
<1>6. CASE cfg.quantize # None
  <2> DEFINE q == cfg.quantize
  <2>1. q.grid \in QuantizeGrid /\ q.direction \in {"previous", "next", "nearest"}
    BY <1>6 DEF WellFormed
  <2>2. GridPhase(q.grid, fire) \in Nat
    BY <1>1 DEF GridPhase
  <2>3. GridStep(q.grid, fire) \in Nat
    <3>1. CASE q.grid \in [type : {"referenceBeatFraction"}, divisions : Nat \ {0}]
      <4>1. Ppqn \div q.grid.divisions \in Nat
        BY <1>1, <3>1
      <4> QED
        BY <3>1, <4>1 DEF GridStep
    <3>2. CASE q.grid \in [type : {"referenceBeatMultiple"}, beats : Nat \ {0}]
      <4>1. Ppqn * q.grid.beats \in Nat
        BY <1>1, <3>2
      <4> QED
        BY <3>2, <4>1 DEF GridStep
    <3>3. CASE q.grid \in [type : {"sourceGatiMatra"}]
      <4>1. Ppqn \div fire.gati \in Nat
        BY <1>1
      <4> QED
        BY <3>3, <4>1 DEF GridStep
    <3> QED
      BY <2>1, <3>1, <3>2, <3>3 DEF QuantizeGrid
  <2> QED
    BY <1>2, <1>3, <1>4, <1>6, <2>1, <2>2, <2>3 DEF LaunchTick
<1> QED
  BY <1>5, <1>6

-----------------------------------------------------------------------------
(************************************************************************** *)
(* The fires of a window                                                   *)
(************************************************************************** *)

PlacedFire == [cycle : Nat, beat : Nat, tick : Int]
WindowFire == [cycle : Nat, beat : Nat, tick : Nat]

\* The fires of the source cycles are placed on ticks.
LEMMA PlacedTyped ==
  ASSUME NEW cfg, WellFormed(cfg), NEW cycles, cycles \subseteq ResolvedCycle
  PROVE  Placed(cfg, cycles) \subseteq PlacedFire
<1> SUFFICES ASSUME NEW c \in cycles, NEW f \in Fires(cfg.when, c)
             PROVE  [cycle |-> f.cycle, beat |-> f.beat, tick |-> LaunchTick(cfg, f)] \in PlacedFire
  BY DEF Placed
<1>1. f \in Fire
  BY FiresTyped
<1>2. LaunchTick(cfg, f) \in Int
  BY <1>1, LaunchTickType
<1> QED
  BY <1>1, <1>2 DEF Fire, PlacedFire

\* The image of a finite set is finite.
LEMMA ImageFinite ==
  ASSUME NEW S, IsFiniteSet(S), NEW f, DOMAIN f = S, f = [x \in S |-> f[x]]
  PROVE  IsFiniteSet({f[x] : x \in S})
<1>1. f \in Surjection(S, {f[x] : x \in S})
  BY DEF Surjection
<1> QED
  BY <1>1, FS_Surjection

\* Finitely many cycles of finitely many beats place finitely many launches.
LEMMA PlacedFinite ==
  ASSUME NEW cfg, NEW cycles, IsFiniteSet(cycles), \A c \in cycles : IsFiniteSet(c.beats)
  PROVE  IsFiniteSet(Placed(cfg, cycles))
<1>1. ASSUME NEW c \in cycles
      PROVE  IsFiniteSet(Fires(cfg.when, c))
  <2> DEFINE fired == {b \in c.beats : /\ cfg.when.beat = None \/ b.beat = cfg.when.beat
                                       /\ Holds(cfg.when.tree, c, b)}
             f == [b \in fired |->
                     [cycle |-> c.index, cycleStart |-> c.start, beat |-> b.beat,
                      event |-> b.start, end |-> b.end, gati |-> b.gati,
                      return |-> {d.start : d \in {d \in c.beats : d.beat > b.beat /\ d.sounding}}]]
  <2>1. IsFiniteSet(fired)
    BY FS_Subset
  <2>2. Fires(cfg.when, c) = {f[b] : b \in fired}
    BY Zenon DEF Fires
  <2>3. DOMAIN f = fired /\ f = [b \in fired |-> f[b]]
    OBVIOUS
  <2> HIDE DEF f, fired
  <2> QED
    BY <2>1, <2>2, <2>3, ImageFinite
<1>2. IsFiniteSet({Fires(cfg.when, c) : c \in cycles})
  <2> DEFINE f == [c \in cycles |-> Fires(cfg.when, c)]
  <2>1. {Fires(cfg.when, c) : c \in cycles} = {f[c] : c \in cycles}
    BY Zenon
  <2>2. DOMAIN f = cycles /\ f = [c \in cycles |-> f[c]]
    OBVIOUS
  <2> HIDE DEF f
  <2> QED
    BY <2>1, <2>2, ImageFinite
<1>3. IsFiniteSet(UNION {Fires(cfg.when, c) : c \in cycles})
  BY <1>1, <1>2, FS_UNION
<1> DEFINE fires == UNION {Fires(cfg.when, c) : c \in cycles}
           f == [x \in fires |-> [cycle |-> x.cycle, beat |-> x.beat, tick |-> LaunchTick(cfg, x)]]
<1>4. Placed(cfg, cycles) = {f[x] : x \in fires}
  BY Zenon DEF Placed
<1>5. DOMAIN f = fires /\ f = [x \in fires |-> f[x]]
  OBVIOUS
<1> HIDE DEF f, fires
<1>6. IsFiniteSet(fires)
  BY <1>3 DEF fires
<1> QED
  BY <1>4, <1>5, <1>6, ImageFinite

\* The order of the fires has a first one.
LEMMA NextFireFirst ==
  ASSUME NEW fires, fires \subseteq WindowFire, fires # {}
  PROVE  /\ NextFire(fires) \in fires
         /\ \A g \in fires \ {NextFire(fires)} : FiresBefore(NextFire(fires), g)
<1> DEFINE ticks == {f.tick : f \in fires}
<1>1. \A f \in fires : f.tick \in Nat /\ f.cycle \in Nat /\ f.beat \in Nat
  BY DEF WindowFire
<1>2. PICK t \in ticks : \A u \in ticks : t <= u
  <2>1. ticks \subseteq Nat /\ ticks # {}
    BY <1>1
  <2> HIDE DEF ticks
  <2> QED
    BY <2>1, Least
<1> DEFINE cycles == {f.cycle : f \in {f \in fires : f.tick = t}}
<1>3. PICK c \in cycles : \A d \in cycles : c <= d
  <2>1. cycles \subseteq Nat /\ cycles # {}
    BY <1>1, <1>2
  <2> HIDE DEF cycles
  <2> QED
    BY <2>1, Least
<1> DEFINE beats == {f.beat : f \in {f \in fires : f.tick = t /\ f.cycle = c}}
<1>4. PICK b \in beats : \A d \in beats : b <= d
  <2>1. beats \subseteq Nat /\ beats # {}
    BY <1>1, <1>3
  <2> HIDE DEF beats
  <2> QED
    BY <2>1, Least
<1>5. PICK f \in fires : f.tick = t /\ f.cycle = c /\ f.beat = b
  BY <1>4
<1>6. ASSUME NEW g \in fires \ {f}
      PROVE  FiresBefore(f, g)
  <2>1. t <= g.tick
    BY <1>2
  <2>2. g.tick = t => c <= g.cycle
    BY <1>3
  <2>3. g.tick = t /\ g.cycle = c => b <= g.beat
    BY <1>4
  <2>4. ~(g.tick = t /\ g.cycle = c /\ g.beat = b)
    BY <1>5 DEF WindowFire
  <2> QED
    BY <1>1, <1>5, <2>1, <2>2, <2>3, <2>4 DEF FiresBefore
<1> QED
  BY <1>6, Zenon DEF NextFire

\* No fire lands before the next one.
LEMMA NextFireIs ==
  ASSUME NEW fires, fires \subseteq WindowFire, fires # {}
  PROVE  /\ NextFire(fires) \in fires
         /\ \A g \in fires : NextFire(fires).tick <= g.tick
<1>1. /\ NextFire(fires) \in fires
      /\ \A g \in fires \ {NextFire(fires)} : FiresBefore(NextFire(fires), g)
  BY NextFireFirst
<1>2. \A f \in fires : f.tick \in Nat
  BY DEF WindowFire
<1> QED
  BY <1>1, <1>2 DEF FiresBefore

-----------------------------------------------------------------------------
(************************************************************************** *)
(* What the loop keeps                                                     *)
(************************************************************************** *)

Id == [cycle : Nat, beat : Nat]
Run == [start : Nat, end : Nat]
GateState == [misses : Nat, last : Nat \cup {None}]
Carry == [active : Run \cup {None}, queued : Id \cup {None}, nextRun : Nat, nextLocal : Nat,
          consumed : SUBSET Id, gate : GateState]
State == [fires : SUBSET WindowFire, launches : Seq(Launch), carry : Carry]

EndOf(cfg, l) == l.start + RunTicks(cfg, l.first)

\* What the carry knows of the launches so far.
Remembers(cfg, all, c) ==
  /\ \A i \in 1 .. Len(all) : all[i].passes = cfg.passes
  /\ c.active # None => all # <<>>
  /\ all # <<>> =>
       /\ c.nextLocal = all[Len(all)].first + cfg.passes
       /\ c.nextRun = all[Len(all)].run + 1
       /\ c.active # None =>
            c.active.start = all[Len(all)].start /\ c.active.end = EndOf(cfg, all[Len(all)])
  /\ c.queued # None => c.active # None /\ cfg.reTrigger = "queue"

InTurn(cfg, all) ==
  \A i \in 1 .. Len(all) - 1 :
    /\ all[i + 1].first = all[i].first + all[i].passes
    /\ all[i + 1].run = all[i].run + 1
    /\ all[i + 1].start >= all[i].start
    /\ cfg.reTrigger # "restart" => all[i + 1].start >= EndOf(cfg, all[i])

Cools(cfg) == cfg.gate # None /\ cfg.gate.cooldownCycles # 0

\* A cycle that is the cooldown after all launches.
Cooled(cfg, all, cycle) ==
  \A i \in 1 .. Len(all) : cycle - all[i].fire.cycle >= cfg.gate.cooldownCycles

\* The gate remembers the latest accept, launched or queued.
Spaced(cfg, all, c) ==
  Cools(cfg) =>
    /\ \A i, j \in 1 .. Len(all) :
         i < j => all[j].fire.cycle - all[i].fire.cycle >= cfg.gate.cooldownCycles
    /\ all # <<>> => c.gate.last # None
    /\ \A i \in 1 .. Len(all) : all[i].fire.cycle <= c.gate.last
    /\ c.queued # None => /\ Cooled(cfg, all, c.queued.cycle)
                          /\ c.gate.last # None /\ c.queued.cycle <= c.gate.last

\* At a tick the last launch has begun, and a run that is forgotten has ended.
Reached(cfg, all, c, tick) ==
  all # <<>> => /\ all[Len(all)].start <= tick
                /\ c.active = None => EndOf(cfg, all[Len(all)]) <= tick

LaunchOf(cfg, c, tick, id) ==
  [start |-> tick, first |-> c.nextLocal, passes |-> cfg.passes, run |-> c.nextRun, fire |-> id]
RunOf(cfg, c, tick) == [start |-> tick, end |-> tick + RunTicks(cfg, c.nextLocal)]

\* A launch at a tick, for a fire, may come after all the others.
MayFollow(cfg, all, c, tick, id) ==
  /\ Remembers(cfg, all, c) /\ InTurn(cfg, all) /\ Spaced(cfg, all, c)
  /\ all # <<>> => /\ all[Len(all)].start <= tick
                   /\ cfg.reTrigger # "restart" => EndOf(cfg, all[Len(all)]) <= tick
  /\ Cools(cfg) => Cooled(cfg, all, id.cycle) /\ c.gate.last # None /\ id.cycle <= c.gate.last

\* Carry d is c after a launch.
CarriesOn(cfg, c, tick, d) ==
  /\ d.active = RunOf(cfg, c, tick) /\ d.queued = None
  /\ d.nextRun = c.nextRun + 1 /\ d.nextLocal = c.nextLocal + cfg.passes
  /\ d.gate = c.gate /\ d.consumed = c.consumed

StartsAt(all, tick) == all # <<>> /\ all[Len(all)].start = tick

\* One more launch, as emit_launch makes it.
LEMMA Extended ==
  ASSUME NEW cfg, WellFormed(cfg), NEW all \in Seq(Launch), NEW c \in Carry, NEW d \in Carry,
         NEW tick \in Nat, NEW id \in Id, MayFollow(cfg, all, c, tick, id), CarriesOn(cfg, c, tick, d),
         NEW more, more = Append(all, LaunchOf(cfg, c, tick, id))
  PROVE  /\ Remembers(cfg, more, d) /\ InTurn(cfg, more) /\ Spaced(cfg, more, d)
         /\ StartsAt(more, tick)
<1> USE DEF MayFollow, CarriesOn, StartsAt
<1> DEFINE x == LaunchOf(cfg, c, tick, id)
<1>1. x \in Launch
  BY DEF LaunchOf, Launch, WellFormed, Carry, Id
<1>2. /\ x.start = tick /\ x.first = c.nextLocal /\ x.passes = cfg.passes
      /\ x.run = c.nextRun /\ x.fire = id
  BY DEF LaunchOf
<1> HIDE DEF x
<1>3. /\ more \in Seq(Launch) /\ more # <<>> /\ Len(more) = Len(all) + 1 /\ Len(all) \in Nat
      /\ \A i \in 1 .. Len(all) : more[i] = all[i]
      /\ more[Len(all) + 1] = x
  BY <1>1, AppendProperties, LenProperties DEF x
<1>4. \A i \in 1 .. Len(more) : i \in 1 .. Len(all) \/ i = Len(all) + 1
  BY <1>3
<1>5. all # <<>> => Len(all) \in 1 .. Len(all)
  BY EmptySeq
<1>6. Remembers(cfg, more, d)
  <2>1. \A i \in 1 .. Len(more) : more[i].passes = cfg.passes
    BY <1>3, <1>4, <1>2 DEF Remembers
  <2>2. d.active.start = tick /\ d.active.end = tick + RunTicks(cfg, c.nextLocal)
    BY DEF RunOf
  <2> QED
    BY <1>3, <1>2, <2>1, <2>2 DEF Remembers, EndOf
<1>7. InTurn(cfg, more)
  <2> SUFFICES ASSUME NEW i \in 1 .. Len(more) - 1
               PROVE  /\ more[i + 1].first = more[i].first + more[i].passes
                      /\ more[i + 1].run = more[i].run + 1
                      /\ more[i + 1].start >= more[i].start
                      /\ cfg.reTrigger # "restart" => more[i + 1].start >= EndOf(cfg, more[i])
    BY DEF InTurn
  <2>1. CASE i + 1 \in 1 .. Len(all)
    <3>1. i \in 1 .. Len(all) - 1 /\ i \in 1 .. Len(all)
      BY <1>3, <2>1
    <3> QED
      BY <1>3, <2>1, <3>1 DEF InTurn
  <2>2. CASE i = Len(all)
    <3>1. all # <<>> /\ i \in 1 .. Len(all) /\ more[i] = all[i] /\ more[i + 1] = x
      BY <1>3, <2>2
    <3>2. all[i].passes = cfg.passes /\ c.nextLocal = all[i].first + cfg.passes /\ c.nextRun = all[i].run + 1
      BY <2>2, <3>1 DEF Remembers
    <3>3. all[i] \in Launch
      BY <3>1, ElementOfSeq
    <3> QED
      BY <1>2, <2>2, <3>1, <3>2, <3>3 DEF Launch
  <2> QED
    BY <1>3, <2>1, <2>2
<1>8. Spaced(cfg, more, d)
  <2> SUFFICES ASSUME Cools(cfg)
               PROVE  Spaced(cfg, more, d)
    BY DEF Spaced
  <2>1. \A i, j \in 1 .. Len(all) :
          i < j => all[j].fire.cycle - all[i].fire.cycle >= cfg.gate.cooldownCycles
    BY DEF Spaced
  <2>2. \A i \in 1 .. Len(all) : all[i].fire.cycle <= c.gate.last
    BY DEF Spaced
  <2>3. \A i \in 1 .. Len(all) : id.cycle - all[i].fire.cycle >= cfg.gate.cooldownCycles
    BY DEF Cooled
  <2>4. ASSUME NEW i \in 1 .. Len(more), NEW j \in 1 .. Len(more), i < j
        PROVE  more[j].fire.cycle - more[i].fire.cycle >= cfg.gate.cooldownCycles
    <3>1. i \in 1 .. Len(all)
      BY <1>3, <2>4
    <3>2. CASE j \in 1 .. Len(all)
      BY <1>3, <2>1, <2>4, <3>1, <3>2
    <3>3. CASE j = Len(all) + 1
      BY <1>3, <1>2, <2>3, <3>1, <3>3
    <3> QED
      BY <1>4, <3>2, <3>3
  <2>5. \A i \in 1 .. Len(more) : more[i].fire.cycle <= d.gate.last
    BY <1>3, <1>4, <1>2, <2>2
  <2> QED
    BY <2>4, <2>5 DEF Spaced
<1> QED
  BY <1>1, <1>3, <1>2, <1>6, <1>7, <1>8

\* The gate: a refusal leaves the last accept, an accept is the cooldown after it.
LEMMA Gated ==
  ASSUME NEW cfg, WellFormed(cfg), NEW gate \in GateState, NEW fire \in WindowFire,
         NEW out, out = EvaluateGate(cfg.gate, gate, fire)
  PROVE  /\ out.state \in GateState
         /\ ~out.accept => out.state.last = gate.last
         /\ out.accept /\ Cools(cfg) =>
              /\ out.state.last = fire.cycle
              /\ gate.last # None => fire.cycle - gate.last >= cfg.gate.cooldownCycles
<1>1. gate.misses \in Nat /\ gate.last \in Nat \cup {None} /\ fire.cycle \in Nat
  BY DEF GateState, WindowFire
<1>2. CASE cfg.gate = None
  BY <1>2 DEF EvaluateGate, Cools
<1>3. CASE cfg.gate # None /\ OnCooldown(cfg.gate, gate, fire)
  BY <1>3 DEF EvaluateGate
<1>4. CASE cfg.gate # None /\ ~OnCooldown(cfg.gate, gate, fire)
  <2>1. cfg.gate.cooldownCycles \in Nat
    BY <1>4 DEF WellFormed
  <2>2. [misses |-> 0, last |-> fire.cycle] \in GateState /\ [gate EXCEPT !.misses = @ + 1] \in GateState
    BY <1>1 DEF GateState
  <2>3. [gate EXCEPT !.misses = @ + 1].last = gate.last
    BY DEF GateState
  <2>4. \/ out.state = [gate EXCEPT !.misses = @ + 1] /\ ~out.accept
        \/ out.state = [misses |-> 0, last |-> fire.cycle] /\ out.accept
    BY <1>4 DEF EvaluateGate
  <2>5. Cools(cfg) /\ gate.last # None => fire.cycle - gate.last >= cfg.gate.cooldownCycles
    BY <1>1, <1>4, <2>1 DEF OnCooldown, Monus, Cools
  <2>6. CASE out.state = [gate EXCEPT !.misses = @ + 1] /\ ~out.accept
    BY <2>2, <2>3, <2>6
  <2>7. CASE out.state = [misses |-> 0, last |-> fire.cycle] /\ out.accept
    <3>1. out.state.last = fire.cycle
      BY <2>7
    <3> QED
      BY <2>2, <2>5, <2>7, <3>1
  <2> QED
    BY <2>4, <2>6, <2>7
<1> QED
  BY <1>2, <1>3, <1>4

\* To append to the second of two joined sequences is to append to both.
LEMMA AppendAfter ==
  ASSUME NEW S, NEW r \in Seq(S), NEW s \in Seq(S), NEW x \in S
  PROVE  r \o Append(s, x) = Append(r \o s, x)
<1>1. <<x>> \in Seq(S) /\ r \o s \in Seq(S)
  BY ConcatProperties
<1>2. Append(s, x) = s \o <<x>> /\ Append(r \o s, x) = (r \o s) \o <<x>>
  BY <1>1, AppendIsConcat
<1>3. (r \o s) \o <<x>> = r \o (s \o <<x>>)
  BY <1>1, ConcatAssociative
<1> QED
  BY <1>2, <1>3

\* The fields of a carry, each in its type.
LEMMA CarryFields ==
  ASSUME NEW c \in Carry
  PROVE  /\ c.active \in Run \cup {None} /\ c.queued \in Id \cup {None}
         /\ c.nextRun \in Nat /\ c.nextLocal \in Nat
         /\ c.consumed \in SUBSET Id /\ c.gate \in GateState
BY DEF Carry

\* State e is s with one more launch and an empty queue.
Launches(cfg, s, tick, id, e) ==
  /\ e \in State /\ e.fires = s.fires /\ e.launches = Append(s.launches, LaunchOf(cfg, s.carry, tick, id))
  /\ CarriesOn(cfg, s.carry, tick, e.carry)

\* The launch of a fire and the run it begins have their types.
LEMMA LaunchOfType ==
  ASSUME NEW cfg, WellFormed(cfg), NEW c \in Carry, NEW tick \in Nat, NEW id \in Id
  PROVE  /\ LaunchOf(cfg, c, tick, id) \in Launch
         /\ RunOf(cfg, c, tick) \in Run /\ RunOf(cfg, c, tick) # None
<1>1. c.nextLocal \in Nat /\ c.nextRun \in Nat /\ cfg.passes \in Nat
  BY CarryFields DEF WellFormed
<1>2. RunTicks(cfg, c.nextLocal) \in Nat
  BY <1>1, RunTicksType
<1>3. RunOf(cfg, c, tick) \in Run
  BY <1>2 DEF RunOf, Run
<1>4. RunOf(cfg, c, tick) # None
  BY <1>3, TriggersAssumption DEF Run
<1> QED
  BY <1>1, <1>3, <1>4 DEF LaunchOf, Launch, Id

\* emit_launch, field by field.
LEMMA EmitIs ==
  ASSUME NEW cfg, WellFormed(cfg), NEW s \in State, NEW tick \in Nat, NEW id \in Id,
         NEW m, m = Emit(cfg, s, tick, id)
  PROVE  /\ m \in State /\ m.fires = s.fires
         /\ m.launches = Append(s.launches, LaunchOf(cfg, s.carry, tick, id))
         /\ m.carry.active = RunOf(cfg, s.carry, tick)
         /\ m.carry.nextRun = s.carry.nextRun + 1 /\ m.carry.nextLocal = s.carry.nextLocal + cfg.passes
         /\ m.carry.consumed = s.carry.consumed /\ m.carry.gate = s.carry.gate
         /\ m.carry.queued = s.carry.queued
<1>1. s.carry \in Carry /\ s.launches \in Seq(Launch) /\ s.fires \in SUBSET WindowFire
  BY DEF State
<1>2. /\ s.carry.queued \in Id \cup {None} /\ s.carry.consumed \in SUBSET Id /\ s.carry.gate \in GateState
      /\ s.carry.nextRun + 1 \in Nat /\ s.carry.nextLocal + cfg.passes \in Nat
  BY <1>1, CarryFields DEF WellFormed
<1>3. PICK x \in Launch : x = LaunchOf(cfg, s.carry, tick, id)
  BY <1>1, LaunchOfType
<1>4. PICK run \in Run : run = RunOf(cfg, s.carry, tick)
  BY <1>1, LaunchOfType
<1>5. m.carry \in Carry
  BY <1>1, <1>2, <1>4 DEF Carry, State, Emit, RunOf
<1>6. /\ m.carry.active = run /\ m.carry.queued = s.carry.queued
      /\ m.carry.nextRun = s.carry.nextRun + 1 /\ m.carry.nextLocal = s.carry.nextLocal + cfg.passes
      /\ m.carry.consumed = s.carry.consumed /\ m.carry.gate = s.carry.gate
  BY <1>1, <1>4 DEF Carry, State, Emit, RunOf
<1>7. m.fires = s.fires /\ m.launches = Append(s.launches, x)
  BY <1>3 DEF State, Emit, LaunchOf
<1>8. Append(s.launches, x) \in Seq(Launch)
  BY <1>1, <1>3, AppendProperties
<1>9. m = [fires |-> m.fires, launches |-> m.launches, carry |-> m.carry]
  BY DEF Emit, State
<1>10. m \in State
  BY <1>1, <1>5, <1>7, <1>8, <1>9 DEF State
<1> QED
  BY <1>3, <1>4, <1>6, <1>7, <1>10

\* The queue is emptied, and nothing else.
LEMMA EmptiedIs ==
  ASSUME NEW m \in State, NEW e, e = [m EXCEPT !.carry.queued = None]
  PROVE  /\ e \in State /\ e.fires = m.fires /\ e.launches = m.launches
         /\ e.carry.active = m.carry.active /\ e.carry.queued = None /\ e.carry.nextRun = m.carry.nextRun
         /\ e.carry.nextLocal = m.carry.nextLocal
         /\ e.carry.consumed = m.carry.consumed /\ e.carry.gate = m.carry.gate
BY DEF State, Carry

\* A launch for a fire empties the queue after it.
LEMMA LaunchThenEmpty ==
  ASSUME NEW cfg, WellFormed(cfg), NEW s \in State, NEW tick \in Nat, NEW id \in Id,
         NEW m, m = Emit(cfg, s, tick, id), NEW e, e = [m EXCEPT !.carry.queued = None]
  PROVE  Launches(cfg, s, tick, id, e)
<1>1. /\ m \in State /\ m.fires = s.fires
      /\ m.launches = Append(s.launches, LaunchOf(cfg, s.carry, tick, id))
      /\ m.carry.active = RunOf(cfg, s.carry, tick)
      /\ m.carry.nextRun = s.carry.nextRun + 1 /\ m.carry.nextLocal = s.carry.nextLocal + cfg.passes
      /\ m.carry.consumed = s.carry.consumed /\ m.carry.gate = s.carry.gate
  BY EmitIs
<1>2. /\ e \in State /\ e.fires = m.fires /\ e.launches = m.launches
      /\ e.carry.active = m.carry.active /\ e.carry.queued = None /\ e.carry.nextRun = m.carry.nextRun
      /\ e.carry.nextLocal = m.carry.nextLocal
      /\ e.carry.consumed = m.carry.consumed /\ e.carry.gate = m.carry.gate
  BY <1>1, EmptiedIs
<1> QED
  BY <1>1, <1>2 DEF Launches, CarriesOn

\* A launch for the queue empties it before.
LEMMA EmptyThenLaunch ==
  ASSUME NEW cfg, WellFormed(cfg), NEW s \in State, NEW tick \in Nat, NEW id \in Id
  PROVE  Launches(cfg, s, tick, id, Emit(cfg, [s EXCEPT !.carry.queued = None], tick, id))
<1>1. PICK t : t = [s EXCEPT !.carry.queued = None]
  OBVIOUS
<1>2. /\ t \in State /\ t.fires = s.fires /\ t.launches = s.launches
      /\ t.carry.queued = None /\ t.carry.nextRun = s.carry.nextRun
      /\ t.carry.nextLocal = s.carry.nextLocal
      /\ t.carry.consumed = s.carry.consumed /\ t.carry.gate = s.carry.gate
  BY <1>1, EmptiedIs
<1>3. PICK e : e = Emit(cfg, t, tick, id)
  OBVIOUS
<1>4. /\ e \in State /\ e.fires = t.fires
      /\ e.launches = Append(t.launches, LaunchOf(cfg, t.carry, tick, id))
      /\ e.carry.active = RunOf(cfg, t.carry, tick)
      /\ e.carry.nextRun = t.carry.nextRun + 1 /\ e.carry.nextLocal = t.carry.nextLocal + cfg.passes
      /\ e.carry.consumed = t.carry.consumed /\ e.carry.gate = t.carry.gate
      /\ e.carry.queued = t.carry.queued
  <2> t \in State
    BY <1>2
  <2>1. /\ e \in State /\ e.fires = t.fires
        /\ e.launches = Append(t.launches, LaunchOf(cfg, t.carry, tick, id))
    BY <1>3, EmitIs
  <2>2. /\ e.carry.active = RunOf(cfg, t.carry, tick)
        /\ e.carry.nextRun = t.carry.nextRun + 1 /\ e.carry.nextLocal = t.carry.nextLocal + cfg.passes
    BY <1>3, EmitIs
  <2>3. /\ e.carry.consumed = t.carry.consumed /\ e.carry.gate = t.carry.gate
        /\ e.carry.queued = t.carry.queued
    BY <1>3, EmitIs
  <2> QED
    BY <2>1, <2>2, <2>3
<1>5. /\ LaunchOf(cfg, t.carry, tick, id) = LaunchOf(cfg, s.carry, tick, id)
      /\ RunOf(cfg, t.carry, tick) = RunOf(cfg, s.carry, tick)
  BY <1>2 DEF LaunchOf, RunOf
<1>6. Launches(cfg, s, tick, id, e)
  BY <1>2, <1>4, <1>5 DEF Launches, CarriesOn
<1> QED
  BY <1>1, <1>3, <1>6

\* State e is s after one more launch, the others before it.
AfterLaunch(cfg, before, s, tick, e) ==
  /\ e \in State /\ e.fires = s.fires /\ e.carry.consumed = s.carry.consumed
  /\ e.carry.queued = None /\ e.carry.active # None
  /\ LET all == before \o e.launches IN
     Remembers(cfg, all, e.carry) /\ InTurn(cfg, all) /\ Spaced(cfg, all, e.carry) /\ StartsAt(all, tick)

\* A launch that may follow leaves the carry knowing it, and in turn.
LEMMA Emitted ==
  ASSUME NEW cfg, WellFormed(cfg), NEW before \in Seq(Launch), NEW s \in State,
         NEW tick \in Nat, NEW id \in Id, MayFollow(cfg, before \o s.launches, s.carry, tick, id),
         NEW e, Launches(cfg, s, tick, id, e)
  PROVE  AfterLaunch(cfg, before, s, tick, e)
<1>1. PICK more : more = before \o e.launches
  OBVIOUS
<1> DEFINE x == LaunchOf(cfg, s.carry, tick, id)
           all == before \o s.launches
<1>2. s.launches \in Seq(Launch) /\ s.carry \in Carry /\ e.carry \in Carry
  BY DEF State, Launches
<1>3. x \in Launch /\ RunOf(cfg, s.carry, tick) # None
  BY <1>2, LaunchOfType
<1>4. all \in Seq(Launch)
  BY <1>2, ConcatProperties
<1>5. e.launches = Append(s.launches, x)
  BY DEF Launches
<1> HIDE DEF x
<1>6. more = Append(all, x)
  BY <1>1, <1>2, <1>3, <1>5, AppendAfter
<1>7. CarriesOn(cfg, s.carry, tick, e.carry)
  BY DEF Launches
<1>8. /\ Remembers(cfg, more, e.carry) /\ InTurn(cfg, more) /\ Spaced(cfg, more, e.carry)
      /\ StartsAt(more, tick)
  <2>1. MayFollow(cfg, all, s.carry, tick, id)
    OBVIOUS
  <2>2. ASSUME NEW c \in Carry, NEW d \in Carry, NEW m, MayFollow(cfg, all, c, tick, id),
               CarriesOn(cfg, c, tick, d), m = Append(all, LaunchOf(cfg, c, tick, id))
        PROVE  /\ Remembers(cfg, m, d) /\ InTurn(cfg, m) /\ Spaced(cfg, m, d)
               /\ StartsAt(m, tick)
    <3> HIDE DEF all
    <3> QED
      BY <1>4, <2>2, Extended
  <2> HIDE DEF all
  <2> QED
    BY <1>2, <1>6, <1>7, <2>1, <2>2 DEF x
<1> QED
  BY <1>1, <1>3, <1>7, <1>8 DEF Launches, CarriesOn, AfterLaunch

\* A fire taken, the gate left in state g.
Taken(s, g, fire, t) ==
  /\ t \in State /\ t.fires = s.fires \ {fire} /\ t.launches = s.launches
  /\ t.carry.active = s.carry.active /\ t.carry.queued = s.carry.queued
  /\ t.carry.nextRun = s.carry.nextRun /\ t.carry.nextLocal = s.carry.nextLocal
  /\ t.carry.consumed = s.carry.consumed \cup {Identity(fire)} /\ t.carry.gate = g

\* A fire taken, as TakeFire writes it.
LEMMA TakenIs ==
  ASSUME NEW s \in State, NEW g \in GateState, NEW fire \in WindowFire
  PROVE  Taken(s, g, fire, [s EXCEPT !.fires = @ \ {fire}, !.carry.gate = g,
                                     !.carry.consumed = @ \cup {Identity(fire)}])
<1>1. s.carry \in Carry
  BY DEF State
<1>2. Identity(fire) \in Id
  BY DEF Identity, Id, WindowFire
<1>3. PICK i : i = {Identity(fire)} /\ i \subseteq Id
  BY <1>2
<1>4. PICK t : t = [s EXCEPT !.fires = @ \ {fire}, !.carry.gate = g, !.carry.consumed = @ \cup i]
  OBVIOUS
<1>5. t.carry \in Carry
  BY <1>1, <1>3, <1>4 DEF Carry, State
<1>6. /\ t.carry.active = s.carry.active /\ t.carry.queued = s.carry.queued
      /\ t.carry.nextRun = s.carry.nextRun /\ t.carry.nextLocal = s.carry.nextLocal
      /\ t.carry.consumed = s.carry.consumed \cup i /\ t.carry.gate = g
  BY <1>1, <1>3, <1>4 DEF Carry, State
<1>7. t.fires = s.fires \ {fire} /\ t.launches = s.launches
  BY <1>4 DEF State
<1>8. t \in State
  BY <1>4, <1>5, <1>7 DEF State
<1> QED
  BY <1>3, <1>4, <1>6, <1>7, <1>8 DEF Taken

\* State e is t with a fire in the queue.
Queued(t, i, e) ==
  /\ e \in State /\ e.fires = t.fires /\ e.launches = t.launches
  /\ e.carry.active = t.carry.active /\ e.carry.queued = i /\ e.carry.nextRun = t.carry.nextRun
  /\ e.carry.nextLocal = t.carry.nextLocal
  /\ e.carry.consumed = t.carry.consumed /\ e.carry.gate = t.carry.gate

\* The queue is filled, and nothing else.
LEMMA QueuedIs ==
  ASSUME NEW t \in State, NEW i \in Id, NEW e, e = [t EXCEPT !.carry.queued = i]
  PROVE  Queued(t, i, e)
BY DEF State, Carry, Queued

\* What the loop keeps: its launches go on from those before the window.
LoopInv(cfg, before, end, s) ==
  /\ s \in State
  /\ \A f \in s.fires : f.tick <= end
  /\ LET all == before \o s.launches IN
     /\ Remembers(cfg, all, s.carry) /\ InTurn(cfg, all) /\ Spaced(cfg, all, s.carry)
     /\ \A f \in s.fires : Reached(cfg, all, s.carry, f.tick)
     /\ Reached(cfg, all, s.carry, end)

\* A launch of the queue, at the end of the run it waited for.
LEMMA ReleaseKeeps ==
  ASSUME NEW cfg, WellFormed(cfg), NEW before \in Seq(Launch), NEW window, window.end \in Nat,
         NEW s, LoopInv(cfg, before, window.end, s), Releases(s, window),
         NEW e, e = CompileStep(cfg, s, window)
  PROVE  /\ LoopInv(cfg, before, window.end, e)
         /\ e.fires = s.fires /\ e.carry.consumed = s.carry.consumed
         /\ s.carry.queued # None /\ e.carry.queued = None
<1>1. PICK all, more, tick, id : /\ all = before \o s.launches /\ more = before \o e.launches
                                 /\ tick = s.carry.active.end /\ id = s.carry.queued
  OBVIOUS
<1>2. s \in State /\ s.carry \in Carry /\ s.launches \in Seq(Launch) /\ s.fires \subseteq WindowFire
  BY DEF LoopInv, State
<1>3. all \in Seq(Launch)
  BY <1>1, <1>2, ConcatProperties
<1>4. Remembers(cfg, all, s.carry) /\ InTurn(cfg, all) /\ Spaced(cfg, all, s.carry)
  BY <1>1 DEF LoopInv
<1>5. s.carry.active # None /\ s.carry.queued # None /\ tick < window.end
  BY <1>1 DEF Releases
<1>6. tick \in Nat /\ s.carry.active.start \in Nat /\ id \in Id
  BY <1>1, <1>2, <1>5, CarryFields DEF Run
<1>7. all # <<>> /\ Len(all) \in 1 .. Len(all)
  BY <1>3, <1>4, <1>5, EmptySeq DEF Remembers
<1>8. all[Len(all)].start <= tick /\ EndOf(cfg, all[Len(all)]) = tick
  <2>1. PICK l : l = all[Len(all)]
    OBVIOUS
  <2>2. tick = EndOf(cfg, l)
    BY <1>1, <1>4, <1>5, <1>7, <2>1 DEF Remembers
  <2>3. l \in Launch
    BY <1>3, <1>7, <2>1, ElementOfSeq
  <2>4. RunTicks(cfg, l.first) \in Nat /\ l.start \in Nat
    BY <2>3, RunTicksType DEF Launch
  <2>5. l.start <= EndOf(cfg, l)
    BY <2>4 DEF EndOf
  <2> QED
    BY <2>1, <2>2, <2>5
<1>9. MayFollow(cfg, all, s.carry, tick, id)
  <2>1. Cools(cfg) => Cooled(cfg, all, id.cycle) /\ s.carry.gate.last # None /\ id.cycle <= s.carry.gate.last
    BY <1>1, <1>4, <1>5 DEF Spaced
  <2>2. EndOf(cfg, all[Len(all)]) <= tick
    BY <1>6, <1>8
  <2> QED
    BY <1>4, <1>8, <2>1, <2>2, Zenon DEF MayFollow
<1>10. Launches(cfg, s, tick, id, e)
  <2>1. e = Emit(cfg, [s EXCEPT !.carry.queued = None], tick, id)
    BY <1>1 DEF CompileStep
  <2> QED
    BY <1>2, <1>6, <2>1, EmptyThenLaunch
<1>11. /\ e \in State /\ e.fires = s.fires /\ e.carry.consumed = s.carry.consumed
       /\ e.carry.queued = None /\ e.carry.active # None
       /\ Remembers(cfg, more, e.carry) /\ InTurn(cfg, more) /\ Spaced(cfg, more, e.carry)
       /\ StartsAt(more, tick)
  <2>1. MayFollow(cfg, before \o s.launches, s.carry, tick, id)
    BY <1>1, <1>9
  <2>2. AfterLaunch(cfg, before, s, tick, e)
    BY <1>2, <1>6, <1>10, <2>1, Emitted
  <2> QED
    BY <1>1, <2>2 DEF AfterLaunch
<1>12. \A f \in s.fires : tick <= f.tick
  <2> SUFFICES ASSUME NEW f \in s.fires
               PROVE  tick <= f.tick
    OBVIOUS
  <2>1. NextFire(s.fires) \in s.fires /\ NextFire(s.fires).tick <= f.tick
    BY <1>2, NextFireIs
  <2>2. tick <= NextFire(s.fires).tick
    BY <1>1 DEF Releases
  <2>3. PICK t : t = NextFire(s.fires).tick
    OBVIOUS
  <2>4. t \in Nat /\ f.tick \in Nat
    BY <1>2, <2>1, <2>3 DEF WindowFire
  <2> QED
    BY <1>6, <2>1, <2>2, <2>3, <2>4
<1>13. LoopInv(cfg, before, window.end, e)
  <2>1. \A f \in e.fires : Reached(cfg, more, e.carry, f.tick)
    BY <1>11, <1>12 DEF Reached, StartsAt
  <2>2. Reached(cfg, more, e.carry, window.end)
    BY <1>5, <1>6, <1>11 DEF Reached, StartsAt
  <2>3. \A f \in e.fires : f.tick <= window.end
    BY <1>11 DEF LoopInv
  <2> QED
    BY <1>1, <1>11, <2>1, <2>2, <2>3 DEF LoopInv
<1> QED
  BY <1>5, <1>11, <1>13

\* A fire taken and gated keeps what holds of the launches; an accept is the
\* cooldown after each of them.
LEMMA TakenKeeps ==
  ASSUME NEW cfg, WellFormed(cfg), NEW all \in Seq(Launch), NEW s \in State, NEW fire \in WindowFire,
         Remembers(cfg, all, s.carry), Spaced(cfg, all, s.carry),
         NEW gated, gated = EvaluateGate(cfg.gate, s.carry.gate, fire),
         NEW t, Taken(s, gated.state, fire, t)
  PROVE  /\ Remembers(cfg, all, t.carry) /\ Spaced(cfg, all, t.carry)
         /\ gated.accept /\ Cools(cfg) =>
              Cooled(cfg, all, fire.cycle) /\ t.carry.gate.last # None /\ fire.cycle <= t.carry.gate.last
<1>1. PICK gate \in GateState : gate = s.carry.gate
  BY CarryFields DEF State
<1>2. /\ gated.state \in GateState
      /\ ~gated.accept => gated.state.last = gate.last
      /\ gated.accept /\ Cools(cfg) =>
           /\ gated.state.last = fire.cycle
           /\ gate.last # None => fire.cycle - gate.last >= cfg.gate.cooldownCycles
  BY <1>1, Gated
<1>3. Remembers(cfg, all, t.carry)
  BY DEF Remembers, Taken
<1>4. PICK last \in Nat \cup {None} : last = gate.last
  BY <1>1 DEF GateState
<1>5. PICK next \in Nat \cup {None} : next = t.carry.gate.last
  BY <1>2 DEF GateState, Taken
<1>6. /\ ~gated.accept => next = last
      /\ gated.accept /\ Cools(cfg) =>
           next = fire.cycle /\ (last # None => fire.cycle - last >= cfg.gate.cooldownCycles)
  BY <1>2, <1>4, <1>5 DEF Taken
<1>7. SUFFICES ASSUME Cools(cfg)
               PROVE  /\ Spaced(cfg, all, t.carry)
                      /\ gated.accept =>
                           Cooled(cfg, all, fire.cycle) /\ next # None /\ fire.cycle <= next
  BY <1>3, <1>5 DEF Spaced
<1>8. /\ \A i \in 1 .. Len(all) : all[i].fire.cycle \in Nat
      /\ cfg.gate.cooldownCycles \in Nat /\ fire.cycle \in Nat
  <2>1. \A i \in 1 .. Len(all) : all[i] \in Launch
    BY ElementOfSeq
  <2> QED
    BY <1>7, <2>1 DEF Launch, WellFormed, Cools, WindowFire
<1>9. /\ \A i, j \in 1 .. Len(all) :
           i < j => all[j].fire.cycle - all[i].fire.cycle >= cfg.gate.cooldownCycles
      /\ all # <<>> => last # None
      /\ \A i \in 1 .. Len(all) : all[i].fire.cycle <= last
  BY <1>1, <1>4, <1>7 DEF Spaced
<1>10. s.carry.queued # None => /\ Cooled(cfg, all, s.carry.queued.cycle)
                                /\ last # None /\ s.carry.queued.cycle <= last
  BY <1>1, <1>4, <1>7 DEF Spaced
<1>11. CASE ~gated.accept
  <2>1. next = last
    BY <1>6, <1>11
  <2>2. Spaced(cfg, all, t.carry)
    BY <1>5, <1>9, <1>10, <2>1 DEF Spaced, Taken
  <2> QED
    BY <1>11, <2>2
<1>12. CASE gated.accept
  <2>1. next = fire.cycle /\ next # None
    BY <1>6, <1>7, <1>8, <1>12, TriggersAssumption
  <2>2. all = <<>> \/ (last \in Nat /\ fire.cycle - last >= cfg.gate.cooldownCycles)
    BY <1>4, <1>6, <1>7, <1>9, <1>12
  <2>3. \A i \in 1 .. Len(all) : all # <<>>
    BY EmptySeq
  <2>4. \A i \in 1 .. Len(all) : all[i].fire.cycle <= fire.cycle
                                  /\ fire.cycle - all[i].fire.cycle >= cfg.gate.cooldownCycles
    BY <1>8, <1>9, <2>2, <2>3
  <2>5. s.carry.queued # None => s.carry.queued.cycle <= fire.cycle
    <3> SUFFICES ASSUME s.carry.queued # None
                 PROVE  s.carry.queued.cycle <= fire.cycle
      OBVIOUS
    <3>1. PICK q : q = s.carry.queued.cycle
      OBVIOUS
    <3>2. q \in Nat
      BY <3>1, CarryFields DEF State, Id
    <3>3. last \in Nat /\ q <= last /\ fire.cycle - last >= cfg.gate.cooldownCycles
      BY <1>4, <1>6, <1>7, <1>10, <1>12, <3>1
    <3> QED
      BY <1>8, <3>1, <3>2, <3>3
  <2>6. Cooled(cfg, all, fire.cycle)
    BY <2>4 DEF Cooled
  <2>7. Spaced(cfg, all, t.carry)
    BY <1>5, <1>9, <1>10, <2>1, <2>4, <2>5 DEF Spaced, Taken
  <2> QED
    BY <1>8, <2>1, <2>6, <2>7
<1> QED
  BY <1>11, <1>12

\* A fire of the window: refused, ignored, queued or launched.
LEMMA FireKeeps ==
  ASSUME NEW cfg, WellFormed(cfg), NEW before \in Seq(Launch), NEW end \in Nat,
         NEW s, LoopInv(cfg, before, end, s), s.fires # {},
         NEW e, e = TakeFire(cfg, s)
  PROVE  /\ LoopInv(cfg, before, end, e)
         /\ e.fires = s.fires \ {NextFire(s.fires)}
         /\ e.carry.consumed = s.carry.consumed \cup {Identity(NextFire(s.fires))}
<1>1. s \in State /\ s.carry \in Carry /\ s.launches \in Seq(Launch) /\ s.fires \subseteq WindowFire
  BY DEF LoopInv, State
<1>2. PICK all \in Seq(Launch) : all = before \o s.launches
  BY <1>1, ConcatProperties
<1>3. Remembers(cfg, all, s.carry) /\ InTurn(cfg, all) /\ Spaced(cfg, all, s.carry)
  BY <1>2 DEF LoopInv
<1>4. PICK fire \in s.fires : fire = NextFire(s.fires) /\ \A f \in s.fires : fire.tick <= f.tick
  BY <1>1, NextFireIs
<1>5. fire \in WindowFire /\ fire.tick \in Nat /\ fire.cycle \in Nat /\ fire.tick <= end
  BY <1>1, <1>4 DEF WindowFire, LoopInv
<1>6. PICK gated : gated = EvaluateGate(cfg.gate, s.carry.gate, fire)
  OBVIOUS
<1>7. PICK t : t = [s EXCEPT !.fires = @ \ {fire}, !.carry.gate = gated.state,
                             !.carry.consumed = @ \cup {Identity(fire)}]
  OBVIOUS
<1>8. gated.state \in GateState
  BY <1>1, <1>5, <1>6, Gated, CarryFields
<1>9. Taken(s, gated.state, fire, t)
  BY <1>1, <1>5, <1>7, <1>8, TakenIs
<1>10. /\ t \in State /\ t.carry \in Carry /\ t.fires = s.fires \ {fire} /\ t.launches = s.launches
       /\ t.carry.active = s.carry.active /\ t.carry.queued = s.carry.queued
       /\ t.carry.consumed = s.carry.consumed \cup {Identity(fire)}
  BY <1>9 DEF Taken, State
<1>11. /\ Remembers(cfg, all, t.carry) /\ Spaced(cfg, all, t.carry)
       /\ gated.accept /\ Cools(cfg) =>
            Cooled(cfg, all, fire.cycle) /\ t.carry.gate.last # None /\ fire.cycle <= t.carry.gate.last
  BY <1>1, <1>3, <1>5, <1>6, <1>9, TakenKeeps
<1>12. /\ \A f \in t.fires : f.tick <= end /\ Reached(cfg, all, t.carry, f.tick)
       /\ Reached(cfg, all, t.carry, end)
       /\ Reached(cfg, all, s.carry, fire.tick)
  BY <1>2, <1>4, <1>10 DEF LoopInv, Reached
<1>13. LoopInv(cfg, before, end, t)
  BY <1>2, <1>3, <1>10, <1>11, <1>12 DEF LoopInv
<1>14. e = IF gated.accept THEN ReTrigger(cfg, t, fire) ELSE t
  BY <1>4, <1>6, <1>7 DEF TakeFire
<1>15. PICK i : i = Identity(fire)
  OBVIOUS
<1>16. i \in Id /\ i.cycle = fire.cycle
  BY <1>5, <1>15 DEF Identity, Id, WindowFire
<1>17. SUFFICES /\ LoopInv(cfg, before, end, e)
                /\ e.fires = t.fires /\ e.carry.consumed = t.carry.consumed
  BY <1>4, <1>10
<1> DEFINE active == t.carry.active # None /\ fire.tick < t.carry.active.end
<1>18. CASE ~gated.accept \/ (active /\ cfg.reTrigger = "ignore")
            \/ (active /\ cfg.reTrigger = "queue" /\ t.carry.queued # None)
  <2>1. e = t
    BY <1>14, <1>18 DEF ReTrigger
  <2> QED
    BY <1>13, <2>1
<1>19. CASE gated.accept /\ active /\ cfg.reTrigger = "queue" /\ t.carry.queued = None
  <2>1. e = [t EXCEPT !.carry.queued = i]
    BY <1>14, <1>15, <1>19 DEF ReTrigger
  <2>2. Queued(t, i, e)
    BY <1>10, <1>16, <2>1, QueuedIs
  <2>3. /\ e \in State /\ e.fires = t.fires /\ e.launches = t.launches
        /\ e.carry.active = t.carry.active /\ e.carry.queued = i /\ e.carry.nextRun = t.carry.nextRun
        /\ e.carry.nextLocal = t.carry.nextLocal
        /\ e.carry.consumed = t.carry.consumed /\ e.carry.gate = t.carry.gate
    BY <2>2 DEF Queued
  <2>4. Remembers(cfg, all, e.carry)
    BY <1>11, <1>19, <2>3 DEF Remembers
  <2>5. Spaced(cfg, all, e.carry)
    BY <1>11, <1>16, <1>19, <2>3 DEF Spaced
  <2>6. /\ \A f \in e.fires : f.tick <= end /\ Reached(cfg, all, e.carry, f.tick)
        /\ Reached(cfg, all, e.carry, end)
    BY <1>12, <2>3 DEF Reached
  <2>7. before \o e.launches = all
    BY <1>2, <1>10, <2>3
  <2> QED
    BY <1>3, <2>3, <2>4, <2>5, <2>6, <2>7 DEF LoopInv
<1>20. CASE gated.accept /\ (~active \/ cfg.reTrigger = "restart")
  <2>1. PICK m : m = Emit(cfg, t, fire.tick, i)
    OBVIOUS
  <2>2. e = [m EXCEPT !.carry.queued = None]
    BY <1>14, <1>15, <1>20, <2>1 DEF ReTrigger
  <2>3. Launches(cfg, t, fire.tick, i, e)
    BY <1>5, <1>10, <1>16, <2>1, <2>2, LaunchThenEmpty
  <2>4. all # <<>> => all[Len(all)].start <= fire.tick
    BY <1>12 DEF Reached
  <2>5. ASSUME all # <<>>, cfg.reTrigger # "restart"
        PROVE  EndOf(cfg, all[Len(all)]) <= fire.tick
    <3>1. CASE t.carry.active = None
      BY <1>10, <1>12, <2>5, <3>1 DEF Reached
    <3>2. CASE t.carry.active # None
      <4>1. t.carry.active.end = EndOf(cfg, all[Len(all)])
        BY <1>11, <2>5, <3>2 DEF Remembers
      <4>2. ~(fire.tick < t.carry.active.end) /\ t.carry.active.end \in Nat
        BY <1>10, <1>20, <2>5, <3>2, CarryFields DEF Run
      <4> QED
        BY <1>5, <4>1, <4>2
    <3> QED
      BY <3>1, <3>2
  <2>6. MayFollow(cfg, all, t.carry, fire.tick, i)
    <3>1. Cools(cfg) => Cooled(cfg, all, i.cycle) /\ t.carry.gate.last # None /\ i.cycle <= t.carry.gate.last
      BY <1>11, <1>16, <1>20
    <3> QED
      BY <1>3, <1>11, <2>4, <2>5, <3>1, Zenon DEF MayFollow
  <2>7. MayFollow(cfg, before \o t.launches, t.carry, fire.tick, i)
    BY <1>2, <1>10, <2>6
  <2>8. AfterLaunch(cfg, before, t, fire.tick, e)
    BY <1>5, <1>10, <1>16, <2>3, <2>7, Emitted
  <2>9. PICK more : more = before \o e.launches
    OBVIOUS
  <2>10. /\ e \in State /\ e.fires = t.fires /\ e.carry.consumed = t.carry.consumed
        /\ e.carry.queued = None /\ e.carry.active # None
        /\ Remembers(cfg, more, e.carry) /\ InTurn(cfg, more) /\ Spaced(cfg, more, e.carry)
        /\ StartsAt(more, fire.tick)
    BY <2>8, <2>9 DEF AfterLaunch
  <2>11. \A f \in e.fires : f.tick <= end /\ Reached(cfg, more, e.carry, f.tick)
    BY <1>4, <1>10, <1>12, <2>10 DEF Reached, StartsAt
  <2>12. Reached(cfg, more, e.carry, end)
    BY <1>5, <2>10 DEF Reached, StartsAt
  <2> QED
    BY <2>9, <2>10, <2>11, <2>12 DEF LoopInv
<1>21. cfg.reTrigger \in {"restart", "ignore", "queue"}
  BY DEF WellFormed
<1> QED
  BY <1>18, <1>19, <1>20, <1>21

\* The loop has nothing left to do in the window.
Done(s, window) == s.fires = {} /\ ~Releases(s, window)

\* An iteration keeps the loop's invariant; it releases the queue or takes the
\* next fire, and a loop that is done stays as it is.
LEMMA StepKeeps ==
  ASSUME NEW cfg, WellFormed(cfg), NEW before \in Seq(Launch), NEW window, window.end \in Nat,
         NEW s, LoopInv(cfg, before, window.end, s), NEW e, e = CompileStep(cfg, s, window)
  PROVE  /\ LoopInv(cfg, before, window.end, e)
         /\ \/ Done(s, window) /\ e = s
            \/ /\ e.fires = s.fires /\ e.carry.consumed = s.carry.consumed
               /\ s.carry.queued # None /\ e.carry.queued = None
            \/ /\ s.fires # {} /\ NextFire(s.fires) \in s.fires
               /\ e.fires = s.fires \ {NextFire(s.fires)}
               /\ e.carry.consumed = s.carry.consumed \cup {Identity(NextFire(s.fires))}
<1>1. CASE Releases(s, window)
  BY <1>1, ReleaseKeeps
<1>2. CASE ~Releases(s, window) /\ s.fires # {}
  <2>1. e = TakeFire(cfg, s)
    BY <1>2 DEF CompileStep
  <2>2. NextFire(s.fires) \in s.fires
    BY <1>2, NextFireIs DEF LoopInv, State
  <2> QED
    BY <1>2, <2>1, <2>2, FireKeeps
<1>3. CASE ~Releases(s, window) /\ s.fires = {}
  BY <1>3 DEF CompileStep, Done
<1> QED
  BY <1>1, <1>2, <1>3

\* The loop, iteration by iteration.
LEMMA LoopedIs ==
  ASSUME NEW cfg, NEW begin, NEW window, NEW count \in Nat
  PROVE  \E f : /\ f[0] = begin
                /\ \A n \in 1 .. count : f[n] = CompileStep(cfg, f[n - 1], window)
                /\ f[count] = Looped(cfg, begin, window, count)
<1> DEFINE Iterates(N, f) ==
             f = [n \in 0 .. N |-> IF n = 0 THEN begin ELSE CompileStep(cfg, f[n - 1], window)]
           S == {N \in Nat : \E f : Iterates(N, f)}
<1>1. 0 \in S
  <2>1. Iterates(0, [n \in 0 .. 0 |-> begin])
    OBVIOUS
  <2> QED
    BY <2>1
<1>2. ASSUME NEW N \in Nat, N \in S
      PROVE  N + 1 \in S
  <2>1. PICK f : Iterates(N, f)
    BY <1>2
  <2> DEFINE h == [n \in 0 .. N + 1 |-> IF n = N + 1 THEN CompileStep(cfg, f[N], window) ELSE f[n]]
  <2>2. \A n \in 0 .. N : n \in 0 .. N + 1 /\ n # N + 1 /\ h[n] = f[n]
    OBVIOUS
  <2>3. h[N + 1] = CompileStep(cfg, f[N], window)
    OBVIOUS
  <2>4. ASSUME NEW n \in 0 .. N + 1
        PROVE  h[n] = IF n = 0 THEN begin ELSE CompileStep(cfg, h[n - 1], window)
    <3>1. CASE n = N + 1
      <4>1. n # 0 /\ n - 1 = N /\ h[N] = f[N]
        BY <2>2, <3>1
      <4> HIDE DEF h
      <4> QED
        BY <2>3, <3>1, <4>1
    <3>2. CASE n \in 0 .. N /\ n # 0
      <4>1. n - 1 \in 0 .. N
        BY <3>2
      <4>2. f[n] = CompileStep(cfg, f[n - 1], window)
        BY <2>1, <3>2
      <4> HIDE DEF h
      <4> QED
        BY <2>2, <3>2, <4>1, <4>2
    <3>3. CASE n = 0
      <4>1. f[0] = begin /\ 0 \in 0 .. N
        BY <2>1
      <4> HIDE DEF h
      <4> QED
        BY <2>2, <3>3, <4>1
    <3> QED
      BY <3>1, <3>2, <3>3
  <2>5. Iterates(N + 1, h)
    <3>1. h = [n \in 0 .. N + 1 |-> h[n]]
      OBVIOUS
    <3> HIDE DEF h
    <3> QED
      BY <2>4, <3>1
  <2> HIDE DEF h
  <2> QED
    BY <2>5
<1>3. count \in S
  <2> HIDE DEF S
  <2> QED
    BY <1>1, <1>2, Inductive
<1> DEFINE state[n \in 0 .. count] == IF n = 0 THEN begin ELSE CompileStep(cfg, state[n - 1], window)
<1>4. state = [n \in 0 .. count |-> IF n = 0 THEN begin ELSE CompileStep(cfg, state[n - 1], window)]
  BY <1>3
<1>5. state[count] = Looped(cfg, begin, window, count)
  BY DEF Looped
<1> HIDE DEF state
<1>6. state[0] = begin /\ \A n \in 1 .. count : state[n] = CompileStep(cfg, state[n - 1], window)
  BY <1>4
<1> QED
  BY <1>5, <1>6

Waiting(s) == IF s.carry.queued # None THEN 1 ELSE 0

\* The identities of fires.
Identities(fires) == {Identity(f) : f \in fires}

\* What the loop has done after n iterations: each fire it no longer has is
\* consumed, no other is, and it is done before its bound.
Iterated(cfg, before, window, begin, n, s) ==
  /\ LoopInv(cfg, before, window.end, s)
  /\ s.fires \subseteq begin.fires
  /\ begin.carry.consumed \subseteq s.carry.consumed
  /\ s.carry.consumed \subseteq begin.carry.consumed \cup Identities(begin.fires)
  /\ \A f \in begin.fires : f \in s.fires \/ Identity(f) \in s.carry.consumed
  /\ \/ Done(s, window)
     \/ 2 * Cardinality(s.fires) + Waiting(s) + n <= 2 * Cardinality(begin.fires) + 1

\* Each iteration uses up a fire or the queue, of which there are so many.
LEMMA IterationKeeps ==
  ASSUME NEW cfg, WellFormed(cfg), NEW before \in Seq(Launch), NEW window, window.end \in Nat,
         NEW begin, IsFiniteSet(begin.fires), NEW n \in Nat,
         NEW s, Iterated(cfg, before, window, begin, n, s), NEW e, e = CompileStep(cfg, s, window)
  PROVE  Iterated(cfg, before, window, begin, n + 1, e)
<1>1. /\ LoopInv(cfg, before, window.end, s) /\ s.fires \subseteq begin.fires
      /\ begin.carry.consumed \subseteq s.carry.consumed
      /\ s.carry.consumed \subseteq begin.carry.consumed \cup Identities(begin.fires)
      /\ \A f \in begin.fires : f \in s.fires \/ Identity(f) \in s.carry.consumed
      /\ \/ Done(s, window)
         \/ 2 * Cardinality(s.fires) + Waiting(s) + n <= 2 * Cardinality(begin.fires) + 1
  BY DEF Iterated
<1>2. IsFiniteSet(s.fires) /\ Cardinality(s.fires) \in Nat /\ Cardinality(begin.fires) \in Nat
  BY <1>1, FS_Subset, FS_CardinalityType
<1>3. Waiting(s) \in 0 .. 1 /\ Waiting(e) \in 0 .. 1
  BY DEF Waiting
<1>4. LoopInv(cfg, before, window.end, e)
  BY <1>1, StepKeeps
<1>5. CASE Done(s, window)
  <2>1. e = s
    BY <1>5 DEF CompileStep, Done
  <2> QED
    BY <1>1, <1>5, <2>1 DEF Iterated
<1>6. CASE /\ ~Done(s, window) /\ e.fires = s.fires /\ e.carry.consumed = s.carry.consumed
           /\ s.carry.queued # None /\ e.carry.queued = None
  <2>1. Waiting(s) = 1 /\ Waiting(e) = 0
    BY <1>6 DEF Waiting
  <2>2. 2 * Cardinality(e.fires) + Waiting(e) + (n + 1) <= 2 * Cardinality(begin.fires) + 1
    BY <1>1, <1>2, <1>6, <2>1
  <2> QED
    BY <1>1, <1>4, <1>6, <2>2 DEF Iterated
<1>7. CASE /\ s.fires # {} /\ NextFire(s.fires) \in s.fires
           /\ e.fires = s.fires \ {NextFire(s.fires)}
           /\ e.carry.consumed = s.carry.consumed \cup {Identity(NextFire(s.fires))}
  <2>1. PICK fire \in s.fires : fire = NextFire(s.fires)
    BY <1>7
  <2>2. e.fires = s.fires \ {fire} /\ e.carry.consumed = s.carry.consumed \cup {Identity(fire)}
    BY <1>7, <2>1
  <2>3. Cardinality(e.fires) = Cardinality(s.fires) - 1
    BY <1>2, <2>1, <2>2, FS_RemoveElement, ZenonT(60)
  <2>4. ~Done(s, window)
    BY <1>7 DEF Done
  <2>5. 2 * Cardinality(e.fires) + Waiting(e) + (n + 1) <= 2 * Cardinality(begin.fires) + 1
    BY <1>1, <1>2, <1>3, <2>3, <2>4, SMTT(40)
  <2>6. e.fires \subseteq begin.fires /\ begin.carry.consumed \subseteq e.carry.consumed
    BY <1>1, <2>2
  <2>7. \A f \in begin.fires : f \in e.fires \/ Identity(f) \in e.carry.consumed
    BY <1>1, <2>2
  <2>8. e.carry.consumed \subseteq begin.carry.consumed \cup Identities(begin.fires)
    <3>1. Identity(fire) \in Identities(begin.fires)
      BY <1>1, <2>1 DEF Identities
    <3> QED
      BY <1>1, <2>2, <3>1
  <2> QED
    BY <1>4, <2>5, <2>6, <2>7, <2>8 DEF Iterated
<1> QED
  BY <1>1, <1>5, <1>6, <1>7, StepKeeps

\* What the loop ends in: each fire it began with is consumed, and no other.
AllTaken(begin, window, s) ==
  /\ Done(s, window) /\ begin.carry.consumed \subseteq s.carry.consumed
  /\ s.carry.consumed \subseteq begin.carry.consumed \cup Identities(begin.fires)
  /\ \A f \in begin.fires : Identity(f) \in s.carry.consumed

\* The bound on its iterations is never what ends the loop.
LEMMA LoopEnds ==
  ASSUME NEW cfg, WellFormed(cfg), NEW before \in Seq(Launch), NEW window, window.end \in Nat,
         NEW begin, IsFiniteSet(begin.fires), LoopInv(cfg, before, window.end, begin),
         NEW s, s = Looped(cfg, begin, window, 2 * Cardinality(begin.fires) + 8)
  PROVE  LoopInv(cfg, before, window.end, s) /\ AllTaken(begin, window, s)
<1>1. Cardinality(begin.fires) \in Nat
  BY FS_CardinalityType
<1>2. PICK count \in Nat : count = 2 * Cardinality(begin.fires) + 8
  BY <1>1
<1>3. PICK f : /\ f[0] = begin
               /\ \A n \in 1 .. count : f[n] = CompileStep(cfg, f[n - 1], window)
               /\ f[count] = Looped(cfg, begin, window, count)
  BY <1>2, LoopedIs
<1> DEFINE S == {n \in Nat : n <= count => Iterated(cfg, before, window, begin, n, f[n])}
<1>4. 0 \in S
  <2>1. Waiting(begin) \in 0 .. 1
    BY DEF Waiting
  <2>2. 2 * Cardinality(begin.fires) + Waiting(begin) + 0 <= 2 * Cardinality(begin.fires) + 1
    BY <1>1, <2>1
  <2>3. Iterated(cfg, before, window, begin, 0, begin)
    BY <2>2 DEF Iterated
  <2> QED
    BY <1>3, <2>3
<1>5. ASSUME NEW n \in Nat, n \in S
      PROVE  n + 1 \in S
  <2> SUFFICES ASSUME n + 1 <= count
               PROVE  Iterated(cfg, before, window, begin, n + 1, f[n + 1])
    OBVIOUS
  <2>1. Iterated(cfg, before, window, begin, n, f[n])
    BY <1>2, <1>5
  <2>2. n + 1 \in 1 .. count /\ (n + 1) - 1 = n
    BY <1>2
  <2>3. f[n + 1] = CompileStep(cfg, f[n], window)
    BY <1>3, <2>2
  <2> QED
    BY <2>1, <2>3, IterationKeeps
<1>6. count \in S
  <2> HIDE DEF S
  <2> QED
    BY <1>2, <1>4, <1>5, Inductive
<1>7. Iterated(cfg, before, window, begin, count, s)
  <2>1. Iterated(cfg, before, window, begin, count, f[count])
    BY <1>2, <1>6
  <2> QED
    BY <1>2, <1>3, <2>1
<1>8. Done(s, window)
  <2>1. IsFiniteSet(s.fires)
    BY <1>7, FS_Subset DEF Iterated
  <2>2. Cardinality(s.fires) \in Nat /\ Waiting(s) \in 0 .. 1
    BY <2>1, FS_CardinalityType DEF Waiting
  <2>3. Done(s, window) \/ 2 * Cardinality(s.fires) + Waiting(s) + count <= 2 * Cardinality(begin.fires) + 1
    BY <1>7 DEF Iterated
  <2> QED
    BY <1>1, <1>2, <2>2, <2>3
<1>9. s.fires = {}
  BY <1>8 DEF Done
<1> QED
  BY <1>7, <1>8, <1>9 DEF Iterated, AllTaken

-----------------------------------------------------------------------------
(************************************************************************** *)
(* One loop in the shadow of another                                       *)
(************************************************************************** *)

\* An iteration more is a step more: the recursion has one solution.
LEMMA LoopedNext ==
  ASSUME NEW cfg, NEW begin, NEW window, NEW n \in Nat
  PROVE  /\ Looped(cfg, begin, window, 0) = begin
         /\ Looped(cfg, begin, window, n + 1) = CompileStep(cfg, Looped(cfg, begin, window, n), window)
<1>1. PICK f : /\ f[0] = begin
               /\ \A k \in 1 .. n : f[k] = CompileStep(cfg, f[k - 1], window)
               /\ f[n] = Looped(cfg, begin, window, n)
  BY LoopedIs
<1>2. PICK g : /\ g[0] = begin
               /\ \A k \in 1 .. n + 1 : g[k] = CompileStep(cfg, g[k - 1], window)
               /\ g[n + 1] = Looped(cfg, begin, window, n + 1)
  <2>1. n + 1 \in Nat
    OBVIOUS
  <2> QED
    BY <2>1, LoopedIs
<1>3. Looped(cfg, begin, window, 0) = begin
  <2>1. 0 \in Nat
    OBVIOUS
  <2>2. \E h : /\ h[0] = begin
               /\ \A k \in 1 .. 0 : h[k] = CompileStep(cfg, h[k - 1], window)
               /\ h[0] = Looped(cfg, begin, window, 0)
    BY <2>1, LoopedIs
  <2> QED
    BY <2>2
<1> DEFINE S == {k \in Nat : k <= n => f[k] = g[k]}
<1>4. 0 \in S
  BY <1>1, <1>2
<1>5. ASSUME NEW k \in Nat, k \in S
      PROVE  k + 1 \in S
  <2> SUFFICES ASSUME k + 1 <= n
               PROVE  f[k + 1] = g[k + 1]
    OBVIOUS
  <2>1. k + 1 \in 1 .. n /\ k + 1 \in 1 .. n + 1 /\ (k + 1) - 1 = k
    OBVIOUS
  <2>2. f[k] = g[k]
    BY <1>5
  <2> QED
    BY <1>1, <1>2, <2>1, <2>2
<1>6. n \in S
  <2> HIDE DEF S
  <2> QED
    BY <1>4, <1>5, Inductive
<1>7. g[n + 1] = CompileStep(cfg, g[n], window)
  <2>1. n + 1 \in 1 .. n + 1 /\ (n + 1) - 1 = n
    OBVIOUS
  <2> QED
    BY <1>2, <2>1
<1> QED
  BY <1>1, <1>2, <1>3, <1>6, <1>7

\* A loop that is done stays as it is.
LEMMA DoneStays ==
  ASSUME NEW cfg, NEW begin, NEW window, NEW n \in Nat, NEW m \in Nat, n <= m,
         Done(Looped(cfg, begin, window, n), window)
  PROVE  Looped(cfg, begin, window, m) = Looped(cfg, begin, window, n)
<1> DEFINE L(k) == Looped(cfg, begin, window, k)
           S == {k \in Nat : L(n + k) = L(n)}
<1>1. 0 \in S
  OBVIOUS
<1>2. ASSUME NEW k \in Nat, k \in S
      PROVE  k + 1 \in S
  <2>1. n + k \in Nat /\ n + (k + 1) = (n + k) + 1
    OBVIOUS
  <2>2. L((n + k) + 1) = CompileStep(cfg, L(n + k), window)
    BY <2>1, LoopedNext
  <2>3. L(n + k) = L(n)
    BY <1>2
  <2>4. CompileStep(cfg, L(n), window) = L(n)
    BY DEF CompileStep, Done
  <2> QED
    BY <2>1, <2>2, <2>3, <2>4
<1>3. m - n \in S
  <2>1. m - n \in Nat
    OBVIOUS
  <2> HIDE DEF S
  <2> QED
    BY <1>1, <1>2, <2>1, Inductive
<1> QED
  BY <1>3

\* A loop is done in one state only.
LEMMA DoneOnce ==
  ASSUME NEW cfg, NEW begin, NEW window, NEW n \in Nat, NEW m \in Nat,
         Done(Looped(cfg, begin, window, n), window), Done(Looped(cfg, begin, window, m), window)
  PROVE  Looped(cfg, begin, window, m) = Looped(cfg, begin, window, n)
<1>1. CASE n <= m
  BY <1>1, DoneStays
<1>2. CASE m <= n
  BY <1>2, DoneStays
<1> QED
  BY <1>1, <1>2

\* The first of the fires is the first of more, if the others come later.
LEMMA NextFireOfMore ==
  ASSUME NEW fires, fires \subseteq WindowFire, fires # {}, NEW later, later \subseteq WindowFire,
         \A f \in fires : \A g \in later : f.tick < g.tick
  PROVE  NextFire(fires \cup later) = NextFire(fires) /\ NextFire(fires) \notin later
<1>1. \A S : S \subseteq WindowFire /\ S # {} =>
        NextFire(S) \in S /\ \A g \in S \ {NextFire(S)} : FiresBefore(NextFire(S), g)
  BY NextFireFirst
<1>2. PICK x : x = NextFire(fires)
  OBVIOUS
<1>3. PICK y : y = NextFire(fires \cup later)
  OBVIOUS
<1>4. x \in fires /\ \A g \in fires \ {x} : FiresBefore(x, g)
  BY <1>1, <1>2
<1>5. y \in fires \cup later /\ \A g \in (fires \cup later) \ {y} : FiresBefore(y, g)
  BY <1>1, <1>3
<1>6. \A g \in later : FiresBefore(x, g)
  BY <1>4 DEF FiresBefore
<1>7. x \in WindowFire /\ y \in WindowFire
  BY <1>4, <1>5
<1>8. ASSUME x # y
      PROVE  FALSE
  <2>1. FiresBefore(x, y) /\ FiresBefore(y, x)
    BY <1>4, <1>5, <1>6, <1>8
  <2> QED
    BY <1>7, <2>1 DEF FiresBefore, WindowFire
<1>9. x \notin later
  BY <1>4, <1>7 DEF WindowFire
<1> QED
  BY <1>2, <1>3, <1>8, <1>9

\* A fire meets a run that goes on.
Busy(c, fire) == c.active # None /\ fire.tick < c.active.end

\* A fire of the next place taken, by the state of the gate and of the run.
Took(cfg, s, fire, e) ==
  LET gated == EvaluateGate(cfg.gate, s.carry.gate, fire)
      Drops == \/ ~gated.accept
               \/ /\ Busy(s.carry, fire)
                  /\ cfg.reTrigger = "ignore" \/ (cfg.reTrigger = "queue" /\ s.carry.queued # None)
      Waits == gated.accept /\ Busy(s.carry, fire) /\ cfg.reTrigger = "queue" /\ s.carry.queued = None
  IN \E t : /\ Taken(s, gated.state, fire, t)
            /\ Drops => e = t
            /\ Waits => Queued(t, Identity(fire), e)
            /\ ~Drops /\ ~Waits => Launches(cfg, t, fire.tick, Identity(fire), e)

\* TakeFire, field by field.
LEMMA TakeFireIs ==
  ASSUME NEW cfg, WellFormed(cfg), NEW s \in State, s.fires # {},
         NEW fire, fire = NextFire(s.fires), NEW e, e = TakeFire(cfg, s)
  PROVE  Took(cfg, s, fire, e)
<1>1. fire \in WindowFire /\ fire.tick \in Nat
  <2>1. s.fires \subseteq WindowFire
    BY DEF State
  <2>2. NextFire(s.fires) \in s.fires
    BY <2>1, NextFireIs
  <2> QED
    BY <2>1, <2>2 DEF WindowFire
<1>2. PICK gated : gated = EvaluateGate(cfg.gate, s.carry.gate, fire)
  OBVIOUS
<1>3. PICK t : t = [s EXCEPT !.fires = @ \ {fire}, !.carry.gate = gated.state,
                             !.carry.consumed = @ \cup {Identity(fire)}]
  OBVIOUS
<1>4. s.carry.gate \in GateState
  BY CarryFields DEF State
<1>5. gated.state \in GateState
  BY <1>1, <1>2, <1>4, Gated
<1>6. Taken(s, gated.state, fire, t)
  BY <1>1, <1>3, <1>5, TakenIs
<1>7. t \in State /\ t.carry.active = s.carry.active /\ t.carry.queued = s.carry.queued
  BY <1>6 DEF Taken
<1>8. e = IF gated.accept THEN ReTrigger(cfg, t, fire) ELSE t
  BY <1>2, <1>3 DEF TakeFire
<1>9. PICK i : i = Identity(fire)
  OBVIOUS
<1>10. i \in Id
  BY <1>1, <1>9 DEF Identity, Id, WindowFire
<1> DEFINE Drops == \/ ~gated.accept
                    \/ /\ Busy(s.carry, fire)
                       /\ cfg.reTrigger = "ignore" \/ (cfg.reTrigger = "queue" /\ s.carry.queued # None)
           Waits == gated.accept /\ Busy(s.carry, fire) /\ cfg.reTrigger = "queue" /\ s.carry.queued = None
<1>11. ASSUME Drops
       PROVE  e = t
  BY <1>7, <1>8, <1>11 DEF ReTrigger, Busy
<1>12. ASSUME Waits
       PROVE  Queued(t, i, e)
  <2>1. e = [t EXCEPT !.carry.queued = i]
    BY <1>7, <1>8, <1>9, <1>12 DEF ReTrigger, Busy
  <2> QED
    BY <1>7, <1>10, <2>1, QueuedIs
<1>13. ASSUME ~Drops, ~Waits
       PROVE  Launches(cfg, t, fire.tick, i, e)
  <2>1. PICK m : m = Emit(cfg, t, fire.tick, i)
    OBVIOUS
  <2>2. cfg.reTrigger \in {"restart", "ignore", "queue"}
    BY DEF WellFormed
  <2>3. e = [m EXCEPT !.carry.queued = None]
    BY <1>7, <1>8, <1>9, <1>13, <2>1, <2>2 DEF ReTrigger, Busy
  <2> QED
    BY <1>1, <1>7, <1>10, <2>1, <2>3, LaunchThenEmpty
<1> QED
  BY <1>2, <1>6, <1>9, <1>11, <1>12, <1>13, Zenon DEF Took

\* Loop s in a window that begins with the playback goes as loop u in one of
\* its windows: it has launched some more before, has some more fires left for
\* later, and may know of a run that u has forgotten.
Shadows(before, later, from, window, s, u) ==
  /\ s \in State /\ u \in State
  /\ s.fires = u.fires \cup later
  /\ \A f \in u.fires : from <= f.tick /\ f.tick < window.end
  /\ s.launches = before \o u.launches
  /\ s.carry.queued = u.carry.queued /\ s.carry.gate = u.carry.gate
  /\ s.carry.nextRun = u.carry.nextRun /\ s.carry.nextLocal = u.carry.nextLocal
  /\ u.carry.active # None => window.start <= u.carry.active.end
  /\ \/ s.carry.active = u.carry.active
     \/ /\ u.carry.active = None /\ u.carry.queued = None
        /\ s.carry.active # None /\ s.carry.active.end < from

\* What the two loops run in.
Shadowing(cfg, before, later, from, window, whole) ==
  /\ WellFormed(cfg) /\ before \in Seq(Launch) /\ later \subseteq WindowFire
  /\ from \in Nat /\ window.start \in Nat /\ window.end \in Nat /\ whole.start = 0 /\ whole.end \in Nat
  /\ window.start <= from /\ window.end <= whole.end
  /\ \A f \in later : window.end <= f.tick

\* Both launch the same.
LEMMA BothLaunch ==
  ASSUME NEW cfg, NEW before, NEW later, NEW from, NEW window, NEW whole,
         Shadowing(cfg, before, later, from, window, whole),
         NEW s, NEW u, Shadows(before, later, from, window, s, u),
         NEW tick \in Nat, window.start <= tick, NEW id \in Id,
         NEW d, Launches(cfg, s, tick, id, d), NEW e, Launches(cfg, u, tick, id, e)
  PROVE  Shadows(before, later, from, window, d, e)
<1>1. /\ d \in State /\ d.fires = s.fires /\ d.launches = Append(s.launches, LaunchOf(cfg, s.carry, tick, id))
      /\ d.carry.active = RunOf(cfg, s.carry, tick) /\ d.carry.queued = None
      /\ d.carry.nextRun = s.carry.nextRun + 1 /\ d.carry.nextLocal = s.carry.nextLocal + cfg.passes
      /\ d.carry.gate = s.carry.gate
  BY DEF Launches, CarriesOn
<1>2. /\ e \in State /\ e.fires = u.fires /\ e.launches = Append(u.launches, LaunchOf(cfg, u.carry, tick, id))
      /\ e.carry.active = RunOf(cfg, u.carry, tick) /\ e.carry.queued = None
      /\ e.carry.nextRun = u.carry.nextRun + 1 /\ e.carry.nextLocal = u.carry.nextLocal + cfg.passes
      /\ e.carry.gate = u.carry.gate
  BY DEF Launches, CarriesOn
<1>3. s.carry.nextRun = u.carry.nextRun /\ s.carry.nextLocal = u.carry.nextLocal
      /\ s.carry.gate = u.carry.gate /\ u \in State /\ s.fires = u.fires \cup later
      /\ s.launches = before \o u.launches
      /\ \A f \in u.fires : from <= f.tick /\ f.tick < window.end
  BY DEF Shadows
<1>4. u.carry \in Carry /\ u.launches \in Seq(Launch) /\ WellFormed(cfg) /\ before \in Seq(Launch)
      /\ window.start \in Nat
  BY <1>3 DEF State, Shadowing
<1>5. PICK x \in Launch : x = LaunchOf(cfg, u.carry, tick, id)
  BY <1>4, LaunchOfType
<1>6. x = LaunchOf(cfg, s.carry, tick, id) /\ RunOf(cfg, s.carry, tick) = RunOf(cfg, u.carry, tick)
  BY <1>3, <1>5 DEF LaunchOf, RunOf
<1>7. d.launches = before \o e.launches
  <2>1. before \o Append(u.launches, x) = Append(before \o u.launches, x)
    BY <1>4, <1>5, AppendAfter
  <2> QED
    BY <1>1, <1>2, <1>3, <1>5, <1>6, <2>1
<1>8. window.start <= e.carry.active.end
  <2>1. u.carry.nextLocal \in Nat
    BY <1>4, CarryFields
  <2>2. RunTicks(cfg, u.carry.nextLocal) \in Nat
    BY <1>4, <2>1, RunTicksType
  <2>3. e.carry.active.end = tick + RunTicks(cfg, u.carry.nextLocal)
    BY <1>2 DEF RunOf
  <2> QED
    BY <1>4, <2>2, <2>3
<1> QED
  BY <1>1, <1>2, <1>3, <1>6, <1>7, <1>8 DEF Shadows

\* Both take the same fire.
LEMMA BothTake ==
  ASSUME NEW cfg, NEW before, NEW later, NEW from, NEW window, NEW whole,
         Shadowing(cfg, before, later, from, window, whole),
         NEW s, NEW u, Shadows(before, later, from, window, s, u), NEW fire \in u.fires,
         NEW d, Took(cfg, s, fire, d), NEW e, Took(cfg, u, fire, e)
  PROVE  Shadows(before, later, from, window, d, e)
<1>1. s.carry.queued = u.carry.queued /\ s.carry.gate = u.carry.gate
      /\ s.carry.nextRun = u.carry.nextRun /\ s.carry.nextLocal = u.carry.nextLocal
      /\ u \in State /\ s \in State /\ s.fires = u.fires \cup later /\ s.launches = before \o u.launches
      /\ \A f \in u.fires : from <= f.tick /\ f.tick < window.end
      /\ (u.carry.active # None => window.start <= u.carry.active.end)
  BY DEF Shadows
<1>2. \/ s.carry.active = u.carry.active
      \/ /\ u.carry.active = None /\ u.carry.queued = None
         /\ s.carry.active # None /\ s.carry.active.end < from
  BY DEF Shadows
<1>3. fire \in WindowFire /\ fire.tick \in Nat /\ from <= fire.tick /\ fire.tick < window.end
      /\ from \in Nat /\ window.start \in Nat /\ window.start <= from
  BY <1>1 DEF State, WindowFire, Shadowing
<1>4. fire \notin later
  BY <1>3 DEF Shadowing, WindowFire
<1>5. Busy(s.carry, fire) <=> Busy(u.carry, fire)
  <2>1. CASE s.carry.active = u.carry.active
    BY <2>1 DEF Busy
  <2>2. CASE u.carry.active = None /\ s.carry.active # None /\ s.carry.active.end < from
    <3>1. s.carry.active.end \in Nat
      BY <1>1, <2>2, CarryFields DEF State, Run
    <3> QED
      BY <1>3, <2>2, <3>1 DEF Busy
  <2> QED
    BY <1>2, <2>1, <2>2
<1>6. PICK gated : gated = EvaluateGate(cfg.gate, u.carry.gate, fire)
  OBVIOUS
<1> DEFINE Drops == \/ ~gated.accept
                    \/ /\ Busy(u.carry, fire)
                       /\ cfg.reTrigger = "ignore" \/ (cfg.reTrigger = "queue" /\ u.carry.queued # None)
           Waits == gated.accept /\ Busy(u.carry, fire) /\ cfg.reTrigger = "queue" /\ u.carry.queued = None
<1>7. PICK q : /\ Taken(s, gated.state, fire, q)
               /\ Drops => d = q
               /\ Waits => Queued(q, Identity(fire), d)
               /\ ~Drops /\ ~Waits => Launches(cfg, q, fire.tick, Identity(fire), d)
  BY <1>1, <1>5, <1>6, Zenon DEF Took
<1>8. PICK r : /\ Taken(u, gated.state, fire, r)
               /\ Drops => e = r
               /\ Waits => Queued(r, Identity(fire), e)
               /\ ~Drops /\ ~Waits => Launches(cfg, r, fire.tick, Identity(fire), e)
  BY <1>6, Zenon DEF Took
<1>9. Shadows(before, later, from, window, q, r)
  <2>1. Taken(s, gated.state, fire, q) /\ Taken(u, gated.state, fire, r)
    BY <1>7, <1>8
  <2> HIDE DEF Drops, Waits
  <2>2. /\ q \in State /\ q.fires = s.fires \ {fire} /\ q.launches = s.launches
        /\ q.carry.active = s.carry.active /\ q.carry.queued = s.carry.queued
        /\ q.carry.nextRun = s.carry.nextRun /\ q.carry.nextLocal = s.carry.nextLocal
        /\ q.carry.gate = gated.state
    BY <2>1 DEF Taken
  <2>3. /\ r \in State /\ r.fires = u.fires \ {fire} /\ r.launches = u.launches
        /\ r.carry.active = u.carry.active /\ r.carry.queued = u.carry.queued
        /\ r.carry.nextRun = u.carry.nextRun /\ r.carry.nextLocal = u.carry.nextLocal
        /\ r.carry.gate = gated.state
    BY <2>1 DEF Taken
  <2>4. q.fires = r.fires \cup later
    BY <1>1, <1>4, <2>2, <2>3
  <2> QED
    BY <1>1, <1>2, <2>2, <2>3, <2>4 DEF Shadows
<1>10. Identity(fire) \in Id
  BY <1>3 DEF Identity, Id, WindowFire
<1>11. CASE Drops
  <2>1. d = q /\ e = r
    BY <1>7, <1>8, <1>11
  <2> QED
    BY <1>9, <2>1
<1>12. CASE Waits
  <2>1. Queued(q, Identity(fire), d) /\ Queued(r, Identity(fire), e)
    BY <1>7, <1>8, <1>12
  <2>2. q.carry.active = r.carry.active
    <3>1. Busy(u.carry, fire)
      BY <1>12
    <3>2. s.carry.active = u.carry.active
      BY <1>2, <3>1 DEF Busy
    <3> QED
      BY <1>7, <1>8, <3>2 DEF Taken
  <2> HIDE DEF Drops, Waits
  <2> QED
    BY <1>9, <2>1, <2>2 DEF Shadows, Queued
<1>13. CASE ~Drops /\ ~Waits
  <2>1. Launches(cfg, q, fire.tick, Identity(fire), d) /\ Launches(cfg, r, fire.tick, Identity(fire), e)
    BY <1>7, <1>8, <1>13
  <2>2. window.start <= fire.tick
    BY <1>3
  <2> HIDE DEF Drops, Waits
  <2> QED
    BY <1>3, <1>9, <1>10, <2>1, <2>2, BothLaunch
<1> QED
  BY <1>11, <1>12, <1>13

\* They release the queue together.
LEMMA BothRelease ==
  ASSUME NEW cfg, NEW before, NEW later, NEW from, NEW window, NEW whole,
         Shadowing(cfg, before, later, from, window, whole),
         NEW s, NEW u, Shadows(before, later, from, window, s, u), ~Done(u, window)
  PROVE  /\ Releases(s, whole) <=> Releases(u, window)
         /\ u.fires # {} => s.fires # {} /\ NextFire(s.fires) = NextFire(u.fires)
<1>1. /\ s.carry.queued = u.carry.queued /\ u \in State /\ s \in State /\ s.fires = u.fires \cup later
      /\ \A f \in u.fires : from <= f.tick /\ f.tick < window.end
      /\ (u.carry.active # None => window.start <= u.carry.active.end)
      /\ \/ s.carry.active = u.carry.active
         \/ /\ u.carry.active = None /\ u.carry.queued = None
            /\ s.carry.active # None /\ s.carry.active.end < from
  BY DEF Shadows
<1>2. u.fires \subseteq WindowFire /\ later \subseteq WindowFire
      /\ window.start \in Nat /\ window.end \in Nat /\ whole.start = 0 /\ whole.end \in Nat
      /\ window.end <= whole.end /\ \A f \in later : window.end <= f.tick
  BY <1>1 DEF State, Shadowing
<1>3. \A f \in WindowFire : f.tick \in Nat
  BY DEF WindowFire
<1>4. u.fires # {} => s.fires # {} /\ NextFire(s.fires) = NextFire(u.fires)
  <2>1. \A f \in u.fires : \A g \in later : f.tick < g.tick
    BY <1>1, <1>2, <1>3
  <2> QED
    BY <1>1, <1>2, <2>1, NextFireOfMore
<1>5. CASE u.carry.queued = None \/ u.carry.active = None
  BY <1>1, <1>4, <1>5 DEF Releases
<1>6. CASE u.carry.queued # None /\ u.carry.active # None
  <2>1. PICK end \in Nat : end = u.carry.active.end
    BY <1>1, <1>6, CarryFields DEF State, Run
  <2>2. s.carry.active = u.carry.active /\ window.start <= end
    BY <1>1, <1>6, <2>1
  <2>3. Releases(u, window) <=> end < window.end /\ (u.fires = {} \/ end <= NextFire(u.fires).tick)
    BY <1>6, <2>1, <2>2 DEF Releases
  <2>4. Releases(s, whole) <=> end < whole.end /\ (s.fires = {} \/ end <= NextFire(s.fires).tick)
    BY <1>1, <1>2, <1>6, <2>1, <2>2 DEF Releases
  <2>5. CASE u.fires # {}
    <3>1. PICK t : t = NextFire(u.fires).tick
      OBVIOUS
    <3>2. t \in Nat /\ t < window.end
      BY <1>1, <1>2, <1>3, <2>5, <3>1, NextFireIs
    <3>3. NextFire(s.fires).tick = t
      BY <1>4, <2>5, <3>1
    <3>4. Releases(u, window) <=> end <= t
      BY <1>2, <2>1, <2>3, <2>5, <3>1, <3>2
    <3>5. Releases(s, whole) <=> end <= t
      BY <1>2, <1>4, <2>1, <2>4, <2>5, <3>2, <3>3
    <3> QED
      BY <1>4, <3>4, <3>5
  <2>6. CASE u.fires = {}
    <3>1. Releases(u, window)
      BY <2>6 DEF Done
    <3>2. end < window.end /\ s.fires = later
      BY <1>1, <2>3, <2>6, <3>1
    <3>3. s.fires # {} => end <= NextFire(s.fires).tick
      <4>1. s.fires # {} => NextFire(s.fires) \in later
        BY <1>2, <3>2, NextFireIs
      <4>2. s.fires # {} => NextFire(s.fires).tick \in Nat /\ window.end <= NextFire(s.fires).tick
        BY <1>2, <1>3, <4>1
      <4>3. PICK t : t = NextFire(s.fires).tick
        OBVIOUS
      <4> QED
        BY <1>2, <2>1, <3>2, <4>2, <4>3
    <3>4. end < whole.end
      BY <1>2, <2>1, <3>2
    <3>5. Releases(s, whole)
      BY <2>4, <3>3, <3>4
    <3> QED
      BY <2>6, <3>1, <3>5
  <2> QED
    BY <2>5, <2>6
<1> QED
  BY <1>4, <1>5, <1>6

\* An iteration of both keeps the one in the shadow of the other.
LEMMA ShadowStep ==
  ASSUME NEW cfg, NEW before, NEW later, NEW from, NEW window, NEW whole,
         Shadowing(cfg, before, later, from, window, whole),
         NEW s, NEW u, Shadows(before, later, from, window, s, u), ~Done(u, window)
  PROVE  Shadows(before, later, from, window, CompileStep(cfg, s, whole), CompileStep(cfg, u, window))
<1>1. PICK d : d = CompileStep(cfg, s, whole)
  OBVIOUS
<1>2. PICK e : e = CompileStep(cfg, u, window)
  OBVIOUS
<1>3. s \in State /\ u \in State /\ WellFormed(cfg) /\ window.start \in Nat
  BY DEF Shadows, Shadowing
<1>4. CASE Releases(u, window)
  <2>1. Releases(s, whole)
    BY <1>4, BothRelease
  <2>2. PICK tick : tick = u.carry.active.end
    OBVIOUS
  <2>3. PICK id : id = u.carry.queued
    OBVIOUS
  <2>4. u.carry.active # None /\ u.carry.queued # None /\ window.start <= tick
    BY <1>4, <2>2 DEF Releases
  <2>5. tick \in Nat /\ id \in Id
    BY <1>3, <2>2, <2>3, <2>4, CarryFields DEF State, Run
  <2>6. s.carry.active.end = tick /\ s.carry.queued = id
    BY <2>2, <2>3, <2>4 DEF Shadows
  <2>7. d = Emit(cfg, [s EXCEPT !.carry.queued = None], tick, id)
    BY <1>1, <2>1, <2>6 DEF CompileStep
  <2>8. e = Emit(cfg, [u EXCEPT !.carry.queued = None], tick, id)
    BY <1>2, <1>4, <2>2, <2>3 DEF CompileStep
  <2>9. Launches(cfg, s, tick, id, d)
    BY <1>3, <2>5, <2>7, EmptyThenLaunch
  <2>10. Launches(cfg, u, tick, id, e)
    BY <1>3, <2>5, <2>8, EmptyThenLaunch
  <2>11. Shadows(before, later, from, window, d, e)
    BY <2>4, <2>5, <2>9, <2>10, BothLaunch
  <2> QED
    BY <1>1, <1>2, <2>11
<1>5. CASE ~Releases(u, window)
  <2>1. u.fires # {}
    BY <1>5 DEF Done
  <2>2. ~Releases(s, whole)
    BY <1>5, BothRelease
  <2>3. s.fires # {} /\ NextFire(s.fires) = NextFire(u.fires)
    BY <2>1, BothRelease
  <2>4. PICK fire : fire = NextFire(u.fires)
    OBVIOUS
  <2>5. fire \in u.fires
    BY <1>3, <2>1, <2>4, NextFireIs DEF State
  <2>6. Took(cfg, s, fire, d)
    <3>1. d = TakeFire(cfg, s)
      BY <1>1, <2>2, <2>3 DEF CompileStep
    <3> QED
      BY <1>3, <2>3, <2>4, <3>1, TakeFireIs
  <2>7. Took(cfg, u, fire, e)
    <3>1. e = TakeFire(cfg, u)
      BY <1>2, <1>5, <2>1 DEF CompileStep
    <3> QED
      BY <1>3, <2>1, <2>4, <3>1, TakeFireIs
  <2>8. Shadows(before, later, from, window, d, e)
    BY <2>5, <2>6, <2>7, BothTake
  <2> QED
    BY <1>1, <1>2, <2>8
<1> QED
  BY <1>4, <1>5

\* However far the loop in the shadow gets, the other gets there too.
LEMMA Followed ==
  ASSUME NEW cfg, NEW before, NEW later, NEW from, NEW window, NEW whole,
         Shadowing(cfg, before, later, from, window, whole), NEW b, NEW c, NEW m \in Nat,
         Shadows(before, later, from, window, Looped(cfg, b, whole, m), c), NEW n \in Nat
  PROVE  \E k \in Nat : Shadows(before, later, from, window, Looped(cfg, b, whole, k), Looped(cfg, c, window, n))
<1> DEFINE S == {i \in Nat : \E k \in Nat :
                   Shadows(before, later, from, window, Looped(cfg, b, whole, k), Looped(cfg, c, window, i))}
<1>1. 0 \in S
  <2>1. Looped(cfg, c, window, 0) = c
    BY LoopedNext
  <2> QED
    BY <2>1
<1>2. ASSUME NEW i \in Nat, i \in S
      PROVE  i + 1 \in S
  <2>1. PICK k \in Nat :
          Shadows(before, later, from, window, Looped(cfg, b, whole, k), Looped(cfg, c, window, i))
    BY <1>2
  <2>2. PICK u : u = Looped(cfg, c, window, i)
    OBVIOUS
  <2>3. PICK s : s = Looped(cfg, b, whole, k)
    OBVIOUS
  <2>4. Looped(cfg, c, window, i + 1) = CompileStep(cfg, u, window)
    BY <2>2, LoopedNext
  <2>5. Looped(cfg, b, whole, k + 1) = CompileStep(cfg, s, whole)
    BY <2>3, LoopedNext
  <2>6. CASE Done(u, window)
    <3>1. CompileStep(cfg, u, window) = u
      BY <2>6 DEF CompileStep, Done
    <3> QED
      BY <2>1, <2>2, <2>4, <3>1
  <2>7. CASE ~Done(u, window)
    <3>1. Shadows(before, later, from, window, s, u)
      BY <2>1, <2>2, <2>3
    <3>2. Shadows(before, later, from, window, CompileStep(cfg, s, whole), CompileStep(cfg, u, window))
      BY <2>7, <3>1, ShadowStep
    <3> QED
      BY <2>4, <2>5, <3>2
  <2> QED
    BY <2>6, <2>7
<1>3. n \in S
  <2> HIDE DEF S
  <2> QED
    BY <1>1, <1>2, Inductive
<1> QED
  BY <1>3

\* Where the windows end together, both loops are done.
LEMMA DoneTogether ==
  ASSUME NEW cfg, NEW before, NEW from, NEW window, NEW whole,
         Shadowing(cfg, before, {}, from, window, whole), whole.end = window.end,
         NEW s, NEW u, Shadows(before, {}, from, window, s, u), Done(u, window)
  PROVE  Done(s, whole)
<1>1. s.fires = {} /\ u.fires = {}
  BY DEF Shadows, Done
<1>2. ASSUME Releases(s, whole)
      PROVE  FALSE
  <2>1. s.carry.queued # None /\ s.carry.active # None /\ s.carry.active.end < window.end
    BY <1>2 DEF Releases
  <2>2. u.carry.active = s.carry.active /\ u.carry.queued = s.carry.queued
    BY <2>1 DEF Shadows
  <2>3. window.start <= u.carry.active.end
    BY <2>1, <2>2 DEF Shadows
  <2>4. Releases(u, window)
    BY <1>1, <2>1, <2>2, <2>3 DEF Releases
  <2> QED
    BY <2>4 DEF Done
<1> QED
  BY <1>1, <1>2 DEF Done

-----------------------------------------------------------------------------
(************************************************************************** *)
(* One compile                                                             *)
(************************************************************************** *)

\* A carry that knows its launches, and has got as far as a tick.
Carried(cfg, all, c, tick) ==
  /\ c \in Carry
  /\ Remembers(cfg, all, c) /\ InTurn(cfg, all) /\ Spaced(cfg, all, c)
  /\ Reached(cfg, all, c, tick)

\* The carry of a playback that begins knows that nothing is launched.
LEMMA FreshIsCarried ==
  ASSUME NEW cfg
  PROVE  /\ FreshCarry \in Carry /\ FreshCarry.active = None /\ FreshCarry.queued = None
         /\ FreshCarry.consumed = {} /\ Carried(cfg, <<>>, FreshCarry, 0)
<1>1. /\ FreshCarry \in Carry /\ FreshCarry.active = None /\ FreshCarry.queued = None
      /\ FreshCarry.nextRun = 0 /\ FreshCarry.nextLocal = 0 /\ FreshCarry.gate = NoAccept
      /\ FreshCarry.consumed = {}
  BY DEF FreshCarry, Carry, NoAccept, GateState
<1>2. Len(<<>>) = 0
  OBVIOUS
<1>3. Remembers(cfg, <<>>, FreshCarry)
  BY <1>1, <1>2 DEF Remembers
<1>4. InTurn(cfg, <<>>)
  BY <1>2 DEF InTurn
<1>5. Spaced(cfg, <<>>, FreshCarry)
  BY <1>1, <1>2 DEF Spaced, NoAccept
<1>6. Reached(cfg, <<>>, FreshCarry, 0)
  BY DEF Reached
<1> QED
  BY <1>1, <1>3, <1>4, <1>5, <1>6 DEF Carried

\* A launch ends no earlier than it starts.
LEMMA EndOfType ==
  ASSUME NEW cfg, WellFormed(cfg), NEW l \in Launch
  PROVE  EndOf(cfg, l) \in Nat /\ l.start <= EndOf(cfg, l)
<1>1. RunTicks(cfg, l.first) \in Nat /\ l.start \in Nat
  BY RunTicksType DEF Launch
<1> QED
  BY <1>1 DEF EndOf

\* What the loop begins with: nothing launched, each fire due ahead of all
\* launched, the others consumed already.
LEMMA OpenedKeeps ==
  ASSUME NEW cfg, WellFormed(cfg), NEW before \in Seq(Launch), NEW window, window.start \in Nat, window.end \in Nat,
         NEW placed, placed \subseteq PlacedFire, IsFiniteSet(placed), NEW from \in Nat, from <= window.end,
         NEW c, Carried(cfg, before, c, from),
         \A f \in Due(placed, c.consumed, window) : from <= f.tick,
         NEW begin, begin = Opened(placed, window, c)
  PROVE  /\ LoopInv(cfg, before, window.end, begin) /\ IsFiniteSet(begin.fires)
         /\ \A f \in placed : f.tick < window.end =>
              f \in begin.fires \/ Identity(f) \in begin.carry.consumed
<1> DEFINE due == Due(placed, c.consumed, window)
           past == {Identity(f) : f \in {f \in placed : f.tick < window.start}}
<1>1. PICK d : d = [c EXCEPT !.consumed = @ \cup past]
  OBVIOUS
<1>2. begin = [fires |-> due, launches |-> <<>>, carry |-> d]
  BY <1>1 DEF Opened
<1>3. \A f \in placed : f.tick \in Int /\ f.cycle \in Nat /\ f.beat \in Nat
  BY DEF PlacedFire
<1>4. past \subseteq Id
  BY <1>3 DEF Identity, Id
<1>5. due \subseteq WindowFire /\ IsFiniteSet(due) /\ \A f \in due : from <= f.tick /\ f.tick <= window.end
  <2>1. \A f \in due : f \in PlacedFire /\ window.start <= f.tick /\ f.tick < window.end
    BY DEF Due
  <2>2. due \subseteq WindowFire
    BY <1>3, <2>1 DEF PlacedFire, WindowFire
  <2>3. IsFiniteSet(due)
    BY FS_Subset DEF Due
  <2> HIDE DEF due
  <2> QED
    BY <2>1, <2>2, <2>3 DEF PlacedFire, due
<1>6. c \in Carry /\ Remembers(cfg, before, c) /\ InTurn(cfg, before) /\ Spaced(cfg, before, c)
      /\ Reached(cfg, before, c, from)
  BY DEF Carried
<1> HIDE DEF due, past
<1>7. /\ d \in Carry /\ d.active = c.active /\ d.queued = c.queued /\ d.nextRun = c.nextRun
      /\ d.nextLocal = c.nextLocal /\ d.gate = c.gate /\ d.consumed = c.consumed \cup past
  BY <1>1, <1>4, <1>6 DEF Carry
<1>8. begin \in State /\ begin.fires = due /\ begin.launches = <<>> /\ begin.carry = d
  <2>1. <<>> \in Seq(Launch)
    OBVIOUS
  <2> QED
    BY <1>2, <1>5, <1>7, <2>1 DEF State
<1>9. before \o begin.launches = before
  BY <1>8, ConcatEmptySeq
<1>10. Remembers(cfg, before, d) /\ Spaced(cfg, before, d)
  BY <1>6, <1>7 DEF Remembers, Spaced
<1>11. \A t \in Nat : from <= t => Reached(cfg, before, d, t)
  <2> SUFFICES ASSUME NEW t \in Nat, from <= t, before # <<>>
               PROVE  /\ before[Len(before)].start <= t
                      /\ d.active = None => EndOf(cfg, before[Len(before)]) <= t
    BY DEF Reached
  <2>1. before[Len(before)] \in Launch
    BY EmptySeq, ElementOfSeq
  <2>2. before[Len(before)].start \in Nat /\ before[Len(before)].start <= from
    BY <1>6, <2>1 DEF Launch, Reached
  <2>3. ASSUME d.active = None
        PROVE  EndOf(cfg, before[Len(before)]) <= t
    <3>1. EndOf(cfg, before[Len(before)]) <= from
      BY <1>6, <1>7, <2>3 DEF Reached
    <3>2. EndOf(cfg, before[Len(before)]) \in Nat
      BY <2>1, EndOfType
    <3> QED
      BY <3>1, <3>2
  <2> QED
    BY <2>2, <2>3
<1>12. \A f \in due : f.tick \in Nat
  BY <1>5 DEF WindowFire
<1>13. LoopInv(cfg, before, window.end, begin)
  BY <1>5, <1>6, <1>8, <1>9, <1>10, <1>11, <1>12 DEF LoopInv
<1>14. ASSUME NEW f \in placed, f.tick < window.end
       PROVE  f \in begin.fires \/ Identity(f) \in begin.carry.consumed
  <2>1. CASE f.tick < window.start
    BY <1>7, <1>8, <2>1 DEF past
  <2>2. CASE window.start <= f.tick
    BY <1>7, <1>8, <1>14, <2>2 DEF due, Due
  <2> QED
    BY <1>3, <2>1, <2>2
<1> QED
  BY <1>5, <1>8, <1>13, <1>14

\* A window closed: a run that ended in it is forgotten, and the identities of
\* cycles that are no longer seen.
LEMMA ClosedKeeps ==
  ASSUME NEW cfg, WellFormed(cfg), NEW before \in Seq(Launch), NEW window, window.end \in Nat,
         NEW s, LoopInv(cfg, before, window.end, s), NEW cycles,
         NEW c, c = [Canonical(s.carry, window) EXCEPT !.consumed = PruneConsumed(@, cycles)]
  PROVE  Carried(cfg, before \o s.launches, c, window.end)
<1>1. PICK all : all = before \o s.launches
  OBVIOUS
<1>2. /\ s.carry \in Carry /\ s.launches \in Seq(Launch)
      /\ Remembers(cfg, all, s.carry) /\ InTurn(cfg, all) /\ Spaced(cfg, all, s.carry)
      /\ Reached(cfg, all, s.carry, window.end)
  BY <1>1 DEF LoopInv, State
<1>3. all \in Seq(Launch)
  BY <1>1, <1>2, ConcatProperties
<1> DEFINE ended == s.carry.active # None /\ s.carry.active.end < window.end
<1>4. PICK d : d = Canonical(s.carry, window)
  OBVIOUS
<1>5. /\ d \in Carry /\ d.nextRun = s.carry.nextRun /\ d.nextLocal = s.carry.nextLocal
      /\ d.gate = s.carry.gate /\ d.consumed = s.carry.consumed
      /\ d.active = IF ended THEN None ELSE s.carry.active
      /\ d.queued = IF ended THEN None ELSE s.carry.queued
  BY <1>2, <1>4 DEF Canonical, Carry
<1>6. PruneConsumed(s.carry.consumed, cycles) \subseteq Id
  BY <1>2 DEF PruneConsumed, Carry
<1>7. PICK p \in SUBSET Id : p = PruneConsumed(s.carry.consumed, cycles)
  BY <1>6
<1>8. c = [d EXCEPT !.consumed = p]
  BY <1>4, <1>5, <1>7
<1>9. /\ c \in Carry /\ c.nextRun = d.nextRun /\ c.nextLocal = d.nextLocal
      /\ c.gate = d.gate /\ c.consumed = p /\ c.active = d.active /\ c.queued = d.queued
  BY <1>5, <1>7, <1>8 DEF Carry
<1>10. Remembers(cfg, all, c)
  BY <1>2, <1>5, <1>9 DEF Remembers
<1>11. Spaced(cfg, all, c)
  BY <1>2, <1>5, <1>9 DEF Spaced
<1>12. Reached(cfg, all, c, window.end)
  <2>1. CASE ended
    <3>1. s.carry.active.end = EndOf(cfg, all[Len(all)])
      BY <1>2, <2>1 DEF Remembers
    <3>2. s.carry.active.end \in Nat
      BY <1>2, <2>1, CarryFields DEF Run
    <3>3. EndOf(cfg, all[Len(all)]) <= window.end
      BY <2>1, <3>1, <3>2
    <3> QED
      BY <1>2, <3>3 DEF Reached
  <2>2. CASE ~ended
    BY <1>2, <1>5, <1>9, <2>2 DEF Reached
  <2> QED
    BY <2>1, <2>2
<1> QED
  BY <1>1, <1>2, <1>7, <1>9, <1>10, <1>11, <1>12 DEF Carried

\* Where a beat would launch, if it fires.
PlacedAt(cfg, c, b) ==
  [cycle |-> c.index, beat |-> b.beat,
   tick |-> LaunchTick(cfg, [cycle |-> c.index, cycleStart |-> c.start, beat |-> b.beat,
                             event |-> b.start, end |-> b.end, gati |-> b.gati,
                             return |-> {d.start : d \in {d \in c.beats : d.beat > b.beat /\ d.sounding}}])]

\* A fire is of one beat of one cycle.
LEMMA PlacedBeat ==
  ASSUME NEW cfg, NEW cycles, NEW f \in Placed(cfg, cycles)
  PROVE  \E c \in cycles : \E b \in c.beats : f = PlacedAt(cfg, c, b)
<1>1. PICK c \in cycles : \E x \in Fires(cfg.when, c) :
        f = [cycle |-> x.cycle, beat |-> x.beat, tick |-> LaunchTick(cfg, x)]
  BY DEF Placed
<1>2. PICK x \in Fires(cfg.when, c) :
        f = [cycle |-> x.cycle, beat |-> x.beat, tick |-> LaunchTick(cfg, x)]
  BY <1>1
<1>3. PICK b \in c.beats :
        x = [cycle |-> c.index, cycleStart |-> c.start, beat |-> b.beat,
             event |-> b.start, end |-> b.end, gati |-> b.gati,
             return |-> {d.start : d \in {d \in c.beats : d.beat > b.beat /\ d.sounding}}]
  BY DEF Fires
<1>4. x.cycle = c.index /\ x.beat = b.beat
  BY <1>3
<1>5. f = PlacedAt(cfg, c, b)
  BY <1>2, <1>3, <1>4, Zenon DEF PlacedAt
<1> QED
  BY <1>5

\* The fires of a cycle are its own.
LEMMA PlacedOf ==
  ASSUME NEW cfg, NEW cycles, NEW f \in Placed(cfg, cycles)
  PROVE  \E c \in cycles : f.cycle = c.index /\ f \in Placed(cfg, {c})
<1>1. PICK c \in cycles : \E x \in Fires(cfg.when, c) :
        f = [cycle |-> x.cycle, beat |-> x.beat, tick |-> LaunchTick(cfg, x)]
  BY DEF Placed
<1>2. PICK x \in Fires(cfg.when, c) :
        f = [cycle |-> x.cycle, beat |-> x.beat, tick |-> LaunchTick(cfg, x)]
  BY <1>1
<1>3. x.cycle = c.index
  BY <1>2 DEF Fires
<1>4. f \in Placed(cfg, {c})
  BY <1>2 DEF Placed
<1> QED
  BY <1>1, <1>2, <1>3, <1>4

\* A fire of one of the cycles is a fire of them all.
LEMMA PlacedGrows ==
  ASSUME NEW cfg, NEW cycles, NEW c \in cycles, NEW f \in Placed(cfg, {c})
  PROVE  f \in Placed(cfg, cycles)
<1>1. PICK x \in Fires(cfg.when, c) :
        f = [cycle |-> x.cycle, beat |-> x.beat, tick |-> LaunchTick(cfg, x)]
  BY DEF Placed
<1> QED
  BY <1>1 DEF Placed

\* What a window launches goes on from what was launched before it, and each
\* fire that lands before its end is consumed.
LEMMA CompileKeeps ==
  ASSUME NEW cfg, WellFormed(cfg), NEW before \in Seq(Launch),
         NEW cycles, cycles \subseteq ResolvedCycle, IsFiniteSet(cycles), \A c \in cycles : IsFiniteSet(c.beats),
         NEW window, window.start \in Nat, window.end \in Nat, NEW from \in Nat, from <= window.end,
         NEW carried, Carried(cfg, before, carried, from),
         \A f \in Due(Placed(cfg, cycles), carried.consumed, window) : from <= f.tick,
         NEW out, out = Compile(cfg, cycles, window, carried)
  PROVE  /\ out.launches \in Seq(Launch)
         /\ Carried(cfg, before \o out.launches, out.carry, window.end)
         /\ \A f \in Placed(cfg, cycles) : f.tick < window.end => Identity(f) \in out.carry.consumed
<1>1. PICK placed : placed = Placed(cfg, cycles)
  OBVIOUS
<1>2. placed \subseteq PlacedFire /\ IsFiniteSet(placed)
  BY <1>1, PlacedTyped, PlacedFinite
<1>3. PICK begin : begin = Opened(placed, window, carried)
  OBVIOUS
<1>4. /\ LoopInv(cfg, before, window.end, begin) /\ IsFiniteSet(begin.fires)
      /\ \A f \in placed : f.tick < window.end =>
           f \in begin.fires \/ Identity(f) \in begin.carry.consumed
  BY <1>1, <1>2, <1>3, OpenedKeeps
<1>5. PICK s : s = Looped(cfg, begin, window, 2 * Cardinality(begin.fires) + 8)
  OBVIOUS
<1>6. LoopInv(cfg, before, window.end, s) /\ AllTaken(begin, window, s)
  <2>1. IsFiniteSet(begin.fires) /\ LoopInv(cfg, before, window.end, begin)
    BY <1>4
  <2> QED
    BY <1>5, <2>1, LoopEnds, Zenon
<1>7. PICK c : c = [Canonical(s.carry, window) EXCEPT !.consumed = PruneConsumed(@, cycles)]
  OBVIOUS
<1>8. out = [launches |-> s.launches, carry |-> c]
  BY <1>1, <1>3, <1>5, <1>7 DEF Compile
<1>9. Carried(cfg, before \o s.launches, c, window.end) /\ c.consumed = PruneConsumed(s.carry.consumed, cycles)
  <2>1. LoopInv(cfg, before, window.end, s)
    BY <1>6
  <2>2. Carried(cfg, before \o s.launches, c, window.end)
    BY <1>7, <2>1, ClosedKeeps, Zenon
  <2>3. s.carry \in Carry
    BY <2>1 DEF LoopInv, State
  <2>4. PICK d : d = Canonical(s.carry, window)
    OBVIOUS
  <2>5. d \in Carry /\ d.consumed = s.carry.consumed
    BY <2>3, <2>4 DEF Canonical, Carry
  <2>6. c = [d EXCEPT !.consumed = PruneConsumed(d.consumed, cycles)]
    BY <1>7, <2>4
  <2>7. c.consumed = PruneConsumed(d.consumed, cycles)
    BY <2>5, <2>6 DEF Carry
  <2> QED
    BY <2>2, <2>5, <2>7
<1>10. s.launches \in Seq(Launch)
  BY <1>6 DEF LoopInv, State
<1>11. ASSUME NEW f \in placed, f.tick < window.end
       PROVE  Identity(f) \in c.consumed
  <2>1. Identity(f) \in s.carry.consumed
    BY <1>4, <1>6, <1>11 DEF AllTaken
  <2>2. PICK d \in cycles : f.cycle = d.index /\ f \in Placed(cfg, {d})
    <3>1. f \in Placed(cfg, cycles)
      BY <1>1
    <3> QED
      BY <3>1, PlacedOf, Zenon
  <2>3. d.index \in Nat /\ Identity(f).cycle = d.index
    BY <2>2 DEF ResolvedCycle, Identity
  <2> QED
    BY <1>9, <2>1, <2>3 DEF PruneConsumed
<1> QED
  BY <1>1, <1>8, <1>9, <1>10, <1>11

-----------------------------------------------------------------------------
(************************************************************************** *)
(* Two windows are one                                                     *)
(************************************************************************** *)

\* The loop of a window where it ends.
Ending(cfg, placed, window, c) ==
  Looped(cfg, Opened(placed, window, c), window, 2 * Cardinality(Opened(placed, window, c).fires) + 8)

\* What a carry tells of the launches to come, but for the fires consumed.
SameCarry(c, d) ==
  /\ c.active = d.active /\ c.queued = d.queued
  /\ c.nextRun = d.nextRun /\ c.nextLocal = d.nextLocal /\ c.gate = d.gate

\* A compile gives what its loop ends in, closed.
LEMMA CompileIs ==
  ASSUME NEW cfg, NEW cycles, NEW window, NEW c, NEW s, s = Ending(cfg, Placed(cfg, cycles), window, c),
         s \in State, NEW out, out = Compile(cfg, cycles, window, c)
  PROVE  out.launches = s.launches /\ SameCarry(out.carry, Canonical(s.carry, window))
<1>1. PICK begin : begin = Opened(Placed(cfg, cycles), window, c)
  OBVIOUS
<1>2. s = Looped(cfg, begin, window, 2 * Cardinality(begin.fires) + 8)
  BY <1>1 DEF Ending
<1>3. PICK d : d = Canonical(s.carry, window)
  OBVIOUS
<1>4. d \in Carry
  BY <1>3 DEF Canonical, State, Carry
<1>5. out = [launches |-> s.launches, carry |-> [d EXCEPT !.consumed = PruneConsumed(@, cycles)]]
  BY <1>1, <1>2, <1>3 DEF Compile
<1>6. SameCarry([d EXCEPT !.consumed = PruneConsumed(@, cycles)], d)
  BY <1>4 DEF SameCarry, Carry
<1> QED
  BY <1>3, <1>5, <1>6

\* A window of a playback is one its carry has got to.
Continues(cfg, before, from, placed, window, c) ==
  /\ WellFormed(cfg) /\ before \in Seq(Launch) /\ from \in Nat
  /\ placed \subseteq PlacedFire /\ IsFiniteSet(placed)
  /\ window.start \in Nat /\ window.end \in Nat /\ window.start <= from /\ from <= window.end
  /\ Carried(cfg, before, c, from)
  /\ \A f \in Due(placed, c.consumed, window) : from <= f.tick

\* What the loop of such a window begins with, and that it gets done.
LEMMA LoopOf ==
  ASSUME NEW cfg, NEW before, NEW from, NEW placed, NEW window, NEW c,
         Continues(cfg, before, from, placed, window, c),
         NEW begin, begin = Opened(placed, window, c), NEW s, s = Ending(cfg, placed, window, c)
  PROVE  /\ begin \in State /\ begin.fires = Due(placed, c.consumed, window) /\ begin.launches = <<>>
         /\ SameCarry(begin.carry, c)
         /\ s \in State /\ Done(s, window)
         /\ s.carry.consumed \subseteq begin.carry.consumed \cup Identities(begin.fires)
         /\ \E n \in Nat : s = Looped(cfg, begin, window, n)
<1>1. /\ WellFormed(cfg) /\ before \in Seq(Launch) /\ from \in Nat
      /\ placed \subseteq PlacedFire /\ IsFiniteSet(placed)
      /\ window.start \in Nat /\ window.end \in Nat /\ from <= window.end
      /\ Carried(cfg, before, c, from)
      /\ \A f \in Due(placed, c.consumed, window) : from <= f.tick
  BY DEF Continues
<1>2. LoopInv(cfg, before, window.end, begin)
  BY <1>1, OpenedKeeps
<1>3. IsFiniteSet(begin.fires)
  BY <1>1, OpenedKeeps
<1>4. s = Looped(cfg, begin, window, 2 * Cardinality(begin.fires) + 8)
  BY DEF Ending
<1>5. LoopInv(cfg, before, window.end, s) /\ AllTaken(begin, window, s)
  BY <1>1, <1>2, <1>3, <1>4, LoopEnds, Zenon
<1>6. 2 * Cardinality(begin.fires) + 8 \in Nat
  BY <1>3, FS_CardinalityType
<1>7. begin.fires = Due(placed, c.consumed, window) /\ begin.launches = <<>>
  BY DEF Opened
<1>8. SameCarry(begin.carry, c)
  <2>1. c \in Carry
    BY <1>1 DEF Carried
  <2> QED
    BY <2>1 DEF Opened, SameCarry, Carry
<1> QED
  BY <1>2, <1>4, <1>5, <1>6, <1>7, <1>8 DEF LoopInv, AllTaken

Landing(placed, from, until) == {f \in placed : from <= f.tick /\ f.tick < until}

\* A playback that begins goes on from nothing.
LEMMA WholeContinues ==
  ASSUME NEW cfg, WellFormed(cfg), NEW placed, placed \subseteq WindowFire, IsFiniteSet(placed),
         NEW w, w.start = 0, w.end \in Nat
  PROVE  /\ Continues(cfg, <<>>, 0, placed, w, FreshCarry)
         /\ Due(placed, FreshCarry.consumed, w) = Landing(placed, 0, w.end)
<1>1. FreshCarry.consumed = {} /\ Carried(cfg, <<>>, FreshCarry, 0)
  BY FreshIsCarried
<1>2. placed \subseteq PlacedFire /\ \A f \in placed : 0 <= f.tick
  BY DEF WindowFire, PlacedFire
<1>3. <<>> \in Seq(Launch)
  OBVIOUS
<1>4. Due(placed, FreshCarry.consumed, w) = Landing(placed, 0, w.end)
  BY <1>1 DEF Due, Landing
<1> QED
  BY <1>1, <1>2, <1>3, <1>4 DEF Continues, Landing

Span(end) == [start |-> 0, end |-> end]

\* A window that goes on from a span of the fires placed, with its carry.
Resumes(cfg, placed, before, from, seen, window, c) ==
  /\ placed \subseteq WindowFire /\ IsFiniteSet(placed)
  /\ Continues(cfg, before, from, seen, window, c)
  /\ Due(seen, c.consumed, window) = Landing(placed, from, window.end)
  /\ SameCarry(c, Canonical(Ending(cfg, placed, Span(from), FreshCarry).carry, Span(from)))

\* Loop y gives what loop x gives, and then z in its window.
Spliced(x, z, window, y) ==
  /\ y \in State /\ z \in State /\ y.launches = x.launches \o z.launches
  /\ SameCarry(Canonical(z.carry, window), Canonical(y.carry, Span(window.end)))

\* To compile a span up to a tick, and then a window that goes on from there,
\* is to compile it all at once.
LEMMA WindowsAssociate ==
  ASSUME NEW cfg, NEW placed, NEW before, NEW a, NEW seen, NEW window, NEW c,
         Resumes(cfg, placed, before, a, seen, window, c),
         NEW x, x = Ending(cfg, placed, Span(a), FreshCarry),
         NEW y, y = Ending(cfg, placed, Span(window.end), FreshCarry),
         NEW z, z = Ending(cfg, seen, window, c)
  PROVE  Spliced(x, z, window, y)
<1>1. /\ FreshCarry \in Carry /\ FreshCarry.active = None /\ FreshCarry.queued = None
      /\ FreshCarry.consumed = {} /\ Carried(cfg, <<>>, FreshCarry, 0)
  BY FreshIsCarried
<1>2. PICK e, v, first, whole : /\ e = window.end /\ v = window.start
                                 /\ first = Span(a) /\ whole = Span(e)
  OBVIOUS
<1>3. /\ placed \subseteq WindowFire /\ IsFiniteSet(placed)
       /\ Continues(cfg, before, a, seen, window, c)
       /\ Due(seen, c.consumed, window) = Landing(placed, a, e)
       /\ SameCarry(c, Canonical(x.carry, first))
  BY <1>2 DEF Resumes
<1>4. a \in Nat /\ e \in Nat /\ a <= e /\ v \in Nat /\ v <= a
  BY <1>2, <1>3 DEF Continues
<1>5. /\ x = Ending(cfg, placed, first, FreshCarry) /\ y = Ending(cfg, placed, whole, FreshCarry)
       /\ z = Ending(cfg, seen, window, c)
  BY <1>2
<1>6. WellFormed(cfg) /\ window.start = v /\ window.end = e /\ first.start = 0 /\ first.end = a
      /\ whole.start = 0 /\ whole.end = e
  BY <1>2, <1>3 DEF Continues, Span
<1>7. ASSUME NEW w, w.start = 0, w.end \in Nat
      PROVE  /\ Continues(cfg, <<>>, 0, placed, w, FreshCarry)
             /\ Due(placed, FreshCarry.consumed, w) = Landing(placed, 0, w.end)
  BY <1>6, <1>7, <1>3, WholeContinues
<1>8. PICK begin : begin = Opened(placed, first, FreshCarry)
  OBVIOUS
<1>9. PICK b : b = Opened(placed, whole, FreshCarry)
  OBVIOUS
<1>10. PICK d : d = Opened(seen, window, c)
  OBVIOUS
<1>11. /\ begin \in State /\ begin.fires = Landing(placed, 0, a) /\ begin.launches = <<>>
      /\ SameCarry(begin.carry, FreshCarry) /\ x \in State /\ Done(x, first)
  BY <1>6, <1>7, <1>8, <1>4, <1>5, LoopOf
<1>12. PICK n \in Nat : x = Looped(cfg, begin, first, n)
  BY <1>6, <1>7, <1>8, <1>4, <1>5, LoopOf
<1>13. /\ b \in State /\ b.fires = Landing(placed, 0, e) /\ b.launches = <<>>
      /\ SameCarry(b.carry, FreshCarry) /\ y \in State /\ Done(y, whole)
  BY <1>6, <1>7, <1>9, <1>4, <1>5, LoopOf
<1>14. PICK m \in Nat : y = Looped(cfg, b, whole, m)
  BY <1>6, <1>7, <1>9, <1>4, <1>5, LoopOf
<1>15. /\ d \in State /\ d.fires = Landing(placed, a, e) /\ d.launches = <<>>
       /\ SameCarry(d.carry, c) /\ z \in State /\ Done(z, window)
  BY <1>10, <1>3, <1>5, LoopOf
<1>16. PICK o \in Nat : z = Looped(cfg, d, window, o)
  BY <1>10, <1>3, <1>5, LoopOf
<1>17. PICK later : later = Landing(placed, a, e)
  OBVIOUS
<1>18. /\ later \subseteq WindowFire /\ \A f \in later : a <= f.tick /\ f.tick < e
       /\ Landing(placed, 0, e) = Landing(placed, 0, a) \cup later
       /\ \A f \in Landing(placed, 0, a) : 0 <= f.tick /\ f.tick < a
  BY <1>17, <1>3, <1>4 DEF Landing, WindowFire
<1>19. x.launches \in Seq(Launch) /\ x.carry \in Carry
  BY <1>11 DEF State
<1>20. Shadowing(cfg, <<>>, later, 0, first, whole)
  BY <1>6, <1>18, <1>4 DEF Shadowing
<1>21. Shadows(<<>>, later, 0, first, b, begin)
  <2>1. b.fires = begin.fires \cup later /\ \A f \in begin.fires : 0 <= f.tick /\ f.tick < a
    BY <1>11, <1>13, <1>18
  <2>2. b.launches = <<>> \o begin.launches
    BY <1>11, <1>13
  <2> QED
    BY <1>1, <1>6, <1>11, <1>13, <2>1, <2>2 DEF Shadows, SameCarry
<1>22. PICK k \in Nat : Shadows(<<>>, later, 0, first, Looped(cfg, b, whole, k), x)
  <2>1. Looped(cfg, b, whole, 0) = b
    BY LoopedNext
  <2> QED
    BY <1>12, <1>20, <1>21, <2>1, Followed
<1>23. PICK s : s = Looped(cfg, b, whole, k)
  OBVIOUS
<1>24. /\ s \in State /\ s.fires = later /\ s.launches = x.launches
       /\ SameCarry(s.carry, x.carry)
  <2>1. /\ s \in State /\ s.fires = x.fires \cup later /\ s.launches = <<>> \o x.launches
        /\ s.carry.queued = x.carry.queued /\ s.carry.gate = x.carry.gate
        /\ s.carry.nextRun = x.carry.nextRun /\ s.carry.nextLocal = x.carry.nextLocal
        /\ s.carry.active = x.carry.active \/ (s.carry.active # None /\ s.carry.active.end < 0)
    BY <1>22, <1>23 DEF Shadows
  <2>2. s.carry.active # None => s.carry.active.end \in Nat
    BY <2>1, CarryFields DEF State, Run
  <2>3. x.fires = {}
    BY <1>11 DEF Done
  <2>4. <<>> \o x.launches = x.launches
    BY <1>19, ConcatEmptySeq
  <2> QED
    BY <2>1, <2>2, <2>3, <2>4 DEF SameCarry
<1>25. Shadowing(cfg, x.launches, {}, a, window, whole)
  BY <1>6, <1>19, <1>4 DEF Shadowing
<1>26. \/ c.active = x.carry.active /\ c.queued = x.carry.queued
          /\ (x.carry.active # None => v <= x.carry.active.end)
       \/ /\ c.active = None /\ c.queued = None /\ x.carry.queued = None
          /\ x.carry.active # None /\ x.carry.active.end < a
  <2>1. x.carry.active # None => x.carry.active.end \in Nat
    BY <1>19, CarryFields DEF Run
  <2>2. CASE x.carry.active # None /\ x.carry.active.end < a
    <3>1. x.carry.queued = None
      BY <1>6, <1>11, <1>4, <2>1, <2>2 DEF Done, Releases
    <3>2. c.active = None /\ c.queued = None
      BY <1>6, <1>19, <1>3, <2>2 DEF Canonical, SameCarry, Carry
    <3> QED
      BY <2>2, <3>1, <3>2
  <2>3. CASE ~(x.carry.active # None /\ x.carry.active.end < a)
    <3>1. c.active = x.carry.active /\ c.queued = x.carry.queued
      BY <1>6, <1>3, <2>3 DEF Canonical, SameCarry
    <3> QED
      BY <1>4, <2>1, <2>3, <3>1
  <2> QED
    BY <2>2, <2>3
<1>27. c.nextRun = x.carry.nextRun /\ c.nextLocal = x.carry.nextLocal /\ c.gate = x.carry.gate
  BY <1>19, <1>3 DEF Canonical, SameCarry, Carry
<1>28. Shadows(x.launches, {}, a, window, s, d)
  <2>1. s.launches = x.launches \o d.launches
    BY <1>15, <1>19, <1>24, ConcatEmptySeq
  <2>2. s.fires = d.fires \cup {} /\ \A f \in d.fires : a <= f.tick /\ f.tick < e
    BY <1>15, <1>17, <1>18, <1>24
  <2>3. s.carry.queued = d.carry.queued /\ s.carry.gate = d.carry.gate
        /\ s.carry.nextRun = d.carry.nextRun /\ s.carry.nextLocal = d.carry.nextLocal
        /\ (d.carry.active # None => v <= d.carry.active.end)
        /\ \/ s.carry.active = d.carry.active
           \/ /\ d.carry.active = None /\ d.carry.queued = None
              /\ s.carry.active # None /\ s.carry.active.end < a
    BY <1>15, <1>24, <1>26, <1>27 DEF SameCarry
  <2> QED
    BY <1>6, <1>15, <1>24, <2>1, <2>2, <2>3 DEF Shadows
<1>29. PICK l \in Nat : Shadows(x.launches, {}, a, window, Looped(cfg, b, whole, l), z)
  BY <1>16, <1>23, <1>25, <1>28, Followed
<1>30. Shadows(x.launches, {}, a, window, y, z)
  <2>1. Done(Looped(cfg, b, whole, l), whole)
    BY <1>6, <1>15, <1>25, <1>29, DoneTogether
  <2>2. y = Looped(cfg, b, whole, l)
    BY <1>13, <1>14, <2>1, DoneOnce
  <2> QED
    BY <1>29, <2>2
<1>31. SameCarry(Canonical(z.carry, window), Canonical(y.carry, whole))
  <2>1. /\ y.carry.queued = z.carry.queued /\ y.carry.gate = z.carry.gate
        /\ y.carry.nextRun = z.carry.nextRun /\ y.carry.nextLocal = z.carry.nextLocal
        /\ \/ y.carry.active = z.carry.active
           \/ /\ z.carry.active = None /\ z.carry.queued = None
              /\ y.carry.active # None /\ y.carry.active.end < a
    BY <1>30 DEF Shadows
  <2>2. y.carry \in Carry /\ z.carry \in Carry
    BY <1>13, <1>15 DEF State
  <2>3. CASE y.carry.active = z.carry.active
    BY <1>6, <2>1, <2>2, <2>3 DEF Canonical, SameCarry, Carry
  <2>4. CASE /\ z.carry.active = None /\ z.carry.queued = None
             /\ y.carry.active # None /\ y.carry.active.end < a
    <3>1. y.carry.active.end \in Nat
      BY <2>2, <2>4, CarryFields DEF Run
    <3>2. y.carry.active.end < e
      BY <1>4, <2>4, <3>1
    <3> QED
      BY <1>6, <2>1, <2>2, <2>4, <3>2 DEF Canonical, SameCarry, Carry
  <2> QED
    BY <2>1, <2>3, <2>4
<1> QED
  BY <1>11, <1>13, <1>15, <1>30, <1>31, <1>2 DEF Shadows, Spliced

\* A window consumes no fire that lands behind it.
LEMMA WindowConsumes ==
  ASSUME NEW cfg, NEW cycles, NEW window, NEW before, NEW from, NEW c,
         Continues(cfg, before, from, Placed(cfg, cycles), window, c),
         NEW out, out = Compile(cfg, cycles, window, c)
  PROVE  out.carry.consumed \subseteq
           c.consumed \cup Identities({f \in Placed(cfg, cycles) : f.tick < window.end})
<1>1. PICK placed : placed = Placed(cfg, cycles)
  OBVIOUS
<1>2. PICK begin : begin = Opened(placed, window, c)
  OBVIOUS
<1>3. PICK s : s = Ending(cfg, placed, window, c)
  OBVIOUS
<1>4. /\ s \in State /\ s.carry.consumed \subseteq begin.carry.consumed \cup Identities(begin.fires)
      /\ begin.fires = Due(placed, c.consumed, window)
  BY <1>1, <1>2, <1>3, LoopOf
<1>5. begin.carry.consumed = c.consumed \cup Identities({f \in placed : f.tick < window.start})
  <2>1. c \in Carry
    BY DEF Continues, Carried
  <2> QED
    BY <1>2, <2>1 DEF Opened, Carry, Identities
<1>6. out.carry.consumed \subseteq s.carry.consumed
  <2>1. PICK d : d = Canonical(s.carry, window)
    OBVIOUS
  <2>2. d \in Carry /\ d.consumed = s.carry.consumed
    BY <1>4, <2>1 DEF Canonical, State, Carry
  <2>3. out.carry = [d EXCEPT !.consumed = PruneConsumed(@, cycles)]
    BY <1>1, <1>3, <2>1 DEF Compile, Ending
  <2>4. out.carry.consumed = PruneConsumed(d.consumed, cycles)
    BY <2>2, <2>3 DEF Carry
  <2> QED
    BY <2>2, <2>4 DEF PruneConsumed
<1>7. \A f \in placed : f.tick \in Int
  BY <1>1 DEF Continues, PlacedFire
<1>8. window.start \in Nat /\ window.end \in Nat /\ window.start <= window.end
  BY DEF Continues
<1>9. Identities({f \in placed : f.tick < window.start}) \subseteq Identities({f \in placed : f.tick < window.end})
  BY <1>7, <1>8 DEF Identities
<1>10. Identities(begin.fires) \subseteq Identities({f \in placed : f.tick < window.end})
  BY <1>4 DEF Identities, Due
<1> QED
  BY <1>1, <1>4, <1>5, <1>6, <1>9, <1>10

-----------------------------------------------------------------------------
(************************************************************************** *)
(* A lane's walk                                                           *)
(************************************************************************** *)

States(members) == 0 .. members - 1

WalkState(members) ==
  [draws : Nat, history : Seq(States(members)), pending : Seq(States(members))]

\* A weighted choice gives one of the values.
LEMMA WeightedChoiceIs ==
  ASSUME NEW V, NEW options, NEW N \in Nat, Len(options) = N, DOMAIN options = 1 .. N,
         \A n \in 1 .. N : options[n].value \in V /\ options[n].weight \in Nat,
         NEW seed \in Nat, NEW draws \in Nat, NEW otherwise \in V,
         NEW w, w = WeightedChoice(options, seed, draws, otherwise)
  PROVE  w.value \in V /\ w.draws \in Nat /\ w.drawn \in BOOLEAN
<1> DEFINE g == [n \in 1 .. N |-> options[n].weight]
           upTo[n \in 0 .. Len(options)] ==
             IF n = 0 THEN 0 ELSE upTo[n - 1] + options[n].weight
           total == upTo[Len(options)]
           rank == seed + ((draws + 1) * (draws + 2)) \div 2
           pick == rank % total
           passed == {n \in DOMAIN options : pick < upTo[n]}
<1>1. \A n \in 1 .. N : g[n] \in Nat
  OBVIOUS
<1>2. PICK f : /\ f = [n \in 0 .. N |-> IF n = 0 THEN 0 ELSE f[n - 1] + g[n]]
               /\ \A n \in 0 .. N : f[n] \in Nat
  <2> HIDE DEF g
  <2> QED
    BY <1>1, SumDefined, ZenonT(60)
<1>3. f = [n \in 0 .. Len(options) |-> IF n = 0 THEN 0 ELSE f[n - 1] + options[n].weight]
  <2>1. \A n \in 0 .. N : n # 0 => n \in 1 .. N
    OBVIOUS
  <2> QED
    BY <1>2, <2>1
<1>4. upTo = [n \in 0 .. Len(options) |-> IF n = 0 THEN 0 ELSE upTo[n - 1] + options[n].weight]
  <2> HIDE DEF g
  <2> QED
    BY <1>3
<1> HIDE DEF upTo
<1>5. \A n \in 0 .. N : upTo[n] = IF n = 0 THEN 0 ELSE upTo[n - 1] + g[n]
  <2>1. \A n \in 0 .. N : n # 0 => n \in 1 .. N
    OBVIOUS
  <2> QED
    BY <1>4, <2>1
<1>6. \A n \in 0 .. N : upTo[n] \in Nat
  <2> HIDE DEF g
  <2> QED
    BY <1>1, <1>5, SumType
<1>7. total \in Nat
  BY <1>6
<1>8. CASE total = 0
  BY <1>8 DEF WeightedChoice, upTo
<1>9. CASE total # 0
  <2>1. rank \in Nat
    <3>1. (draws + 1) * (draws + 2) \in Nat
      OBVIOUS
    <3> QED
      BY <3>1, QuotientType
  <2>2. pick \in Nat /\ pick < total
    <3> HIDE DEF total, rank
    <3> QED
      BY <1>7, <1>9, <2>1, RemainderType
  <2>3. N # 0
    <3>1. 0 \in 0 .. N
      OBVIOUS
    <3>2. upTo[0] = 0
      BY <1>5, <3>1
    <3> QED
      BY <1>9, <3>2
  <2>4. N \in passed
    BY <2>2, <2>3
  <2>5. passed \subseteq Nat
    OBVIOUS
  <2>6. Min(passed) \in passed
    <3> HIDE DEF passed
    <3> QED
      BY <2>4, <2>5, MinIs
  <2>7. options[Min(passed)].value \in V
    BY <2>6
  <2>8. w = [value |-> options[Min(passed)].value, draws |-> draws + 1, drawn |-> TRUE]
    BY ZenonT(30), <1>9 DEF WeightedChoice, upTo
  <2> HIDE DEF total, pick, passed
  <2> QED
    BY <2>7, <2>8
<1> QED
  BY <1>8, <1>9

\* An entry is a context: not empty, of states.
LEMMA EntryStatesAre ==
  ASSUME NEW spec, NEW k \in Nat \ {0}, ValidSpec(spec, k), NEW w \in WalkState(k),
         NEW e, e = EntryStates(spec, w)
  PROVE  e.value \in Seq(States(k)) /\ e.value # <<>> /\ e.draws \in Nat
<1> DEFINE Contexts == [1 .. spec.order -> States(k)]
           otherwise == [n \in 1 .. spec.order |-> spec.fallback]
<1>1. /\ spec.order \in 1 .. 2 /\ spec.seed \in Nat /\ spec.fallback \in States(k)
      /\ spec.entries \in Seq([value : Contexts, weight : Nat]) /\ w.draws \in Nat
  BY DEF ValidSpec, States, WalkState
<1>2. Len(spec.entries) \in Nat /\ DOMAIN spec.entries = 1 .. Len(spec.entries)
  BY <1>1, LenProperties
<1>3. ASSUME NEW n \in 1 .. Len(spec.entries)
      PROVE  spec.entries[n].value \in Contexts /\ spec.entries[n].weight \in Nat
  <2>1. spec.entries[n] \in [value : Contexts, weight : Nat]
    <3> HIDE DEF Contexts
    <3> QED
      BY <1>1, ElementOfSeq
  <2> QED
    BY <2>1
<1>4. otherwise \in Contexts
  BY <1>1
<1>5. e = WeightedChoice(spec.entries, spec.seed, w.draws, otherwise)
  BY DEF EntryStates
<1>6. e.value \in Contexts /\ e.draws \in Nat
  <2>1. PICK V : V = Contexts
    OBVIOUS
  <2>2. PICK N \in Nat : N = Len(spec.entries)
    BY <1>2
  <2>3. \A n \in 1 .. N : spec.entries[n].value \in V /\ spec.entries[n].weight \in Nat
    BY <1>3, <2>1, <2>2
  <2>4. PICK o \in V : o = otherwise
    BY <1>4, <2>1
  <2>5. /\ N \in Nat /\ o \in V
        /\ Len(spec.entries) = N /\ DOMAIN spec.entries = 1 .. N
        /\ spec.seed \in Nat /\ w.draws \in Nat
    BY <1>1, <1>2, <2>2, <2>4
  <2>6. PICK x : x = WeightedChoice(spec.entries, spec.seed, w.draws, o)
    OBVIOUS
  <2>7. x.value \in V /\ x.draws \in Nat
    <3> HIDE DEF Contexts, otherwise
    <3> QED
      BY <2>3, <2>5, <2>6, WeightedChoiceIs
  <2> QED
    BY <1>5, <2>1, <2>4, <2>6, <2>7
<1>7. e.value \in Seq(States(k)) /\ Len(e.value) = spec.order
  <2>1. spec.order \in Nat
    BY <1>1
  <2> QED
    BY <1>6, <2>1
<1> QED
  BY <1>1, <1>6, <1>7, EmptySeq

\* So is the state that follows a context, and the fallback.
LEMMA NextStateIs ==
  ASSUME NEW spec, NEW k \in Nat \ {0}, ValidSpec(spec, k), NEW w \in WalkState(k),
         NEW e, e = NextState(spec, w)
  PROVE  e.value \in States(k) /\ e.draws \in Nat
<1> DEFINE Contexts == [1 .. spec.order -> States(k)]
           Transition == [from : Contexts, value : States(k), weight : Nat]
           context == SubSeq(w.history, Len(w.history) - spec.order + 1, Len(w.history))
           Weighted(t) == [t EXCEPT !.weight = IF t.from = context THEN @ ELSE 0]
           onward == [n \in DOMAIN spec.transitions |-> Weighted(spec.transitions[n])]
           step == WeightedChoice(onward, spec.seed, w.draws, spec.fallback)
           last == WeightedChoice(spec.fallbacks, spec.seed, step.draws, spec.fallback)
<1>1. /\ spec.seed \in Nat /\ spec.fallback \in States(k) /\ w.draws \in Nat
      /\ spec.fallbacks \in Seq([value : States(k), weight : Nat])
      /\ spec.transitions \in Seq(Transition)
  BY DEF ValidSpec, States, WalkState
<1>2. PICK N \in Nat : N = Len(spec.transitions) /\ DOMAIN spec.transitions = 1 .. N
  <2> HIDE DEF Transition
  <2> QED
    BY <1>1, LenProperties
<1>3. ASSUME NEW n \in 1 .. N
      PROVE  onward[n].value \in States(k) /\ onward[n].weight \in Nat
  <2>1. PICK t \in Transition : t = spec.transitions[n]
    <3> HIDE DEF Transition
    <3> QED
      BY <1>1, <1>2, ElementOfSeq
  <2>2. Weighted(t).value \in States(k) /\ Weighted(t).weight \in Nat
    <3> HIDE DEF context, Contexts
    <3> QED
      OBVIOUS
  <2> HIDE DEF Weighted
  <2> QED
    BY <1>2, <2>1, <2>2
<1>4. Len(onward) = N /\ DOMAIN onward = 1 .. N
  <2> HIDE DEF Weighted
  <2> QED
    BY <1>2
<1> HIDE DEF onward
<1>5. step.value \in States(k) /\ step.draws \in Nat
  BY <1>1, <1>3, <1>4, WeightedChoiceIs
<1>6. Len(spec.fallbacks) \in Nat /\ DOMAIN spec.fallbacks = 1 .. Len(spec.fallbacks)
  BY <1>1, LenProperties
<1>7. ASSUME NEW n \in 1 .. Len(spec.fallbacks)
      PROVE  spec.fallbacks[n].value \in States(k) /\ spec.fallbacks[n].weight \in Nat
  <2>1. spec.fallbacks[n] \in [value : States(k), weight : Nat]
    BY <1>1, <1>7, ElementOfSeq
  <2> QED
    BY <2>1
<1> HIDE DEF step
<1>8. last.value \in States(k) /\ last.draws \in Nat
  BY <1>1, <1>5, <1>6, <1>7, WeightedChoiceIs
<1> HIDE DEF last
<1>9. e = [value |-> IF step.drawn THEN step.value ELSE last.value, draws |-> last.draws]
  BY DEF NextState, step, onward, last
<1> QED
  BY <1>5, <1>8, <1>9

\* A choice is a state, and the walk's history grows by it.
LEMMA ChooseIs ==
  ASSUME NEW spec, NEW k \in Nat \ {0}, ValidSpec(spec, k), NEW w \in WalkState(k),
         NEW c, c = Choose(spec, w)
  PROVE  /\ c.state \in States(k) /\ c.walk \in WalkState(k)
         /\ c.walk.history = Append(w.history, c.state)
<1> DEFINE entry == IF w.pending # <<>> THEN [value |-> w.pending, draws |-> w.draws]
                    ELSE EntryStates(spec, w)
<1>1. w.draws \in Nat /\ w.history \in Seq(States(k)) /\ w.pending \in Seq(States(k))
  BY DEF WalkState
<1>2. entry.value \in Seq(States(k)) /\ entry.value # <<>> /\ entry.draws \in Nat
  BY <1>1, EntryStatesAre
<1> HIDE DEF entry
<1>3. Head(entry.value) \in States(k) /\ Tail(entry.value) \in Seq(States(k))
  BY <1>2, HeadTailProperties
<1>4. NextState(spec, w).value \in States(k) /\ NextState(spec, w).draws \in Nat
  BY NextStateIs
<1>5. PICK step : step = IF Len(w.history) < spec.order
                         THEN [value |-> Head(entry.value), draws |-> entry.draws]
                         ELSE NextState(spec, w)
  OBVIOUS
<1>6. step.value \in States(k) /\ step.draws \in Nat
  BY <1>2, <1>3, <1>4, <1>5
<1>7. PICK rest \in Seq(States(k)) : rest = IF Len(w.history) < spec.order THEN Tail(entry.value) ELSE <<>>
  BY <1>3, EmptySeq
<1>8. c = [state |-> step.value,
           walk |-> [draws |-> step.draws, history |-> Append(w.history, step.value), pending |-> rest]]
  BY <1>5, <1>7 DEF Choose, entry
<1>9. Append(w.history, step.value) \in Seq(States(k))
  BY <1>1, <1>6, AppendProperties
<1> QED
  BY <1>6, <1>8, <1>9 DEF WalkState

\* A walk, choice by choice.
LEMMA WalkIs ==
  ASSUME NEW spec, NEW count \in Nat
  PROVE  \E f : /\ f[0] = FreshWalk
                /\ \A n \in 1 .. count : f[n] = Choose(spec, f[n - 1]).walk
                /\ f[count] = Walk(spec, count)
<1> DEFINE Iterates(N, f) ==
             f = [n \in 0 .. N |-> IF n = 0 THEN FreshWalk ELSE Choose(spec, f[n - 1]).walk]
           S == {N \in Nat : \E f : Iterates(N, f)}
<1>1. 0 \in S
  <2>1. Iterates(0, [n \in 0 .. 0 |-> FreshWalk])
    OBVIOUS
  <2> QED
    BY <2>1
<1>2. ASSUME NEW N \in Nat, N \in S
      PROVE  N + 1 \in S
  <2>1. PICK f : Iterates(N, f)
    BY <1>2
  <2> DEFINE h == [n \in 0 .. N + 1 |-> IF n = N + 1 THEN Choose(spec, f[N]).walk ELSE f[n]]
  <2>2. \A n \in 0 .. N : n \in 0 .. N + 1 /\ n # N + 1 /\ h[n] = f[n]
    OBVIOUS
  <2>3. h[N + 1] = Choose(spec, f[N]).walk
    OBVIOUS
  <2>4. ASSUME NEW n \in 0 .. N + 1
        PROVE  h[n] = IF n = 0 THEN FreshWalk ELSE Choose(spec, h[n - 1]).walk
    <3>1. CASE n = N + 1
      <4>1. n # 0 /\ n - 1 = N /\ h[N] = f[N]
        BY <2>2, <3>1
      <4> HIDE DEF h
      <4> QED
        BY <2>3, <3>1, <4>1
    <3>2. CASE n \in 0 .. N /\ n # 0
      <4>1. n - 1 \in 0 .. N
        BY <3>2
      <4>2. f[n] = Choose(spec, f[n - 1]).walk
        BY <2>1, <3>2
      <4> HIDE DEF h
      <4> QED
        BY <2>2, <3>2, <4>1, <4>2
    <3>3. CASE n = 0
      <4>1. f[0] = FreshWalk /\ 0 \in 0 .. N
        BY <2>1
      <4> HIDE DEF h
      <4> QED
        BY <2>2, <3>3, <4>1
    <3> QED
      BY <3>1, <3>2, <3>3
  <2>5. Iterates(N + 1, h)
    <3>1. h = [n \in 0 .. N + 1 |-> h[n]]
      OBVIOUS
    <3> HIDE DEF h
    <3> QED
      BY <2>4, <3>1
  <2> HIDE DEF h
  <2> QED
    BY <2>5
<1>3. count \in S
  <2> HIDE DEF S
  <2> QED
    BY <1>1, <1>2, Inductive
<1> DEFINE walk[n \in 0 .. count] == IF n = 0 THEN FreshWalk ELSE Choose(spec, walk[n - 1]).walk
<1>4. walk = [n \in 0 .. count |-> IF n = 0 THEN FreshWalk ELSE Choose(spec, walk[n - 1]).walk]
  BY <1>3
<1>5. walk[count] = Walk(spec, count)
  BY DEF Walk
<1> HIDE DEF walk
<1>6. walk[0] = FreshWalk /\ \A n \in 1 .. count : walk[n] = Choose(spec, walk[n - 1]).walk
  BY <1>4
<1> QED
  BY <1>5, <1>6

\* One choice more.
LEMMA WalkNext ==
  ASSUME NEW spec, NEW n \in Nat
  PROVE  /\ Walk(spec, 0) = FreshWalk
         /\ Walk(spec, n + 1) = Choose(spec, Walk(spec, n)).walk
<1>1. PICK f : /\ f[0] = FreshWalk
               /\ \A k \in 1 .. n : f[k] = Choose(spec, f[k - 1]).walk
               /\ f[n] = Walk(spec, n)
  BY WalkIs
<1>2. PICK g : /\ g[0] = FreshWalk
               /\ \A k \in 1 .. n + 1 : g[k] = Choose(spec, g[k - 1]).walk
               /\ g[n + 1] = Walk(spec, n + 1)
  <2>1. n + 1 \in Nat
    OBVIOUS
  <2> QED
    BY <2>1, WalkIs
<1>3. Walk(spec, 0) = FreshWalk
  <2>1. 0 \in Nat
    OBVIOUS
  <2>2. \E h : /\ h[0] = FreshWalk
               /\ \A k \in 1 .. 0 : h[k] = Choose(spec, h[k - 1]).walk
               /\ h[0] = Walk(spec, 0)
    BY <2>1, WalkIs
  <2> QED
    BY <2>2
<1> DEFINE S == {k \in Nat : k <= n => f[k] = g[k]}
<1>4. 0 \in S
  BY <1>1, <1>2
<1>5. ASSUME NEW k \in Nat, k \in S
      PROVE  k + 1 \in S
  <2> SUFFICES ASSUME k + 1 <= n
               PROVE  f[k + 1] = g[k + 1]
    OBVIOUS
  <2>1. k + 1 \in 1 .. n /\ k + 1 \in 1 .. n + 1 /\ (k + 1) - 1 = k
    OBVIOUS
  <2>2. f[k] = g[k]
    BY <1>5
  <2> QED
    BY <1>1, <1>2, <2>1, <2>2
<1>6. n \in S
  <2> HIDE DEF S
  <2> QED
    BY <1>4, <1>5, Inductive
<1>7. g[n + 1] = Choose(spec, g[n]).walk
  <2>1. n + 1 \in 1 .. n + 1 /\ (n + 1) - 1 = n
    OBVIOUS
  <2> QED
    BY <1>2, <2>1
<1> QED
  BY <1>1, <1>2, <1>3, <1>6, <1>7

-----------------------------------------------------------------------------
(************************************************************************** *)
(* The numbers of launches                                                 *)
(************************************************************************** *)

IsSequence(l) == \E S : l \in Seq(S)

\* The launches number the cycles of the follower from one number to another.
Numbered(l, from, to) ==
  /\ IsSequence(l)
  /\ \A n \in 1 .. Len(l) :
       /\ l[n].first \in Nat /\ l[n].passes \in Nat
       /\ l[n].first = IF n = 1 THEN from ELSE l[n - 1].first + l[n - 1].passes
  /\ to = IF Len(l) = 0 THEN from ELSE l[Len(l)].first + l[Len(l)].passes

LEMMA NumberedEmpty ==
  ASSUME NEW from
  PROVE  Numbered(<<>>, from, from)
BY EmptySeq DEF Numbered, IsSequence

LEMMA NumberedAppend ==
  ASSUME NEW l, NEW from \in Nat, NEW to \in Nat, Numbered(l, from, to),
         NEW x, x.first = to, x.passes \in Nat, NEW m, m = Append(l, x)
  PROVE  Numbered(m, from, to + x.passes)
<1>1. PICK S : l \in Seq(S)
  BY DEF Numbered, IsSequence
<1>2. PICK N \in Nat : N = Len(l) /\ l \in Seq(S \cup {x})
  <2>1. Len(l) \in Nat /\ \A n \in 1 .. Len(l) : l[n] \in S \cup {x}
    BY <1>1, LenProperties, ElementOfSeq
  <2>2. l = [n \in 1 .. Len(l) |-> l[n]]
    BY <1>1, LenProperties
  <2> QED
    BY <2>1, <2>2
<1>3. /\ m \in Seq(S \cup {x}) /\ Len(m) = N + 1 /\ m[N + 1] = x
      /\ \A n \in 1 .. N : m[n] = l[n]
  BY <1>2, AppendProperties
<1>4. IsSequence(m)
  BY <1>3 DEF IsSequence
<1>5. ASSUME NEW n \in 1 .. N + 1
      PROVE  /\ m[n].first \in Nat /\ m[n].passes \in Nat
             /\ m[n].first = IF n = 1 THEN from ELSE m[n - 1].first + m[n - 1].passes
  <2>1. CASE n \in 1 .. N
    <3>1. m[n] = l[n] /\ (n # 1 => n - 1 \in 1 .. N)
      BY <1>3, <2>1
    <3>2. n # 1 => m[n - 1] = l[n - 1]
      BY <1>3, <3>1
    <3> QED
      BY <1>2, <2>1, <3>1, <3>2 DEF Numbered
  <2>2. CASE n = N + 1
    <3>1. CASE N = 0
      BY <1>2, <1>3, <2>2, <3>1 DEF Numbered
    <3>2. CASE N # 0
      <4>1. N \in 1 .. N /\ n - 1 = N /\ n # 1
        BY <2>2, <3>2
      <4> QED
        BY <1>2, <1>3, <2>2, <3>2, <4>1 DEF Numbered
    <3> QED
      BY <3>1, <3>2
  <2> QED
    BY <1>2, <2>1, <2>2
<1> QED
  BY <1>3, <1>4, <1>5 DEF Numbered

LEMMA NumberedTail ==
  ASSUME NEW l, NEW from \in Nat, NEW to \in Nat, Numbered(l, from, to), l # <<>>
  PROVE  /\ Head(l).first = from /\ Head(l).passes \in Nat
         /\ Numbered(Tail(l), from + Head(l).passes, to)
<1>1. PICK S : l \in Seq(S)
  BY DEF Numbered, IsSequence
<1>2. PICK N \in Nat \ {0} : N = Len(l)
  BY <1>1, LenProperties, EmptySeq
<1>3. Head(l) = l[1]
  BY <1>1, HeadTailProperties
<1>4. PICK m : m = Tail(l)
  OBVIOUS
<1>5. m \in Seq(S) /\ Len(m) = N - 1 /\ \A n \in 1 .. N - 1 : m[n] = l[n + 1]
  BY <1>1, <1>2, <1>4, HeadTailProperties
<1>6. l[1].first = from /\ l[1].passes \in Nat
  <2>1. 1 \in 1 .. N
    OBVIOUS
  <2> QED
    BY <1>2, <2>1 DEF Numbered
<1>7. ASSUME NEW n \in 1 .. N - 1
      PROVE  /\ m[n].first \in Nat /\ m[n].passes \in Nat
             /\ m[n].first = IF n = 1 THEN from + l[1].passes ELSE m[n - 1].first + m[n - 1].passes
  <2>1. n + 1 \in 1 .. N /\ n \in 1 .. N /\ n + 1 # 1 /\ (n + 1) - 1 = n
    OBVIOUS
  <2>2. /\ l[n + 1].first \in Nat /\ l[n + 1].passes \in Nat
        /\ l[n + 1].first = l[n].first + l[n].passes
    BY <1>2, <2>1 DEF Numbered
  <2>3. m[n] = l[n + 1]
    BY <1>5
  <2>4. n # 1 => m[n - 1] = l[n]
    <3>1. n # 1 => n - 1 \in 1 .. N - 1 /\ (n - 1) + 1 = n
      OBVIOUS
    <3> QED
      BY <1>5, <3>1
  <2> QED
    BY <1>6, <2>2, <2>3, <2>4
<1>8. to = l[N].first + l[N].passes
  BY <1>2 DEF Numbered
<1>9. to = IF N - 1 = 0 THEN from + l[1].passes ELSE m[N - 1].first + m[N - 1].passes
  <2>1. N # 1 => N - 1 \in 1 .. N - 1 /\ (N - 1) + 1 = N
    OBVIOUS
  <2>2. N # 1 => m[N - 1] = l[N]
    BY <1>5, <2>1
  <2> QED
    BY <1>6, <1>8, <2>2
<1>10. IsSequence(m)
  BY <1>5 DEF IsSequence
<1>11. Numbered(m, from + l[1].passes, to)
  BY <1>5, <1>7, <1>9, <1>10 DEF Numbered
<1> QED
  BY <1>3, <1>4, <1>6, <1>11

LEMMA NumberedConcat ==
  ASSUME NEW l, NEW from \in Nat, NEW mid \in Nat, Numbered(l, from, mid),
         NEW m, NEW to \in Nat, Numbered(m, mid, to), NEW c, c = l \o m
  PROVE  Numbered(c, from, to)
<1>1. PICK S, T : l \in Seq(S) /\ m \in Seq(T)
  BY DEF Numbered, IsSequence
<1>2. PICK U : U = S \cup T
  OBVIOUS
<1>3. l \in Seq(U) /\ m \in Seq(U)
  <2>1. ASSUME NEW V, V \subseteq U, NEW x \in Seq(V)
        PROVE  x \in Seq(U)
    <3>1. Len(x) \in Nat /\ x = [n \in 1 .. Len(x) |-> x[n]] /\ \A n \in 1 .. Len(x) : x[n] \in U
      BY <2>1, LenProperties, ElementOfSeq
    <3> QED
      BY <3>1
  <2> QED
    BY <1>1, <1>2, <2>1
<1>4. PICK N \in Nat, M \in Nat : N = Len(l) /\ M = Len(m)
  BY <1>3, LenProperties
<1>5. /\ c \in Seq(U) /\ Len(c) = N + M
      /\ \A n \in 1 .. N + M : c[n] = IF n <= N THEN l[n] ELSE m[n - N]
  BY <1>3, <1>4, ConcatProperties
<1>6. mid = IF N = 0 THEN from ELSE l[N].first + l[N].passes
  BY <1>4 DEF Numbered
<1>7. ASSUME NEW n \in 1 .. N + M
      PROVE  /\ c[n].first \in Nat /\ c[n].passes \in Nat
             /\ c[n].first = IF n = 1 THEN from ELSE c[n - 1].first + c[n - 1].passes
  <2>1. CASE n \in 1 .. N
    <3>1. c[n] = l[n] /\ (n # 1 => n - 1 \in 1 .. N + M /\ n - 1 <= N)
      BY <1>5, <2>1
    <3>2. n # 1 => c[n - 1] = l[n - 1]
      BY <1>5, <3>1
    <3> QED
      BY <1>4, <2>1, <3>1, <3>2 DEF Numbered
  <2>2. CASE n = N + 1
    <3>1. c[n] = m[1] /\ 1 \in 1 .. M
      BY SMTT(30), <1>5, <2>2
    <3>2. m[1].first \in Nat /\ m[1].passes \in Nat /\ m[1].first = mid
      BY <1>4, <3>1 DEF Numbered
    <3>3. N # 0 => n - 1 = N /\ c[N] = l[N] /\ n # 1
      <4>1. N # 0 => N \in 1 .. N + M /\ N <= N
        OBVIOUS
      <4> QED
        BY <1>5, <2>2, <4>1
    <3> QED
      BY <1>4, <1>6, <2>2, <3>1, <3>2, <3>3
  <2>3. CASE n > N + 1
    <3>1. PICK k \in 2 .. M : k = n - N
      BY <2>3
    <3>2. c[n] = m[k] /\ n - 1 \in 1 .. N + M /\ ~(n - 1 <= N) /\ (n - 1) - N = k - 1 /\ n # 1
      BY <1>5, <2>3, <3>1
    <3>3. c[n - 1] = m[k - 1]
      BY <1>5, <3>2
    <3>4. k \in 1 .. M /\ k # 1
      BY <3>1
    <3>5. m[k].first \in Nat /\ m[k].passes \in Nat /\ m[k].first = m[k - 1].first + m[k - 1].passes
      BY <1>4, <3>4 DEF Numbered
    <3> QED
      BY <3>2, <3>3, <3>5
  <2> QED
    BY <1>4, <2>1, <2>2, <2>3
<1>8. to = IF M = 0 THEN mid ELSE m[M].first + m[M].passes
  BY <1>4 DEF Numbered
<1>9. to = IF N + M = 0 THEN from ELSE c[N + M].first + c[N + M].passes
  <2>1. CASE M = 0
    <3>1. N # 0 => c[N + M] = l[N]
      <4>1. N # 0 => N + M \in 1 .. N + M /\ N + M <= N /\ N + M = N
        BY <2>1
      <4> QED
        BY <1>5, <4>1
    <3> QED
      BY <1>4, <1>6, <1>8, <2>1, <3>1
  <2>2. CASE M # 0
    <3>1. N + M \in 1 .. N + M /\ ~(N + M <= N) /\ (N + M) - N = M /\ N + M # 0
      BY <2>2
    <3>2. c[N + M] = m[M]
      BY <1>5, <3>1
    <3> QED
      BY <1>8, <2>2, <3>1, <3>2
  <2> QED
    BY <2>1, <2>2
<1>10. IsSequence(c)
  BY <1>5 DEF IsSequence
<1> QED
  BY <1>5, <1>7, <1>9, <1>10 DEF Numbered

CarryNames == {"active", "queued", "nextRun", "nextLocal", "consumed", "gate"}

\* A carry that knows the next number, and a loop that launches from one on.
Counting(c) == DOMAIN c = CarryNames /\ c.nextLocal \in Nat

Counts(from, s) ==
  /\ DOMAIN s = {"fires", "launches", "carry"} /\ Counting(s.carry)
  /\ Numbered(s.launches, from, s.carry.nextLocal)

LEMMA EmitCounts ==
  ASSUME NEW cfg, cfg.passes \in Nat, NEW from \in Nat, NEW s, Counts(from, s),
         NEW place, NEW id, NEW e, e = Emit(cfg, s, place, id)
  PROVE  Counts(from, e)
<1>1. PICK x : x = [start |-> place, first |-> s.carry.nextLocal, passes |-> cfg.passes,
                    run |-> s.carry.nextRun, fire |-> id]
  OBVIOUS
<1>2. PICK run : run = [start |-> place, end |-> place + RunTicks(cfg, s.carry.nextLocal)]
  OBVIOUS
<1>3. e = [s EXCEPT !.launches = Append(@, x), !.carry.active = run,
                    !.carry.nextRun = @ + 1, !.carry.nextLocal = @ + cfg.passes]
  BY <1>1, <1>2 DEF Emit
<1>4. DOMAIN s = {"fires", "launches", "carry"} /\ DOMAIN s.carry = CarryNames
  BY DEF Counts, Counting
<1>5. DOMAIN e = {"fires", "launches", "carry"} /\ DOMAIN e.carry = CarryNames
  BY <1>3, <1>4 DEF CarryNames
<1>6. e.launches = Append(s.launches, x) /\ e.carry.nextLocal = s.carry.nextLocal + cfg.passes
  <2>1. e.launches = Append(s.launches, x)
    BY <1>3, <1>4
  <2>2. PICK c, k, to : /\ c = s.carry /\ k = s.carry.nextRun + 1 /\ to = s.carry.nextLocal + cfg.passes
    OBVIOUS
  <2>3. e.carry = [[[c EXCEPT !.active = run] EXCEPT !.nextRun = k] EXCEPT !.nextLocal = to]
    BY <1>3, <1>4, <2>2 DEF CarryNames
  <2>4. e.carry.nextLocal = to
    BY <1>4, <2>2, <2>3 DEF CarryNames
  <2> QED
    BY <2>1, <2>2, <2>4
<1>7. s.carry.nextLocal \in Nat /\ Numbered(s.launches, from, s.carry.nextLocal)
  BY DEF Counts, Counting
<1>8. x.first = s.carry.nextLocal /\ x.passes = cfg.passes
  BY <1>1
<1>9. Numbered(e.launches, from, s.carry.nextLocal + cfg.passes)
  BY <1>6, <1>7, <1>8, NumberedAppend
<1> QED
  BY <1>5, <1>6, <1>7, <1>9 DEF Counts, Counting

\* An iteration of the compile loop goes on with the numbers.
LEMMA StepCounts ==
  ASSUME NEW cfg, cfg.passes \in Nat, NEW from \in Nat, NEW s, Counts(from, s),
         NEW window, NEW e, e = CompileStep(cfg, s, window)
  PROVE  Counts(from, e)
<1>1. /\ DOMAIN s = {"fires", "launches", "carry"} /\ DOMAIN s.carry = CarryNames
      /\ s.carry.nextLocal \in Nat /\ Numbered(s.launches, from, s.carry.nextLocal)
  BY DEF Counts, Counting
<1>2. CASE Releases(s, window)
  <2>1. PICK m : m = [s EXCEPT !.carry.queued = None]
    OBVIOUS
  <2>2. Counts(from, m)
    <3>1. DOMAIN m = DOMAIN s /\ DOMAIN m.carry = CarryNames
      BY <1>1, <2>1 DEF CarryNames
    <3>2. m.launches = s.launches /\ m.carry.nextLocal = s.carry.nextLocal
      BY <1>1, <2>1 DEF CarryNames
    <3> QED
      BY <1>1, <3>1, <3>2 DEF Counts, Counting
  <2>3. e = Emit(cfg, m, s.carry.active.end, s.carry.queued)
    BY <1>2, <2>1 DEF CompileStep
  <2> QED
    BY <2>2, <2>3, EmitCounts
<1>3. CASE ~Releases(s, window) /\ s.fires # {}
  <2>1. PICK fire, gated : fire = NextFire(s.fires) /\ gated = EvaluateGate(cfg.gate, s.carry.gate, fire)
    OBVIOUS
  <2>2. PICK m : m = [s EXCEPT !.fires = @ \ {fire}, !.carry.gate = gated.state,
                               !.carry.consumed = @ \cup {Identity(fire)}]
    OBVIOUS
  <2>3. Counts(from, m)
    <3>1. DOMAIN m = DOMAIN s /\ DOMAIN m.carry = CarryNames
      BY <1>1, <2>2 DEF CarryNames
    <3>2. m.launches = s.launches /\ m.carry.nextLocal = s.carry.nextLocal
      BY <1>1, <2>2 DEF CarryNames
    <3> QED
      BY <1>1, <3>1, <3>2 DEF Counts, Counting
  <2>4. e = IF gated.accept THEN ReTrigger(cfg, m, fire) ELSE m
    BY <1>3, <2>1, <2>2 DEF CompileStep, TakeFire
  <2>5. PICK i : i = Identity(fire)
    OBVIOUS
  <2>6. PICK n : n = Emit(cfg, m, fire.tick, i)
    OBVIOUS
  <2>7. Counts(from, n)
    BY <2>3, <2>6, EmitCounts
  <2>8. \/ ReTrigger(cfg, m, fire) = m
        \/ ReTrigger(cfg, m, fire) = [m EXCEPT !.carry.queued = i]
        \/ ReTrigger(cfg, m, fire) = [n EXCEPT !.carry.queued = None]
    BY <2>5, <2>6 DEF ReTrigger
  <2>9. ASSUME NEW x, Counts(from, x), NEW y, NEW q, y = [x EXCEPT !.carry.queued = q]
        PROVE  Counts(from, y)
    <3>1. /\ DOMAIN x = {"fires", "launches", "carry"} /\ DOMAIN x.carry = CarryNames
          /\ x.carry.nextLocal \in Nat /\ Numbered(x.launches, from, x.carry.nextLocal)
      BY <2>9 DEF Counts, Counting
    <3>2. DOMAIN y = DOMAIN x /\ DOMAIN y.carry = CarryNames
      BY <2>9, <3>1 DEF CarryNames
    <3>3. y.launches = x.launches /\ y.carry.nextLocal = x.carry.nextLocal
      BY <2>9, <3>1 DEF CarryNames
    <3> QED
      BY <3>1, <3>2, <3>3 DEF Counts, Counting
  <2> QED
    BY <2>3, <2>4, <2>7, <2>8, <2>9
<1>4. CASE ~Releases(s, window) /\ s.fires = {}
  BY <1>4 DEF CompileStep
<1> QED
  BY <1>2, <1>3, <1>4

\* A compile launches from the carry's number on to the one it carries out.
LEMMA CompileCounts ==
  ASSUME NEW cfg, cfg.passes \in Nat, NEW cycles, IsFiniteSet(cycles),
         \A c \in cycles : IsFiniteSet(c.beats),
         NEW window, NEW carry, Counting(carry),
         NEW o, o = Compile(cfg, cycles, window, carry)
  PROVE  Counting(o.carry) /\ Numbered(o.launches, carry.nextLocal, o.carry.nextLocal)
<1>1. PICK placed : placed = Placed(cfg, cycles)
  OBVIOUS
<1>2. IsFiniteSet(placed)
  BY <1>1, PlacedFinite
<1>3. PICK begin : begin = Opened(placed, window, carry)
  OBVIOUS
<1>4. IsFiniteSet(begin.fires)
  BY <1>2, <1>3, FS_Subset DEF Opened, Due
<1>5. PICK count \in Nat : count = 2 * Cardinality(begin.fires) + 8
  BY <1>4, FS_CardinalityType
<1>6. Counts(carry.nextLocal, begin)
  <2>1. PICK behind : behind = {Identity(f) : f \in {f \in placed : f.tick < window.start}}
    OBVIOUS
  <2>2. begin = [fires |-> Due(placed, carry.consumed, window), launches |-> <<>>,
                 carry |-> [carry EXCEPT !.consumed = @ \cup behind]]
    BY <1>3, <2>1 DEF Opened
  <2>3. begin.launches = <<>> /\ DOMAIN begin = {"fires", "launches", "carry"}
    BY <2>2
  <2>4. DOMAIN begin.carry = CarryNames /\ begin.carry.nextLocal = carry.nextLocal
    BY <2>2 DEF Counting, CarryNames
  <2> QED
    BY <2>3, <2>4, NumberedEmpty DEF Counts, Counting
<1>7. PICK f : /\ f[0] = begin
               /\ \A n \in 1 .. count : f[n] = CompileStep(cfg, f[n - 1], window)
               /\ f[count] = Looped(cfg, begin, window, count)
  BY LoopedIs
<1>8. carry.nextLocal \in Nat
  BY DEF Counting
<1> DEFINE S == {n \in Nat : n <= count => Counts(carry.nextLocal, f[n])}
<1>9. 0 \in S
  BY <1>6, <1>7
<1>10. ASSUME NEW n \in Nat, n \in S
       PROVE  n + 1 \in S
  <2> SUFFICES ASSUME n + 1 <= count
               PROVE  Counts(carry.nextLocal, f[n + 1])
    OBVIOUS
  <2>1. n + 1 \in 1 .. count /\ (n + 1) - 1 = n
    BY <1>5
  <2>2. f[n + 1] = CompileStep(cfg, f[n], window)
    BY <1>7, <2>1
  <2>3. Counts(carry.nextLocal, f[n])
    BY <1>5, <1>10
  <2> QED
    BY <1>8, <2>2, <2>3, StepCounts
<1>11. count \in S
  <2> HIDE DEF S
  <2> QED
    BY <1>5, <1>9, <1>10, Inductive
<1>12. PICK s : s = Looped(cfg, begin, window, count) /\ Counts(carry.nextLocal, s)
  BY <1>5, <1>7, <1>11
<1>13. o = [launches |-> s.launches,
            carry |-> [Canonical(s.carry, window) EXCEPT !.consumed = PruneConsumed(@, cycles)]]
  BY <1>1, <1>3, <1>5, <1>12 DEF Compile
<1>14. /\ DOMAIN s.carry = CarryNames /\ s.carry.nextLocal \in Nat
       /\ Numbered(s.launches, carry.nextLocal, s.carry.nextLocal)
  BY <1>12 DEF Counts, Counting
<1>15. PICK d : d = Canonical(s.carry, window)
  OBVIOUS
<1>16. DOMAIN d = CarryNames /\ d.nextLocal = s.carry.nextLocal
  BY <1>14, <1>15 DEF Canonical, CarryNames
<1>17. PICK seen : seen = PruneConsumed(d.consumed, cycles)
  OBVIOUS
<1>18. o.launches = s.launches /\ o.carry = [d EXCEPT !.consumed = seen]
  BY <1>13, <1>15, <1>17
<1>19. DOMAIN o.carry = CarryNames /\ o.carry.nextLocal = s.carry.nextLocal
  BY <1>16, <1>18 DEF CarryNames
<1> QED
  BY <1>14, <1>18, <1>19 DEF Counting

-----------------------------------------------------------------------------
(************************************************************************** *)
(* The events of a track and voice, in order                               *)
(************************************************************************** *)

\* A note's fields tell it from any other.
IsNote(n) ==
  /\ n = [track |-> n.track, source |-> n.source, cycle |-> n.cycle,
          channel |-> n.channel, pitch |-> n.pitch, start |-> n.start, end |-> n.end]
  /\ n.source \in Nat /\ n.cycle \in Nat /\ n.start \in Nat /\ n.end \in Nat

IsEvent(e) ==
  /\ e = [note |-> e.note, on |-> e.on, tick |-> e.tick]
  /\ IsNote(e.note) /\ e.on \in BOOLEAN /\ e.tick \in Nat

\* What a note-on and the note-off that ends it have in common.
Line(e) == <<Track(e), Voice(e)>>
Alike(e, f) == Line(e) = Line(f)

\* Finitely many events of one track and voice.
Stream(S) ==
  /\ IsFiniteSet(S)
  /\ \A e \in S : IsEvent(e)
  /\ \A e, f \in S : Alike(e, f)

LEMMA StreamSubset ==
  ASSUME NEW S, Stream(S), NEW X, X \subseteq S
  PROVE  Stream(X)
BY FS_Subset DEF Stream

\* sort_queue has an order of them.
LEMMA OpenedIs ==
  ASSUME NEW a, NEW b, NEW c, IsNote(a), IsNote(b), IsNote(c)
  PROVE  /\ ~OpenedBefore(a, a)
         /\ OpenedBefore(a, b) /\ OpenedBefore(b, c) => OpenedBefore(a, c)
         /\ OpenedBefore(a, b) \/ OpenedBefore(b, a)
              \/ (a.start = b.start /\ a.end = b.end /\ a.cycle = b.cycle /\ a.source = b.source)
BY DEF OpenedBefore, IsNote

LEMMA BeforeIs ==
  ASSUME NEW S, Stream(S), NEW e \in S, NEW f \in S, NEW g \in S
  PROVE  /\ ~EventBefore(e, e)
         /\ EventBefore(e, f) /\ EventBefore(f, g) => EventBefore(e, g)
         /\ e # f => EventBefore(e, f) \/ EventBefore(f, e)
<1>1. IsEvent(e) /\ IsEvent(f) /\ IsEvent(g) /\ Alike(e, f)
  BY DEF Stream
<1>2. IsNote(e.note) /\ IsNote(f.note) /\ IsNote(g.note)
  BY <1>1 DEF IsEvent
<1>3. e.tick \in Nat /\ f.tick \in Nat /\ g.tick \in Nat
      /\ e.on \in BOOLEAN /\ f.on \in BOOLEAN /\ g.on \in BOOLEAN
  BY <1>1 DEF IsEvent
<1>4. ~EventBefore(e, e)
  BY <1>2, <1>3, OpenedIs DEF EventBefore
<1>5. EventBefore(e, f) /\ EventBefore(f, g) => EventBefore(e, g)
  <2>1. /\ OpenedBefore(e.note, f.note) /\ OpenedBefore(f.note, g.note) => OpenedBefore(e.note, g.note)
        /\ OpenedBefore(g.note, f.note) /\ OpenedBefore(f.note, e.note) => OpenedBefore(g.note, e.note)
    BY <1>2, OpenedIs
  <2> QED
    BY <1>3, <2>1 DEF EventBefore
<1>6. ASSUME e # f
      PROVE  EventBefore(e, f) \/ EventBefore(f, e)
  <2>1. CASE e.tick # f.tick \/ e.on # f.on
    BY <1>3, <2>1 DEF EventBefore
  <2>2. CASE e.tick = f.tick /\ e.on = f.on
    <3>1. PICK m, n : m = e.note /\ n = f.note
      OBVIOUS
    <3>2. ~(m.start = n.start /\ m.end = n.end /\ m.cycle = n.cycle /\ m.source = n.source)
      <4>1. m.track = n.track /\ m.channel = n.channel /\ m.pitch = n.pitch
        BY <1>1, <3>1 DEF Alike, Line, Track, Voice
      <4>2. m # n
        BY <1>1, <1>6, <2>2, <3>1 DEF IsEvent
      <4> QED
        BY <1>2, <3>1, <4>1, <4>2 DEF IsNote
    <3>3. OpenedBefore(m, n) \/ OpenedBefore(n, m)
      BY <1>2, <3>1, <3>2, OpenedIs
    <3> QED
      BY <1>3, <2>2, <3>1, <3>3 DEF EventBefore
  <2> QED
    BY <2>1, <2>2
<1> QED
  BY <1>4, <1>5, <1>6

\* Of any of them there is a first, and a last.
LEMMA FirstIs ==
  ASSUME NEW S, Stream(S), NEW X, X \subseteq S, X # {}
  PROVE  \E e \in X : \A f \in X : f # e => EventBefore(e, f)
<1> DEFINE before(e) == {f \in X : EventBefore(f, e)}
           all == {before(e) : e \in X}
<1>1. all # {} /\ all \subseteq FiniteSubsetsOf(X)
  <2>1. IsFiniteSet(X)
    BY FS_Subset DEF Stream
  <2>2. \A e \in X : before(e) \subseteq X /\ IsFiniteSet(before(e))
    BY <2>1, FS_Subset
  <2> HIDE DEF before
  <2> QED
    BY <2>2 DEF FiniteSubsetsOf
<1>2. PICK o \in all : \A u \in all : ~(<<u, o>> \in StrictSubsetOrdering(X))
  BY <1>1, FS_StrictSubsetOrderingWellFounded, WFMin
<1>3. PICK e \in X : o = before(e)
  BY <1>2
<1>4. ASSUME NEW f \in X, f # e, ~EventBefore(e, f)
      PROVE  FALSE
  <2>1. EventBefore(f, e) /\ ~EventBefore(f, f)
    BY <1>4, BeforeIs
  <2>2. before(f) \subseteq before(e) /\ f \in before(e) /\ f \notin before(f)
    BY <2>1, BeforeIs
  <2>3. before(f) \in all /\ before(f) \subseteq X /\ before(e) \subseteq X
    OBVIOUS
  <2>4. <<before(f), o>> \in StrictSubsetOrdering(X)
    <3> HIDE DEF before, all
    <3> QED
      BY <1>3, <2>2, <2>3 DEF StrictSubsetOrdering
  <2> QED
    BY <1>2, <2>3, <2>4
<1> QED
  BY <1>4

LEMMA LastIs ==
  ASSUME NEW S, Stream(S), NEW X, X \subseteq S, X # {}
  PROVE  \E e \in X : \A f \in X : f # e => EventBefore(f, e)
<1> DEFINE after(e) == {f \in X : EventBefore(e, f)}
           all == {after(e) : e \in X}
<1>1. all # {} /\ all \subseteq FiniteSubsetsOf(X)
  <2>1. IsFiniteSet(X)
    BY FS_Subset DEF Stream
  <2>2. \A e \in X : after(e) \subseteq X /\ IsFiniteSet(after(e))
    BY <2>1, FS_Subset
  <2> HIDE DEF after
  <2> QED
    BY <2>2 DEF FiniteSubsetsOf
<1>2. PICK o \in all : \A u \in all : ~(<<u, o>> \in StrictSubsetOrdering(X))
  BY <1>1, FS_StrictSubsetOrderingWellFounded, WFMin
<1>3. PICK e \in X : o = after(e)
  BY <1>2
<1>4. ASSUME NEW f \in X, f # e, ~EventBefore(f, e)
      PROVE  FALSE
  <2>1. EventBefore(e, f) /\ ~EventBefore(f, f)
    BY <1>4, BeforeIs
  <2>2. after(f) \subseteq after(e) /\ f \in after(e) /\ f \notin after(f)
    BY <2>1, BeforeIs
  <2>3. after(f) \in all /\ after(f) \subseteq X /\ after(e) \subseteq X
    OBVIOUS
  <2>4. <<after(f), o>> \in StrictSubsetOrdering(X)
    <3> HIDE DEF after, all
    <3> QED
      BY <1>3, <2>2, <2>3 DEF StrictSubsetOrdering
  <2> QED
    BY <1>2, <2>3, <2>4
<1> QED
  BY <1>4

-----------------------------------------------------------------------------
(************************************************************************** *)
(* By how many its note-offs exceed its note-ons                           *)
(************************************************************************** *)

Excess(S) == Cardinality({e \in S : ~e.on}) - Cardinality({e \in S : e.on})

LEMMA ExcessType ==
  ASSUME NEW S, IsFiniteSet(S)
  PROVE  /\ Excess(S) \in Int /\ Cardinality(S) \in Nat
         /\ Cardinality({e \in S : ~e.on}) \in Nat /\ Cardinality({e \in S : e.on}) \in Nat
<1>1. IsFiniteSet({e \in S : ~e.on}) /\ IsFiniteSet({e \in S : e.on})
  BY FS_Subset
<1>2. /\ Cardinality({e \in S : ~e.on}) \in Nat /\ Cardinality({e \in S : e.on}) \in Nat
      /\ Cardinality(S) \in Nat
  BY <1>1, FS_CardinalityType
<1> QED
  BY <1>2 DEF Excess

LEMMA AllOff ==
  ASSUME NEW S, IsFiniteSet(S), \A e \in S : ~e.on
  PROVE  Excess(S) = Cardinality(S) /\ Cardinality(S) \in Nat
<1>1. PICK on, off : on = {e \in S : e.on} /\ off = {e \in S : ~e.on}
  OBVIOUS
<1>2. Excess(S) = Cardinality(off) - Cardinality(on)
  BY <1>1 DEF Excess
<1>3. off = S /\ on = {}
  BY <1>1
<1>4. Cardinality(on) = 0 /\ Cardinality(off) = Cardinality(S) /\ Cardinality(S) \in Nat
  BY <1>3, FS_CardinalityType, FS_EmptySet
<1> QED
  BY <1>2, <1>4

LEMMA AllOn ==
  ASSUME NEW S, IsFiniteSet(S), \A e \in S : e.on
  PROVE  Excess(S) = -Cardinality(S) /\ Cardinality(S) \in Nat
<1>1. PICK on, off : on = {e \in S : e.on} /\ off = {e \in S : ~e.on}
  OBVIOUS
<1>2. Excess(S) = Cardinality(off) - Cardinality(on)
  BY <1>1 DEF Excess
<1>3. on = S /\ off = {}
  BY <1>1
<1>4. Cardinality(off) = 0 /\ Cardinality(on) = Cardinality(S) /\ Cardinality(S) \in Nat
  BY <1>3, FS_CardinalityType, FS_EmptySet
<1> QED
  BY <1>2, <1>4

LEMMA DisjointUnion ==
  ASSUME NEW A, NEW B, IsFiniteSet(A), IsFiniteSet(B), A \cap B = {}
  PROVE  /\ Cardinality(A \cup B) = Cardinality(A) + Cardinality(B)
         /\ Cardinality(A) \in Nat /\ Cardinality(B) \in Nat
<1>1. Cardinality(A \cup B) = Cardinality(A) + Cardinality(B) - Cardinality(A \cap B)
  BY FS_Union
<1>2. Cardinality(A) \in Nat /\ Cardinality(B) \in Nat /\ Cardinality(A \cap B) = 0
  BY FS_CardinalityType, FS_EmptySet
<1> QED
  BY <1>1, <1>2

LEMMA ExcessUnion ==
  ASSUME NEW A, NEW B, IsFiniteSet(A), IsFiniteSet(B), A \cap B = {}
  PROVE  /\ Excess(A \cup B) = Excess(A) + Excess(B)
         /\ Excess(A) \in Int /\ Excess(B) \in Int
<1> DEFINE On(S) == {e \in S : e.on}
           Off(S) == {e \in S : ~e.on}
<1>1. /\ On(A \cup B) = On(A) \cup On(B) /\ On(A) \cap On(B) = {}
      /\ Off(A \cup B) = Off(A) \cup Off(B) /\ Off(A) \cap Off(B) = {}
  OBVIOUS
<1>2. IsFiniteSet(On(A)) /\ IsFiniteSet(On(B)) /\ IsFiniteSet(Off(A)) /\ IsFiniteSet(Off(B))
  BY FS_Subset
<1>3. \A S : Excess(S) = Cardinality(Off(S)) - Cardinality(On(S))
  BY DEF Excess
<1> HIDE DEF On, Off
<1>4. /\ Cardinality(On(A \cup B)) = Cardinality(On(A)) + Cardinality(On(B))
      /\ Cardinality(Off(A \cup B)) = Cardinality(Off(A)) + Cardinality(Off(B))
      /\ Cardinality(On(A)) \in Nat /\ Cardinality(On(B)) \in Nat
      /\ Cardinality(Off(A)) \in Nat /\ Cardinality(Off(B)) \in Nat
  BY <1>1, <1>2, DisjointUnion
<1> QED
  BY <1>3, <1>4

LEMMA ExcessOne ==
  ASSUME NEW S, IsFiniteSet(S), NEW e, e \notin S, e.on \in BOOLEAN
  PROVE  /\ Excess(S \cup {e}) = Excess(S) + (IF e.on THEN -1 ELSE 1)
         /\ Excess(S) \in Int
<1>1. IsFiniteSet({e}) /\ Cardinality({e}) = 1 /\ S \cap {e} = {}
  BY FS_Singleton
<1>2. Excess({e}) = IF e.on THEN -1 ELSE 1
  <2>1. CASE e.on
    <3>1. Excess({e}) = -Cardinality({e})
      BY <1>1, <2>1, AllOn
    <3> QED
      BY <1>1, <2>1, <3>1
  <2>2. CASE ~e.on
    <3>1. Excess({e}) = Cardinality({e})
      BY <1>1, <2>2, AllOff
    <3> QED
      BY <1>1, <2>2, <3>1
  <2> QED
    BY <2>1, <2>2
<1> QED
  BY <1>1, <1>2, ExcessUnion

-----------------------------------------------------------------------------
(************************************************************************** *)
(* Last in, first out                                                      *)
(************************************************************************** *)

\* A run of events up to a note-off, with no more note-offs than note-ons, has
\* a note-on from where it is still so.
LEMMA OnBefore ==
  ASSUME NEW C, Stream(C), NEW S, S \subseteq C, NEW f \in S, ~f.on,
         \A h \in S : h # f => EventBefore(h, f), Excess(S) <= 0
  PROVE  \E e \in S : /\ e.on /\ EventBefore(e, f)
                      /\ Excess({h \in S : ~EventBefore(h, e)}) <= 0
<1>1. IsFiniteSet(S) /\ \A e \in C : e.on \in BOOLEAN
  BY FS_Subset DEF Stream, IsEvent
<1>2. {e \in S : e.on} # {}
  <2> SUFFICES ASSUME \A e \in S : ~e.on
               PROVE  FALSE
    OBVIOUS
  <2>2. Excess(S) = Cardinality(S)
    BY <1>1, AllOff
  <2>3. Cardinality(S) \in Nat /\ Cardinality(S) >= 1
    <3>1. Cardinality(S) \in Nat /\ Cardinality(S) # 0
      BY <1>1, FS_CardinalityType, FS_EmptySet
    <3> QED
      BY <3>1
  <2> QED
    BY <2>2, <2>3
<1>3. PICK e \in S : e.on /\ \A x \in S : x.on /\ x # e => EventBefore(e, x)
  <2>1. PICK on : on = {x \in S : x.on} /\ on \subseteq C /\ on # {}
    BY <1>2
  <2>2. \E e \in on : \A x \in on : x # e => EventBefore(e, x)
    BY <2>1, FirstIs
  <2> QED
    BY <2>1, <2>2
<1>4. EventBefore(e, f)
  BY <1>3
<1>5. PICK A, B : A = {h \in S : EventBefore(h, e)} /\ B = {h \in S : ~EventBefore(h, e)}
  OBVIOUS
<1>6. Excess(S) = Excess(A) + Excess(B) /\ Excess(A) \in Int /\ Excess(B) \in Int
  <2>1. S = A \cup B /\ A \cap B = {}
    BY <1>5
  <2>2. IsFiniteSet(A) /\ IsFiniteSet(B)
    BY <1>1, <2>1, FS_Subset
  <2> QED
    BY <2>1, <2>2, ExcessUnion
<1>7. Excess(A) >= 0
  <2>1. \A h \in A : ~h.on
    <3> SUFFICES ASSUME NEW h \in A, h.on
                 PROVE  FALSE
      OBVIOUS
    <3>1. h # e => EventBefore(e, h)
      BY <1>3, <1>5
    <3>2. h \in C /\ e \in C /\ EventBefore(h, e)
      BY <1>5
    <3> QED
      BY <3>1, <3>2, BeforeIs
  <2>2. IsFiniteSet(A)
    BY <1>1, <1>5, FS_Subset
  <2>3. Excess(A) = Cardinality(A) /\ Cardinality(A) \in Nat
    BY <2>1, <2>2, AllOff
  <2> QED
    BY <2>3
<1>8. Excess(B) <= 0
  BY <1>6, <1>7
<1> QED
  BY <1>3, <1>4, <1>5, <1>8

\* The events between two.
LEMMA BetweenIs ==
  ASSUME NEW q, NEW C, Stream(C), NEW e \in C, NEW g \in C, EventBefore(e, g),
         C = {h \in q : Alike(h, e)}
  PROVE  /\ Between(q, e, g) = {h \in C : EventBefore(e, h) /\ ~EventBefore(g, h)}
         /\ g \in Between(q, e, g)
<1>1. ~EventBefore(g, g)
  BY BeforeIs
<1> QED
  BY <1>1 DEF Between, Alike, Line

\* What collect_final_note_groups counts from a note-on to an event.
Since(C, e, g) == {h \in C : EventBefore(e, h) /\ ~EventBefore(g, h)}

After(C, e) == {h \in C : EventBefore(e, h)}
UpTo(C, f) == {h \in C : ~EventBefore(f, h)}
Inside(C, e, f) == {h \in C : EventBefore(e, h) /\ EventBefore(h, f)}

\* f closes e.
Pairs(C, e, f) ==
  /\ ~f.on /\ EventBefore(e, f) /\ Excess(Since(C, e, f)) > 0
  /\ \A g \in Since(C, e, f) : Excess(Since(C, e, g)) > 0 => ~EventBefore(g, f)

LEMMA ClosesIs ==
  ASSUME NEW q, NEW C, Stream(C), NEW e \in C, NEW f \in q,
         C = {h \in q : Alike(h, e)}
  PROVE  Closes(q, e, f) <=> f \in C /\ Pairs(C, e, f)
<1>1. \A g : Between(q, e, g) = Since(C, e, g)
  BY DEF Between, Since, Alike, Line
<1>2. \A g \in C : Excess(Since(C, e, g)) > 0 <=>
                     Cardinality({h \in Since(C, e, g) : ~h.on}) > Cardinality({h \in Since(C, e, g) : h.on})
  <2> SUFFICES ASSUME NEW g \in C
               PROVE  Excess(Since(C, e, g)) > 0 <=>
                     Cardinality({h \in Since(C, e, g) : ~h.on}) > Cardinality({h \in Since(C, e, g) : h.on})
    OBVIOUS
  <2>1. IsFiniteSet(Since(C, e, g))
    BY FS_Subset DEF Stream, Since
  <2>2. PICK on, off : on = {h \in Since(C, e, g) : h.on} /\ off = {h \in Since(C, e, g) : ~h.on}
    OBVIOUS
  <2>3. Cardinality(off) \in Nat /\ Cardinality(on) \in Nat
    BY <2>1, <2>2, ExcessType
  <2>4. Excess(Since(C, e, g)) = Cardinality(off) - Cardinality(on)
    BY <2>2 DEF Excess
  <2> QED
    BY <2>2, <2>3, <2>4
<1>3. f \in C <=> Track(f) = Track(e) /\ Voice(f) = Voice(e)
  BY DEF Alike, Line
<1>4. \A g \in Since(C, e, f) : g \in C
  BY DEF Since
<1> QED
  BY <1>1, <1>2, <1>3, <1>4 DEF Closes, Pairs

\* A last event of an open interval counts all of it.
LEMMA LastOfOpen ==
  ASSUME NEW C, Stream(C), NEW e \in C, NEW f \in C,
         Inside(C, e, f) # {}
  PROVE  \E g \in Inside(C, e, f) : Since(C, e, g) = Inside(C, e, f)
<1> DEFINE O == Inside(C, e, f)
<1> USE DEF Inside
<1>1. PICK g \in O : \A h \in O : h # g => EventBefore(h, g)
  <2>1. O \subseteq C
    OBVIOUS
  <2> QED
    BY <2>1, LastIs
<1>2. ASSUME NEW h \in Since(C, e, g)
      PROVE  h \in O
  <2>1. h \in C /\ EventBefore(e, h) /\ ~EventBefore(g, h) /\ g \in C /\ EventBefore(g, f)
    BY DEF Since
  <2> QED
    BY <2>1, BeforeIs
<1>3. ASSUME NEW h \in O
      PROVE  h \in Since(C, e, g)
  <2>1. h \in C /\ g \in C /\ (h # g => EventBefore(h, g))
    BY <1>1
  <2>2. ~EventBefore(g, h)
    BY <2>1, BeforeIs
  <2> QED
    BY <2>1, <2>2 DEF Since
<1> QED
  BY <1>2, <1>3

\* An event and what lies before it in an interval.
LEMMA SinceIs ==
  ASSUME NEW C, Stream(C), NEW e \in C, NEW f \in C, EventBefore(e, f)
  PROVE  /\ Since(C, e, f) = Inside(C, e, f) \cup {f}
         /\ f \in Since(C, e, f) /\ f \notin Inside(C, e, f)
         /\ Excess(Since(C, e, f)) = Excess(Inside(C, e, f)) + (IF f.on THEN -1 ELSE 1)
         /\ Excess(Since(C, e, f)) \in Int /\ Excess(Inside(C, e, f)) \in Int
<1>1. Since(C, e, f) = Inside(C, e, f) \cup {f}
  BY BeforeIs DEF Since, Inside
<1>2. f \notin Inside(C, e, f)
  BY BeforeIs DEF Inside
<1>3. IsFiniteSet(Inside(C, e, f)) /\ f.on \in BOOLEAN
  BY FS_Subset DEF Stream, Inside, IsEvent
<1>4. /\ Excess(Inside(C, e, f) \cup {f}) = Excess(Inside(C, e, f)) + (IF f.on THEN -1 ELSE 1)
      /\ Excess(Inside(C, e, f)) \in Int
  BY <1>2, <1>3, ExcessOne
<1> QED
  BY <1>1, <1>2, <1>4

LEMMA SinceType ==
  ASSUME NEW C, Stream(C), NEW e, NEW g
  PROVE  Excess(Since(C, e, g)) \in Int
<1>1. Since(C, e, g) \subseteq C /\ IsFiniteSet(C)
  BY DEF Since, Stream
<1>2. IsFiniteSet(Since(C, e, g))
  BY <1>1, FS_Subset
<1> QED
  BY <1>2, ExcessType

\* What closes a note-on leaves no more note-offs than note-ons between them.
LEMMA PairsIs ==
  ASSUME NEW C, Stream(C), NEW e \in C, NEW f \in C, Pairs(C, e, f)
  PROVE  /\ Excess(Inside(C, e, f)) = 0
         /\ \A g \in Inside(C, e, f) : Excess(Since(C, e, g)) <= 0
<1>1. EventBefore(e, f) /\ ~f.on /\ Excess(Since(C, e, f)) > 0
  BY DEF Pairs
<1>2. /\ Excess(Since(C, e, f)) = Excess(Inside(C, e, f)) + 1 /\ Excess(Inside(C, e, f)) \in Int
      /\ Since(C, e, f) = Inside(C, e, f) \cup {f}
  BY <1>1, SinceIs
<1>3. ASSUME NEW g \in Inside(C, e, f)
      PROVE  Excess(Since(C, e, g)) <= 0
  <2>1. EventBefore(g, f) /\ g \in Since(C, e, f)
    BY <1>2 DEF Inside
  <2>2. ~(Excess(Since(C, e, g)) > 0)
    BY <2>1 DEF Pairs
  <2>3. Excess(Since(C, e, g)) \in Int
    BY SinceType
  <2> QED
    BY <2>2, <2>3
<1>4. Excess(Inside(C, e, f)) <= 0
  <2>1. CASE Inside(C, e, f) = {}
    <3>1. Excess({}) = 0
      BY AllOff, FS_EmptySet
    <3> QED
      BY <2>1, <3>1
  <2>2. CASE Inside(C, e, f) # {}
    <3>1. PICK g \in Inside(C, e, f) : Since(C, e, g) = Inside(C, e, f)
      BY <2>2, LastOfOpen
    <3> QED
      BY <1>3, <3>1
  <2> QED
    BY <2>1, <2>2
<1> QED
  BY <1>1, <1>2, <1>3, <1>4

\* A note-on with more note-offs than note-ons after it is closed, by one.
LEMMA IsClosed ==
  ASSUME NEW C, Stream(C), NEW e \in C, e.on, Excess(After(C, e)) > 0
  PROVE  \E f \in C : Pairs(C, e, f)
<1> DEFINE X == {g \in C : EventBefore(e, g) /\ Excess(Since(C, e, g)) > 0}
<1>1. After(C, e) # {}
  <2>1. Excess({}) = 0
    BY AllOff, FS_EmptySet
  <2> QED
    BY <2>1
<1>2. PICK l \in After(C, e) : \A h \in After(C, e) : h # l => EventBefore(h, l)
  <2>1. After(C, e) \subseteq C
    BY DEF After
  <2> QED
    BY <1>1, <2>1, LastIs
<1>3. Since(C, e, l) = After(C, e)
  <2>1. \A h \in After(C, e) : ~EventBefore(l, h)
    BY <1>2, BeforeIs DEF After
  <2> QED
    BY <2>1 DEF Since, After
<1>4. l \in X
  BY <1>3 DEF After
<1>5. PICK f \in X : \A g \in X : g # f => EventBefore(f, g)
  <2>1. X \subseteq C /\ X # {}
    BY <1>4
  <2> HIDE DEF X
  <2> QED
    BY <2>1, FirstIs
<1>6. f \in C /\ EventBefore(e, f) /\ Excess(Since(C, e, f)) > 0
  OBVIOUS
<1>7. \A g \in C : g \in X => ~EventBefore(g, f)
  <2> SUFFICES ASSUME NEW g \in C, g \in X, EventBefore(g, f)
               PROVE  FALSE
    OBVIOUS
  <2>1. g = f \/ EventBefore(f, g)
    BY <1>5
  <2> QED
    BY <1>6, <2>1, BeforeIs
<1>8. ~f.on
  <2> SUFFICES ASSUME f.on
               PROVE  FALSE
    OBVIOUS
  <2>1. /\ Excess(Since(C, e, f)) = Excess(Inside(C, e, f)) - 1
        /\ Excess(Inside(C, e, f)) \in Int
    BY <1>6, SinceIs
  <2>2. Excess(Inside(C, e, f)) > 0
    BY <1>6, <2>1
  <2>3. Inside(C, e, f) # {}
    <3>1. Excess({}) = 0
      BY AllOff, FS_EmptySet
    <3> QED
      BY <2>2, <3>1
  <2>4. PICK g \in Inside(C, e, f) : Since(C, e, g) = Inside(C, e, f)
    BY <1>6, <2>3, LastOfOpen
  <2>5. g \in C /\ g \in X /\ EventBefore(g, f)
    BY <2>2, <2>4 DEF Inside
  <2> QED
    BY <1>7, <2>5
<1>9. \A g \in Since(C, e, f) : Excess(Since(C, e, g)) > 0 => ~EventBefore(g, f)
  BY <1>7 DEF Since
<1> QED
  BY <1>6, <1>8, <1>9 DEF Pairs

LEMMA ClosedOnce ==
  ASSUME NEW C, Stream(C), NEW e \in C, NEW f \in C, NEW g \in C, Pairs(C, e, f), Pairs(C, e, g)
  PROVE  f = g
<1>1. ASSUME NEW x \in C, NEW y \in C, Pairs(C, e, x), Pairs(C, e, y), EventBefore(x, y)
      PROVE  FALSE
  <2>1. x \in Since(C, e, y)
    <3>1. ~EventBefore(y, x) /\ EventBefore(e, x)
      BY <1>1, BeforeIs DEF Pairs
    <3> QED
      BY <3>1 DEF Since
  <2> QED
    BY <1>1, <2>1 DEF Pairs
<1> QED
  BY <1>1, BeforeIs

\* No note-off closes two.
LEMMA ClosesOne ==
  ASSUME NEW C, Stream(C), NEW d \in C, NEW e \in C, NEW f \in C, d.on, e.on,
         Pairs(C, d, f), Pairs(C, e, f)
  PROVE  d = e
<1>1. ASSUME NEW x \in C, NEW y \in C, y.on, Pairs(C, x, f), Pairs(C, y, f), EventBefore(x, y)
      PROVE  FALSE
  <2>1. EventBefore(y, f) /\ EventBefore(x, f)
    BY <1>1 DEF Pairs
  <2>2. PICK A, B : A = Inside(C, x, y) /\ B = Inside(C, y, f)
    OBVIOUS
  <2>3. Inside(C, x, f) = (A \cup {y}) \cup B
    <3>1. ASSUME NEW h \in C, EventBefore(x, h), EventBefore(h, f)
          PROVE  h \in (A \cup {y}) \cup B
      <4>1. h = y \/ EventBefore(h, y) \/ EventBefore(y, h)
        BY BeforeIs
      <4> QED
        BY <2>2, <3>1, <4>1 DEF Inside
    <3>2. ASSUME NEW h \in A \cup B
          PROVE  h \in C /\ EventBefore(x, h) /\ EventBefore(h, f)
      <4>1. CASE h \in A
        <5>1. h \in C /\ EventBefore(x, h) /\ EventBefore(h, y)
          BY <2>2, <4>1 DEF Inside
        <5> QED
          BY <2>1, <5>1, BeforeIs
      <4>2. CASE h \in B
        <5>1. h \in C /\ EventBefore(y, h) /\ EventBefore(h, f)
          BY <2>2, <4>2 DEF Inside
        <5> QED
          BY <1>1, <5>1, BeforeIs
      <4> QED
        BY <3>2, <4>1, <4>2
    <3> QED
      BY <1>1, <2>1, <3>1, <3>2 DEF Inside
  <2>4. IsFiniteSet(A) /\ IsFiniteSet(B) /\ y \notin A /\ (A \cup {y}) \cap B = {}
    <3>1. IsFiniteSet(A) /\ IsFiniteSet(B)
      BY <2>2, FS_Subset DEF Inside, Stream
    <3>2. y \notin A /\ y \notin B
      BY <2>2, BeforeIs DEF Inside
    <3>3. ASSUME NEW h \in A, h \in B
          PROVE  FALSE
      <4>1. h \in C /\ EventBefore(h, y) /\ EventBefore(y, h)
        BY <2>2, <3>3 DEF Inside
      <4> QED
        BY <4>1, BeforeIs
    <3> QED
      BY <3>1, <3>2, <3>3
  <2>5. Excess(A \cup {y}) = Excess(A) - 1 /\ Excess(A) \in Int
    BY <1>1, <2>4, ExcessOne
  <2>6. Excess((A \cup {y}) \cup B) = Excess(A \cup {y}) + Excess(B)
    <3>1. IsFiniteSet(A \cup {y})
      BY <2>4, FS_AddElement
    <3> QED
      BY <2>4, <3>1, ExcessUnion
  <2>7. Excess((A \cup {y}) \cup B) = 0 /\ Excess(B) = 0
    BY <1>1, <2>2, <2>3, PairsIs
  <2>8. Excess(A) = 1
    BY <2>5, <2>6, <2>7
  <2>9. A # {}
    <3>1. Excess({}) = 0
      BY AllOff, FS_EmptySet
    <3> QED
      BY <2>8, <3>1
  <2>10. PICK g \in A : Since(C, x, g) = A
    BY <1>1, <2>2, <2>9, LastOfOpen
  <2>11. g \in Inside(C, x, f)
    BY <2>3
  <2>12. Excess(Since(C, x, g)) <= 0
    BY <1>1, <2>11, PairsIs
  <2> QED
    BY <2>8, <2>10, <2>12
<1> QED
  BY <1>1, BeforeIs

\* A note-off up to which there are no more note-offs than note-ons closes one.
LEMMA ClosesSome ==
  ASSUME NEW C, Stream(C), NEW f \in C, ~f.on, Excess(UpTo(C, f)) <= 0
  PROVE  \E e \in C : e.on /\ Pairs(C, e, f)
<1> DEFINE Suffix(e) == {h \in C : ~EventBefore(h, e) /\ ~EventBefore(f, h)}
           W == {e \in C : e.on /\ EventBefore(e, f) /\ Excess(Suffix(e)) <= 0}
<1>1. IsFiniteSet(C) /\ \A h \in C : h.on \in BOOLEAN
  BY DEF Stream, IsEvent
<1>2. ASSUME NEW S, S \subseteq C, f \in S, \A h \in S : h # f => EventBefore(h, f), Excess(S) <= 0,
             \A e \in S : {h \in S : ~EventBefore(h, e)} = Suffix(e)
      PROVE  \E e \in S : e \in W
  <2>1. PICK e \in S : /\ e.on /\ EventBefore(e, f)
                       /\ Excess({h \in S : ~EventBefore(h, e)}) <= 0
    BY <1>2, OnBefore
  <2> QED
    BY <1>2, <2>1
<1>3. W # {}
  <2>1. UpTo(C, f) \subseteq C /\ f \in UpTo(C, f)
    BY BeforeIs DEF UpTo
  <2>2. \A h \in UpTo(C, f) : h # f => EventBefore(h, f)
    BY BeforeIs DEF UpTo
  <2>3. \A e \in UpTo(C, f) : {h \in UpTo(C, f) : ~EventBefore(h, e)} = Suffix(e)
    BY DEF UpTo
  <2> HIDE DEF W, Suffix
  <2> QED
    BY <1>2, <2>1, <2>2, <2>3
<1>4. PICK e \in W : \A x \in W : x # e => EventBefore(x, e)
  <2>1. W \subseteq C
    OBVIOUS
  <2> HIDE DEF W
  <2> QED
    BY <1>3, <2>1, LastIs
<1>5. e \in C /\ e.on /\ EventBefore(e, f) /\ Excess(Suffix(e)) <= 0
  OBVIOUS
<1>6. Excess(Since(C, e, f)) \in Int /\ Excess(Since(C, e, f)) <= 1
  <2>1. PICK S : S = Since(C, e, f)
    OBVIOUS
  <2>2. Suffix(e) = S \cup {e} /\ e \notin S
    <3>1. e \notin S
      BY <1>5, <2>1, BeforeIs DEF Since
    <3>2. e \in Suffix(e)
      BY <1>5, BeforeIs
    <3>3. ASSUME NEW h \in C
          PROVE  h \in Suffix(e) <=> h \in S \cup {e}
      <4>1. h = e \/ (EventBefore(e, h) /\ ~EventBefore(h, e)) \/ (EventBefore(h, e) /\ ~EventBefore(e, h))
        BY <1>5, BeforeIs
      <4> QED
        BY <2>1, <3>2, <4>1 DEF Since
    <3>4. S \subseteq C
      BY <2>1 DEF Since
    <3> HIDE DEF W
    <3> QED
      BY <1>5, <3>1, <3>2, <3>3, <3>4
  <2>3. IsFiniteSet(S)
    BY <1>1, <2>1, FS_Subset DEF Since
  <2>4. Excess(S \cup {e}) = Excess(S) - 1 /\ Excess(S) \in Int
    BY <1>5, <1>1, <2>2, <2>3, ExcessOne
  <2> HIDE DEF Suffix
  <2> QED
    BY <1>5, <2>1, <2>2, <2>4
\* Any later note-on of the kind is none.
<1>7. ASSUME NEW S, S \subseteq C, f \in S, Excess(S) <= 0,
             \A h \in S : EventBefore(e, h),
             \A g \in S : {h \in S : ~EventBefore(h, g)} = Suffix(g),
             \A h \in S : ~EventBefore(f, h)
      PROVE  FALSE
  <2>1. \A h \in S : h # f => EventBefore(h, f)
    BY <1>7, BeforeIs
  <2>2. PICK x \in S : x \in W
    <3> HIDE DEF W, Suffix
    <3> QED
      BY <1>2, <1>7, <2>1
  <2>3. EventBefore(e, x) /\ x \in C
    BY <1>7
  <2>4. x = e \/ EventBefore(x, e)
    BY <1>4, <2>2
  <2> QED
    BY <1>5, <2>3, <2>4, BeforeIs
<1>8. Excess(Since(C, e, f)) = 1
  <2> SUFFICES ASSUME Excess(Since(C, e, f)) <= 0
               PROVE  FALSE
    BY <1>6
  <2>1. PICK S : S = Since(C, e, f)
    OBVIOUS
  <2>2. S \subseteq C /\ f \in S
    BY <1>5, <2>1, BeforeIs DEF Since
  <2>3. \A h \in S : EventBefore(e, h) /\ ~EventBefore(f, h)
    BY <2>1 DEF Since
  <2>4. ASSUME NEW g \in S
        PROVE  {h \in S : ~EventBefore(h, g)} = Suffix(g)
    <3>1. \A h \in C : ~EventBefore(h, g) => EventBefore(e, h)
      <4> SUFFICES ASSUME NEW h \in C, ~EventBefore(h, g)
                   PROVE  EventBefore(e, h)
        OBVIOUS
      <4>1. EventBefore(e, g) /\ g \in C
        BY <2>2, <2>3
      <4>2. h = g \/ EventBefore(g, h)
        BY <4>1, BeforeIs
      <4> QED
        BY <1>5, <4>1, <4>2, BeforeIs
    <3> QED
      BY <2>1, <3>1 DEF Since
  <2> HIDE DEF W, Suffix
  <2> QED
    BY <1>7, <2>1, <2>2, <2>3, <2>4
<1>9. ASSUME NEW g \in Since(C, e, f), Excess(Since(C, e, g)) > 0, EventBefore(g, f)
      PROVE  FALSE
  <2>1. g \in C /\ EventBefore(e, g)
    BY DEF Since
  <2>2. PICK A, S : A = Since(C, e, g) /\ S = {h \in C : EventBefore(g, h) /\ ~EventBefore(f, h)}
    OBVIOUS
  <2>3. Since(C, e, f) = A \cup S /\ A \cap S = {} /\ S \subseteq C /\ A \subseteq C
    <3>1. ASSUME NEW h \in C
          PROVE  /\ EventBefore(g, h) => EventBefore(e, h)
                 /\ ~EventBefore(g, h) => ~EventBefore(f, h)
      <4>1. EventBefore(g, h) => EventBefore(e, h)
        BY <1>5, <2>1, BeforeIs
      <4>2. EventBefore(f, h) => EventBefore(g, h)
        BY <1>9, <2>1, BeforeIs
      <4> QED
        BY <4>1, <4>2
    <3> HIDE DEF W
    <3> QED
      BY <2>2, <3>1 DEF Since
  <2>4. Excess(A \cup S) = Excess(A) + Excess(S) /\ Excess(A) \in Int /\ Excess(S) \in Int
    <3>1. IsFiniteSet(A) /\ IsFiniteSet(S)
      BY <1>1, <2>3, FS_Subset
    <3> QED
      BY <2>3, <3>1, ExcessUnion
  <2>5. Excess(S) <= 0
    BY <1>8, <1>9, <2>2, <2>3, <2>4
  <2>6. f \in S /\ \A h \in S : EventBefore(g, h) /\ ~EventBefore(f, h)
    BY <1>9, <2>2, BeforeIs
  <2>7. \A h \in S : EventBefore(e, h)
    BY <1>5, <2>1, <2>3, <2>6, BeforeIs
  <2>8. ASSUME NEW x \in S
        PROVE  {h \in S : ~EventBefore(h, x)} = Suffix(x)
    <3>1. \A h \in C : ~EventBefore(h, x) => EventBefore(g, h)
      <4> SUFFICES ASSUME NEW h \in C, ~EventBefore(h, x)
                   PROVE  EventBefore(g, h)
        OBVIOUS
      <4>1. EventBefore(g, x) /\ x \in C
        BY <2>3, <2>6
      <4>2. h = x \/ EventBefore(x, h)
        BY <4>1, BeforeIs
      <4> QED
        BY <2>1, <4>1, <4>2, BeforeIs
    <3> QED
      BY <2>2, <3>1
  <2> HIDE DEF W, Suffix
  <2> QED
    BY <1>7, <2>3, <2>5, <2>6, <2>7, <2>8
<1>10. Pairs(C, e, f)
  BY <1>5, <1>8, <1>9 DEF Pairs
<1> QED
  BY <1>5, <1>10

\* What note-ons open, and what closes them.
Openings(C) == {e \in C : e.on}
Closings(C, O) == {f \in C : \E e \in O : Pairs(C, e, f)}

\* What has been heard when the note-ons of a tick are about to sound.
Seen(S, T) == {e \in S : e.tick < T \/ (e.tick = T /\ ~e.on)}

LEMMA ExcessOf ==
  ASSUME NEW A, NEW B, IsFiniteSet(A), IsFiniteSet(B), \A e \in A : e.on, \A e \in B : ~e.on
  PROVE  /\ Excess(A \cup B) = Cardinality(B) - Cardinality(A)
         /\ Cardinality(A) \in Nat /\ Cardinality(B) \in Nat
<1>1. Excess(A) = -Cardinality(A) /\ Cardinality(A) \in Nat
  BY AllOn
<1>2. Excess(B) = Cardinality(B) /\ Cardinality(B) \in Nat
  BY AllOff
<1>3. A \cap B = {}
  OBVIOUS
<1>4. Excess(A \cup B) = Excess(A) + Excess(B)
  BY <1>3, ExcessUnion
<1> QED
  BY <1>1, <1>2, <1>4

LEMMA ClosingsCount ==
  ASSUME NEW C, Stream(C), NEW O, O \subseteq Openings(C),
         \A e \in O : \E f \in C : Pairs(C, e, f)
  PROVE  /\ Cardinality(Closings(C, O)) = Cardinality(O)
         /\ \A T \in Nat : Cardinality(Seen(Closings(C, O), T)) <= Cardinality(Seen(O, T))
<1> DEFINE D == Closings(C, O)
           c == [e \in O |-> CHOOSE f \in C : Pairs(C, e, f)]
<1>1. O \subseteq C /\ D \subseteq C /\ IsFiniteSet(O) /\ IsFiniteSet(D)
  <2>1. O \subseteq C /\ D \subseteq C
    BY DEF Openings, Closings
  <2> QED
    BY <2>1, FS_Subset DEF Stream
<1>2. \A e \in O : c[e] \in C /\ Pairs(C, e, c[e])
  OBVIOUS
<1> HIDE DEF c
<1>3. c \in Bijection(O, D)
  <2>1. c \in [O -> D]
    <3>1. c = [e \in O |-> c[e]]
      BY DEF c
    <3>2. \A e \in O : c[e] \in D
      BY <1>2 DEF Closings
    <3> QED
      BY <3>1, <3>2
  <2>2. ASSUME NEW d \in O, NEW e \in O, c[d] = c[e]
        PROVE  d = e
    <3>1. d \in C /\ e \in C /\ d.on /\ e.on /\ c[d] \in C
      BY <1>1, <1>2 DEF Openings
    <3> QED
      BY <1>2, <2>2, <3>1, ClosesOne
  <2>3. ASSUME NEW f \in D
        PROVE  \E e \in O : c[e] = f
    <3>1. PICK e \in O : Pairs(C, e, f) /\ f \in C
      BY DEF Closings
    <3>2. c[e] = f
      BY <1>1, <1>2, <3>1, ClosedOnce
    <3> QED
      BY <3>2
  <2> QED
    BY <2>1, <2>2, <2>3 DEF Bijection, Injection, IsInjective, Surjection
<1>4. Cardinality(D) = Cardinality(O)
  <2>1. ExistsBijection(O, D)
    BY <1>3 DEF ExistsBijection
  <2> QED
    BY <1>1, <2>1, FS_Bijection
<1>5. ASSUME NEW T \in Nat
      PROVE  Cardinality(Seen(D, T)) <= Cardinality(Seen(O, T))
  <2> DEFINE o == [f \in Seen(D, T) |-> CHOOSE e \in O : Pairs(C, e, f)]
  <2>1. \A f \in Seen(D, T) : f \in D /\ (f.tick < T \/ f.tick = T)
    BY DEF Seen
  <2>2. \A f \in Seen(D, T) : o[f] \in O /\ Pairs(C, o[f], f)
    BY <2>1 DEF Closings
  <2>3. DOMAIN o = Seen(D, T)
    OBVIOUS
  <2>4. o = [f \in Seen(D, T) |-> o[f]]
    OBVIOUS
  <2> HIDE DEF o, D
  <2>5. \A f \in Seen(D, T) : o[f] \in Seen(O, T)
    <3> SUFFICES ASSUME NEW f \in Seen(D, T)
                 PROVE  o[f] \in Seen(O, T)
      OBVIOUS
    <3>1. f \in C /\ o[f] \in C /\ (f.tick < T \/ f.tick = T)
      BY <1>1, <2>1, <2>2
    <3>2. /\ f.tick \in Nat /\ o[f].tick \in Nat /\ o[f].on /\ ~f.on
          /\ EventBefore(o[f], f)
      BY <2>2, <3>1 DEF Stream, IsEvent, Pairs, Openings
    <3>3. o[f].tick < f.tick
      BY <3>2 DEF EventBefore
    <3> QED
      BY <2>2, <3>1, <3>2, <3>3 DEF Seen
  <2>6. o \in [Seen(D, T) -> Seen(O, T)]
    BY <2>4, <2>5
  <2>7. ASSUME NEW f \in Seen(D, T), NEW g \in Seen(D, T), o[f] = o[g]
        PROVE  f = g
    <3>1. f \in C /\ g \in C /\ o[f] \in C
      BY <1>1, <2>1, <2>2
    <3> QED
      BY <2>2, <2>7, <3>1, ClosedOnce
  <2>8. o \in Injection(Seen(D, T), Seen(O, T))
    BY <2>6, <2>7 DEF Injection, IsInjective
  <2>9. IsFiniteSet(Seen(O, T))
    BY <1>1, FS_Subset DEF Seen
  <2> QED
    BY <2>8, <2>9, FS_Injection
<1> QED
  BY <1>4, <1>5

\* Notes opened and closed leave nothing over, and never a note-off too many.
LEMMA ClosedExcess ==
  ASSUME NEW C, Stream(C), NEW O, O \subseteq Openings(C),
         \A e \in O : \E f \in C : Pairs(C, e, f),
         NEW P, P = O \cup Closings(C, O)
  PROVE  /\ Excess(P) = 0
         /\ \A T \in Nat : Excess(Seen(P, T)) <= 0
<1>1. PICK D : D = Closings(C, O)
  OBVIOUS
<1>2. /\ O \subseteq C /\ D \subseteq C /\ IsFiniteSet(O) /\ IsFiniteSet(D)
      /\ (\A e \in O : e.on) /\ (\A e \in D : ~e.on)
  <2>1. O \subseteq C /\ D \subseteq C
    BY <1>1 DEF Openings, Closings
  <2>2. (\A e \in O : e.on) /\ (\A e \in D : ~e.on)
    BY <1>1 DEF Openings, Closings, Pairs
  <2> QED
    BY <2>1, <2>2, FS_Subset DEF Stream
<1>3. Excess(O \cup D) = 0
  <2>1. Excess(O \cup D) = Cardinality(D) - Cardinality(O) /\ Cardinality(O) \in Nat
    BY <1>2, ExcessOf
  <2>2. Cardinality(D) = Cardinality(O)
    BY <1>1, ClosingsCount
  <2> QED
    BY <2>1, <2>2
<1>4. ASSUME NEW T \in Nat
      PROVE  Excess(Seen(O \cup D, T)) <= 0
  <2>1. Seen(O \cup D, T) = Seen(O, T) \cup Seen(D, T)
    BY DEF Seen
  <2>2. /\ IsFiniteSet(Seen(O, T)) /\ IsFiniteSet(Seen(D, T))
        /\ (\A e \in Seen(O, T) : e.on) /\ (\A e \in Seen(D, T) : ~e.on)
    BY <1>2, FS_Subset DEF Seen
  <2>3. /\ Excess(Seen(O, T) \cup Seen(D, T)) = Cardinality(Seen(D, T)) - Cardinality(Seen(O, T))
        /\ Cardinality(Seen(O, T)) \in Nat /\ Cardinality(Seen(D, T)) \in Nat
    BY <2>2, ExcessOf
  <2>4. Cardinality(Seen(D, T)) <= Cardinality(Seen(O, T))
    BY <1>1, ClosingsCount
  <2>5. PICK x, y : x = Cardinality(Seen(O, T)) /\ y = Cardinality(Seen(D, T))
    OBVIOUS
  <2>6. Excess(Seen(O \cup D, T)) = y - x
    BY <2>1, <2>3, <2>5
  <2>7. x \in Nat /\ y \in Nat /\ y <= x
    BY <2>3, <2>4, <2>5
  <2> QED
    BY <2>6, <2>7
<1> QED
  BY <1>1, <1>3, <1>4

\* Of the events of a track and voice, no note-off before the note it ends,
\* and when all are heard none is missing.
Prefixed(S) == Excess(S) <= 0 /\ \A T \in Nat : Excess(Seen(S, T)) <= 0
Balanced(S) == Excess(S) = 0 /\ Prefixed(S)

LEMMA ExcessParts ==
  ASSUME NEW C, IsFiniteSet(C), NEW A, NEW B, C = A \cup B, A \cap B = {}
  PROVE  /\ Excess(C) = Excess(A) + Excess(B)
         /\ Excess(A) \in Int /\ Excess(B) \in Int /\ Excess(C) \in Int
         /\ IsFiniteSet(A) /\ IsFiniteSet(B)
<1>1. IsFiniteSet(A) /\ IsFiniteSet(B)
  BY FS_Subset
<1> QED
  BY <1>1, ExcessUnion

LEMMA SeenParts ==
  ASSUME NEW C, IsFiniteSet(C), NEW A, NEW B, C = A \cup B, A \cap B = {}, NEW T
  PROVE  /\ Excess(Seen(C, T)) = Excess(Seen(A, T)) + Excess(Seen(B, T))
         /\ Excess(Seen(A, T)) \in Int /\ Excess(Seen(B, T)) \in Int
         /\ Excess(Seen(C, T)) \in Int
<1>1. PICK X, Y, Z : X = Seen(C, T) /\ Y = Seen(A, T) /\ Z = Seen(B, T)
  OBVIOUS
<1>2. X = Y \cup Z /\ Y \cap Z = {} /\ X \subseteq C
  BY <1>1 DEF Seen
<1>3. IsFiniteSet(X)
  BY <1>2, FS_Subset
<1>4. /\ Excess(X) = Excess(Y) + Excess(Z)
      /\ Excess(X) \in Int /\ Excess(Y) \in Int /\ Excess(Z) \in Int
  BY <1>2, <1>3, ExcessParts
<1> QED
  BY <1>1, <1>4

\* Without some notes and what closes them as many note-offs are left over as
\* there were, none of them earlier.
LEMMA Removal ==
  ASSUME NEW C, Stream(C), \A e \in Openings(C) : \E f \in C : Pairs(C, e, f),
         NEW R, R \subseteq Openings(C), NEW L, L = C \ (R \cup Closings(C, R))
  PROVE  /\ Excess(L) = Excess(C)
         /\ \A T \in Nat : Excess(Seen(L, T)) <= Excess(C)
         /\ \A T \in Nat :
              (\A f \in Seen(C, T) : f.on \/ f \in Closings(C, Openings(C))) => Excess(Seen(L, T)) <= 0
<1>1. PICK O, K : O = Openings(C) /\ K = O \ R
  OBVIOUS
<1>2. PICK U : U = {f \in C : ~f.on /\ f \notin Closings(C, O)}
  OBVIOUS
<1>3. PICK W, P : W = O \cup Closings(C, O) /\ P = K \cup Closings(C, K)
  OBVIOUS
<1>4. IsFiniteSet(C) /\ IsFiniteSet(L) /\ IsFiniteSet(U) /\ L \subseteq C /\ U \subseteq C
  BY <1>2, FS_Subset DEF Stream
<1>5. C = W \cup U /\ W \cap U = {}
  <2>1. W \subseteq C /\ \A h \in C : h.on => h \in O
    BY <1>1, <1>3 DEF Openings, Closings
  <2>2. \A h \in O : h.on
    BY <1>1 DEF Openings
  <2> QED
    BY <1>2, <1>3, <2>1, <2>2
<1>6. L = P \cup U /\ P \cap U = {}
  <2>1. Closings(C, O) = Closings(C, K) \cup Closings(C, R)
    BY <1>1 DEF Closings
  <2>2. Closings(C, K) \cap Closings(C, R) = {}
    <3> SUFFICES ASSUME NEW f \in C, NEW d \in K, NEW e \in R, Pairs(C, d, f), Pairs(C, e, f)
                 PROVE  FALSE
      BY DEF Closings
    <3>1. d \in C /\ e \in C /\ d.on /\ e.on /\ d # e
      BY <1>1 DEF Openings
    <3> QED
      BY <3>1, ClosesOne
  <2>3. O = K \cup R /\ K \cap R = {}
    BY <1>1
  <2>4. /\ \A h \in O : h.on /\ h \in C
        /\ \A h \in Closings(C, O) : ~h.on /\ h \in C
    BY <1>1 DEF Openings, Closings, Pairs
  <2> QED
    BY <1>2, <1>3, <1>5, <2>1, <2>2, <2>3, <2>4
<1>7. /\ Excess(W) = 0 /\ Excess(P) = 0
      /\ \A T \in Nat : Excess(Seen(P, T)) <= 0
  <2>1. O \subseteq Openings(C) /\ K \subseteq Openings(C)
    BY <1>1
  <2>2. Excess(W) = 0
    BY <1>1, <1>3, <2>1, ClosedExcess
  <2>3. Excess(P) = 0 /\ \A T \in Nat : Excess(Seen(P, T)) <= 0
    BY <1>3, <2>1, ClosedExcess
  <2> QED
    BY <2>2, <2>3
<1>8. Excess(U) = Cardinality(U) /\ Cardinality(U) \in Nat
  <2>1. \A f \in U : ~f.on
    BY <1>2
  <2> QED
    BY <1>4, <2>1, AllOff
<1>9. Excess(C) = Cardinality(U) /\ Excess(L) = Cardinality(U)
  <2>1. Excess(C) = Excess(W) + Excess(U)
    BY <1>4, <1>5, ExcessParts, ZenonT(60)
  <2>2. Excess(L) = Excess(P) + Excess(U)
    <3>1. PICK X : X = L
      OBVIOUS
    <3>2. IsFiniteSet(X) /\ X = P \cup U /\ P \cap U = {}
      BY <1>4, <1>6, <3>1
    <3>3. Excess(X) = Excess(P) + Excess(U)
      BY <3>2, ExcessParts
    <3> QED
      BY <3>1, <3>3
  <2> QED
    BY <1>7, <1>8, <2>1, <2>2
<1>10. ASSUME NEW T \in Nat
       PROVE  /\ Excess(Seen(L, T)) <= Excess(C)
              /\ (\A f \in Seen(C, T) : f.on \/ f \in Closings(C, Openings(C))) => Excess(Seen(L, T)) <= 0
  <2>1. PICK V : V = Seen(U, T)
    OBVIOUS
  <2>2. V \subseteq U /\ IsFiniteSet(V) /\ \A f \in V : ~f.on
    <3>1. V \subseteq U
      BY <2>1 DEF Seen
    <3> QED
      BY <1>2, <1>4, <3>1, FS_Subset
  <2>3. Excess(V) = Cardinality(V) /\ Cardinality(V) \in Nat /\ Cardinality(V) <= Cardinality(U)
    BY <1>4, <2>2, AllOff, FS_Subset
  <2>4. /\ Excess(Seen(L, T)) = Excess(Seen(P, T)) + Excess(V)
        /\ Excess(Seen(P, T)) \in Int
    BY <1>4, <1>6, <2>1, SeenParts
  <2>5. Excess(Seen(P, T)) <= 0
    BY <1>7
  <2>6. Excess(Seen(L, T)) <= Cardinality(V) /\ Excess(Seen(L, T)) \in Int
    BY <2>3, <2>4, <2>5
  <2>7. ASSUME \A f \in Seen(C, T) : f.on \/ f \in Closings(C, Openings(C))
        PROVE  Excess(Seen(L, T)) <= 0
    <3>1. V = {}
      BY <1>1, <1>2, <2>1, <2>7 DEF Seen
    <3> QED
      BY <2>6, <3>1, FS_EmptySet
  <2> QED
    BY <1>8, <1>9, <2>3, <2>6, <2>7
<1> QED
  BY <1>9, <1>10

\* The events before a note-on, and those up to a note-off.
LEMMA PrefixedBefore ==
  ASSUME NEW C, Stream(C), NEW X, X \subseteq C, Prefixed(X), NEW e \in C
  PROVE  /\ e.on => Excess({h \in X : EventBefore(h, e)}) <= 0
         /\ ~e.on => Excess(UpTo(X, e)) <= 0
<1>1. /\ IsFiniteSet(X) /\ e.tick \in Nat
      /\ \A h \in C : h.tick \in Nat /\ h.on \in BOOLEAN
  BY FS_Subset DEF Stream, IsEvent
<1>2. PICK S : S = Seen(X, e.tick) /\ Excess(S) <= 0
  BY <1>1 DEF Prefixed
<1>3. ASSUME e.on
      PROVE  Excess({h \in X : EventBefore(h, e)}) <= 0
  <2>1. PICK B, O : B = {h \in X : EventBefore(h, e)} /\ O = {h \in B : h.on /\ h.tick = e.tick}
    OBVIOUS
  <2>2. B = S \cup O /\ S \cap O = {}
    <3>1. ASSUME NEW h \in X
          PROVE  /\ h \in S => EventBefore(h, e)
                 /\ EventBefore(h, e) => h \in S \/ (h.on /\ h.tick = e.tick)
                 /\ h \in S => ~(h.on /\ h.tick = e.tick)
      <4>1. h.tick \in Nat /\ h.on \in BOOLEAN
        BY <1>1
      <4> QED
        BY <1>1, <1>2, <1>3, <4>1 DEF Seen, EventBefore
    <3>2. S \subseteq X
      BY <1>2 DEF Seen
    <3> QED
      BY <2>1, <3>1, <3>2
  <2>3. IsFiniteSet(B)
    BY <1>1, <2>1, FS_Subset
  <2>4. Excess(B) = Excess(S) + Excess(O) /\ Excess(S) \in Int /\ IsFiniteSet(O)
    BY <2>2, <2>3, ExcessParts
  <2>5. Excess(O) = -Cardinality(O) /\ Cardinality(O) \in Nat
    <3>1. \A h \in O : h.on
      BY <2>1
    <3> QED
      BY <2>4, <3>1, AllOn
  <2>6. Excess(B) <= 0
    BY <1>2, <2>4, <2>5
  <2> QED
    BY <2>1, <2>6
<1>4. ASSUME ~e.on
      PROVE  Excess(UpTo(X, e)) <= 0
  <2>1. PICK B, O : B = UpTo(X, e) /\ O = {h \in S : EventBefore(e, h)}
    OBVIOUS
  <2>2. S = B \cup O /\ B \cap O = {} /\ \A h \in O : ~h.on
    <3>1. ASSUME NEW h \in X
          PROVE  /\ ~EventBefore(e, h) => h \in S
                 /\ h \in S /\ EventBefore(e, h) => ~h.on
      <4>1. h.tick \in Nat /\ h.on \in BOOLEAN
        BY <1>1
      <4> QED
        BY <1>1, <1>2, <1>4, <4>1 DEF Seen, EventBefore
    <3>2. S \subseteq X
      BY <1>2 DEF Seen
    <3> QED
      BY <2>1, <3>1, <3>2 DEF UpTo
  <2>3. IsFiniteSet(S)
    BY <1>1, <1>2, FS_Subset DEF Seen
  <2>4. Excess(S) = Excess(B) + Excess(O) /\ Excess(B) \in Int /\ IsFiniteSet(O)
    BY <2>2, <2>3, ExcessParts
  <2>5. Excess(O) = Cardinality(O) /\ Cardinality(O) \in Nat
    BY <2>2, <2>4, AllOff
  <2>6. Excess(B) <= 0
    BY <1>2, <2>4, <2>5
  <2> QED
    BY <2>1, <2>6
<1> QED
  BY <1>3, <1>4

\* What the conflict pass removes of a queue that a batch joined leaves the
\* events balanced, with what was sent: every note-on of the queue is closed
\* in it.
LEMMA BalanceKept ==
  ASSUME NEW E, Stream(E), NEW S, NEW Q, NEW N, E = S \cup (Q \cup N),
         S \cap (Q \cup N) = {}, Q \cap N = {},
         Balanced(S \cup Q), Balanced(N), Prefixed(S),
         \A s \in S, q \in Q : s.tick < q.tick,
         NEW R, R \subseteq Openings(Q \cup N)
  PROVE  Balanced(S \cup ((Q \cup N) \ (R \cup Closings(Q \cup N, R))))
<1>1. PICK C : C = Q \cup N
  OBVIOUS
<1>2. PICK L : L = C \ (R \cup Closings(C, R))
  OBVIOUS
<1>3. C \subseteq E /\ S \subseteq E /\ Stream(C) /\ Stream(S) /\ IsFiniteSet(C) /\ IsFiniteSet(S)
  <2>1. C \subseteq E /\ S \subseteq E
    BY <1>1
  <2>2. Stream(C) /\ Stream(S)
    BY <2>1, StreamSubset
  <2> QED
    BY <2>1, <2>2 DEF Stream
<1>4. PICK s, q : s = Excess(S) /\ q = Excess(Q)
  OBVIOUS
<1>5. s \in Int /\ q \in Int /\ s + q = 0 /\ s <= 0 /\ Excess(N) = 0 /\ Excess(C) = q
  <2>1. Excess(S \cup Q) = s + q /\ s \in Int /\ q \in Int
    <3>1. IsFiniteSet(Q) /\ S \cap Q = {}
      BY <1>1, <1>3, FS_Subset
    <3> QED
      BY <1>3, <1>4, <3>1, ExcessUnion
  <2>2. Excess(C) = q + Excess(N)
    BY <1>1, <1>3, <1>4, ExcessParts
  <2>3. Excess(S \cup Q) = 0 /\ Excess(N) = 0 /\ Excess(S) <= 0
    BY DEF Balanced, Prefixed
  <2>4. s + q = 0 /\ s <= 0
    BY <1>4, <2>1, <2>3
  <2>5. Excess(C) = q
    BY <2>1, <2>2, <2>3
  <2> QED
    BY <2>1, <2>3, <2>4, <2>5
<1>6. \A h \in E : h.tick \in Nat /\ h.on \in BOOLEAN
  BY DEF Stream, IsEvent
<1>7. ASSUME NEW e \in C, e.on
      PROVE  \E f \in C : Pairs(C, e, f)
  <2> DEFINE Before(X) == {h \in X : EventBefore(h, e)}
  <2>1. Excess(Before(N)) <= 0
    <3>1. N \subseteq E /\ e \in E /\ Prefixed(N)
      BY <1>1, <1>3 DEF Balanced
    <3> QED
      BY <1>7, <3>1, PrefixedBefore
  <2>2. s + Excess(Before(Q)) <= 0
    <3>1. CASE Before(Q) = {}
      <4>1. Excess({}) = 0
        BY AllOff, FS_EmptySet
      <4> QED
        BY <1>5, <3>1, <4>1
    <3>2. CASE Before(Q) # {}
      <4>1. PICK x \in Q : EventBefore(x, e)
        BY <3>2
      <4>2. \A h \in S : EventBefore(h, e)
        <5> SUFFICES ASSUME NEW h \in S
                     PROVE  EventBefore(h, e)
          OBVIOUS
        <5>1. h \in E /\ x \in E /\ e \in E /\ h.tick < x.tick
          BY <1>1, <1>3
        <5>2. h.tick \in Nat /\ x.tick \in Nat /\ e.tick \in Nat
          BY <1>6, <5>1
        <5>3. x.tick <= e.tick
          BY <4>1, <5>2 DEF EventBefore
        <5> QED
          BY <5>1, <5>2, <5>3 DEF EventBefore
      <4>3. Before(S \cup Q) = S \cup Before(Q) /\ S \cap Before(Q) = {}
        BY <4>2
      <4>4. Excess(Before(S \cup Q)) <= 0
        <5>1. S \cup Q \subseteq E /\ e \in E /\ Prefixed(S \cup Q)
          BY <1>1, <1>3 DEF Balanced
        <5> QED
          BY <1>7, <5>1, PrefixedBefore
      <4>5. IsFiniteSet(Before(Q))
        <5>1. Before(Q) \subseteq C
          BY <1>1
        <5> HIDE DEF Before
        <5> QED
          BY <1>3, <5>1, FS_Subset
      <4>6. Excess(S \cup Before(Q)) = s + Excess(Before(Q))
        <5> HIDE DEF Before
        <5> QED
          BY <1>3, <1>4, <4>3, <4>5, ExcessUnion
      <4> HIDE DEF Before
      <4> QED
        BY <4>3, <4>4, <4>6
    <3> QED
      BY <3>1, <3>2
  <2>3. PICK A, B : A = After(C, e) /\ B = Before(C)
    OBVIOUS
  <2>4. C = (B \cup {e}) \cup A /\ e \notin B /\ (B \cup {e}) \cap A = {} /\ B \subseteq C
    <3>1. ASSUME NEW h \in C
          PROVE  /\ h = e \/ EventBefore(h, e) \/ EventBefore(e, h)
                 /\ ~(EventBefore(h, e) /\ EventBefore(e, h)) /\ ~EventBefore(e, e)
      BY <1>3, BeforeIs
    <3> QED
      BY <2>3, <3>1 DEF After
  <2>5. Excess(C) = Excess(B \cup {e}) + Excess(A) /\ Excess(A) \in Int
    BY <1>3, <2>4, ExcessParts
  <2>6. Excess(B \cup {e}) = Excess(B) - 1 /\ Excess(B) \in Int
    <3>1. IsFiniteSet(B)
      BY <1>3, <2>4, FS_Subset
    <3> QED
      BY <1>7, <2>4, <3>1, ExcessOne
  <2>7. Excess(B) = Excess(Before(Q)) + Excess(Before(N)) /\ Excess(Before(Q)) \in Int /\ Excess(Before(N)) \in Int
    <3>1. B = Before(Q) \cup Before(N) /\ Before(Q) \cap Before(N) = {}
      BY <1>1, <2>3
    <3>2. IsFiniteSet(B)
      BY <1>3, <2>4, FS_Subset
    <3> HIDE DEF Before
    <3> QED
      BY <3>1, <3>2, ExcessParts
  <2>8. Excess(A) > 0
    <3>1. PICK b, n : b = Excess(Before(Q)) /\ n = Excess(Before(N))
      OBVIOUS
    <3>2. b \in Int /\ n \in Int /\ n <= 0 /\ s + b <= 0 /\ Excess(B) = b + n
      <4> HIDE DEF Before
      <4> QED
        BY <2>1, <2>2, <2>7, <3>1
    <3> QED
      BY <1>5, <2>5, <2>6, <3>2
  <2> QED
    BY <1>3, <1>7, <2>3, <2>8, IsClosed
<1>8. R \subseteq Openings(C) /\ \A e \in Openings(C) : \E f \in C : Pairs(C, e, f)
  BY <1>1, <1>7 DEF Openings
<1>9. /\ Excess(L) = q
      /\ \A T \in Nat : Excess(Seen(L, T)) <= q
      /\ \A T \in Nat :
           (\A f \in Seen(C, T) : f.on \/ f \in Closings(C, Openings(C))) => Excess(Seen(L, T)) <= 0
  <2>1. /\ Excess(L) = Excess(C)
        /\ \A T \in Nat : Excess(Seen(L, T)) <= Excess(C)
        /\ \A T \in Nat :
              (\A f \in Seen(C, T) : f.on \/ f \in Closings(C, Openings(C))) => Excess(Seen(L, T)) <= 0
    BY <1>2, <1>3, <1>8, Removal
  <2> QED
    BY <1>5, <2>1
<1>10. ASSUME NEW f \in C, ~f.on, NEW h \in S, f.tick <= h.tick
       PROVE  f \in Closings(C, Openings(C))
  <2>1. UpTo(C, f) = UpTo(N, f)
    <3> SUFFICES ASSUME NEW x \in Q, ~EventBefore(f, x)
                 PROVE  FALSE
      BY <1>1 DEF UpTo
    <3>1. x.tick \in Nat /\ f.tick \in Nat /\ h.tick \in Nat /\ h.tick < x.tick
      BY <1>1, <1>3, <1>6
    <3> QED
      BY <1>10, <3>1 DEF EventBefore
  <2>2. Excess(UpTo(N, f)) <= 0
    <3>1. N \subseteq E /\ f \in E /\ Prefixed(N)
      BY <1>1, <1>3 DEF Balanced
    <3> QED
      BY <1>10, <3>1, PrefixedBefore
  <2>3. PICK e \in C : e.on /\ Pairs(C, e, f)
    <3>1. Excess(UpTo(C, f)) <= 0
      BY <2>1, <2>2
    <3> QED
      BY <1>3, <1>10, <3>1, ClosesSome
  <2> QED
    BY <2>3 DEF Closings, Openings
<1>11. S \cap L = {} /\ IsFiniteSet(S \cup L) /\ L \subseteq C
  <2>1. L \subseteq C
    BY <1>2
  <2>2. S \cup L \subseteq E
    BY <1>3, <2>1
  <2> QED
    BY <1>1, <2>1, <2>2, FS_Subset DEF Stream
<1>12. Excess(S \cup L) = 0
  <2>1. Excess(S \cup L) = s + Excess(L)
    <3>1. IsFiniteSet(L)
      BY <1>3, <1>11, FS_Subset
    <3> QED
      BY <1>3, <1>4, <1>11, <3>1, ExcessUnion
  <2> QED
    BY <1>5, <1>9, <2>1
<1>13. ASSUME NEW T \in Nat
       PROVE  Excess(Seen(S \cup L, T)) <= 0
  <2>1. PICK a, b : a = Excess(Seen(S, T)) /\ b = Excess(Seen(L, T))
    OBVIOUS
  <2>2. Excess(Seen(S \cup L, T)) = a + b /\ a \in Int /\ b \in Int
    BY <1>11, <2>1, SeenParts
  <2>3. CASE \E h \in S : h.tick >= T
    <3>1. PICK h \in S : h.tick >= T
      BY <2>3
    <3>2. a <= 0
      BY <2>1 DEF Prefixed
    <3>3. \A f \in Seen(C, T) : f.on \/ f \in Closings(C, Openings(C))
      <4> SUFFICES ASSUME NEW f \in Seen(C, T), ~f.on
                   PROVE  f \in Closings(C, Openings(C))
        OBVIOUS
      <4>1. f \in C /\ (f.tick < T \/ f.tick = T)
        BY DEF Seen
      <4>2. f.tick \in Nat /\ h.tick \in Nat
        BY <1>3, <1>6, <4>1
      <4>3. f.tick <= h.tick
        BY <3>1, <4>1, <4>2
      <4> QED
        BY <1>10, <4>1, <4>3
    <3>4. b <= 0
      BY <1>9, <2>1, <3>3
    <3> QED
      BY <2>2, <3>2, <3>4
  <2>4. CASE ~(\E h \in S : h.tick >= T)
    <3>1. Seen(S, T) = S
      <4> SUFFICES ASSUME NEW h \in S
                   PROVE  h.tick < T
        BY DEF Seen
      <4>1. h.tick \in Nat
        BY <1>3, <1>6
      <4> QED
        BY <2>4, <4>1
    <3>2. a = s /\ b <= q
      BY <1>4, <1>9, <2>1, <3>1
    <3> QED
      BY <1>5, <2>2, <3>2
  <2> QED
    BY <2>3, <2>4
<1>14. Balanced(S \cup L)
  BY <1>12, <1>13 DEF Balanced, Prefixed
<1> QED
  BY <1>1, <1>2, <1>14

\* The image of a finite set is no larger, and as large when nothing meets.
LEMMA ImageSize ==
  ASSUME NEW X, IsFiniteSet(X), NEW Y, NEW f, \A x \in X : x \in DOMAIN f,
         Y = {f[x] : x \in X}
  PROVE  /\ IsFiniteSet(Y) /\ Cardinality(Y) <= Cardinality(X)
         /\ (\A x, y \in X : f[x] = f[y] => x = y) => Cardinality(Y) = Cardinality(X)
<1> DEFINE g == [x \in X |-> f[x]]
<1>1. g \in Surjection(X, Y)
  BY DEF Surjection
<1>2. (\A x, y \in X : f[x] = f[y] => x = y) => g \in Injection(X, Y)
  <2>1. g \in [X -> Y]
    OBVIOUS
  <2> QED
    BY <2>1 DEF Injection, IsInjective
<1> HIDE DEF g
<1>3. /\ IsFiniteSet(Y) /\ Cardinality(Y) <= Cardinality(X)
      /\ Cardinality(Y) = Cardinality(X) <=> g \in Injection(X, Y)
  BY <1>1, FS_Surjection
<1> QED
  BY <1>2, <1>3

LEMMA ExcessIs ==
  ASSUME NEW X, IsFiniteSet(X), NEW A, NEW B, A = {e \in X : e.on}, B = {e \in X : ~e.on}
  PROVE  /\ Excess(X) = Cardinality(B) - Cardinality(A)
         /\ Cardinality(A) \in Nat /\ Cardinality(B) \in Nat
         /\ IsFiniteSet(A) /\ IsFiniteSet(B)
<1>1. IsFiniteSet(A) /\ IsFiniteSet(B)
  BY FS_Subset
<1> QED
  BY <1>1, FS_CardinalityType DEF Excess

\* A note-off that comes later, and no other, keeps the balance.
LEMMA LaterKeeps ==
  ASSUME NEW X, Stream(X), Balanced(X), NEW m,
         \A e \in X : /\ e \in DOMAIN m /\ m[e].on = e.on /\ m[e].tick \in Nat /\ m[e].tick >= e.tick
                      /\ e.on => m[e] = e,
         \A e, f \in X : m[e] = m[f] => e = f,
         NEW Y, Y = {m[e] : e \in X}
  PROVE  Balanced(Y)
<1>1. IsFiniteSet(X) /\ \A e \in X : e.on \in BOOLEAN /\ e.tick \in Nat
  BY DEF Stream, IsEvent
<1>2. PICK A, B, D : A = {e \in X : e.on} /\ B = {e \in X : ~e.on} /\ D = {e \in Y : ~e.on}
  OBVIOUS
<1>3. A = {e \in Y : e.on}
  BY <1>2
<1>4. D = {m[e] : e \in B}
  BY <1>2
<1>5. IsFiniteSet(Y)
  BY <1>1, ImageSize
<1>6. /\ Excess(X) = Cardinality(B) - Cardinality(A) /\ Excess(Y) = Cardinality(D) - Cardinality(A)
      /\ Cardinality(A) \in Nat /\ Cardinality(B) \in Nat /\ Cardinality(D) \in Nat
      /\ IsFiniteSet(B)
  <2>1. /\ Excess(X) = Cardinality(B) - Cardinality(A) /\ IsFiniteSet(B)
        /\ Cardinality(A) \in Nat /\ Cardinality(B) \in Nat
    <3>1. A = {e \in X : e.on} /\ B = {e \in X : ~e.on} /\ IsFiniteSet(X)
      BY <1>1, <1>2
    <3> QED
      BY <3>1, ExcessIs
  <2>2. Excess(Y) = Cardinality(D) - Cardinality(A) /\ Cardinality(D) \in Nat
    BY <1>2, <1>3, <1>5, ExcessIs
  <2> QED
    BY <2>1, <2>2
<1>7. Excess(Y) = 0
  <2>1. /\ \A e \in B : e \in DOMAIN m
        /\ \A e, f \in B : m[e] = m[f] => e = f
    BY <1>2
  <2>2. Cardinality(D) = Cardinality(B)
    BY <1>4, <1>6, <2>1, ImageSize
  <2>3. Excess(X) = 0
    BY DEF Balanced
  <2> QED
    BY <1>6, <2>2, <2>3
<1>8. ASSUME NEW T \in Nat
      PROVE  Excess(Seen(Y, T)) <= 0
  <2>1. PICK P, Q : P = Seen(X, T) /\ Q = Seen(Y, T)
    OBVIOUS
  <2>2. IsFiniteSet(P) /\ IsFiniteSet(Q)
    <3>1. P \subseteq X /\ Q \subseteq Y
      BY <2>1 DEF Seen
    <3> QED
      BY <1>1, <1>5, <3>1, FS_Subset
  <2>3. PICK a, b, d : a = {e \in P : e.on} /\ b = {e \in P : ~e.on} /\ d = {e \in Q : ~e.on}
    OBVIOUS
  <2>4. a = {e \in Q : e.on}
    <3>1. ASSUME NEW e, e.on
          PROVE  e \in P <=> e \in Q
      <4>1. e \in X <=> e \in Y
        BY <1>2, <1>3, <3>1
      <4> QED
        BY <2>1, <4>1 DEF Seen
    <3> QED
      BY <2>3, <3>1
  <2>5. /\ Excess(P) = Cardinality(b) - Cardinality(a) /\ Excess(Q) = Cardinality(d) - Cardinality(a)
        /\ Cardinality(a) \in Nat /\ Cardinality(b) \in Nat /\ Cardinality(d) \in Nat
        /\ IsFiniteSet(b)
    <3>1. /\ Excess(P) = Cardinality(b) - Cardinality(a) /\ IsFiniteSet(b)
          /\ Cardinality(a) \in Nat /\ Cardinality(b) \in Nat
      BY <2>2, <2>3, ExcessIs
    <3>2. Excess(Q) = Cardinality(d) - Cardinality(a) /\ Cardinality(d) \in Nat
      BY <2>2, <2>3, <2>4, ExcessIs
    <3> QED
      BY <3>1, <3>2
  <2>6. Cardinality(d) <= Cardinality(b)
    <3>1. PICK i : i = {m[e] : e \in b}
      OBVIOUS
    <3>2. \A e \in b : e \in X
      BY <2>1, <2>3 DEF Seen
    <3>3. IsFiniteSet(i) /\ Cardinality(i) <= Cardinality(b) /\ Cardinality(i) \in Nat
      <4>1. IsFiniteSet(i) /\ Cardinality(i) <= Cardinality(b)
        BY <2>5, <3>1, <3>2, ImageSize
      <4> QED
        BY <4>1, FS_CardinalityType
    <3>4. d \subseteq i
      <4> SUFFICES ASSUME NEW g \in d
                   PROVE  g \in i
        OBVIOUS
      <4>1. g \in Y /\ (g.tick < T \/ g.tick = T) /\ ~g.on
        BY <2>1, <2>3 DEF Seen
      <4>2. PICK e \in X : g = m[e]
        BY <4>1
      <4>3. ~e.on /\ e.tick \in Nat /\ g.tick \in Nat /\ e.tick <= g.tick
        BY <1>1, <4>1, <4>2
      <4>4. e \in b
        BY <2>1, <2>3, <4>1, <4>3 DEF Seen
      <4> QED
        BY <3>1, <4>2, <4>4
    <3>5. Cardinality(d) <= Cardinality(i)
      BY <3>3, <3>4, FS_Subset
    <3> QED
      BY <2>5, <3>3, <3>5
  <2>7. Excess(P) <= 0
    BY <2>1 DEF Balanced, Prefixed
  <2>8. Excess(Q) <= 0
    BY <2>5, <2>6, <2>7
  <2> QED
    BY <2>1, <2>8
<1> QED
  BY <1>7, <1>8 DEF Balanced, Prefixed

\* What was heard up to a tick.
LEMMA HeardPrefixed ==
  ASSUME NEW X, Stream(X), Balanced(X), NEW now \in Nat,
         NEW Y, Y = {e \in X : e.tick <= now}
  PROVE  Prefixed(Y)
<1>1. IsFiniteSet(X) /\ IsFiniteSet(Y) /\ \A e \in X : e.tick \in Nat /\ e.on \in BOOLEAN
  BY FS_Subset DEF Stream, IsEvent
<1>2. Excess(Y) <= 0 /\ Excess(Y) \in Int
  <2>1. PICK S, O : S = Seen(X, now) /\ O = {e \in Y : e.on /\ e.tick = now}
    OBVIOUS
  <2>2. Y = S \cup O /\ S \cap O = {}
    <3>1. ASSUME NEW e \in X
          PROVE  /\ e.tick <= now => e.tick < now \/ e.tick = now
                 /\ e.tick < now \/ e.tick = now => e.tick <= now
                 /\ ~(e.tick < now /\ e.tick = now)
      BY <1>1
    <3> QED
      BY <2>1, <3>1 DEF Seen
  <2>3. Excess(Y) = Excess(S) + Excess(O) /\ Excess(S) \in Int /\ Excess(Y) \in Int /\ IsFiniteSet(O)
    BY <1>1, <2>2, ExcessParts
  <2>4. Excess(O) = -Cardinality(O) /\ Cardinality(O) \in Nat
    <3>1. \A e \in O : e.on
      BY <2>1
    <3> QED
      BY <2>3, <3>1, AllOn
  <2>5. Excess(S) <= 0
    BY <2>1 DEF Balanced, Prefixed
  <2> QED
    BY <2>3, <2>4, <2>5
<1>3. ASSUME NEW T \in Nat
      PROVE  Excess(Seen(Y, T)) <= 0
  <2>1. CASE T <= now
    <3>1. Seen(Y, T) = Seen(X, T)
      <4>1. ASSUME NEW e \in X, e.tick < T \/ e.tick = T
            PROVE  e.tick <= now
        BY <1>1, <2>1, <4>1
      <4> QED
        BY <4>1 DEF Seen
    <3> QED
      BY <3>1 DEF Balanced, Prefixed
  <2>2. CASE T > now
    <3>1. Seen(Y, T) = Y
      <4>1. ASSUME NEW e \in Y
            PROVE  e.tick < T
        <5>1. e.tick \in Nat /\ e.tick <= now
          BY <1>1
        <5> QED
          BY <2>2, <5>1
      <4> QED
        BY <4>1 DEF Seen
    <3> QED
      BY <1>2, <3>1
  <2> QED
    BY <2>1, <2>2
<1> QED
  BY <1>2, <1>3 DEF Prefixed

-----------------------------------------------------------------------------
(************************************************************************** *)
(* The queue and what was sent                                             *)
(************************************************************************** *)

\* Finitely many events, of a note one note-on and one note-off.
EventSet(X) ==
  /\ IsFiniteSet(X)
  /\ \A e \in X : IsEvent(e)
  /\ \A e, f \in X : e.note = f.note /\ e.on = f.on => e = f

Along(X, k) == {e \in X : Line(e) = k}

Sound(X) == \A k : Balanced(Along(X, k))
Heard(X) == \A k : Prefixed(Along(X, k))

LEMMA AlongStream ==
  ASSUME NEW X, EventSet(X), NEW k
  PROVE  Stream(Along(X, k))
<1>1. Along(X, k) \subseteq X
  BY DEF Along
<1>2. IsFiniteSet(Along(X, k))
  BY <1>1, FS_Subset DEF EventSet
<1> QED
  BY <1>1, <1>2 DEF Stream, EventSet, Along, Alike

LEMMA EventSubset ==
  ASSUME NEW X, EventSet(X), NEW Y, Y \subseteq X
  PROVE  EventSet(Y)
BY FS_Subset DEF EventSet

\* What removing groups removes: their note-ons and what closes them.
LEMMA SilencedIs ==
  ASSUME NEW q, NEW silenced, silenced \subseteq Groups(q)
  PROVE  \E R : /\ R \subseteq q /\ \A e \in R : e.on
                /\ EventsIn(silenced) = R \cup {f \in q : \E e \in R : Closes(q, e, f)}
<1>0. PICK R : R = {g.on : g \in silenced}
  OBVIOUS
<1>1. ASSUME NEW g \in silenced
      PROVE  /\ g.on \in q /\ g.on.on
             /\ g.offs = {f \in q : Closes(q, g.on, f)}
  <2>1. PICK e \in q : e.on /\ g = GroupOf(q, e)
    BY DEF Groups
  <2>2. g.on = e /\ g.offs = {f \in q : Closes(q, e, f)}
    BY <2>1 DEF GroupOf, OpenedBy
  <2> QED
    BY <2>1, <2>2
<1>2. UNION {g.offs : g \in silenced} = {f \in q : \E e \in R : Closes(q, e, f)}
  <2>1. ASSUME NEW g \in silenced, NEW f \in g.offs
        PROVE  f \in q /\ \E e \in R : Closes(q, e, f)
    BY <1>0, <1>1
  <2>2. ASSUME NEW f \in q, NEW e \in R, Closes(q, e, f)
        PROVE  \E g \in silenced : f \in g.offs
    BY <1>0, <1>1, <2>2
  <2> QED
    BY <2>1, <2>2
<1>3. R \subseteq q /\ \A e \in R : e.on
  BY <1>0, <1>1
<1>4. EventsIn(silenced) = R \cup {f \in q : \E e \in R : Closes(q, e, f)}
  BY <1>0, <1>2 DEF EventsIn
<1> QED
  BY <1>3, <1>4

LEMMA RemovedAlong ==
  ASSUME NEW q, EventSet(q), NEW R, R \subseteq q, \A e \in R : e.on, NEW k, NEW C, C = Along(q, k),
         NEW X, X = q \ (R \cup {f \in q : \E e \in R : Closes(q, e, f)})
  PROVE  Along(X, k) = C \ (Along(R, k) \cup Closings(C, Along(R, k)))
<1>1. Stream(C) /\ C \subseteq q
  BY AlongStream DEF Along
<1>2. ASSUME NEW e \in R, NEW f \in q
      PROVE  /\ Closes(q, e, f) /\ f \in C => e \in Along(R, k) /\ Pairs(C, e, f)
             /\ e \in Along(R, k) /\ f \in C /\ Pairs(C, e, f) => Closes(q, e, f)
  <2>1. ASSUME e \in Along(R, k)
        PROVE  Closes(q, e, f) <=> f \in C /\ Pairs(C, e, f)
    <3>1. e \in C /\ C = {h \in q : Alike(h, e)}
      BY <2>1 DEF Along, Alike
    <3> QED
      BY <1>1, <3>1, ClosesIs
  <2>2. Closes(q, e, f) /\ f \in C => e \in Along(R, k)
    BY DEF Closes, Along, Line
  <2> QED
    BY <2>1, <2>2
<1>3. ASSUME NEW f \in C
      PROVE  f \in X <=> f \notin Along(R, k) /\ f \notin Closings(C, Along(R, k))
  <2>1. f \in q /\ (f \in R <=> f \in Along(R, k))
    BY DEF Along
  <2>2. (\E e \in R : Closes(q, e, f)) <=> f \in Closings(C, Along(R, k))
    <3>1. Along(R, k) \subseteq R
      BY DEF Along
    <3> QED
      BY <1>2, <2>1, <3>1 DEF Closings
  <2> QED
    BY <2>1, <2>2
<1>4. \A f : f \in Along(X, k) <=> f \in C /\ f \in X
  BY DEF Along
<1> QED
  BY <1>3, <1>4

\* The conflict pass before it defers: the events stay balanced.
LEMMA RemovedSound ==
  ASSUME NEW S, NEW Q, NEW N, EventSet(S \cup (Q \cup N)),
         S \cap (Q \cup N) = {}, Q \cap N = {}, Sound(S \cup Q), Sound(N), Heard(S),
         \A s \in S, e \in Q : s.tick < e.tick,
         NEW silenced, silenced \subseteq Groups(Q \cup N)
  PROVE  Sound(S \cup ((Q \cup N) \ EventsIn(silenced)))
<1>1. PICK q, X : q = Q \cup N /\ X = q \ EventsIn(silenced)
  OBVIOUS
<1>2. PICK R : /\ R \subseteq q /\ \A e \in R : e.on
               /\ EventsIn(silenced) = R \cup {f \in q : \E e \in R : Closes(q, e, f)}
  <2>1. silenced \subseteq Groups(q)
    BY <1>1
  <2> QED
    BY <2>1, SilencedIs
<1>3. /\ R \subseteq q /\ \A e \in R : e.on
      /\ X = q \ (R \cup {f \in q : \E e \in R : Closes(q, e, f)})
  BY <1>1, <1>2
<1>4. ASSUME NEW k
      PROVE  Balanced(Along(S \cup X, k))
  <2>1. PICK A, B, C : A = Along(S, k) /\ B = Along(Q, k) /\ C = Along(N, k)
    OBVIOUS
  <2>2. PICK D, O : D = B \cup C /\ O = Along(R, k)
    OBVIOUS
  <2>3. /\ D = Along(q, k) /\ Along(S \cup Q, k) = A \cup B
        /\ A \cup (B \cup C) = Along(S \cup (Q \cup N), k)
        /\ Along(S \cup X, k) = A \cup Along(X, k)
        /\ A \cap (B \cup C) = {} /\ B \cap C = {}
    BY <1>1, <2>1, <2>2 DEF Along
  <2>4. Along(X, k) = D \ (O \cup Closings(D, O))
    <3>1. EventSet(q)
      BY <1>1, EventSubset
    <3>2. Along(X, k) = D \ (Along(R, k) \cup Closings(D, Along(R, k)))
      <4>1. D = Along(q, k)
        BY <2>3
      <4> QED
        BY <1>3, <3>1, <4>1, RemovedAlong
    <3> QED
      BY <2>2, <3>2
  <2>5. /\ Stream(A \cup (B \cup C)) /\ Balanced(A \cup B) /\ Balanced(C) /\ Prefixed(A)
        /\ \A s \in A, e \in B : s.tick < e.tick
        /\ O \subseteq Openings(B \cup C)
    <3>1. Stream(A \cup (B \cup C))
      BY <2>3, AlongStream
    <3>2. Balanced(A \cup B) /\ Balanced(C) /\ Prefixed(A)
      <4>1. Balanced(Along(S \cup Q, k)) /\ Balanced(Along(N, k)) /\ Prefixed(Along(S, k))
        BY DEF Sound, Heard
      <4>2. Along(S \cup Q, k) = A \cup B
        BY <2>3
      <4> QED
        BY <2>1, <4>1, <4>2
    <3>3. \A s \in A, e \in B : s.tick < e.tick
      BY <2>1 DEF Along
    <3>4. O \subseteq Openings(B \cup C)
      BY <1>1, <1>3, <2>2, <2>3 DEF Openings, Along
    <3> QED
      BY <3>1, <3>2, <3>3, <3>4
  <2>6. Balanced(A \cup ((B \cup C) \ (O \cup Closings(B \cup C, O))))
    BY <2>3, <2>5, BalanceKept
  <2> QED
    BY <2>2, <2>3, <2>4, <2>6
<1>5. Sound(S \cup X)
  BY <1>4 DEF Sound
<1> QED
  BY <1>1, <1>5

\* A finite set of numbers has a greatest.
LEMMA Greatest ==
  ASSUME NEW X, IsFiniteSet(X), X \subseteq Nat, X # {}
  PROVE  \E n \in X : \A m \in X : m <= n
<1> DEFINE above(n) == {m \in X : n < m}
           all == {above(n) : n \in X}
<1>1. all # {} /\ all \subseteq FiniteSubsetsOf(X)
  <2>1. \A n \in X : above(n) \subseteq X /\ IsFiniteSet(above(n))
    BY FS_Subset
  <2> HIDE DEF above
  <2> QED
    BY <2>1 DEF FiniteSubsetsOf
<1>2. PICK o \in all : \A u \in all : ~(<<u, o>> \in StrictSubsetOrdering(X))
  BY <1>1, FS_StrictSubsetOrderingWellFounded, WFMin
<1>3. PICK n \in X : o = above(n)
  BY <1>2
<1>4. ASSUME NEW m \in X, n < m
      PROVE  FALSE
  <2>1. above(m) \subseteq above(n) /\ m \in above(n) /\ m \notin above(m)
    <3>1. n \in Nat /\ m \in Nat /\ n < m /\ \A x \in X : x \in Nat
      BY <1>3, <1>4
    <3>2. \A x \in X : m < x => n < x
      BY <3>1
    <3>3. m \in X /\ ~(m < m)
      BY <3>1
    <3> QED
      BY <3>1, <3>2, <3>3
  <2>2. above(m) \in all /\ above(m) \subseteq X /\ above(n) \subseteq X
    OBVIOUS
  <2>3. <<above(m), o>> \in StrictSubsetOrdering(X)
    <3> HIDE DEF above, all
    <3> QED
      BY <1>3, <2>1, <2>2 DEF StrictSubsetOrdering
  <2> QED
    BY <1>2, <2>2, <2>3
<1> QED
  BY <1>4

\* The groups of a queue are finitely many, and end at a tick.
LEMMA GroupsAre ==
  ASSUME NEW q, EventSet(q)
  PROVE  /\ IsFiniteSet({g.end : g \in Groups(q)}) /\ {g.end : g \in Groups(q)} \subseteq Nat
         /\ \A g \in Groups(q) : g.offs \subseteq q /\ \A f \in g.offs : ~f.on
<1> DEFINE O == {e \in q : e.on}
           end == [e \in O |-> GroupOf(q, e).end]
<1>1. Groups(q) = {GroupOf(q, e) : e \in O}
  BY DEF Groups
<1>2. {g.end : g \in Groups(q)} = {end[e] : e \in O}
  <2> HIDE DEF O
  <2> QED
    BY <1>1
<1>3. IsFiniteSet(O)
  BY FS_Subset DEF EventSet
<1>4. ASSUME NEW e \in O
      PROVE  /\ GroupOf(q, e).end \in Nat
             /\ GroupOf(q, e).offs \subseteq q /\ \A f \in GroupOf(q, e).offs : ~f.on
  <2>1. PICK offs : offs = {f \in q : Closes(q, e, f)}
    OBVIOUS
  <2>2. offs \subseteq q /\ \A f \in offs : ~f.on
    BY <2>1 DEF Closes
  <2>3. GroupOf(q, e) = OpenedBy(e, offs)
    BY <2>1 DEF GroupOf
  <2>4. e.tick \in Nat /\ {f.tick : f \in offs} \subseteq Nat
    BY <2>2 DEF EventSet, IsEvent
  <2>5. offs # {} => Min({f.tick : f \in offs}) \in Nat
    <3> SUFFICES ASSUME offs # {}
                 PROVE  Min({f.tick : f \in offs}) \in Nat
      OBVIOUS
    <3>1. PICK M : M = {f.tick : f \in offs}
      OBVIOUS
    <3>2. M # {} /\ M \subseteq Nat
      BY <2>4, <3>1
    <3>3. Min(M) \in M
      BY <3>2, MinIs
    <3> QED
      BY <3>1, <3>2, <3>3
  <2>6. /\ OpenedBy(e, offs).offs = offs
        /\ OpenedBy(e, offs).end = IF offs # {} THEN Min({f.tick : f \in offs}) ELSE e.tick
    BY DEF OpenedBy
  <2> QED
    BY <2>2, <2>3, <2>4, <2>5, <2>6
<1> HIDE DEF O
<1>5. DOMAIN end = O /\ \A e \in O : end[e] \in Nat
  BY <1>4
<1> HIDE DEF end
<1>6. IsFiniteSet({end[e] : e \in O})
  <2>1. \A e \in O : e \in DOMAIN end
    BY <1>5
  <2>2. PICK Y : Y = {end[e] : e \in O}
    OBVIOUS
  <2> QED
    BY <1>3, <2>1, <2>2, ImageSize
<1> QED
  BY <1>1, <1>2, <1>4, <1>5, <1>6

\* A note-off is deferred to a tick of its own or later.
LEMMA DeferredTickIs ==
  ASSUME NEW groups, IsFiniteSet({g.end : g \in groups}), {g.end : g \in groups} \subseteq Nat,
         NEW voice, NEW t \in Nat
  PROVE  DeferredTick(groups, voice, t) \in Nat /\ DeferredTick(groups, voice, t) >= t
<1>1. PICK E : E = {t} \cup {g.end : g \in groups}
  OBVIOUS
<1>2. IsFiniteSet(E) /\ E \subseteq Nat /\ t \in E
  <2>1. PICK D : D = {g.end : g \in groups}
    OBVIOUS
  <2>2. IsFiniteSet(D) /\ D \subseteq Nat /\ E = D \cup {t}
    BY <1>1, <2>1
  <2> QED
    BY <2>2, FS_AddElement
<1>3. PICK n \in E : \A m \in E : m <= n
  BY <1>2, Greatest
<1>4. ~Covered(groups, voice, n) /\ n >= t
  <2>1. ASSUME NEW g \in groups
        PROVE  ~(n < g.end)
    <3>1. g.end \in E /\ g.end \in Nat /\ n \in Nat
      BY <1>1, <1>2
    <3> QED
      BY <1>3, <3>1
  <2> QED
    BY <1>2, <1>3, <2>1 DEF Covered
<1>5. PICK A : A = {x \in E : x >= t /\ ~Covered(groups, voice, x)}
  OBVIOUS
<1>6. n \in A /\ A \subseteq Nat
  BY <1>2, <1>4, <1>5
<1>7. Min(A) \in A
  BY <1>6, MinIs
<1>8. DeferredTick(groups, voice, t) = Min(A)
  BY <1>1, <1>5 DEF DeferredTick
<1> QED
  BY <1>5, <1>6, <1>7, <1>8

\* What the deferral does to the events of a queue.
LEMMA DeferIs ==
  ASSUME NEW q, EventSet(q)
  PROVE  \E m : /\ DOMAIN m = q /\ Defer(q) = {m[e] : e \in q}
                /\ \A e \in q : /\ IsEvent(m[e]) /\ m[e].note = e.note /\ m[e].on = e.on
                                /\ m[e].tick >= e.tick
                                /\ e.on => m[e] = e
<1>1. PICK G, closing : G = Groups(q) /\ closing = UNION {g.offs : g \in G}
  OBVIOUS
<1>2. closing \subseteq q /\ \A e \in closing : ~e.on
  BY <1>1, GroupsAre, ZenonT(60)
<1> DEFINE moved(e) == [e EXCEPT !.tick = DeferredTick(G, Voice(e), e.tick)]
           m == [e \in q |-> IF e \in closing THEN moved(e) ELSE e]
<1>3. Defer(q) = (q \ closing) \cup {moved(e) : e \in closing}
  BY <1>1 DEF Defer
<1>4. ASSUME NEW e \in q
      PROVE  IsEvent(moved(e)) /\ moved(e).note = e.note /\ moved(e).on = e.on /\ moved(e).tick >= e.tick
  <2>1. IsEvent(e)
    BY DEF EventSet
  <2>2. e = [note |-> e.note, on |-> e.on, tick |-> e.tick] /\ e.tick \in Nat /\ e.on \in BOOLEAN /\ IsNote(e.note)
    BY <2>1 DEF IsEvent
  <2>3. PICK t : t = DeferredTick(G, Voice(e), e.tick)
    OBVIOUS
  <2>4. t \in Nat /\ t >= e.tick
    BY <1>1, <2>2, <2>3, GroupsAre, DeferredTickIs
  <2>5. moved(e) = [note |-> e.note, on |-> e.on, tick |-> t]
    BY <2>2, <2>3
  <2> HIDE DEF moved
  <2> QED
    BY <2>2, <2>4, <2>5 DEF IsEvent
<1> HIDE DEF moved
<1>5. DOMAIN m = q /\ \A e \in q : m[e] = IF e \in closing THEN moved(e) ELSE e
  OBVIOUS
<1> HIDE DEF m
<1>6. Defer(q) = {m[e] : e \in q}
  <2>1. ASSUME NEW e \in q
        PROVE  m[e] \in Defer(q)
    BY <1>3, <1>5
  <2>2. ASSUME NEW x \in Defer(q)
        PROVE  \E e \in q : x = m[e]
    BY <1>2, <1>3, <1>5
  <2> QED
    BY <2>1, <2>2
<1>7. \A e \in q : /\ IsEvent(m[e]) /\ m[e].note = e.note /\ m[e].on = e.on
                   /\ m[e].tick >= e.tick
                   /\ e.on => m[e] = e
  <2> SUFFICES ASSUME NEW e \in q
               PROVE  /\ IsEvent(m[e]) /\ m[e].note = e.note /\ m[e].on = e.on
                      /\ m[e].tick >= e.tick
                      /\ e.on => m[e] = e
    OBVIOUS
  <2>1. IsEvent(e) /\ e.tick >= e.tick
    BY DEF EventSet, IsEvent
  <2> QED
    BY <1>2, <1>4, <1>5, <2>1
<1> QED
  BY <1>5, <1>6, <1>7

\* Two sets of events that have no event in common, even moved.
LEMMA DeferredSound ==
  ASSUME NEW S, NEW X, EventSet(S \cup X), S \cap X = {}, Sound(S \cup X),
         NEW D, D = Defer(X)
  PROVE  /\ EventSet(S \cup D) /\ S \cap D = {} /\ Sound(S \cup D)
         /\ \A d \in D : \E e \in X : d.note = e.note
<1>1. PICK m : /\ DOMAIN m = X /\ Defer(X) = {m[e] : e \in X}
               /\ \A e \in X : /\ IsEvent(m[e]) /\ m[e].note = e.note /\ m[e].on = e.on
                               /\ m[e].tick >= e.tick
                               /\ e.on => m[e] = e
  <2>1. EventSet(X)
    BY EventSubset
  <2> QED
    BY <2>1, DeferIs
<1>2. PICK E : E = S \cup X
  OBVIOUS
<1>3. PICK n : n = [e \in E |-> IF e \in S THEN e ELSE m[e]]
  OBVIOUS
<1>4. /\ DOMAIN n = E
      /\ \A e \in E : n[e] = IF e \in S THEN e ELSE m[e]
  BY <1>3
<1>5. \A e \in E : IsEvent(e) /\ e.on \in BOOLEAN /\ e.tick \in Nat /\ e.tick >= e.tick
  BY <1>2 DEF EventSet, IsEvent
<1>6. \A e \in E : /\ IsEvent(n[e]) /\ n[e].note = e.note /\ n[e].on = e.on
                   /\ n[e].tick >= e.tick /\ n[e].tick \in Nat
                   /\ e.on => n[e] = e
  <2> SUFFICES ASSUME NEW e \in E
               PROVE  /\ IsEvent(n[e]) /\ n[e].note = e.note /\ n[e].on = e.on
                      /\ n[e].tick >= e.tick /\ n[e].tick \in Nat
                      /\ e.on => n[e] = e
    OBVIOUS
  <2>1. CASE e \in S
    BY <1>4, <1>5, <2>1
  <2>2. CASE e \notin S
    <3>1. e \in X /\ n[e] = m[e]
      BY <1>2, <1>4, <2>2
    <3>2. m[e].tick \in Nat
      BY <1>1, <3>1 DEF IsEvent
    <3> QED
      BY <1>1, <3>1, <3>2
  <2> QED
    BY <2>1, <2>2
<1>7. S \cup D = {n[e] : e \in E}
  <2>1. \A e \in X : n[e] = m[e]
    BY <1>2, <1>4
  <2>2. \A e \in S : n[e] = e
    BY <1>2, <1>4
  <2>3. \A x \in S \cup D : \E e \in E : x = n[e]
    BY <1>1, <1>2, <2>1, <2>2
  <2>4. \A e \in E : n[e] \in S \cup D
    BY <1>1, <1>2, <2>1, <2>2
  <2> QED
    BY <2>3, <2>4
<1>8. \A e, f \in E : n[e].note = n[f].note /\ n[e].on = n[f].on => e = f
  <2>1. \A e, f \in E : e.note = f.note /\ e.on = f.on => e = f
    BY <1>2 DEF EventSet
  <2> QED
    BY <1>6, <2>1
<1>9. S \cap D = {}
  <2> SUFFICES ASSUME NEW s \in S, s \in D
               PROVE  FALSE
    OBVIOUS
  <2>1. PICK e \in X : s = m[e]
    BY <1>1
  <2>2. e \in E /\ s \in E /\ n[e] = s /\ n[s] = s
    BY <1>2, <1>4, <2>1
  <2>3. s = e
    BY <1>8, <2>2
  <2> QED
    BY <2>3
<1>10. EventSet(S \cup D)
  <2>1. IsFiniteSet(E)
    BY <1>2 DEF EventSet
  <2>2. PICK Y : Y = {n[e] : e \in E}
    OBVIOUS
  <2>3. IsFiniteSet(Y)
    BY <1>4, <2>1, <2>2, ImageSize
  <2>4. \A y \in Y : IsEvent(y)
    BY <1>6, <2>2
  <2>5. \A y, z \in Y : y.note = z.note /\ y.on = z.on => y = z
    BY <1>8, <2>2
  <2> QED
    BY <1>7, <2>2, <2>3, <2>4, <2>5 DEF EventSet
<1>11. ASSUME NEW k
       PROVE  Balanced(Along(S \cup D, k))
  <2>1. PICK A, B : A = Along(E, k) /\ B = {n[e] : e \in A}
    OBVIOUS
  <2>2. \A e \in E : Line(n[e]) = Line(e)
    BY <1>6 DEF Line, Track, Voice
  <2>3. Along(S \cup D, k) = B
    BY <1>7, <2>1, <2>2 DEF Along
  <2>4. Stream(A) /\ A \subseteq E
    BY <1>2, <2>1, AlongStream DEF Along
  <2>5. Balanced(A)
    BY <1>2, <2>1 DEF Sound
  <2>6. \A e \in A : /\ e \in DOMAIN n /\ n[e].on = e.on /\ n[e].tick \in Nat /\ n[e].tick >= e.tick
                     /\ e.on => n[e] = e
    BY <1>4, <1>6, <2>4
  <2>7. \A e, f \in A : n[e] = n[f] => e = f
    BY <1>8, <2>4
  <2>8. Balanced(B)
    BY <2>1, <2>4, <2>5, <2>6, <2>7, LaterKeeps
  <2> QED
    BY <2>3, <2>8
<1>12. \A d \in D : \E e \in X : d.note = e.note
  BY <1>1
<1> QED
  BY <1>9, <1>10, <1>11, <1>12 DEF Sound

LEMMA ComponentsAre ==
  ASSUME NEW G, NEW c \in Components(G)
  PROVE  c.groups \subseteq G
<1>1. PICK ch \in {g.channel : g \in G} :
        c \in (LET starts == ComponentStarts(G, ch)
                  StartOf(g) == Max({t \in starts : t <= g.start}) IN
              {[channel |-> ch, start |-> t,
                groups |-> {g \in G : g.channel = ch /\ StartOf(g) = t}] : t \in starts})
  BY ZenonT(30) DEF Components
<1>2. PICK t \in ComponentStarts(G, ch) :
        c = [channel |-> ch, start |-> t,
             groups |-> {g \in G : g.channel = ch /\ Max({s \in ComponentStarts(G, ch) : s <= g.start}) = t}]
  BY ZenonT(30), <1>1
<1> QED
  BY <1>2

\* The pass silences groups of the queue, and defers.
LEMMA ResolveIs ==
  ASSUME NEW q, NEW keys, NEW horizon, NEW resolved, NEW config
  PROVE  \E silenced : /\ silenced \subseteq Groups(q)
                       /\ ResolveConflicts(q, keys, horizon, resolved, config).queue
                            = Defer(q \ EventsIn(silenced))
<1> DEFINE components == IF config.active > 1
                         THEN Resolvable(Components(Groups(q)), keys, horizon) ELSE {}
           Place(c, t) == <<c.channel, c.start \div config.cycle, t>>
           counted == resolved \cup {Place(c, c.start) : c \in {c \in components : Cardinality(TracksOf(c)) >= 2}}
           Ordinal(c) == Cardinality({p \in counted : p = Place(c, p[3]) /\ p[3] < c.start})
           Allows(c) ==
             MatrixAllowed(config.policy, config.matrix, c.start, c.channel,
                           TracksOf(c), config.active, config.rank, Ordinal(c))
           silenced == UNION {{g \in c.groups : g.track \notin Allows(c)} : c \in components}
<1>1. \A c \in components : c.groups \subseteq Groups(q)
  BY ComponentsAre DEF Resolvable
<1>2. silenced \subseteq Groups(q)
  <2> HIDE DEF components, Allows
  <2> QED
    BY <1>1
<1>3. ResolveConflicts(q, keys, horizon, resolved, config).queue = Defer(q \ EventsIn(silenced))
  BY DEF ResolveConflicts
<1> QED
  BY <1>2, <1>3

-----------------------------------------------------------------------------
(************************************************************************** *)
(* Events that lie before others                                           *)
(************************************************************************** *)

Precedes(A, B) == \A a \in A, b \in B : EventBefore(a, b)

\* Every note-on has a note-off that ends it.
Closed(X) == \A e \in X : e.on => \E f \in X : Closes(X, e, f)

LEMMA EventOrder ==
  ASSUME NEW a, NEW b, IsEvent(a), IsEvent(b), EventBefore(a, b)
  PROVE  ~EventBefore(b, a) /\ a.tick <= b.tick /\ (a.on /\ ~b.on => a.tick < b.tick)
<1>1. IsNote(a.note) /\ IsNote(b.note) /\ a.tick \in Nat /\ b.tick \in Nat
      /\ a.on \in BOOLEAN /\ b.on \in BOOLEAN
  BY DEF IsEvent
<1>2. ~(OpenedBefore(a.note, b.note) /\ OpenedBefore(b.note, a.note))
  BY <1>1, OpenedIs
<1> QED
  BY <1>1, <1>2 DEF EventBefore

\* What follows is paired as if nothing went before.
LEMMA ClosesLater ==
  ASSUME NEW A, NEW B, EventSet(A \cup B), Precedes(A, B), NEW e \in B
  PROVE  \A f \in A \cup B : Closes(A \cup B, e, f) <=> f \in B /\ Closes(B, e, f)
<1>1. \A a \in A : ~EventBefore(e, a)
  BY EventOrder DEF EventSet, Precedes
<1>2. ASSUME NEW g
      PROVE  Between(A \cup B, e, g) = Between(B, e, g)
  BY <1>1 DEF Between
<1>3. ASSUME NEW f
      PROVE  Closes(A \cup B, e, f) <=> Closes(B, e, f)
  <2>1. PICK b : b = Between(B, e, f) /\ b = Between(A \cup B, e, f)
    BY <1>2
  <2> QED
    BY <1>2, <2>1 DEF Closes
<1> QED
  BY <1>1, <1>3 DEF Closes

\* What goes before is paired as if nothing followed.
LEMMA ClosesEarlier ==
  ASSUME NEW A, NEW B, EventSet(A \cup B), Precedes(A, B), NEW e \in A,
         \E f \in A : Closes(A, e, f)
  PROVE  \A f \in A \cup B : Closes(A \cup B, e, f) <=> f \in A /\ Closes(A, e, f)
<1>1. ASSUME NEW g \in A
      PROVE  Between(A \cup B, e, g) = Between(A, e, g)
  BY DEF Between, Precedes
<1>2. \A g : Between(A, e, g) \subseteq A
  BY DEF Between
<1>3. ASSUME NEW f \in A
      PROVE  Closes(A \cup B, e, f) <=> Closes(A, e, f)
  <2>1. Between(A \cup B, e, f) = Between(A, e, f) /\ Between(A, e, f) \subseteq A
    BY <1>1, <1>2
  <2>2. \A g \in Between(A, e, f) : Between(A \cup B, e, g) = Between(A, e, g)
    BY <1>1, <2>1
  <2> QED
    BY <2>1, <2>2 DEF Closes
<1>4. ASSUME NEW f \in B, f \notin A, Closes(A \cup B, e, f)
      PROVE  FALSE
  <2>1. PICK c \in A : Closes(A, e, c)
    OBVIOUS
  <2>2. EventBefore(e, c) /\ EventBefore(c, f) /\ ~EventBefore(f, c)
    BY <2>1, EventOrder DEF Closes, EventSet, Precedes
  <2>3. Track(c) = Track(e) /\ Voice(c) = Voice(e)
    BY <2>1 DEF Closes
  <2>4. c \in Between(A \cup B, e, f)
    BY <2>2, <2>3 DEF Between
  <2>5. Cardinality({h \in Between(A \cup B, e, c) : ~h.on}) > Cardinality({h \in Between(A \cup B, e, c) : h.on})
    BY <1>3, <2>1 DEF Closes
  <2> QED
    BY <1>4, <2>2, <2>4, <2>5 DEF Closes
<1> QED
  BY <1>3, <1>4

LEMMA GroupsSplit ==
  ASSUME NEW A, NEW B, EventSet(A \cup B), Precedes(A, B), Closed(A)
  PROVE  /\ Groups(A \cup B) = Groups(A) \cup Groups(B)
         /\ Closed(B) => Closed(A \cup B)
<1>1. ASSUME NEW e \in A, e.on
      PROVE  GroupOf(A \cup B, e) = GroupOf(A, e) /\ \E f \in A \cup B : Closes(A \cup B, e, f)
  <2>1. \A f \in A \cup B : Closes(A \cup B, e, f) <=> f \in A /\ Closes(A, e, f)
    BY <1>1, ClosesEarlier DEF Closed
  <2>2. {f \in A \cup B : Closes(A \cup B, e, f)} = {f \in A : Closes(A, e, f)}
    BY <2>1
  <2> QED
    BY <1>1, <2>1, <2>2 DEF GroupOf, Closed
<1>2. ASSUME NEW e \in B, e.on
      PROVE  /\ GroupOf(A \cup B, e) = GroupOf(B, e)
             /\ (\E f \in B : Closes(B, e, f)) => \E f \in A \cup B : Closes(A \cup B, e, f)
  <2>1. \A f \in A \cup B : Closes(A \cup B, e, f) <=> f \in B /\ Closes(B, e, f)
    BY ClosesLater
  <2>2. {f \in A \cup B : Closes(A \cup B, e, f)} = {f \in B : Closes(B, e, f)}
    BY <2>1
  <2> QED
    BY <2>1, <2>2 DEF GroupOf
<1>3. Groups(A \cup B) = Groups(A) \cup Groups(B)
  BY <1>1, <1>2 DEF Groups
<1> QED
  BY <1>1, <1>2, <1>3 DEF Closed

\* What remains when the first events are gone.
LEMMA GroupsLater ==
  ASSUME NEW A, NEW B, EventSet(A \cup B), Precedes(A, B)
  PROVE  /\ Groups(B) \subseteq Groups(A \cup B)
         /\ Closed(A \cup B) => Closed(B)
<1>1. ASSUME NEW e \in B, e.on
      PROVE  /\ GroupOf(A \cup B, e) = GroupOf(B, e)
             /\ (\E f \in A \cup B : Closes(A \cup B, e, f)) => \E f \in B : Closes(B, e, f)
  <2>1. \A f \in A \cup B : Closes(A \cup B, e, f) <=> f \in B /\ Closes(B, e, f)
    BY ClosesLater
  <2>2. {f \in A \cup B : Closes(A \cup B, e, f)} = {f \in B : Closes(B, e, f)}
    BY <2>1
  <2> QED
    BY <2>1, <2>2 DEF GroupOf
<1> QED
  BY <1>1 DEF Groups, Closed

\* Where as many note-offs come as note-ons, each note-on is closed.
LEMMA SoundClosed ==
  ASSUME NEW X, EventSet(X), Sound(X)
  PROVE  /\ Closed(X)
         /\ \A f \in X : ~f.on => \E e \in X : e.on /\ Closes(X, e, f)
<1>1. ASSUME NEW e \in X
      PROVE  /\ e.on => \E f \in X : Closes(X, e, f)
             /\ ~e.on => \E d \in X : d.on /\ Closes(X, d, e)
  <2>1. PICK C : C = Along(X, Line(e))
    OBVIOUS
  <2>2. Stream(C) /\ Balanced(C) /\ e \in C /\ C \subseteq X
    BY <2>1, AlongStream DEF Sound, Along
  <2>3. \A h \in C : C = {g \in X : Alike(g, h)}
    BY <2>1 DEF Along, Alike
  <2>4. \A h \in C, f \in X : Closes(X, h, f) <=> f \in C /\ Pairs(C, h, f)
    BY <2>2, <2>3, ClosesIs
  <2>5. C \subseteq C /\ Prefixed(C) /\ Excess(C) = 0 /\ IsFiniteSet(C)
    BY <2>2 DEF Balanced, Stream
  <2>6. /\ e.on => Excess({h \in C : EventBefore(h, e)}) <= 0
        /\ ~e.on => Excess(UpTo(C, e)) <= 0
    BY <2>2, <2>5, PrefixedBefore
  <2>7. ASSUME e.on
        PROVE  Excess(After(C, e)) > 0
    <3>1. PICK P : P = {h \in C : EventBefore(h, e)}
      OBVIOUS
    <3>2. C = (P \cup {e}) \cup After(C, e) /\ (P \cup {e}) \cap After(C, e) = {} /\ e \notin P
      BY <2>2, <3>1, BeforeIs DEF After
    <3>3. IsFiniteSet(P) /\ e.on \in BOOLEAN
      BY <2>2, <2>5, <3>1, FS_Subset DEF Stream, IsEvent
    <3>4. Excess(P \cup {e}) = Excess(P) - 1 /\ Excess(P) \in Int
      BY <2>7, <3>2, <3>3, ExcessOne
    <3>5. Excess(C) = Excess(P \cup {e}) + Excess(After(C, e)) /\ Excess(After(C, e)) \in Int
      <4>1. PICK Y, Z : Y = P \cup {e} /\ Z = After(C, e)
        OBVIOUS
      <4>2. C = Y \cup Z /\ Y \cap Z = {} /\ IsFiniteSet(C)
        BY <2>5, <3>2, <4>1
      <4>3. Excess(C) = Excess(Y) + Excess(Z) /\ Excess(Z) \in Int
        BY <4>2, ExcessParts
      <4> QED
        BY <4>1, <4>3
    <3>6. Excess(P) <= 0 /\ Excess(C) = 0
      BY <2>5, <2>6, <2>7, <3>1
    <3> QED
      BY <3>4, <3>5, <3>6
  <2>8. e.on => \E f \in C : Pairs(C, e, f)
    BY <2>2, <2>7, IsClosed
  <2>9. ~e.on => \E d \in C : d.on /\ Pairs(C, d, e)
    BY <2>2, <2>6, ClosesSome
  <2> QED
    BY <2>2, <2>4, <2>8, <2>9
<1> QED
  BY <1>1 DEF Closed

\* A group has the note-off that closes it, and ends there.
LEMMA GroupIs ==
  ASSUME NEW X, EventSet(X), NEW e \in X, NEW f \in X, e.on, Closes(X, e, f), NEW g, g = GroupOf(X, e)
  PROVE  /\ ~f.on /\ Line(f) = Line(e) /\ e.tick < f.tick
         /\ g = [track |-> Track(e), channel |-> Channel(e), voice |-> Voice(e),
                 start |-> e.tick, end |-> f.tick, on |-> e, offs |-> {f}]
<1>1. ~f.on /\ Line(f) = Line(e) /\ EventBefore(e, f)
  BY DEF Closes, Line
<1>2. e.tick < f.tick /\ f.tick \in Nat
  BY <1>1, EventOrder DEF EventSet, IsEvent
<1>3. PICK C : C = Along(X, Line(e))
  OBVIOUS
<1>4. Stream(C) /\ e \in C /\ C = {h \in X : Alike(h, e)}
  BY <1>3, AlongStream DEF Along, Alike
<1>5. \A h \in X : Closes(X, e, h) <=> h \in C /\ Pairs(C, e, h)
  BY <1>4, ClosesIs
<1>6. {h \in X : Closes(X, e, h)} = {f}
  BY <1>4, <1>5, ClosedOnce
<1>7. Min({h.tick : h \in {f}}) = f.tick
  BY <1>2 DEF Min
<1> QED
  BY <1>1, <1>2, <1>6, <1>7 DEF GroupOf, OpenedBy

\* The groups of closed note-ons.
LEMMA GroupsClosed ==
  ASSUME NEW X, EventSet(X), Closed(X), NEW g \in Groups(X)
  PROVE  \E e, f \in X :
           /\ e.on /\ ~f.on /\ Closes(X, e, f) /\ Line(f) = Line(e) /\ e.tick < f.tick
           /\ g = [track |-> Track(e), channel |-> Channel(e), voice |-> Voice(e),
                   start |-> e.tick, end |-> f.tick, on |-> e, offs |-> {f}]
<1>1. PICK e \in X : e.on /\ g = GroupOf(X, e)
  BY DEF Groups
<1>2. PICK f \in X : Closes(X, e, f)
  BY <1>1 DEF Closed
<1> QED
  BY <1>1, <1>2, GroupIs

-----------------------------------------------------------------------------
(************************************************************************** *)
(* Note-offs deferred                                                      *)
(************************************************************************** *)

Ends(G) == {g.end : g \in G}
Finite(G) == IsFiniteSet(Ends(G)) /\ Ends(G) \subseteq Nat

\* The tick a note-off is deferred to: the first free one, of its own and those
\* at which a group ends.
LEMMA DeferralIs ==
  ASSUME NEW G, Finite(G), NEW voice, NEW t \in Nat, NEW d, d = DeferredTick(G, voice, t)
  PROVE  /\ d \in Nat /\ d >= t /\ d \in {t} \cup Ends(G) /\ ~Covered(G, voice, d)
         /\ \A x \in {t} \cup Ends(G) : x >= t /\ ~Covered(G, voice, x) => d <= x
<1>1. PICK E : E = {t} \cup Ends(G)
  OBVIOUS
<1>2. IsFiniteSet(E) /\ E \subseteq Nat /\ t \in E
  <2>1. PICK D : D = Ends(G)
    OBVIOUS
  <2>2. IsFiniteSet(D) /\ D \subseteq Nat /\ E = D \cup {t}
    BY <1>1, <2>1 DEF Finite
  <2> QED
    BY <2>2, FS_AddElement
<1>3. PICK n \in E : \A m \in E : m <= n
  BY <1>2, Greatest
<1>4. ~Covered(G, voice, n) /\ n >= t
  <2>1. ASSUME NEW g \in G
        PROVE  ~(n < g.end)
    <3>1. g.end \in E /\ g.end \in Nat /\ n \in Nat
      BY <1>1, <1>2 DEF Ends
    <3> QED
      BY <1>3, <3>1
  <2> QED
    BY <1>2, <1>3, <2>1 DEF Covered
<1>5. PICK A : A = {x \in E : x >= t /\ ~Covered(G, voice, x)}
  OBVIOUS
<1>6. n \in A /\ A \subseteq Nat
  BY <1>2, <1>4, <1>5
<1>7. Min(A) \in A /\ \A x \in A : Min(A) <= x
  BY <1>6, MinIs
<1>8. d = Min(A)
  BY <1>1, <1>5 DEF DeferredTick, Ends
<1> QED
  BY <1>1, <1>5, <1>6, <1>7, <1>8

\* Only groups that may still sound matter.
LEMMA DeferralAmong ==
  ASSUME NEW A, NEW B, Finite(A), Finite(B), Finite(A \cup B),
         \A g \in A, h \in B : g.end <= h.start,
         \A h \in B : h.start \in Nat /\ h.start < h.end,
         NEW voice, NEW t \in Nat
  PROVE  /\ (\A h \in B : t <= h.start) => DeferredTick(A \cup B, voice, t) = DeferredTick(A, voice, t)
         /\ (\A g \in A : g.end <= t) => DeferredTick(A \cup B, voice, t) = DeferredTick(B, voice, t)
<1>1. PICK G, d : G = A \cup B /\ d = DeferredTick(G, voice, t)
  OBVIOUS
<1>2. /\ d \in Nat /\ d >= t /\ d \in {t} \cup Ends(G) /\ ~Covered(G, voice, d)
      /\ \A x \in {t} \cup Ends(G) : x >= t /\ ~Covered(G, voice, x) => d <= x
  BY <1>1, DeferralIs
<1>3. Ends(G) = Ends(A) \cup Ends(B) /\ Ends(A) \subseteq Nat /\ Ends(B) \subseteq Nat
  BY <1>1 DEF Ends, Finite
<1>4. \A x : Covered(G, voice, x) <=> Covered(A, voice, x) \/ Covered(B, voice, x)
  BY <1>1 DEF Covered
<1>5. ASSUME \A h \in B : t <= h.start
      PROVE  d = DeferredTick(A, voice, t)
  <2>1. PICK a : a = DeferredTick(A, voice, t)
    OBVIOUS
  <2>2. /\ a \in Nat /\ a >= t /\ a \in {t} \cup Ends(A) /\ ~Covered(A, voice, a)
        /\ \A x \in {t} \cup Ends(A) : x >= t /\ ~Covered(A, voice, x) => a <= x
    BY <2>1, DeferralIs
  <2>3. \A h \in B : a <= h.start
    BY <1>5, <2>2 DEF Ends
  <2>4. ~Covered(B, voice, a)
    BY <2>2, <2>3 DEF Covered
  <2>5. d <= a
    BY <1>2, <1>3, <1>4, <2>2, <2>4
  <2>6. d \notin Ends(B)
    BY <1>2, <2>2, <2>3, <2>5 DEF Ends
  <2>7. a <= d
    BY <1>2, <1>3, <1>4, <2>2, <2>6
  <2> QED
    BY <1>2, <2>1, <2>2, <2>5, <2>7
<1>6. ASSUME \A g \in A : g.end <= t
      PROVE  d = DeferredTick(B, voice, t)
  <2>1. PICK b : b = DeferredTick(B, voice, t)
    OBVIOUS
  <2>2. /\ b \in Nat /\ b >= t /\ b \in {t} \cup Ends(B) /\ ~Covered(B, voice, b)
        /\ \A x \in {t} \cup Ends(B) : x >= t /\ ~Covered(B, voice, x) => b <= x
    BY <2>1, DeferralIs
  <2>3. \A g \in A : g.end \in Nat /\ g.end <= t
    BY <1>3, <1>6 DEF Ends
  <2>4. ~Covered(A, voice, b)
    BY <2>2, <2>3 DEF Covered
  <2>5. d <= b
    BY <1>2, <1>3, <1>4, <2>2, <2>4
  <2>6. d \in Ends(A) => d = t
    BY <1>2, <2>3 DEF Ends
  <2>7. b <= d
    BY <1>2, <1>3, <1>4, <2>2, <2>6
  <2> QED
    BY <1>2, <2>1, <2>2, <2>5, <2>7
<1> QED
  BY <1>1, <1>5, <1>6

\* The note-offs that end a group.
ClosingOf(X) == UNION {g.offs : g \in Groups(X)}
Moved(X, e) == [e EXCEPT !.tick = DeferredTick(Groups(X), Voice(e), e.tick)]

LEMMA DeferMoves ==
  ASSUME NEW X
  PROVE  Defer(X) = (X \ ClosingOf(X)) \cup {Moved(X, e) : e \in ClosingOf(X)}
BY DEF Defer, ClosingOf, Moved

LEMMA GroupEnds ==
  ASSUME NEW X, EventSet(X)
  PROVE  Finite(Groups(X)) /\ ClosingOf(X) \subseteq X
BY GroupsAre DEF Finite, Ends, ClosingOf

\* Where all is closed, events that lie before others are deferred apart from them.
LEMMA DeferSplit ==
  ASSUME NEW A, NEW B, EventSet(A \cup B), Precedes(A, B), Closed(A), Closed(B)
  PROVE  Defer(A \cup B) = Defer(A) \cup Defer(B)
<1>0. EventSet(A) /\ EventSet(B)
  BY EventSubset
<1>1. PICK G, H : G = Groups(A) /\ H = Groups(B)
  OBVIOUS
<1>2. Groups(A \cup B) = G \cup H
  BY <1>1, GroupsSplit
<1>3. /\ Finite(G) /\ Finite(H) /\ Finite(G \cup H)
      /\ ClosingOf(A) \subseteq A /\ ClosingOf(B) \subseteq B
  BY <1>0, <1>1, <1>2, GroupEnds
<1>4. A \cap B = {}
  BY EventOrder DEF EventSet, Precedes
<1>5. \A g \in G : \E f \in A : g.end = f.tick
  BY <1>0, <1>1, GroupsClosed
<1>6. \A h \in H : (\E e \in B : h.start = e.tick) /\ h.start \in Nat /\ h.start < h.end
  <2>1. \A e \in B : e.tick \in Nat
    BY <1>0 DEF EventSet, IsEvent
  <2> QED
    BY <1>0, <1>1, <2>1, GroupsClosed
<1>7. \A a \in A, b \in B : a.tick <= b.tick /\ a.tick \in Nat /\ b.tick \in Nat
  BY <1>0, EventOrder DEF Precedes, EventSet, IsEvent
<1>8. \A g \in G, h \in H : g.end <= h.start
  BY <1>5, <1>6, <1>7
<1>9. ASSUME NEW f \in A
      PROVE  Moved(A \cup B, f) = Moved(A, f)
  <2>1. \A h \in H : f.tick <= h.start
    BY <1>6, <1>7
  <2>2. f.tick \in Nat
    BY <1>0 DEF EventSet, IsEvent
  <2>3. DeferredTick(G \cup H, Voice(f), f.tick) = DeferredTick(G, Voice(f), f.tick)
    BY <1>3, <1>6, <1>8, <2>1, <2>2, DeferralAmong, SMTT(40)
  <2> QED
    BY <1>1, <1>2, <2>3 DEF Moved
<1>10. ASSUME NEW f \in B
       PROVE  Moved(A \cup B, f) = Moved(B, f)
  <2>1. PICK v, t : v = Voice(f) /\ t = f.tick
    OBVIOUS
  <2>2. \A g \in G : g.end <= t
    BY <1>5, <1>7, <2>1
  <2>3. t \in Nat
    BY <1>0, <2>1 DEF EventSet, IsEvent
  <2>4. \A h \in H : h.start \in Nat /\ h.start < h.end
    BY <1>6
  <2>5. (\A g \in G : g.end <= t) => DeferredTick(G \cup H, v, t) = DeferredTick(H, v, t)
    BY <1>3, <1>8, <2>3, <2>4, DeferralAmong, SMTT(40)
  <2>6. DeferredTick(G \cup H, v, t) = DeferredTick(H, v, t)
    BY <2>2, <2>5
  <2> QED
    BY <1>1, <1>2, <2>1, <2>6 DEF Moved
<1>11. ClosingOf(A \cup B) = ClosingOf(A) \cup ClosingOf(B)
  BY <1>1, <1>2 DEF ClosingOf
<1>12. PICK a, b : a = ClosingOf(A) /\ b = ClosingOf(B)
  OBVIOUS
<1>13. (A \cup B) \ (a \cup b) = (A \ a) \cup (B \ b)
  BY <1>3, <1>4, <1>12
<1>14. {Moved(A \cup B, e) : e \in a \cup b} = {Moved(A, e) : e \in a} \cup {Moved(B, e) : e \in b}
  BY <1>3, <1>9, <1>10, <1>12
<1> QED
  BY <1>11, <1>12, <1>13, <1>14, DeferMoves

\* No note-off of a group falls inside another.
Quiet(X) == \A f \in ClosingOf(X) : ~Covered(Groups(X), Voice(f), f.tick)
Settled(X) == \A f \in X : ~f.on => ~Covered(Groups(X), Voice(f), f.tick)

LEMMA QuietStays ==
  ASSUME NEW X, EventSet(X), Quiet(X)
  PROVE  Defer(X) = X
<1>1. Finite(Groups(X)) /\ ClosingOf(X) \subseteq X
  BY GroupEnds
<1>2. ASSUME NEW f \in ClosingOf(X)
      PROVE  Moved(X, f) = f
  <2>1. IsEvent(f) /\ f = [note |-> f.note, on |-> f.on, tick |-> f.tick] /\ f.tick \in Nat
    BY <1>1 DEF EventSet, IsEvent
  <2>2. PICK d : d = DeferredTick(Groups(X), Voice(f), f.tick)
    OBVIOUS
  <2>3. d \in Nat /\ d >= f.tick /\ d <= f.tick
    BY <1>1, <2>1, <2>2, DeferralIs DEF Quiet
  <2>4. d = f.tick
    BY <2>1, <2>3
  <2>5. [f EXCEPT !.tick = d] = f
    BY <2>1, <2>4
  <2> QED
    BY <2>2, <2>5 DEF Moved
<1>3. {Moved(X, e) : e \in ClosingOf(X)} = ClosingOf(X)
  BY <1>2
<1> QED
  BY <1>1, <1>3, DeferMoves

\* A note-on is closed by the tick up to which one note-off too many follows it.
LEMMA ClosedBy ==
  ASSUME NEW C, Stream(C), NEW e \in C, e.on, NEW b \in Nat, Excess(Seen(After(C, e), b)) > 0
  PROVE  \E f \in C : Pairs(C, e, f) /\ f.tick <= b
<1>1. PICK I, D : I = Seen(After(C, e), b) /\ D = I \cup {e}
  OBVIOUS
<1>2. I \subseteq C /\ D \subseteq C /\ \A h \in I : EventBefore(e, h) /\ h.tick <= b
  <2>1. \A h \in C : h.tick \in Nat
    BY DEF Stream, IsEvent
  <2> QED
    BY <1>1, <2>1 DEF Seen, After
<1>3. Stream(D) /\ e \in D
  BY <1>1, <1>2, StreamSubset
<1>4. After(D, e) = I
  BY <1>1, <1>2, BeforeIs DEF After
<1>5. PICK f \in D : Pairs(D, e, f)
  <2>1. Excess(After(D, e)) > 0
    BY <1>1, <1>4
  <2> QED
    BY <1>3, <2>1, IsClosed
<1>6. f \in I /\ f.tick <= b
  BY <1>1, <1>2, <1>5 DEF Pairs
<1>7. ASSUME NEW g \in I
      PROVE  Since(D, e, g) = Since(C, e, g)
  <2>1. ASSUME NEW h \in C, EventBefore(e, h), ~EventBefore(g, h)
        PROVE  h \in I
    <3>1. h = g \/ EventBefore(h, g)
      BY <1>2, <2>1, BeforeIs
    <3>2. CASE EventBefore(h, g)
      <4>1. g.tick < b \/ (g.tick = b /\ ~g.on)
        BY <1>1 DEF Seen
      <4>2. h.tick < g.tick \/ (h.tick = g.tick /\ (~g.on => ~h.on))
        BY <3>2 DEF EventBefore
      <4>3. h.tick \in Nat /\ g.tick \in Nat
        BY <1>2 DEF Stream, IsEvent
      <4> QED
        BY <1>1, <2>1, <4>1, <4>2, <4>3 DEF Seen, After
    <3> QED
      BY <3>1, <3>2
  <2>2. \A h \in D : EventBefore(e, h) => h \in I
    BY <1>1, <1>2, BeforeIs
  <2>3. I \subseteq D
    BY <1>1
  <2> QED
    BY <1>2, <2>1, <2>2, <2>3 DEF Since
<1>8. Since(D, e, f) = Since(C, e, f) /\ \A g \in Since(D, e, f) : Since(D, e, g) = Since(C, e, g)
  <2>1. Since(D, e, f) \subseteq I
    BY <1>1, <1>2, BeforeIs DEF Since
  <2> QED
    BY <1>6, <1>7, <2>1
<1>9. Pairs(C, e, f)
  BY <1>5, <1>8 DEF Pairs
<1> QED
  BY <1>2, <1>6, <1>9

\* Of balanced events all note-offs are deferred.
LEMMA DeferredAre ==
  ASSUME NEW X, EventSet(X), Sound(X), NEW D, D = Defer(X)
  PROVE  \E m : /\ DOMAIN m = X /\ D = {m[e] : e \in X}
                /\ \A e \in X : /\ IsEvent(m[e]) /\ m[e].note = e.note /\ m[e].on = e.on
                                /\ e.on => m[e] = e
                                /\ ~e.on => m[e].tick = DeferredTick(Groups(X), Voice(e), e.tick)
                /\ \A e, f \in X : m[e] = m[f] => e = f
<1>1. PICK c : c = ClosingOf(X)
  OBVIOUS
<1>2. c = {e \in X : ~e.on}
  <2>1. c \subseteq X /\ \A f \in c : ~f.on
    BY <1>1, GroupsAre, ZenonT(60) DEF ClosingOf
  <2>2. ASSUME NEW f \in X, ~f.on
        PROVE  f \in c
    <3>1. PICK e \in X : e.on /\ Closes(X, e, f)
      BY <2>2, SoundClosed
    <3>2. GroupOf(X, e).offs = {f} /\ GroupOf(X, e) \in Groups(X)
      <4>1. PICK g : g = GroupOf(X, e)
        OBVIOUS
      <4>2. g.offs = {f}
        BY <3>1, <4>1, GroupIs
      <4> QED
        BY <3>1, <4>1, <4>2 DEF Groups
    <3> QED
      BY <1>1, <3>2 DEF ClosingOf
  <2> QED
    BY <2>1, <2>2
<1> DEFINE m == [e \in X |-> IF e.on THEN e ELSE Moved(X, e)]
<1>3. D = (X \ c) \cup {Moved(X, e) : e \in c}
  BY <1>1, DeferMoves
<1>4. DOMAIN m = X /\ \A e \in X : m[e] = IF e.on THEN e ELSE Moved(X, e)
  OBVIOUS
<1> HIDE DEF m
<1>5. D = {m[e] : e \in X}
  BY <1>2, <1>3, <1>4
<1>6. ASSUME NEW e \in X
      PROVE  /\ IsEvent(m[e]) /\ m[e].note = e.note /\ m[e].on = e.on
             /\ e.on => m[e] = e
             /\ ~e.on => m[e].tick = DeferredTick(Groups(X), Voice(e), e.tick)
  <2>1. IsEvent(e) /\ e = [note |-> e.note, on |-> e.on, tick |-> e.tick] /\ e.tick \in Nat
    BY DEF EventSet, IsEvent
  <2>2. CASE e.on
    BY <1>4, <2>1, <2>2
  <2>3. CASE ~e.on
    <3>1. PICK t : t = DeferredTick(Groups(X), Voice(e), e.tick)
      OBVIOUS
    <3>2. Finite(Groups(X))
      BY GroupEnds
    <3>3. t \in Nat
      BY <2>1, <3>1, <3>2, DeferralIs
    <3>4. m[e] = [note |-> e.note, on |-> e.on, tick |-> t]
      BY <1>4, <2>1, <2>3, <3>1 DEF Moved
    <3> QED
      BY <2>1, <2>3, <3>1, <3>3, <3>4 DEF IsEvent
  <2> QED
    BY <2>2, <2>3
<1>7. \A e, f \in X : m[e] = m[f] => e = f
  BY <1>6 DEF EventSet
<1> QED
  BY <1>4, <1>5, <1>6, <1>7

\* A note ends at the latest where the note-off that ended it is deferred to.
LEMMA DeferredEnds ==
  ASSUME NEW X, EventSet(X), Sound(X), NEW D, D = Defer(X), EventSet(D),
         NEW e \in X, e.on, NEW f \in X, Closes(X, e, f),
         NEW b, b = DeferredTick(Groups(X), Voice(e), f.tick)
  PROVE  \E g \in D : Closes(D, e, g) /\ g.tick <= b
<1>1. PICK G, v, k : G = Groups(X) /\ v = Voice(e) /\ k = Line(e)
  OBVIOUS
<1>2. PICK C, Y : C = Along(X, k) /\ Y = Along(D, k)
  OBVIOUS
<1>3. PICK m : /\ DOMAIN m = X /\ D = {m[h] : h \in X}
               /\ \A h \in X : /\ IsEvent(m[h]) /\ m[h].note = h.note /\ m[h].on = h.on
                               /\ h.on => m[h] = h
                               /\ ~h.on => m[h].tick = DeferredTick(G, Voice(h), h.tick)
               /\ \A h, i \in X : m[h] = m[i] => h = i
  BY <1>1, DeferredAre
<1>4. /\ Stream(C) /\ Stream(Y) /\ C \subseteq X /\ Y \subseteq D /\ e \in C /\ e \in Y
      /\ \A h \in C : C = {i \in X : Alike(i, h)}
      /\ Y = {i \in D : Alike(i, e)}
      /\ \A h \in C : Voice(h) = v
      /\ \A h \in X : m[h] \in Y <=> h \in C
  <2>1. \A h \in X : Line(m[h]) = Line(h)
    BY <1>3 DEF Line, Track, Voice
  <2>2. Stream(C) /\ Stream(Y)
    BY <1>2, AlongStream
  <2>3. e \in D
    BY <1>3
  <2> QED
    BY <1>1, <1>2, <1>3, <2>1, <2>2, <2>3 DEF Along, Alike, Line
<1>5. Finite(G)
  BY <1>1, GroupEnds
<1>6. \A h \in X : IsEvent(h) /\ h.tick \in Nat /\ h.on \in BOOLEAN
  BY DEF EventSet, IsEvent
<1>7. ~f.on /\ f \in C /\ e.tick < f.tick /\ f.tick \in Ends(G)
  <2>1. PICK g : g = GroupOf(X, e)
    OBVIOUS
  <2>2. ~f.on /\ Line(f) = Line(e) /\ e.tick < f.tick /\ g.end = f.tick
    BY <2>1, GroupIs
  <2>3. g \in G
    BY <1>1, <2>1 DEF Groups
  <2> QED
    BY <1>1, <1>2, <2>2, <2>3 DEF Ends, Along
<1>8. /\ b \in Nat /\ b >= f.tick /\ b \in Ends(G) /\ ~Covered(G, v, b)
  BY <1>1, <1>5, <1>6, <1>7, DeferralIs
<1>9. ASSUME NEW h \in C, h.on
      PROVE  \E i \in C : Pairs(C, h, i)
  <2>1. PICK i \in X : Closes(X, h, i)
    BY <1>4, <1>9, SoundClosed DEF Closed
  <2> QED
    BY <1>4, <2>1, ClosesIs
<1>10. ASSUME NEW h \in C, h.on, h.tick < b, NEW i \in C, Pairs(C, h, i)
       PROVE  ~i.on /\ h.tick < i.tick /\ m[i].tick >= i.tick /\ m[i].tick <= b
  <2>1. Closes(X, h, i)
    BY <1>4, <1>10, ClosesIs
  <2>2. PICK g : g = GroupOf(X, h)
    OBVIOUS
  <2>3. /\ ~i.on /\ h.tick < i.tick
        /\ g = [track |-> Track(h), channel |-> Channel(h), voice |-> Voice(h),
                start |-> h.tick, end |-> i.tick, on |-> h, offs |-> {i}]
    BY <1>4, <1>10, <2>1, <2>2, GroupIs
  <2>4. g \in G /\ g.voice = v /\ g.start = h.tick /\ g.end = i.tick
    <3>1. g \in Groups(X)
      BY <1>4, <1>10, <2>2 DEF Groups
    <3>2. g.voice = Voice(h) /\ g.start = h.tick /\ g.end = i.tick
      BY <2>3
    <3> QED
      BY <1>1, <1>4, <1>10, <3>1, <3>2
  <2>5. i.tick <= b
    <3>1. ~(h.tick < b /\ b < i.tick)
      BY <1>8, <2>4 DEF Covered
    <3> QED
      BY <1>4, <1>6, <1>8, <1>10, <3>1
  <2>6. PICK d : d = DeferredTick(G, v, i.tick)
    OBVIOUS
  <2>7. d \in Nat /\ d >= i.tick /\ d <= b
    BY <1>4, <1>5, <1>6, <1>8, <2>5, <2>6, DeferralIs
  <2>8. m[i].tick = d
    BY <1>3, <1>4, <2>3, <2>6
  <2> QED
    BY <2>3, <2>7, <2>8
<1>11. PICK O, K, I : /\ O = {h \in C : h.on /\ (h = e \/ (EventBefore(e, h) /\ h.tick < b))}
                      /\ K = Closings(C, O) /\ I = Seen(After(Y, e), b)
  OBVIOUS
<1>12. /\ O \subseteq Openings(C) /\ O \subseteq C /\ IsFiniteSet(O) /\ e \in O
       /\ K \subseteq C /\ IsFiniteSet(K)
  <2>1. O \subseteq Openings(C) /\ O \subseteq C /\ K \subseteq C /\ e \in O
    BY <1>4, <1>11 DEF Openings, Closings
  <2> QED
    BY <1>4, <2>1, FS_Subset DEF Stream
<1>13. Cardinality(K) = Cardinality(O)
  <2>1. \A h \in O : \E i \in C : Pairs(C, h, i)
    BY <1>9, <1>11
  <2> QED
    BY <1>4, <1>11, <1>12, <2>1, ClosingsCount
<1>14. PICK M : M = {m[i] : i \in K}
  OBVIOUS
<1>15. IsFiniteSet(M) /\ Cardinality(M) = Cardinality(K)
  <2>1. \A i \in K : i \in DOMAIN m
    BY <1>3, <1>4, <1>12
  <2>2. \A i, j \in K : m[i] = m[j] => i = j
    BY <1>3, <1>4, <1>12
  <2> QED
    BY <1>12, <1>14, <2>1, <2>2, ImageSize
<1>16. M \subseteq {i \in I : ~i.on}
  <2> SUFFICES ASSUME NEW i \in K
               PROVE  m[i] \in I /\ ~m[i].on
    BY <1>14
  <2>1. PICK h \in O : Pairs(C, h, i)
    BY <1>11 DEF Closings
  <2>2. h \in C /\ h.on /\ h.tick < b /\ h.tick >= e.tick
    <3>1. h.tick \in Nat /\ e.tick \in Nat /\ f.tick \in Nat
      BY <1>4, <1>6, <1>12
    <3>2. EventBefore(e, h) => e.tick <= h.tick
      BY <1>4, <1>6, <1>12, EventOrder
    <3> QED
      BY <1>7, <1>8, <1>11, <1>12, <3>1, <3>2
  <2>3. ~i.on /\ h.tick < i.tick /\ m[i].tick >= i.tick /\ m[i].tick <= b
    BY <1>10, <1>12, <2>1, <2>2
  <2>4. m[i] \in Y /\ ~m[i].on /\ m[i].tick \in Nat
    BY <1>3, <1>4, <1>12, <2>3 DEF IsEvent
  <2>5. e.tick < m[i].tick
    BY <1>4, <1>6, <1>12, <2>2, <2>3, <2>4
  <2>6. EventBefore(e, m[i])
    BY <2>5 DEF EventBefore
  <2>7. m[i].tick < b \/ m[i].tick = b
    BY <1>8, <2>3, <2>4
  <2> QED
    BY <1>11, <2>4, <2>6, <2>7 DEF Seen, After
<1>17. {i \in I : i.on} \subseteq O \ {e}
  <2> SUFFICES ASSUME NEW i \in I, i.on
               PROVE  i \in O /\ i # e
    OBVIOUS
  <2>1. i \in Y /\ EventBefore(e, i) /\ i.tick < b
    BY <1>11 DEF Seen, After
  <2>2. PICK h \in X : i = m[h]
    BY <1>3, <1>4, <2>1
  <2>3. h.on /\ h = i /\ h \in C
    BY <1>3, <1>4, <2>1, <2>2
  <2>4. i # e
    BY <1>4, <2>1, BeforeIs
  <2> QED
    BY <1>11, <2>1, <2>3, <2>4
<1>18. Excess(I) > 0
  <2>1. PICK A, B : A = {i \in I : i.on} /\ B = {i \in I : ~i.on}
    OBVIOUS
  <2>2. I \subseteq Y /\ IsFiniteSet(I)
    <3>1. I \subseteq Y /\ IsFiniteSet(Y)
      BY <1>4, <1>11 DEF Seen, After, Stream
    <3> QED
      BY <3>1, FS_Subset
  <2>3. /\ Excess(I) = Cardinality(B) - Cardinality(A)
        /\ Cardinality(A) \in Nat /\ Cardinality(B) \in Nat
        /\ IsFiniteSet(A) /\ IsFiniteSet(B)
    BY <2>1, <2>2, ExcessIs
  <2>4. Cardinality(M) <= Cardinality(B)
    BY <1>16, <2>1, <2>3, FS_Subset
  <2>5. Cardinality(O \ {e}) = Cardinality(O) - 1 /\ IsFiniteSet(O \ {e})
    BY <1>12, FS_RemoveElement
  <2>6. Cardinality(A) <= Cardinality(O \ {e})
    BY <1>17, <2>1, <2>5, FS_Subset
  <2>7. Cardinality(O) \in Nat /\ Cardinality(M) \in Nat
    BY <1>12, <1>15, FS_CardinalityType
  <2> QED
    BY <1>13, <1>15, <2>3, <2>4, <2>5, <2>6, <2>7
<1>19. PICK g \in Y : Pairs(Y, e, g) /\ g.tick <= b
  BY <1>4, <1>8, <1>11, <1>18, ClosedBy
<1>20. g \in D /\ Closes(D, e, g)
  BY <1>4, <1>19, ClosesIs
<1> QED
  BY <1>19, <1>20

\* Deferred, no note-off falls inside a note: the ticks it may be deferred to are
\* those at which a note ended before, and the notes end no later than they did.
LEMMA DeferSettles ==
  ASSUME NEW X, EventSet(X), Sound(X), NEW D, D = Defer(X)
  PROVE  /\ EventSet(D) /\ Sound(D) /\ Settled(D)
         /\ \A d \in D : \E x \in X : d.note = x.note /\ d.on = x.on /\ d.tick >= x.tick /\ (d.on => d = x)
         /\ \A x \in X : x.on => x \in D
         /\ \A d \in D : \E x \in X : d.tick = x.tick
<1>1. EventSet(D) /\ Sound(D)
  <2>1. EventSet({} \cup X) /\ {} \cap X = {} /\ Sound({} \cup X)
    BY Zenon
  <2>2. EventSet({} \cup D) /\ Sound({} \cup D)
    BY <2>1, DeferredSound
  <2>3. {} \cup D = D
    OBVIOUS
  <2> QED
    BY <2>2, <2>3, Zenon
<1>2. PICK G : G = Groups(X)
  OBVIOUS
<1>3. PICK m : /\ DOMAIN m = X /\ D = {m[h] : h \in X}
               /\ \A h \in X : /\ IsEvent(m[h]) /\ m[h].note = h.note /\ m[h].on = h.on
                               /\ h.on => m[h] = h
                               /\ ~h.on => m[h].tick = DeferredTick(G, Voice(h), h.tick)
               /\ \A h, i \in X : m[h] = m[i] => h = i
  BY <1>2, DeferredAre
<1>4. Finite(G)
  BY <1>2, GroupEnds
<1>5. \A h \in X : IsEvent(h) /\ h.tick \in Nat /\ h.on \in BOOLEAN
  BY DEF EventSet, IsEvent
<1>6. \A h \in X : h.on => \E f \in X : Closes(X, h, f)
  BY SoundClosed DEF Closed
<1>7. Closed(D)
  BY <1>1, SoundClosed
<1>8. ASSUME NEW h \in X, ~h.on
      PROVE  /\ m[h].tick \in Nat /\ m[h].tick \in Ends(G) /\ ~Covered(G, Voice(h), m[h].tick)
             /\ Voice(m[h]) = Voice(h) /\ m[h].tick >= h.tick
  <2>1. PICK d : d = DeferredTick(G, Voice(h), h.tick)
    OBVIOUS
  <2>2. d \in Nat /\ d >= h.tick /\ d \in {h.tick} \cup Ends(G) /\ ~Covered(G, Voice(h), d)
    BY <1>4, <1>5, <2>1, DeferralIs
  <2>3. h.tick \in Ends(G)
    <3>1. PICK e \in X : e.on /\ Closes(X, e, h)
      BY <1>8, SoundClosed
    <3>2. PICK g : g = GroupOf(X, e)
      OBVIOUS
    <3>3. g.end = h.tick
      BY <3>1, <3>2, GroupIs
    <3>4. g \in G
      BY <1>2, <3>1, <3>2 DEF Groups
    <3> QED
      BY <3>3, <3>4 DEF Ends
  <2> QED
    BY <1>3, <1>8, <2>1, <2>2, <2>3 DEF Voice
<1>9. ASSUME NEW d \in D, ~d.on, Covered(Groups(D), Voice(d), d.tick)
      PROVE  FALSE
  <2>1. PICK h \in X : d = m[h] /\ ~h.on
    BY <1>3, <1>9
  <2>2. PICK k \in Groups(D) : k.voice = Voice(d) /\ k.start < d.tick /\ d.tick < k.end
    BY <1>9 DEF Covered
  <2>3. PICK e, c \in D : /\ e.on /\ Closes(D, e, c)
                          /\ k = [track |-> Track(e), channel |-> Channel(e), voice |-> Voice(e),
                                  start |-> e.tick, end |-> c.tick, on |-> e, offs |-> {c}]
    BY <1>1, <1>7, GroupsClosed
  <2>4. e \in X
    BY <1>3, <2>3
  <2>5. PICK f \in X : Closes(X, e, f)
    BY <1>6, <2>3, <2>4
  <2>6. PICK b : b = DeferredTick(G, Voice(e), f.tick)
    OBVIOUS
  <2>7. PICK i \in D : Closes(D, e, i) /\ i.tick <= b
    BY <1>1, <1>2, <2>3, <2>4, <2>5, <2>6, DeferredEnds
  <2>8. k.end = i.tick
    <3>1. k = GroupOf(D, e)
      <4>1. PICK x : x = GroupOf(D, e)
        OBVIOUS
      <4>2. x = [track |-> Track(e), channel |-> Channel(e), voice |-> Voice(e),
                 start |-> e.tick, end |-> c.tick, on |-> e, offs |-> {c}]
        BY <1>1, <2>3, <4>1, GroupIs
      <4> QED
        BY <2>3, <4>1, <4>2
    <3> QED
      BY <1>1, <2>3, <2>7, <3>1, GroupIs
  <2>9. PICK g : g = GroupOf(X, e)
    OBVIOUS
  <2>10. g \in G /\ g.voice = Voice(e) /\ g.start = e.tick /\ g.end = f.tick /\ e.tick < f.tick
    <3>1. /\ e.tick < f.tick
          /\ g = [track |-> Track(e), channel |-> Channel(e), voice |-> Voice(e),
                  start |-> e.tick, end |-> f.tick, on |-> e, offs |-> {f}]
      BY <2>3, <2>4, <2>5, <2>9, GroupIs
    <3>2. g \in G
      BY <1>2, <2>3, <2>4, <2>9 DEF Groups
    <3> QED
      BY <3>1, <3>2
  <2>11. /\ d.tick \in Nat /\ d.tick \in Ends(G) /\ ~Covered(G, Voice(d), d.tick)
         /\ Voice(d) = Voice(e) /\ e.tick < d.tick /\ d.tick < i.tick
    BY <1>8, <2>1, <2>2, <2>3, <2>8
  <2>12. /\ e.tick \in Nat /\ f.tick \in Nat /\ i.tick \in Nat
    BY <1>1, <1>5, <2>4 DEF EventSet, IsEvent
  <2>13. d.tick >= f.tick
    <3>1. ~(e.tick < d.tick /\ d.tick < f.tick)
      BY <2>10, <2>11 DEF Covered
    <3> QED
      BY <2>11, <2>12, <3>1
  <2>14. PICK t, v : t = f.tick /\ v = Voice(e)
    OBVIOUS
  <2>15. b \in Nat /\ \A x \in {t} \cup Ends(G) : x >= t /\ ~Covered(G, v, x) => b <= x
    <3>1. b = DeferredTick(G, v, t) /\ t \in Nat
      BY <2>6, <2>12, <2>14
    <3> QED
      BY <1>4, <3>1, DeferralIs
  <2>16. b <= d.tick
    BY <2>11, <2>13, <2>14, <2>15
  <2> QED
    BY <2>7, <2>11, <2>12, <2>15, <2>16
<1>10. Settled(D)
  BY <1>9 DEF Settled
<1>11. \A d \in D : \E x \in X : d.tick = x.tick
  <2> SUFFICES ASSUME NEW h \in X
               PROVE  \E x \in X : m[h].tick = x.tick
    BY <1>3
  <2>1. CASE h.on
    BY <1>3, <2>1
  <2>2. CASE ~h.on
    <3>1. PICK g \in G : m[h].tick = g.end
      BY <1>8, <2>2 DEF Ends
    <3>2. \E x \in X : g.end = x.tick
      <4>1. Closed(X)
        BY SoundClosed
      <4> QED
        BY <1>2, <4>1, GroupsClosed
    <3> QED
      BY <3>1, <3>2
  <2> QED
    BY <2>1, <2>2
<1>12. \A d \in D : \E x \in X : d.note = x.note /\ d.on = x.on /\ d.tick >= x.tick /\ (d.on => d = x)
  BY <1>3, <1>5, <1>8
<1>13. \A x \in X : x.on => x \in D
  BY <1>3
<1> QED
  BY <1>1, <1>10, <1>11, <1>12, <1>13

-----------------------------------------------------------------------------
(************************************************************************** *)
(* Overlap components                                                      *)
(************************************************************************** *)

Spans(G) == \A g \in G : g.start \in Nat /\ g.end \in Nat /\ g.start < g.end

\* The component of a group.
StartOf(G, g) == Max({t \in ComponentStarts(G, g.channel) : t <= g.start})
ComponentOf(G, g) ==
  [channel |-> g.channel, start |-> StartOf(G, g),
   groups |-> {h \in G : h.channel = g.channel /\ StartOf(G, h) = StartOf(G, g)}]

LEMMA StartIs ==
  ASSUME NEW G, Spans(G), NEW g \in G, NEW t, t = StartOf(G, g)
  PROVE  /\ t \in ComponentStarts(G, g.channel) /\ t \in Nat /\ t <= g.start
         /\ \A s \in ComponentStarts(G, g.channel) : s <= g.start => s <= t
<1>1. PICK S, C : /\ C = ComponentStarts(G, g.channel)
                  /\ S = {s \in C : s <= g.start}
  OBVIOUS
<1>2. C \subseteq Nat /\ g.start \in Nat
  BY <1>1 DEF Spans, ComponentStarts
<1>3. S # {}
  <2>1. PICK T : T = {h.start : h \in {h \in G : h.channel = g.channel}}
    OBVIOUS
  <2>2. T \subseteq Nat /\ g.start \in T
    BY <2>1 DEF Spans
  <2>3. PICK m : m = Min(T) /\ m \in T /\ \A n \in T : m <= n
    BY <2>2, MinIs
  <2>4. ASSUME NEW h \in G, h.channel = g.channel
        PROVE  ~(h.start < m)
    <3>1. h.start \in T /\ h.start \in Nat /\ m \in Nat
      BY <2>1, <2>2, <2>3, <2>4
    <3> QED
      BY <2>3, <3>1
  <2>5. m \in C
    BY <1>1, <2>1, <2>3, <2>4 DEF ComponentStarts
  <2> QED
    BY <1>1, <2>2, <2>3, <2>5
<1>4. IsFiniteSet(S)
  <2>1. S \subseteq 0 .. g.start
    BY <1>1, <1>2
  <2>2. IsFiniteSet(0 .. g.start)
    BY <1>2, FS_Interval
  <2> QED
    BY <2>1, <2>2, FS_Subset
<1>5. PICK n \in S : \A m \in S : m <= n
  BY <1>1, <1>2, <1>3, <1>4, Greatest
<1>6. t = Max(S)
  BY <1>1 DEF StartOf
<1>7. t \in S /\ \A m \in S : m <= t
  <2>1. S \subseteq Nat
    BY <1>1, <1>2
  <2>2. \A m \in S : n >= m
    BY <1>5, <2>1
  <2>3. t \in S /\ \A m \in S : t >= m
    BY <1>6, <2>2 DEF Max
  <2> QED
    BY <2>1, <2>3
<1> QED
  BY <1>1, <1>2, <1>7

\* It is the only tick like that.
LEMMA StartOnly ==
  ASSUME NEW G, Spans(G), NEW g \in G, NEW t \in ComponentStarts(G, g.channel), t <= g.start,
         \A s \in ComponentStarts(G, g.channel) : s <= g.start => s <= t
  PROVE  t = StartOf(G, g)
<1>1. PICK s : s = StartOf(G, g)
  OBVIOUS
<1>2. s \in ComponentStarts(G, g.channel) /\ s \in Nat /\ s <= g.start /\ t <= s
  BY <1>1, StartIs
<1>3. t \in Nat
  BY DEF Spans, ComponentStarts
<1> QED
  BY <1>1, <1>2, <1>3

LEMMA ComponentsAll ==
  ASSUME NEW G, Spans(G)
  PROVE  Components(G) = {ComponentOf(G, g) : g \in G}
<1> DEFINE At(ch, t) == [channel |-> ch, start |-> t,
                         groups |-> {h \in G : h.channel = ch /\ StartOf(G, h) = t}]
<1>1. Components(G) = UNION {{At(ch, t) : t \in ComponentStarts(G, ch)} : ch \in {g.channel : g \in G}}
  <2>1. ASSUME NEW ch
        PROVE  {[channel |-> ch, start |-> t,
                 groups |-> {g \in G : g.channel = ch
                                         /\ Max({s \in ComponentStarts(G, ch) : s <= g.start}) = t}] :
                  t \in ComponentStarts(G, ch)} = {At(ch, t) : t \in ComponentStarts(G, ch)}
    <3>1. \A t : {g \in G : g.channel = ch /\ Max({s \in ComponentStarts(G, ch) : s <= g.start}) = t}
                   = {h \in G : h.channel = ch /\ StartOf(G, h) = t}
      BY DEF StartOf
    <3> QED
      BY <3>1
  <2> HIDE DEF At
  <2> QED
    BY <2>1, SMTT(40) DEF Components
<1>2. ASSUME NEW g \in G
      PROVE  ComponentOf(G, g) = At(g.channel, StartOf(G, g)) /\ StartOf(G, g) \in ComponentStarts(G, g.channel)
  BY StartIs DEF ComponentOf
<1>3. ASSUME NEW ch, NEW t \in ComponentStarts(G, ch)
      PROVE  \E g \in G : g.channel = ch /\ t = StartOf(G, g)
  <2>1. PICK g \in G : g.channel = ch /\ t = g.start
    BY DEF ComponentStarts
  <2>2. t <= g.start /\ \A s \in ComponentStarts(G, ch) : s <= g.start => s <= t
    BY <2>1 DEF Spans, ComponentStarts
  <2> QED
    BY <2>1, <2>2, StartOnly
<1> HIDE DEF At
<1>4. \A c \in Components(G) : \E g \in G : c = ComponentOf(G, g)
  <2> SUFFICES ASSUME NEW ch, NEW t \in ComponentStarts(G, ch)
               PROVE  \E g \in G : At(ch, t) = ComponentOf(G, g)
    BY <1>1
  <2>1. PICK g \in G : g.channel = ch /\ t = StartOf(G, g)
    BY <1>3
  <2> QED
    BY <1>2, <2>1
<1>5. \A g \in G : ComponentOf(G, g) \in Components(G)
  BY <1>1, <1>2
<1> QED
  BY <1>4, <1>5

\* Groups that lie before others share no component with them.
LEMMA ComponentsApart ==
  ASSUME NEW A, NEW B, Spans(A), Spans(B), NEW W \in Nat,
         \A a \in A : a.end <= W, \A b \in B : W <= b.start
  PROVE  /\ \A a \in A : ComponentOf(A \cup B, a) = ComponentOf(A, a)
         /\ \A b \in B : ComponentOf(A \cup B, b) = ComponentOf(B, b)
<1>1. PICK G : G = A \cup B
  OBVIOUS
<1>2. Spans(G)
  BY <1>1 DEF Spans
<1>3. \A a \in A : a.start < W /\ a.start \in Nat /\ SpanEnd(a) <= W
  BY DEF Spans, SpanEnd
<1>4. \A b \in B : b.start >= W /\ b.start \in Nat
  BY DEF Spans
<1>5. ASSUME NEW ch, NEW t
      PROVE  /\ t \in ComponentStarts(A, ch) => t \in Nat /\ t < W /\ t \in ComponentStarts(G, ch)
             /\ t \in ComponentStarts(B, ch) => t \in Nat /\ t >= W /\ t \in ComponentStarts(G, ch)
             /\ t \in ComponentStarts(G, ch) => t \in ComponentStarts(A, ch) \cup ComponentStarts(B, ch)
  <2>1. ASSUME t \in ComponentStarts(A, ch)
        PROVE  t \in Nat /\ t < W /\ t \in ComponentStarts(G, ch)
    <3>1. t \in Nat /\ t < W /\ (\E g \in A : g.channel = ch /\ t = g.start)
          /\ \A g \in A : g.channel = ch => ~(g.start < t /\ t < SpanEnd(g))
      BY <1>3, <2>1 DEF ComponentStarts
    <3>2. \A b \in B : ~(b.start < t)
      BY <1>4, <3>1
    <3> QED
      BY <1>1, <3>1, <3>2 DEF ComponentStarts
  <2>2. ASSUME t \in ComponentStarts(B, ch)
        PROVE  t \in Nat /\ t >= W /\ t \in ComponentStarts(G, ch)
    <3>1. t \in Nat /\ t >= W /\ (\E g \in B : g.channel = ch /\ t = g.start)
          /\ \A g \in B : g.channel = ch => ~(g.start < t /\ t < SpanEnd(g))
      BY <1>4, <2>2 DEF ComponentStarts
    <3>2. \A a \in A : ~(t < SpanEnd(a))
      <4>1. \A a \in A : SpanEnd(a) \in Nat
        BY DEF Spans, SpanEnd
      <4> QED
        BY <1>3, <3>1, <4>1
    <3> QED
      BY <1>1, <3>1, <3>2 DEF ComponentStarts
  <2>3. t \in ComponentStarts(G, ch) => t \in ComponentStarts(A, ch) \cup ComponentStarts(B, ch)
    BY <1>1 DEF ComponentStarts
  <2> QED
    BY <2>1, <2>2, <2>3
<1>6. ASSUME NEW a \in A
      PROVE  StartOf(G, a) = StartOf(A, a) /\ StartOf(G, a) \in Nat /\ StartOf(G, a) < W
  <2>1. PICK t : t = StartOf(A, a)
    OBVIOUS
  <2>2. /\ t \in ComponentStarts(A, a.channel) /\ t \in Nat /\ t <= a.start
        /\ \A s \in ComponentStarts(A, a.channel) : s <= a.start => s <= t
    BY <2>1, StartIs
  <2>3. t \in ComponentStarts(G, a.channel) /\ t < W
    BY <1>5, <2>2
  <2>4. \A s \in ComponentStarts(G, a.channel) : s <= a.start => s <= t
    <3> SUFFICES ASSUME NEW s \in ComponentStarts(G, a.channel), s <= a.start
                 PROVE  s <= t
      OBVIOUS
    <3>1. s \in ComponentStarts(A, a.channel)
      BY <1>3, <1>5
    <3> QED
      BY <2>2, <3>1
  <2>5. t = StartOf(G, a)
    <3>1. a \in G
      BY <1>1
    <3> QED
      BY <1>2, <2>2, <2>3, <2>4, <3>1, StartOnly
  <2> QED
    BY <2>1, <2>2, <2>3, <2>5
<1>7. ASSUME NEW b \in B
      PROVE  StartOf(G, b) = StartOf(B, b) /\ StartOf(G, b) \in Nat /\ StartOf(G, b) >= W
  <2>1. PICK t : t = StartOf(B, b)
    OBVIOUS
  <2>2. /\ t \in ComponentStarts(B, b.channel) /\ t \in Nat /\ t <= b.start
        /\ \A s \in ComponentStarts(B, b.channel) : s <= b.start => s <= t
    BY <2>1, StartIs
  <2>3. t \in ComponentStarts(G, b.channel) /\ t >= W
    BY <1>5, <2>2
  <2>4. \A s \in ComponentStarts(G, b.channel) : s <= b.start => s <= t
    <3> SUFFICES ASSUME NEW s \in ComponentStarts(G, b.channel), s <= b.start
                 PROVE  s <= t
      OBVIOUS
    <3>1. CASE s \in ComponentStarts(B, b.channel)
      BY <2>2, <3>1
    <3>2. CASE s \in ComponentStarts(A, b.channel)
      <4>1. s \in Nat /\ s < W
        BY <1>5, <3>2
      <4> QED
        BY <2>2, <2>3, <4>1
    <3> QED
      BY <1>5, <3>1, <3>2
  <2>5. t = StartOf(G, b)
    <3>1. b \in G
      BY <1>1
    <3> QED
      BY <1>2, <2>2, <2>3, <2>4, <3>1, StartOnly
  <2> QED
    BY <2>1, <2>2, <2>3, <2>5
<1>8. \A a \in A, b \in B : StartOf(G, a) # StartOf(G, b)
  BY <1>6, <1>7
<1>9. ASSUME NEW a \in A
      PROVE  ComponentOf(G, a) = ComponentOf(A, a)
  <2>1. {h \in G : h.channel = a.channel /\ StartOf(G, h) = StartOf(G, a)}
          = {h \in A : h.channel = a.channel /\ StartOf(A, h) = StartOf(A, a)}
    <3>1. \A h \in G : h \in A \/ h \in B
      BY <1>1
    <3>2. A \subseteq G
      BY <1>1
    <3> QED
      BY <1>6, <1>8, <3>1, <3>2
  <2> QED
    BY <1>6, <2>1 DEF ComponentOf
<1>10. ASSUME NEW b \in B
       PROVE  ComponentOf(G, b) = ComponentOf(B, b)
  <2>1. {h \in G : h.channel = b.channel /\ StartOf(G, h) = StartOf(G, b)}
          = {h \in B : h.channel = b.channel /\ StartOf(B, h) = StartOf(B, b)}
    <3>1. \A h \in G : h \in A \/ h \in B
      BY <1>1
    <3>2. B \subseteq G
      BY <1>1
    <3> QED
      BY <1>7, <1>8, <3>1, <3>2
  <2> QED
    BY <1>7, <2>1 DEF ComponentOf
<1> QED
  BY <1>1, <1>9, <1>10

LEMMA ComponentsUnion ==
  ASSUME NEW A, NEW B, Spans(A), Spans(B), NEW W \in Nat,
         \A a \in A : a.end <= W, \A b \in B : W <= b.start
  PROVE  Components(A \cup B) = Components(A) \cup Components(B)
<1>1. PICK G : G = A \cup B
  OBVIOUS
<1>2. Spans(G)
  BY <1>1 DEF Spans
<1>3. /\ Components(G) = {ComponentOf(G, g) : g \in G}
      /\ Components(A) = {ComponentOf(A, g) : g \in A}
      /\ Components(B) = {ComponentOf(B, g) : g \in B}
  BY <1>2, ComponentsAll
<1>4. /\ \A a \in A : ComponentOf(G, a) = ComponentOf(A, a)
      /\ \A b \in B : ComponentOf(G, b) = ComponentOf(B, b)
  BY <1>1, ComponentsApart
<1>5. /\ \A g \in G : g \in A \/ g \in B
      /\ A \subseteq G /\ B \subseteq G
  BY <1>1
<1>6. {ComponentOf(G, g) : g \in G} = {ComponentOf(A, g) : g \in A} \cup {ComponentOf(B, g) : g \in B}
  BY <1>4, <1>5
<1> QED
  BY <1>1, <1>3, <1>6

-----------------------------------------------------------------------------
(************************************************************************** *)
(* What the conflict pass decides                                          *)
(************************************************************************** *)

Collided(c) == Cardinality(TracksOf(c)) >= 2
PlaceOf(c, cycle) == <<c.channel, c.start \div cycle, c.start>>
Counted(components, resolved, cycle) ==
  resolved \cup {PlaceOf(c, cycle) : c \in {c \in components : Collided(c)}}
OrdinalOf(c, counted, cycle) ==
  Cardinality({p \in counted : p = <<c.channel, c.start \div cycle, p[3]>> /\ p[3] < c.start})
PassedTracks(c, ordinal, config) ==
  MatrixAllowed(config.policy, config.matrix, c.start, c.channel, TracksOf(c), config.active,
                config.rank, ordinal)
SilencedIn(components, counted, config) ==
  UNION {{g \in c.groups : g.track \notin PassedTracks(c, OrdinalOf(c, counted, config.cycle), config)} :
           c \in components}

\* What the timeline is told, and what Alternate counts on from.
NotesOf(silenced) == {g.on.note : g \in silenced}
Remembered(counted) == {p \in counted : \A o \in counted : p[2] + 2 >= o[2]}

Decided(q, keys, horizon, config) ==
  IF config.active > 1 THEN Resolvable(Components(Groups(q)), keys, horizon) ELSE {}

\* The conflict pass, part by part.
LEMMA ResolvePass ==
  ASSUME NEW q, NEW keys, NEW horizon, NEW resolved, NEW config,
         NEW components, components = Decided(q, keys, horizon, config),
         NEW counted, counted = Counted(components, resolved, config.cycle),
         NEW silenced, silenced = SilencedIn(components, counted, config),
         NEW r, r = ResolveConflicts(q, keys, horizon, resolved, config)
  PROVE  /\ r.queue = Defer(q \ EventsIn(silenced))
         /\ r.suppressed = NotesOf(silenced)
         /\ r.resolved = Remembered(counted)
<1> DEFINE decided == IF config.active > 1
                      THEN Resolvable(Components(Groups(q)), keys, horizon) ELSE {}
           Place(c, t) == <<c.channel, c.start \div config.cycle, t>>
           known == resolved \cup {Place(c, c.start) : c \in {c \in decided : Cardinality(TracksOf(c)) >= 2}}
           Ordinal(c) == Cardinality({p \in known : p = Place(c, p[3]) /\ p[3] < c.start})
           Allows(c) ==
             MatrixAllowed(config.policy, config.matrix, c.start, c.channel,
                           TracksOf(c), config.active, config.rank, Ordinal(c))
           quiet == UNION {{g \in c.groups : g.track \notin Allows(c)} : c \in decided}
<1>1. /\ r.queue = Defer(q \ EventsIn(quiet))
      /\ r.suppressed = {g.on.note : g \in quiet}
      /\ r.resolved = {p \in known : \A o \in known : p[2] + 2 >= o[2]}
  BY DEF ResolveConflicts
<1>2. decided = components
  BY DEF Decided
<1> HIDE DEF decided
<1>3. known = counted
  BY <1>2 DEF Counted, PlaceOf, Collided
<1> HIDE DEF known
<1>4. ASSUME NEW c
      PROVE  Allows(c) = PassedTracks(c, OrdinalOf(c, counted, config.cycle), config)
  BY <1>3 DEF PassedTracks, OrdinalOf
<1> HIDE DEF Allows
<1>5. quiet = silenced
  BY <1>2, <1>4 DEF SilencedIn
<1> HIDE DEF quiet
<1>6. r.resolved = {p \in counted : \A o \in counted : p[2] + 2 >= o[2]}
  BY <1>1, <1>3
<1> QED
  BY <1>1, <1>5, <1>6 DEF NotesOf, Remembered
=============================================================================
