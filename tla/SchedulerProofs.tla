-------------------------- MODULE SchedulerProofs --------------------------
(************************************************************************** *)
(* Proofs about Scheduler, for every set of keys, scores, runtimes, cycle  *)
(* contents and bounds: as long as no send fails, the ledger knows what    *)
(* sounds and no note hangs across any sequence of commands and swaps.     *)
(*                                                                         *)
(* NoHungNote is not inductive.  It also takes that a queued note-on has   *)
(* its note-off queued behind it, so that sending the one does not leave   *)
(* the key without the other; that nothing is dropped while keys ring      *)
(* unless a sweep follows; and that a stopped transport is silent.         *)
(* OverlayMatchesQueue takes that a queued note lies within two cycles of  *)
(* its own (OverlayInv).                                                   *)
(************************************************************************** *)
EXTENDS Scheduler, FiniteSetTheorems, TLAPS

\* A queued note-on is followed by the note-off of its note.
Paired(q) ==
  \A e \in q : e.on => \E f \in q : f.note = e.note /\ ~f.on /\ e.tick < f.tick

\* Events are sent only while playing, after the pending swap was carried
\* out, and a stopped transport is silent.
Quiet ==
  /\ pc = "dispatch" => is_playing /\ sweep = {} /\ discard = {}
  /\ ~is_playing => ringing = {}

\* A discard with no sweep to follow is one that outlived a stop: no key
\* rings whose note-off it could drop.
DiscardInv ==
  is_playing /\ sweep = {} /\ discard # {} => ringing = {}

-----------------------------------------------------------------------------
(************************************************************************** *)
(* The helpers                                                             *)
(************************************************************************** *)

LEMMA Quotient ==
  ASSUME NEW a \in Nat, NEW b \in Nat \ {0}
  PROVE  a \div b \in Nat /\ a % b \in Nat
OBVIOUS

LEMMA RescaledType ==
  ASSUME NEW t \in Nat, NEW old \in Nat, NEW new \in Nat
  PROVE  Rescaled(t, old, new) \in Nat
<1>1. CASE old > 0 /\ new > 0 /\ old # new
  <2>1. 2 * t * new + old \in Nat /\ 2 * old \in Nat \ {0}
    BY <1>1
  <2>2. (2 * t * new + old) \div (2 * old) \in Nat
    BY <2>1, Quotient
  <2> QED
    BY <1>1, <2>2 DEF Rescaled
<1>2. CASE ~(old > 0 /\ new > 0 /\ old # new)
  BY <1>2 DEF Rescaled
<1> QED
  BY <1>1, <1>2

LEMMA MinusType ==
  ASSUME NEW a \in Nat, NEW b \in Nat
  PROVE  Minus(a, b) \in Nat
BY DEF Minus

LEMMA AfterOffsType ==
  ASSUME NEW counts \in [Keys -> Nat], NEW keys
  PROVE  AfterOffs(counts, keys) \in [Keys -> Nat]
BY MinusType DEF AfterOffs

\* One realized cycle: proper events, every note-on with its note-off.
LEMMA CycleEventsPaired ==
  ASSUME NEW source \in Sources, NEW take \in Takes[source],
         NEW c \in Nat, NEW grid \in Nat
  PROVE  /\ CycleEvents(take, c, grid) \subseteq SchedulerEvent
         /\ NotesLast => Paired(CycleEvents(take, c, grid))
<1>1. /\ take \subseteq Note
      /\ \A n \in take : n.on \in Nat /\ n.off \in Nat
  BY TakesAssumption DEF Note
<1>2. c * grid \in Nat
  OBVIOUS
<1> DEFINE base == c * grid
           events == CycleEvents(take, c, grid)
           onOf(n) == [tick |-> base + n.on, on |-> TRUE, note |-> n, cycle |-> c]
           offOf(n) == [tick |-> base + n.off, on |-> FALSE, note |-> n, cycle |-> c]
<1> HIDE DEF base
<1>3. /\ \A e \in events : \E n \in take : e = onOf(n) \/ e = offOf(n)
      /\ \A n \in take : offOf(n) \in events
  BY DEF CycleEvents, base
<1>4. base \in Nat
  BY <1>2 DEF base
<1>5. \A n \in take : onOf(n) \in SchedulerEvent /\ offOf(n) \in SchedulerEvent
  BY <1>1, <1>4 DEF SchedulerEvent
<1>6. NotesLast => \A n \in take : onOf(n).tick < offOf(n).tick
  BY <1>1, <1>4 DEF NotesLast
<1>7. events \subseteq SchedulerEvent
  BY <1>3, <1>5
<1>8. NotesLast => Paired(events)
  <2> SUFFICES ASSUME NotesLast, NEW e \in events, e.on
               PROVE  \E f \in events : f.note = e.note /\ ~f.on /\ e.tick < f.tick
    BY DEF Paired
  <2>1. PICK n \in take : e = onOf(n)
    BY <1>3
  <2> QED
    BY <1>3, <1>6, <2>1
<1> QED
  BY <1>7, <1>8

LEMMA RealizePaired ==
  ASSUME NEW source \in Sources, NEW from \in Nat, NEW to,
         NEW takes \in [from .. to - 1 -> Takes[source]], NEW grid \in Nat
  PROVE  /\ Realize(takes, grid) \subseteq SchedulerEvent
         /\ NotesLast => Paired(Realize(takes, grid))
<1>1. \A c \in from .. to - 1 : c \in Nat /\ takes[c] \in Takes[source]
  OBVIOUS
<1>2. \A c \in from .. to - 1 :
        /\ CycleEvents(takes[c], c, grid) \subseteq SchedulerEvent
        /\ NotesLast => Paired(CycleEvents(takes[c], c, grid))
  BY <1>1, CycleEventsPaired
<1>3. \A e : e \in Realize(takes, grid) <=>
        \E c \in from .. to - 1 : e \in CycleEvents(takes[c], c, grid)
  BY DEF Realize
<1>4. Realize(takes, grid) \subseteq SchedulerEvent
  BY <1>2, <1>3
<1>5. NotesLast => Paired(Realize(takes, grid))
  BY <1>2, <1>3 DEF Paired
<1> QED
  BY <1>4, <1>5

\* Discarding what is stale drops no note-off whose note-on stays.
LEMMA DropStalePaired ==
  ASSUME NEW q, q \subseteq SchedulerEvent, Paired(q), NEW cutoffs, cutoffs \subseteq Nat
  PROVE  Paired(DropStale(q, cutoffs))
<1> SUFFICES ASSUME NEW e \in DropStale(q, cutoffs), e.on
             PROVE  \E f \in DropStale(q, cutoffs) :
                      f.note = e.note /\ ~f.on /\ e.tick < f.tick
  BY DEF Paired
<1>1. e \in q /\ \A cutoff \in cutoffs : e.tick >= cutoff
  BY DEF DropStale
<1>2. PICK f \in q : f.note = e.note /\ ~f.on /\ e.tick < f.tick
  BY <1>1 DEF Paired
<1>3. e.tick \in Nat /\ f.tick \in Nat
  BY <1>1, <1>2 DEF SchedulerEvent
<1>4. f \in DropStale(q, cutoffs)
  BY <1>1, <1>2, <1>3 DEF DropStale
<1> QED
  BY <1>2, <1>4

LEMMA DropStaleType ==
  ASSUME NEW q, q \subseteq SchedulerEvent, NEW cutoffs
  PROVE  DropStale(q, cutoffs) \subseteq SchedulerEvent
BY DEF DropStale

LEMMA SourceType ==
  ASSUME SchedulerTypeOK, HasSource
  PROVE  Source \in Sources
BY DEF SchedulerTypeOK, HasSource, Source, Sources

LEMMA RealizedToType ==
  ASSUME NEW source, NEW from \in Nat, NEW to \in Nat, NEW t \in RealizedTo(source, from, to)
  PROVE  t \in Nat /\ t >= from
BY DEF RealizedTo

LEMMA ClockType ==
  ASSUME SchedulerTypeOK, tpc > 0, NEW n \in Nat
  PROVE  /\ AbsoluteTick \in Nat
         /\ (AbsoluteTick + n) \div tpc \in Nat
         /\ (AbsoluteTick + n) % tpc \in Nat
<1>1. cycle \in Nat /\ tick \in Nat /\ tpc \in Nat \ {0}
  BY DEF SchedulerTypeOK
<1>2. cycle * tpc \in Nat
  BY <1>1
<1>3. AbsoluteTick \in Nat
  BY <1>1, <1>2 DEF AbsoluteTick
<1> QED
  BY <1>1, <1>3, Quotient

\* What a play step does, with its choices named.
PlayStepChoice(r, released, freed) ==
  /\ r \subseteq SchedulerEvent /\ (NotesLast => Paired(r))
  /\ queue' = DropStale(queue \cup r, discard)
  /\ LET orphans == UNION {Orphaned(ledger, queue', swap) : swap \in sweep}
         left == [k \in Keys |-> IF k \in released THEN 0 ELSE ledger[k]]
         stuck == IF realized' # realized THEN Stuck(left, queue') ELSE {} IN
     /\ released \subseteq orphans /\ freed \subseteq stuck
     /\ ledger' = [k \in Keys |-> IF k \in freed THEN 0 ELSE left[k]]
     /\ failures' = failures + Cardinality(orphans \ released)
                             + Cardinality(stuck \ freed)
  /\ ringing' = ringing \ (released \cup freed)
  /\ counting' = AfterOffs(counting, released \cup freed)

LEMMA PlayStepChoices ==
  ASSUME SchedulerTypeOK, NEW n \in Nat, PlayStep(n)
  PROVE  /\ realized' \in Nat
         /\ described' \subseteq Nat
         /\ \E r, released, freed : PlayStepChoice(r, released, freed)
<1>1. cycle' \in Nat /\ realized \in Nat /\ described \subseteq Nat /\ tpc \in Nat
  BY ClockType DEF PlayStep, SchedulerTypeOK
<1>2. Source \in Sources
  BY SourceType DEF PlayStep
<1> DEFINE outcome(to, takes) ==
        LET q == DropStale(queue \cup Realize(takes, tpc), discard)
            orphans == UNION {Orphaned(ledger, q, swap) : swap \in sweep} IN
        \E released \in SUBSET orphans :
        LET left == [k \in Keys |-> IF k \in released THEN 0 ELSE ledger[k]]
            stuck == IF to # realized THEN Stuck(left, q) ELSE {} IN
        \E freed \in SUBSET stuck :
          /\ failures' = failures + Cardinality(orphans \ released)
                                  + Cardinality(stuck \ freed)
          /\ queue' = q
          /\ realized' = to
          /\ described' = described \cup (realized .. to - 1)
          /\ ledger' = [k \in Keys |-> IF k \in freed THEN 0 ELSE left[k]]
          /\ ringing' = ringing \ (released \cup freed)
          /\ counting' = AfterOffs(counting, released \cup freed)
<1>3. \E to \in RealizedTo(Source, realized, cycle' + 2) :
       \E takes \in [realized .. to - 1 -> Takes[Source]] : outcome(to, takes)
  BY DEF PlayStep
<1>4. PICK to \in RealizedTo(Source, realized, cycle' + 2) :
         \E takes \in [realized .. to - 1 -> Takes[Source]] : outcome(to, takes)
  BY <1>3
<1>5. PICK takes \in [realized .. to - 1 -> Takes[Source]] : outcome(to, takes)
  BY <1>4
<1> DEFINE q == DropStale(queue \cup Realize(takes, tpc), discard)
           orphans == UNION {Orphaned(ledger, q, swap) : swap \in sweep}
           left(rel) == [k \in Keys |-> IF k \in rel THEN 0 ELSE ledger[k]]
           stuck(rel) == IF to # realized THEN Stuck(left(rel), q) ELSE {}
<1>6. PICK released \in SUBSET orphans : \E freed \in SUBSET stuck(released) :
          /\ failures' = failures + Cardinality(orphans \ released)
                                  + Cardinality(stuck(released) \ freed)
          /\ queue' = q
          /\ realized' = to
          /\ described' = described \cup (realized .. to - 1)
          /\ ledger' = [k \in Keys |-> IF k \in freed THEN 0 ELSE left(released)[k]]
          /\ ringing' = ringing \ (released \cup freed)
          /\ counting' = AfterOffs(counting, released \cup freed)
  BY <1>5
<1>7. PICK freed \in SUBSET stuck(released) :
          /\ failures' = failures + Cardinality(orphans \ released)
                                  + Cardinality(stuck(released) \ freed)
          /\ queue' = q
          /\ realized' = to
          /\ described' = described \cup (realized .. to - 1)
          /\ ledger' = [k \in Keys |-> IF k \in freed THEN 0 ELSE left(released)[k]]
          /\ ringing' = ringing \ (released \cup freed)
          /\ counting' = AfterOffs(counting, released \cup freed)
  BY <1>6
<1>8. to \in Nat
  <2>1. \A m \in Nat : m + 2 \in Nat
    OBVIOUS
  <2>2. cycle' + 2 \in Nat
    BY <1>1, <2>1
  <2> QED
    BY <1>1, <2>2, RealizedToType
<1>9. realized' \in Nat /\ described' \subseteq Nat
  <2>1. realized .. to - 1 \subseteq Nat
    BY <1>1, <1>8
  <2> QED
    BY <1>1, <1>7, <1>8, <2>1
<1>10. /\ Realize(takes, tpc) \subseteq SchedulerEvent
       /\ NotesLast => Paired(Realize(takes, tpc))
  BY <1>1, <1>2, RealizePaired
<1>11. PlayStepChoice(Realize(takes, tpc), released, freed)
  BY <1>7, <1>10 DEF PlayStepChoice
<1> QED
  BY <1>9, <1>11

-----------------------------------------------------------------------------
(************************************************************************** *)
(* Type correctness                                                        *)
(************************************************************************** *)

LEMMA KeySet ==
  ASSUME NEW S, S \subseteq Keys
  PROVE  IsFiniteSet(S) /\ Cardinality(S) \in Nat
BY KeysAssumption, FS_Subset, FS_CardinalityType

LEMMA RequeueType ==
  ASSUME SchedulerTypeOK, NEW parallel, NEW grid \in Nat, NEW t \in Nat,
         Requeue(parallel, grid, t)
  PROVE  /\ queue' = {} /\ realized' \in Nat /\ described' = {}
         /\ \E swap \in Nat : discard' = {swap} /\ sweep' = {swap}
<1>1. cycle \in Nat
  BY DEF SchedulerTypeOK
<1>2. cycle * grid + t \in Nat
  BY <1>1
<1> QED
  BY <1>1, <1>2 DEF Requeue

\* What a requeue or an unchanged window leaves of the types.
WindowType ==
  /\ queue \subseteq SchedulerEvent
  /\ realized \in Nat /\ described \subseteq Nat
  /\ discard \subseteq Nat /\ \A t, u \in discard : t = u
  /\ sweep \subseteq Nat /\ \A t, u \in sweep : t = u

LEMMA RequeueWindow ==
  ASSUME SchedulerTypeOK, NEW parallel, NEW grid \in Nat, NEW t \in Nat,
         Requeue(parallel, grid, t)
  PROVE  WindowType'
BY RequeueType DEF WindowType

LEMMA SameWindow ==
  ASSUME SchedulerTypeOK, UNCHANGED window
  PROVE  WindowType'
BY DEF SchedulerTypeOK, WindowType, window

LEMMA PlayType ==
  ASSUME SchedulerTypeOK, Play
  PROVE  SchedulerTypeOK' /\ (NotesLast => Paired(queue'))
<1>1. tpc' \in Nat
  BY TpcAssumption DEF Play, SchedulerTypeOK
<1>2. /\ queue' \subseteq SchedulerEvent /\ realized' \in Nat /\ described' \subseteq Nat
      /\ NotesLast => Paired(queue')
  <2>1. CASE HasSource
    <3>1. PICK to \in RealizedTo(Source, 0, 1) :
            \E takes \in [0 .. to - 1 -> Takes[Source]] :
              /\ queue' = Realize(takes, tpc')
              /\ realized' = to
              /\ described' = 0 .. to - 1
      BY <2>1 DEF Play
    <3>2. PICK takes \in [0 .. to - 1 -> Takes[Source]] :
              /\ queue' = Realize(takes, tpc')
              /\ realized' = to
              /\ described' = 0 .. to - 1
      BY <3>1
    <3>3. Source \in Sources
      BY <2>1, SourceType
    <3>4. to \in Nat
      BY <3>1, RealizedToType
    <3>5. /\ Realize(takes, tpc') \subseteq SchedulerEvent
          /\ NotesLast => Paired(Realize(takes, tpc'))
      BY <1>1, <3>3, RealizePaired
    <3> QED
      BY <3>2, <3>4, <3>5
  <2>2. CASE ~HasSource
    BY <2>2 DEF Play, Paired
  <2> QED
    BY <2>1, <2>2
<1> QED
  BY <1>1, <1>2 DEF Play, SchedulerTypeOK

LEMMA PlayStepType ==
  ASSUME SchedulerTypeOK, NEW n \in Nat, PlayStep(n)
  PROVE  SchedulerTypeOK'
<1>1. PICK r, released, freed : PlayStepChoice(r, released, freed)
  BY PlayStepChoices
<1>2. realized' \in Nat /\ described' \subseteq Nat /\ cycle' \in Nat /\ tick' \in Nat
  BY PlayStepChoices, ClockType DEF PlayStep
<1>3. queue' \subseteq SchedulerEvent
  BY <1>1, DropStaleType DEF PlayStepChoice, SchedulerTypeOK
<1>4. ledger' \in [Keys -> Nat]
  BY <1>1 DEF PlayStepChoice, SchedulerTypeOK
<1>5. counting' \in [Keys -> Nat]
  BY <1>1, AfterOffsType DEF PlayStepChoice, SchedulerTypeOK
<1>6. ringing' \subseteq Keys
  BY <1>1 DEF PlayStepChoice, SchedulerTypeOK
<1>7. failures' \in Nat
  <2> DEFINE orphans == UNION {Orphaned(ledger, queue', swap) : swap \in sweep}
             left == [k \in Keys |-> IF k \in released THEN 0 ELSE ledger[k]]
             stuck == IF realized' # realized THEN Stuck(left, queue') ELSE {}
  <2>1. orphans \subseteq Keys /\ stuck \subseteq Keys
    BY DEF Orphaned, Stuck
  <2>2. failures' = failures + Cardinality(orphans \ released)
                             + Cardinality(stuck \ freed)
    BY <1>1 DEF PlayStepChoice
  <2> HIDE DEF orphans, stuck
  <2>3. Cardinality(orphans \ released) \in Nat /\ Cardinality(stuck \ freed) \in Nat
    BY <2>1, KeySet
  <2> QED
    BY <2>2, <2>3 DEF SchedulerTypeOK
<1> QED
  BY <1>2, <1>3, <1>4, <1>5, <1>6, <1>7 DEF PlayStep, SchedulerTypeOK, config

LEMMA DispatchType ==
  ASSUME SchedulerTypeOK, NEW e \in Due, NEW sent \in BOOLEAN, Dispatch(e, sent)
  PROVE  SchedulerTypeOK'
<1>1. e \in SchedulerEvent /\ e.note.key \in Keys
  BY DEF Due, SchedulerTypeOK, SchedulerEvent, Note
<1>2. \A a \in Nat : a + 1 \in Nat /\ Minus(a, 1) \in Nat
  BY MinusType
<1>3. ledger' \in [Keys -> Nat] /\ counting' \in [Keys -> Nat] /\ ringing' \subseteq Keys
  BY <1>1, <1>2 DEF Dispatch, SchedulerTypeOK
<1>4. failures' \in Nat
  BY DEF Dispatch, SchedulerTypeOK
<1> QED
  BY <1>3, <1>4 DEF Dispatch, SchedulerTypeOK, config, position

LEMMA CommandType ==
  ASSUME SchedulerTypeOK, Command
  PROVE  SchedulerTypeOK'
<1>1. CASE Play
  BY <1>1, PlayType
<1>2. CASE Stop
  BY <1>2 DEF Stop, AfterCC123, SchedulerTypeOK, config, position
<1>3. ASSUME Silence PROVE ledger' \in [Keys -> Nat] /\ counting' \in [Keys -> Nat]
                           /\ ringing' \subseteq Keys
  BY <1>3, MinusType DEF Silence, AfterCC123, SchedulerTypeOK
<1>4. CASE Panic
  BY <1>3, <1>4 DEF Panic, SchedulerTypeOK, config, position, window
<1>5. CASE Shutdown
  BY <1>3, <1>5 DEF Shutdown, SchedulerTypeOK, config, position, window
<1>6. CASE Resync
  <2>1. WindowType'
    <3>1. CASE is_playing
      BY <1>6, <3>1, RequeueWindow DEF Resync, SchedulerTypeOK
    <3>2. CASE ~is_playing
      <4>1. queue' \subseteq SchedulerEvent /\ described' \subseteq Nat
        BY <1>6, <3>2 DEF Resync
      <4>2. realized' \in Nat
        BY <1>6, <3>2 DEF Resync, SchedulerTypeOK
      <4>3. UNCHANGED <<discard, sweep>>
        BY <1>6, <3>2 DEF Resync
      <4> QED
        BY <4>1, <4>2, <4>3 DEF WindowType, SchedulerTypeOK
    <3> QED
      BY <3>1, <3>2
  <2> QED
    BY <1>6, <2>1 DEF Resync, WindowType, SchedulerTypeOK, config, position, output
<1>7. CASE SetSynthPrograms
  <2>1. WindowType'
    BY <1>7, RequeueWindow DEF SetSynthPrograms, SchedulerTypeOK
  <2> QED
    BY <1>7, <2>1 DEF SetSynthPrograms, WindowType, SchedulerTypeOK, config, position, output
<1>8. ASSUME NEW n \in 0 .. MaxAdvance, SetTempo(n)
      PROVE  SchedulerTypeOK'
  <2>1. n \in Nat
    BY SchedulerBoundsAssumption
  <2>2. cycle' \in Nat /\ tick' \in Nat
    BY <1>8, <2>1, ClockType DEF SetTempo
  <2> QED
    BY <1>8, <2>2 DEF SetTempo, SchedulerTypeOK, config, window, output
<1>9. ASSUME NEW s \in Scores, SetScore(s)
      PROVE  SchedulerTypeOK'
  <2>1. Tpc[s] \in Nat
    BY TpcAssumption
  <2>2. tick' \in Nat
    BY <1>9, <2>1, RescaledType DEF SetScore, SchedulerTypeOK
  <2>3. WindowType'
    BY <1>9, <2>1, <2>2, RequeueWindow, SameWindow DEF SetScore
  <2> QED
    BY <1>9, <2>1, <2>2, <2>3 DEF SetScore, WindowType, SchedulerTypeOK, output
<1>10. ASSUME NEW r \in Rhythms \cup {Absent}, SetRhythmPlayback(r)
       PROVE  SchedulerTypeOK'
  <2>1. WindowType'
    BY <1>10, RequeueWindow, SameWindow DEF SetRhythmPlayback, SchedulerTypeOK
  <2> QED
    BY <1>10, <2>1 DEF SetRhythmPlayback, WindowType, SchedulerTypeOK, position, output
<1>11. ASSUME NEW p \in Runtimes, ApplyInPlace(p)
       PROVE  SchedulerTypeOK'
  BY <1>11 DEF ApplyInPlace, SchedulerTypeOK, position, window, output
<1>12. ASSUME NEW p \in Runtimes \cup {Absent}, SetParallelPlayback(p)
       PROVE  SchedulerTypeOK'
  <2>1. GridOf(p) \in Nat
    BY TpcAssumption DEF GridOf, SchedulerTypeOK
  <2>2. tick' \in Nat
    BY <1>12, <2>1, RescaledType DEF SetParallelPlayback, SchedulerTypeOK
  <2>3. WindowType'
    BY <1>12, <2>1, <2>2, RequeueWindow, SameWindow DEF SetParallelPlayback
  <2> QED
    BY <1>12, <2>1, <2>2, <2>3 DEF SetParallelPlayback, WindowType, SchedulerTypeOK, output
<1> QED
  BY <1>1, <1>2, <1>4, <1>5, <1>6, <1>7, <1>8, <1>9, <1>10, <1>11, <1>12 DEF Command

\* Every variable of the loop keeps its type: ticks and counts stay natural
\* through the rescaling of the position and the saturating ledger arithmetic,
\* and each watermark holds at most one tick.
THEOREM SchedulerType == Spec => []SchedulerTypeOK
<1>1. Init => SchedulerTypeOK
  <2> SUFFICES ASSUME Init PROVE SchedulerTypeOK
    OBVIOUS
  <2>1. ledger \in [Keys -> Nat] /\ counting \in [Keys -> Nat]
    BY DEF Init
  <2>2. WindowType
    BY DEF Init, WindowType
  <2> QED
    BY <2>1, <2>2 DEF Init, SchedulerTypeOK, WindowType
<1>2. SchedulerTypeOK /\ [Next]_vars => SchedulerTypeOK'
  <2> SUFFICES ASSUME SchedulerTypeOK, [Next]_vars
               PROVE  SchedulerTypeOK'
    OBVIOUS
  <2>1. CASE Command
    BY <2>1, CommandType
  <2>2. ASSUME NEW n \in 0 .. MaxAdvance, PlayStep(n)
        PROVE  SchedulerTypeOK'
    BY <2>2, PlayStepType, SchedulerBoundsAssumption
  <2>3. ASSUME NEW e \in Due, NEW sent \in BOOLEAN, Dispatch(e, sent)
        PROVE  SchedulerTypeOK'
    BY <2>3, DispatchType
  <2>4. CASE EndLoop
    BY <2>4 DEF EndLoop, SchedulerTypeOK, config, position, output
  <2>5. CASE UNCHANGED vars
    BY <2>5 DEF SchedulerTypeOK, vars, config, position, window, output
  <2> QED
    BY <2>1, <2>2, <2>3, <2>4, <2>5 DEF Next, Step
<1> QED
  BY <1>1, <1>2, PTL DEF Spec

-----------------------------------------------------------------------------
(************************************************************************** *)
(* The ledger knows what sounds                                            *)
(************************************************************************** *)

\* What a command may do to the notes: silence them all, requeue with a sweep
\* pending, or leave notes and queue alone.
CommandEffect ==
  \/ ringing' = {} /\ (NotesLast /\ Paired(queue) => Paired(queue'))
  \/ is_playing' /\ queue' = {} /\ sweep' # {} /\ UNCHANGED <<ledger, ringing>>
  \/ UNCHANGED <<is_playing, queue, discard, sweep, ledger, ringing>>

\* The sends of a command are taken to succeed.
LEMMA CommandSends ==
  ASSUME Command
  PROVE  UNCHANGED failures
BY DEF Command, Play, Stop, Panic, Shutdown, Silence, Resync, SetSynthPrograms, SetTempo,
       SetScore, SetRhythmPlayback, ApplyInPlace, SetParallelPlayback, output

LEMMA CommandEffects ==
  ASSUME SchedulerTypeOK, Quiet, Command
  PROVE  pc' # "dispatch" /\ CommandEffect
         /\ (~is_playing' => ringing' = {})
<1>1. Paired({})
  BY DEF Paired
<1>2. \A parallel, grid, t :
        is_playing' /\ Requeue(parallel, grid, t) /\ UNCHANGED output => CommandEffect
  BY DEF Requeue, CommandEffect, output
<1>3. ~is_playing /\ UNCHANGED <<window, output>> => CommandEffect
  BY DEF CommandEffect, window, output, Quiet
<1>4. CASE Play
  BY <1>4, PlayType DEF Play, CommandEffect, Quiet
<1>5. CASE Stop
  BY <1>1, <1>5 DEF Stop, AfterCC123, CommandEffect
<1>6. CASE Panic
  BY <1>6 DEF Panic, Silence, AfterCC123, CommandEffect, window
<1>7. CASE Shutdown
  BY <1>7 DEF Shutdown, Silence, AfterCC123, CommandEffect, window
<1>8. CASE Resync
  <2>1. CASE is_playing
    BY <1>2, <1>8, <2>1 DEF Resync, Quiet, output
  <2>2. CASE ~is_playing
    BY <1>1, <1>8, <2>2 DEF Resync, Quiet, CommandEffect, output
  <2> QED
    BY <2>1, <2>2
<1>9. CASE SetSynthPrograms
  BY <1>2, <1>9 DEF SetSynthPrograms
<1>10. ASSUME NEW n \in 0 .. MaxAdvance, SetTempo(n)
       PROVE  pc' # "dispatch" /\ CommandEffect /\ is_playing'
  BY <1>10 DEF SetTempo, CommandEffect, window, output
<1>11. ASSUME NEW s \in Scores, SetScore(s)
       PROVE  pc' # "dispatch" /\ CommandEffect /\ (~is_playing' => ringing' = {})
  BY <1>2, <1>3, <1>11 DEF SetScore, Quiet, output
<1>12. ASSUME NEW r \in Rhythms \cup {Absent}, SetRhythmPlayback(r)
       PROVE  pc' # "dispatch" /\ CommandEffect /\ (~is_playing' => ringing' = {})
  BY <1>2, <1>3, <1>12 DEF SetRhythmPlayback, Quiet, output
<1>13. ASSUME NEW p \in Runtimes, ApplyInPlace(p)
       PROVE  pc' # "dispatch" /\ CommandEffect /\ is_playing'
  BY <1>13 DEF ApplyInPlace, CommandEffect, window, output
<1>14. ASSUME NEW p \in Runtimes \cup {Absent}, SetParallelPlayback(p)
       PROVE  pc' # "dispatch" /\ CommandEffect /\ (~is_playing' => ringing' = {})
  BY <1>2, <1>3, <1>14 DEF SetParallelPlayback, Quiet, output
<1> QED
  BY <1>4, <1>5, <1>6, <1>7, <1>8, <1>9, <1>10, <1>11, <1>12, <1>13, <1>14
     DEF Command, Stop, Panic, Shutdown, Resync, SetSynthPrograms, Play, Silence,
         AfterCC123, Quiet, output

\* Where no send fails, a dispatch sends its message.
LEMMA Sent ==
  ASSUME SchedulerTypeOK, AllSent', NEW e, NEW sent \in BOOLEAN, Dispatch(e, sent)
  PROVE  sent /\ AllSent
BY DEF Dispatch, SchedulerTypeOK, AllSent

\* Where no send fails, a play step releases every orphan.
LEMMA OrphansReleased ==
  ASSUME SchedulerTypeOK, AllSent', NEW n \in Nat, PlayStep(n),
         NEW r, NEW released, NEW freed, PlayStepChoice(r, released, freed)
  PROVE  /\ AllSent
         /\ UNION {Orphaned(ledger, queue', swap) : swap \in sweep} \subseteq released
<1> DEFINE orphans == UNION {Orphaned(ledger, queue', swap) : swap \in sweep}
           left == [k \in Keys |-> IF k \in released THEN 0 ELSE ledger[k]]
           stuck == IF realized' # realized THEN Stuck(left, queue') ELSE {}
<1>1. orphans \subseteq Keys /\ stuck \subseteq Keys
  BY DEF Orphaned, Stuck
<1>2. failures' = failures + Cardinality(orphans \ released)
                           + Cardinality(stuck \ freed)
  BY DEF PlayStepChoice
<1>3. failures' = 0
  BY DEF AllSent
<1> HIDE DEF orphans, stuck
<1>4. Cardinality(orphans \ released) \in Nat /\ Cardinality(stuck \ freed) \in Nat
  BY <1>1, KeySet
<1>5. Cardinality(orphans \ released) = 0 /\ failures = 0
  <2>1. failures \in Nat
    BY DEF SchedulerTypeOK
  <2>2. \A a, b, c \in Nat : a + b + c = 0 => a = 0 /\ b = 0
    OBVIOUS
  <2> QED
    BY <1>2, <1>3, <1>4, <2>1, <2>2
<1>6. orphans \ released = {}
  BY <1>1, <1>5, KeySet, FS_EmptySet
<1> QED
  BY <1>5, <1>6 DEF orphans, AllSent

LEMMA QuietStep ==
  ASSUME SchedulerTypeOK, Quiet, [Next]_vars
  PROVE  Quiet'
<1>1. CASE Command
  BY <1>1, CommandEffects DEF Quiet
<1>2. ASSUME NEW n \in 0 .. MaxAdvance, PlayStep(n)
      PROVE  Quiet'
  BY <1>2 DEF PlayStep, Quiet
<1>3. ASSUME NEW e \in Due, NEW sent \in BOOLEAN, Dispatch(e, sent)
      PROVE  Quiet'
  BY <1>3 DEF Dispatch, Quiet
<1>4. CASE EndLoop
  BY <1>4 DEF EndLoop, Quiet, output
<1>5. CASE UNCHANGED vars
  BY <1>5 DEF Quiet, vars, window, output
<1> QED
  BY <1>1, <1>2, <1>3, <1>4, <1>5 DEF Next, Step

LEMMA LedgerStep ==
  ASSUME SchedulerTypeOK, Quiet, LedgerKnowsSounding, [Next]_vars
  PROVE  LedgerKnowsSounding'
<1> SUFFICES ASSUME AllSent' PROVE LedgerKnowsSounding'
  BY DEF LedgerKnowsSounding
<1>1. CASE Command
  BY <1>1, CommandEffects, CommandSends DEF CommandEffect, LedgerKnowsSounding, AllSent
<1>2. ASSUME NEW n \in 0 .. MaxAdvance, PlayStep(n)
      PROVE  LedgerKnowsSounding'
  <2>1. PICK r, released, freed : PlayStepChoice(r, released, freed)
    BY <1>2, PlayStepChoices, SchedulerBoundsAssumption
  <2> SUFFICES ASSUME NEW k \in ringing' PROVE ledger'[k] > 0
    BY DEF LedgerKnowsSounding
  <2>2. k \in ringing /\ k \in Keys /\ k \notin released /\ k \notin freed
    BY <2>1 DEF PlayStepChoice, SchedulerTypeOK
  <2>4. AllSent
    <3>1. n \in Nat
      BY SchedulerBoundsAssumption
    <3> QED
      BY <1>2, <2>1, <3>1, OrphansReleased
  <2>3. ledger'[k] = ledger[k]
    BY <2>1, <2>2 DEF PlayStepChoice
  <2> QED
    BY <2>2, <2>3, <2>4 DEF LedgerKnowsSounding
<1>3. ASSUME NEW e \in Due, NEW sent \in BOOLEAN, Dispatch(e, sent)
      PROVE  LedgerKnowsSounding'
  <2> SUFFICES ASSUME NEW k \in ringing' PROVE ledger'[k] > 0
    BY DEF LedgerKnowsSounding
  <2> DEFINE key == e.note.key
  <2>1. key \in Keys /\ ledger \in [Keys -> Nat] /\ ringing \subseteq Keys
    BY DEF Due, SchedulerTypeOK, SchedulerEvent, Note
  <2>2. /\ ringing' = IF e.on THEN ringing \cup {key} ELSE ringing \ {key}
        /\ ledger' = [ledger EXCEPT ![key] = IF e.on THEN @ + 1 ELSE Minus(@, 1)]
        /\ AllSent
    BY <1>3, Sent DEF Dispatch
  <2>3. CASE k = key
    BY <2>1, <2>2, <2>3
  <2>4. CASE k # key
    <3>1. k \in ringing /\ ledger'[k] = ledger[k]
      BY <2>1, <2>2, <2>4
    <3> QED
      BY <2>2, <3>1 DEF LedgerKnowsSounding
  <2> QED
    BY <2>3, <2>4
<1>4. CASE EndLoop
  BY <1>4 DEF EndLoop, LedgerKnowsSounding, AllSent, output
<1>5. CASE UNCHANGED vars
  BY <1>5 DEF LedgerKnowsSounding, AllSent, vars, output
<1> QED
  BY <1>1, <1>2, <1>3, <1>4, <1>5 DEF Next, Step

\* As long as no send fails, active_notes counts every key that rings at the
\* receiver, whatever commands, swaps, sweeps and dispatches came before; so
\* the note-offs the ledger drives reach every sounding key.
THEOREM LedgerKnows == Spec => []LedgerKnowsSounding
<1>1. Init => Quiet /\ LedgerKnowsSounding
  BY DEF Init, Quiet, LedgerKnowsSounding
<1>2. SchedulerTypeOK /\ Quiet /\ LedgerKnowsSounding /\ [Next]_vars
        => Quiet' /\ LedgerKnowsSounding'
  BY QuietStep, LedgerStep
<1> QED
  BY <1>1, <1>2, SchedulerType, PTL DEF Spec

-----------------------------------------------------------------------------
(************************************************************************** *)
(* No note hangs                                                           *)
(************************************************************************** *)

\* A sounding key the sweep leaves alone has its note-off in the new queue.
LEMMA NotOrphaned ==
  ASSUME NEW notes, NEW q, NEW swap, NEW k \in Keys,
         notes[k] > 0, k \notin Orphaned(notes, q, swap)
  PROVE  \E e \in q : e.note.key = k /\ ~e.on
BY DEF Orphaned, Of

\* The note-off of a key that rings survives every step until it is sent.
HungInv ==
  /\ Paired(queue)
  /\ DiscardInv
  /\ NoHungNote

LEMMA HungPlayStep ==
  ASSUME NotesLast, SchedulerTypeOK, LedgerKnowsSounding, HungInv,
         NEW n \in Nat, PlayStep(n)
  PROVE  HungInv'
<1>1. PICK r, released, freed : PlayStepChoice(r, released, freed)
  BY PlayStepChoices
<1>2. Paired(queue')
  <2>1. Paired(queue \cup r) /\ queue \cup r \subseteq SchedulerEvent /\ discard \subseteq Nat
    BY <1>1 DEF PlayStepChoice, Paired, HungInv, SchedulerTypeOK
  <2>2. queue' = DropStale(queue \cup r, discard)
    BY <1>1 DEF PlayStepChoice
  <2> QED
    BY <2>1, <2>2, DropStalePaired
<1>3. NoHungNote'
  <2> SUFFICES ASSUME NEW k \in ringing', AllSent'
               PROVE  \E e \in queue' : e.note.key = k /\ ~e.on
    BY DEF NoHungNote
  <2>1. k \in ringing /\ k \in Keys /\ k \notin released /\ AllSent
    BY <1>1, OrphansReleased DEF PlayStepChoice, SchedulerTypeOK
  <2>2. ledger[k] > 0
    BY <2>1 DEF LedgerKnowsSounding
  <2>3. CASE sweep # {}
    <3>1. PICK swap \in sweep : k \notin Orphaned(ledger, queue', swap)
      BY <1>1, <2>1, <2>3, OrphansReleased
    <3> QED
      BY <2>1, <2>2, <3>1, NotOrphaned
  <2>4. CASE sweep = {}
    <3>1. discard = {}
      BY <2>1, <2>4 DEF HungInv, DiscardInv, PlayStep
    <3>2. queue \subseteq queue'
      BY <1>1, <3>1 DEF PlayStepChoice, DropStale
    <3>3. \E e \in queue : e.note.key = k /\ ~e.on
      BY <2>1, <2>4 DEF HungInv, NoHungNote, PlayStep
    <3> QED
      BY <3>2, <3>3
  <2> QED
    BY <2>3, <2>4
<1>4. DiscardInv'
  BY DEF PlayStep, DiscardInv
<1> QED
  BY <1>2, <1>3, <1>4 DEF HungInv

LEMMA HungDispatch ==
  ASSUME SchedulerTypeOK, Quiet, HungInv,
         NEW e \in Due, NEW sent \in BOOLEAN, Dispatch(e, sent)
  PROVE  HungInv'
<1>1. /\ e \in queue /\ queue' = queue \ {e}
      /\ \A f \in queue : ~Before(f, e)
      /\ \A f \in queue : f.tick \in Nat /\ f.on \in BOOLEAN
  BY DEF Dispatch, Due, SchedulerTypeOK, SchedulerEvent
<1>2. /\ is_playing' /\ sweep' = {} /\ discard' = {}
      /\ is_playing /\ sweep = {}
  BY DEF Dispatch, Quiet
<1>3. AllSent' => /\ ringing' = IF e.on THEN ringing \cup {e.note.key}
                               ELSE ringing \ {e.note.key}
                  /\ AllSent
  BY Sent DEF Dispatch
<1>4. Paired(queue')
  <2> SUFFICES ASSUME NEW d \in queue', d.on
               PROVE  \E f \in queue' : f.note = d.note /\ ~f.on /\ d.tick < f.tick
    BY DEF Paired
  <2>1. PICK f \in queue : f.note = d.note /\ ~f.on /\ d.tick < f.tick
    BY <1>1 DEF Paired, HungInv
  <2>2. f # e
    BY <1>1, <2>1 DEF Before
  <2> QED
    BY <1>1, <2>1, <2>2
<1>5. NoHungNote'
  <2> SUFFICES ASSUME NEW k \in ringing', AllSent'
               PROVE  \E f \in queue' : f.note.key = k /\ ~f.on
    BY DEF NoHungNote
  <2>1. CASE e.on /\ k = e.note.key
    <3>1. PICK f \in queue : f.note = e.note /\ ~f.on
      BY <1>1, <2>1 DEF Paired, HungInv
    <3> QED
      BY <1>1, <2>1, <3>1
  <2>2. CASE ~(e.on /\ k = e.note.key)
    <3>1. k \in ringing /\ (~e.on => k # e.note.key)
      BY <1>3, <2>2
    <3>2. PICK f \in queue : f.note.key = k /\ ~f.on
      BY <1>2, <1>3, <3>1 DEF NoHungNote, HungInv
    <3> QED
      BY <1>1, <3>1, <3>2
  <2> QED
    BY <2>1, <2>2
<1> QED
  BY <1>2, <1>4, <1>5 DEF HungInv, DiscardInv

LEMMA HungStep ==
  ASSUME NotesLast, SchedulerTypeOK, Quiet, LedgerKnowsSounding,
         HungInv, [Next]_vars
  PROVE  HungInv'
<1>1. CASE Command
  <2>1. Paired({})
    BY DEF Paired
  <2> QED
    BY <1>1, <2>1, CommandEffects, CommandSends
       DEF CommandEffect, HungInv, DiscardInv, NoHungNote, AllSent
<1>2. ASSUME NEW n \in 0 .. MaxAdvance, PlayStep(n)
      PROVE  HungInv'
  BY <1>2, HungPlayStep, SchedulerBoundsAssumption
<1>3. ASSUME NEW e \in Due, NEW sent \in BOOLEAN, Dispatch(e, sent)
      PROVE  HungInv'
  BY <1>3, HungDispatch
<1>4. CASE EndLoop
  BY <1>4 DEF EndLoop, HungInv, DiscardInv, NoHungNote, AllSent, output
<1>5. CASE UNCHANGED vars
  BY <1>5 DEF HungInv, DiscardInv, NoHungNote, AllSent, vars, window, output
<1> QED
  BY <1>1, <1>2, <1>3, <1>4, <1>5 DEF Next, Step

\* As long as no send fails and no note is rounded to nothing, a key that
\* rings has its note-off in the queue or a sweep pending that looks for it:
\* however often the queue is thrown away, no note hangs.
THEOREM NoNoteHangs ==
  ASSUME NotesLast
  PROVE  Spec => []NoHungNote
<1>1. Init => Quiet /\ LedgerKnowsSounding /\ HungInv
  BY DEF Init, Quiet, LedgerKnowsSounding, HungInv, DiscardInv, NoHungNote, Paired
<1>2. SchedulerTypeOK /\ Quiet /\ LedgerKnowsSounding /\ HungInv /\ [Next]_vars
        => Quiet' /\ LedgerKnowsSounding' /\ HungInv'
  BY QuietStep, LedgerStep, HungStep
<1>3. HungInv => NoHungNote
  BY DEF HungInv
<1> QED
  BY <1>1, <1>2, <1>3, SchedulerType, PTL DEF Spec

-----------------------------------------------------------------------------
(************************************************************************** *)
(* A swap never replays                                                    *)
(************************************************************************** *)

\* A sweep never waits without the discard of the same tick.
SweepDiscards == sweep \subseteq discard

LEMMA SweepDiscardsCommand ==
  ASSUME SweepDiscards, Command
  PROVE  SweepDiscards'
<1>1. \A parallel, grid, t : Requeue(parallel, grid, t) => SweepDiscards'
  BY DEF Requeue, SweepDiscards
<1>2. UNCHANGED window => SweepDiscards'
  BY DEF SweepDiscards, window
<1>3. CASE Play \/ Stop
  BY <1>3 DEF Play, Stop, SweepDiscards
<1>4. CASE Panic \/ Shutdown
  BY <1>2, <1>4 DEF Panic, Shutdown
<1>5. CASE Resync \/ SetSynthPrograms
  BY <1>1, <1>5 DEF Resync, SetSynthPrograms, SweepDiscards
<1>6. ASSUME NEW n \in 0 .. MaxAdvance, SetTempo(n)
      PROVE  SweepDiscards'
  BY <1>2, <1>6 DEF SetTempo
<1>7. ASSUME NEW s \in Scores, SetScore(s)
      PROVE  SweepDiscards'
  BY <1>1, <1>2, <1>7 DEF SetScore
<1>8. ASSUME NEW r \in Rhythms \cup {Absent}, SetRhythmPlayback(r)
      PROVE  SweepDiscards'
  BY <1>1, <1>2, <1>8 DEF SetRhythmPlayback
<1>9. ASSUME NEW p \in Runtimes, ApplyInPlace(p)
      PROVE  SweepDiscards'
  BY <1>2, <1>9 DEF ApplyInPlace
<1>10. ASSUME NEW p \in Runtimes \cup {Absent}, SetParallelPlayback(p)
       PROVE  SweepDiscards'
  BY <1>1, <1>2, <1>10 DEF SetParallelPlayback
<1> QED
  BY <1>3, <1>4, <1>5, <1>6, <1>7, <1>8, <1>9, <1>10 DEF Command

LEMMA SweepDiscardsStep ==
  ASSUME SweepDiscards, [Next]_vars
  PROVE  SweepDiscards'
<1>1. CASE Command
  BY <1>1, SweepDiscardsCommand
<1>2. CASE Step
  BY <1>2 DEF Step, PlayStep, Dispatch, EndLoop, SweepDiscards
<1>3. CASE UNCHANGED vars
  BY <1>3 DEF SweepDiscards, vars, window
<1> QED
  BY <1>1, <1>2, <1>3 DEF Next

\* After a swap, nothing from before the swap tick is left to dispatch, over
\* every command that may come between the swap and the step that realizes
\* the new stream, a parallel runtime realizing from tick zero included.
THEOREM NeverReplays == Spec => NoReplay
<1>1. Init => Quiet /\ SweepDiscards
  BY DEF Init, Quiet, SweepDiscards
<1>2. SchedulerTypeOK /\ Quiet /\ SweepDiscards /\ [Next]_vars
        => Quiet' /\ SweepDiscards'
  BY QuietStep, SweepDiscardsStep
<1>3. SchedulerTypeOK /\ Quiet /\ SweepDiscards /\ [Next]_vars
        => [Iterates => \A swap \in sweep : \A e \in queue' : e.tick >= swap]_vars
  <2> SUFFICES ASSUME SchedulerTypeOK, Quiet, SweepDiscards, Next, Iterates,
                      NEW swap \in sweep, NEW e \in queue'
               PROVE  e.tick >= swap
    BY DEF vars
  <2>1. PICK n \in 0 .. MaxAdvance : PlayStep(n)
    BY CommandEffects DEF Next, Step, Iterates, Dispatch, EndLoop
  <2>2. PICK r, released, freed : PlayStepChoice(r, released, freed)
    BY <2>1, PlayStepChoices, SchedulerBoundsAssumption
  <2>3. swap \in discard /\ queue' = DropStale(queue \cup r, discard)
    BY <2>2 DEF PlayStepChoice, SweepDiscards
  <2> QED
    BY <2>3 DEF DropStale
<1> QED
  BY <1>1, <1>2, <1>3, SchedulerType, PTL DEF Spec, NoReplay

-----------------------------------------------------------------------------
(************************************************************************** *)
(* The timeline shows what is heard                                        *)
(************************************************************************** *)

\* The pruning at the end of an iteration looks at cycles, what is still
\* queued depends on ticks.  That the first never outruns the second takes
\* that the lookahead stays within two cycles, that the queue holds nothing
\* beyond it, and that a queued note-on lies within two cycles of its own on
\* the grid the queue was filled with, which no command changes without
\* emptying the queue.
OverlayInv ==
  /\ tpc = 0 \/ \E x \in Scores \cup Runtimes : tpc = Tpc[x]
  /\ is_playing =>
       /\ realized <= cycle + 2
       /\ cycle .. realized - 1 \subseteq described
       /\ \A e \in queue : e.on => e.cycle \in described /\ e.cycle < realized
       /\ runtime = Absent => \A e \in queue : e.on => e.tick <= (e.cycle + 2) * tpc

LEMMA AheadStays ==
  ASSUME NEW a \in Nat, NEW b \in Nat, NEW c \in Nat, a <= b + 2, c >= b
  PROVE  a <= c + 2
OBVIOUS

LEMMA ClockAdvances ==
  ASSUME NEW c \in Nat, NEW t \in Nat, NEW b \in Nat \ {0}
  PROVE  (c * b + t) \div b >= c
<1> DEFINE q == (c * b + t) \div b
           r == (c * b + t) % b
<1>1. c * b \in Nat /\ c * b + t \in Nat
  OBVIOUS
<1>2. q \in Nat /\ r \in 0 .. b - 1 /\ c * b + t = b * q + r
  BY <1>1
<1> HIDE DEF q, r
<1>3. ASSUME q + 1 <= c PROVE FALSE
  <2>1. b * (q + 1) <= b * c
    BY <1>2, <1>3
  <2>2. b * (q + 1) = b * q + b /\ b * c = c * b
    BY <1>2
  <2>3. b * q \in Nat
    BY <1>2
  <2> QED
    BY <1>1, <1>2, <2>1, <2>2, <2>3
<1>4. q >= c
  BY <1>2, <1>3
<1> QED
  BY <1>4 DEF q

\* The note-ons of the cycles a realization covers.
LEMMA RealizeOnTime ==
  ASSUME NEW source \in Sources, NEW from \in Nat, NEW to \in Nat,
         NEW takes \in [from .. to - 1 -> Takes[source]], NEW grid \in Nat,
         NEW e \in Realize(takes, grid), e.on
  PROVE  /\ e.cycle \in from .. to - 1
         /\ NotesStartInTime /\ source \notin Runtimes
              /\ (\E x \in Scores \cup Runtimes : grid = Tpc[x])
              => e.tick <= (e.cycle + 2) * grid
<1>1. PICK c \in from .. to - 1 : e \in CycleEvents(takes[c], c, grid)
  BY DEF Realize
<1>2. PICK n \in takes[c] : /\ e.cycle = c /\ e.note = n
                            /\ e.tick = c * grid + n.on
  BY <1>1 DEF CycleEvents
<1>3. c \in Nat /\ takes[c] \in Takes[source]
  BY <1>1
<1>4. n.on \in Nat
  BY <1>2, <1>3, TakesAssumption DEF Note
<1>5. NotesStartInTime /\ source \notin Runtimes
        /\ (\E x \in Scores \cup Runtimes : grid = Tpc[x]) => n.on <= 2 * grid
  BY <1>2, <1>3 DEF NotesStartInTime
<1>6. (c + 2) * grid = c * grid + 2 * grid /\ c * grid \in Nat /\ 2 * grid \in Nat
  BY <1>3
<1>7. n.on <= 2 * grid => e.tick <= (e.cycle + 2) * grid
  BY <1>2, <1>4, <1>6
<1> QED
  BY <1>1, <1>2, <1>5, <1>7

LEMMA SourceOfScore ==
  ASSUME SchedulerTypeOK, HasSource, runtime = Absent
  PROVE  score \in Scores /\ Source \in Sources \ Runtimes
BY SourcesAssumption, AbsentAssumption DEF SchedulerTypeOK, HasSource, Source, Sources

LEMMA OverlayPlay ==
  ASSUME NotesStartInTime, SchedulerTypeOK, OverlayInv, Play
  PROVE  OverlayInv'
<1>1. tpc' = 0 \/ \E x \in Scores \cup Runtimes : tpc' = Tpc[x]
  BY DEF Play, OverlayInv, SchedulerTypeOK
<1>2. CASE ~HasSource
  BY <1>1, <1>2 DEF Play, OverlayInv
<1>3. CASE HasSource
  <2>1. PICK to \in RealizedTo(Source, 0, 1) :
          \E takes \in [0 .. to - 1 -> Takes[Source]] :
            queue' = Realize(takes, tpc') /\ realized' = to /\ described' = 0 .. to - 1
    BY <1>3 DEF Play
  <2>2. PICK takes \in [0 .. to - 1 -> Takes[Source]] :
            queue' = Realize(takes, tpc') /\ realized' = to /\ described' = 0 .. to - 1
    BY <2>1
  <2>3. to \in Nat /\ to <= 1
    BY <2>1 DEF RealizedTo
  <2>4. Source \in Sources /\ tpc' \in Nat
    BY <1>3, SourceType, TpcAssumption DEF Play, SchedulerTypeOK
  <2>5. \A e \in queue' : e.on => e.cycle \in 0 .. to - 1
    BY <2>2, <2>3, <2>4, RealizeOnTime
  <2>6. ASSUME runtime = Absent, NEW e \in queue', e.on
        PROVE  e.tick <= (e.cycle + 2) * tpc'
    <3>1. Source \notin Runtimes /\ tpc' = Tpc[score] /\ score \in Scores
      BY <1>3, <2>6, SourceOfScore DEF Play, HasSource
    <3> QED
      BY <2>2, <2>3, <2>4, <2>6, <3>1, RealizeOnTime
  <2>7. cycle' = 0 /\ runtime' = runtime
    BY DEF Play
  <2> QED
    BY <1>1, <2>2, <2>3, <2>5, <2>6, <2>7 DEF OverlayInv
<1> QED
  BY <1>2, <1>3

LEMMA OverlayPlayStep ==
  ASSUME NotesStartInTime, SchedulerTypeOK, OverlayInv, NEW n \in Nat, PlayStep(n)
  PROVE  OverlayInv'
<1>1. /\ cycle \in Nat /\ realized \in Nat /\ tick \in Nat /\ tpc \in Nat \ {0}
      /\ described \subseteq Nat /\ Source \in Sources
      /\ \A e \in queue : e.cycle \in Nat /\ e.tick \in Nat
  BY SourceType DEF PlayStep, SchedulerTypeOK, SchedulerEvent
<1>2. cycle' \in Nat /\ cycle' >= cycle
  <2>1. tick + n \in Nat /\ cycle * tpc \in Nat
    BY <1>1
  <2>2. AbsoluteTick + n = cycle * tpc + (tick + n)
    BY <1>1, <2>1 DEF AbsoluteTick
  <2>3. cycle' = (cycle * tpc + (tick + n)) \div tpc
    BY <2>2 DEF PlayStep
  <2>4. cycle' \in Nat
    BY ClockType DEF PlayStep
  <2> QED
    BY <1>1, <2>1, <2>3, <2>4, ClockAdvances
<1> DEFINE fills(to, takes) ==
       /\ queue' = DropStale(queue \cup Realize(takes, tpc), discard)
       /\ realized' = to
       /\ described' = described \cup (realized .. to - 1)
<1>3. PICK to \in RealizedTo(Source, realized, cycle' + 2) :
        \E takes \in [realized .. to - 1 -> Takes[Source]] : fills(to, takes)
  BY DEF PlayStep
<1>4. PICK takes \in [realized .. to - 1 -> Takes[Source]] : fills(to, takes)
  BY <1>3
<1>5. to \in Nat /\ to >= realized /\ (to = realized \/ to <= cycle' + 2)
  BY <1>1, <1>2, <1>3 DEF RealizedTo
<1>6. is_playing /\ is_playing' /\ runtime' = runtime /\ tpc' = tpc
  BY DEF PlayStep, config
<1>7. realized <= cycle + 2 /\ cycle .. realized - 1 \subseteq described
  BY <1>6 DEF OverlayInv
<1>8. realized' <= cycle' + 2
  <2>1. realized' = to
    BY <1>4
  <2>2. realized <= cycle' + 2
    BY <1>1, <1>2, <1>7, AheadStays
  <2> QED
    BY <1>5, <2>1, <2>2
<1>9. cycle' .. realized' - 1 \subseteq described'
  BY <1>1, <1>2, <1>4, <1>5, <1>7
<1>10. ASSUME NEW e \in queue', e.on
       PROVE  /\ e.cycle \in described' /\ e.cycle < realized'
              /\ runtime = Absent => e.tick <= (e.cycle + 2) * tpc
  <2>1. e \in queue \/ e \in Realize(takes, tpc)
    BY <1>4 DEF DropStale
  <2>2. CASE e \in queue
    BY <1>1, <1>4, <1>5, <1>6, <1>10, <2>2 DEF OverlayInv
  <2>3. CASE e \in Realize(takes, tpc)
    <3>1. e.cycle \in realized .. to - 1
      BY <1>1, <1>5, <1>10, <2>3, RealizeOnTime
    <3>2. ASSUME runtime = Absent
          PROVE  e.tick <= (e.cycle + 2) * tpc
      <4>1. Source \notin Runtimes
        BY <3>2, SourceOfScore DEF PlayStep
      <4>2. \E x \in Scores \cup Runtimes : tpc = Tpc[x]
        BY <1>1 DEF OverlayInv
      <4> QED
        BY <1>1, <1>5, <1>10, <2>3, <4>1, <4>2, RealizeOnTime
    <3> QED
      BY <1>1, <1>4, <1>5, <3>1, <3>2
  <2> QED
    BY <2>1, <2>2, <2>3
<1> QED
  BY <1>6, <1>8, <1>9, <1>10 DEF OverlayInv

LEMMA OverlayEndLoop ==
  ASSUME SchedulerTypeOK, OverlayInv, EndLoop
  PROVE  OverlayInv'
<1>1. /\ cycle \in Nat /\ realized \in Nat /\ tick \in Nat /\ tpc \in Nat
      /\ \A e \in queue : e.cycle \in Nat /\ e.tick \in Nat
  BY DEF SchedulerTypeOK, SchedulerEvent
<1>2. /\ is_playing' = is_playing /\ realized' = realized /\ cycle' = cycle
      /\ queue' = queue /\ runtime' = runtime /\ tpc' = tpc
      /\ described' = IF runtime = Absent
           THEN {c \in described : c + 1 >= cycle /\ c <= cycle + 2} ELSE described
  BY DEF EndLoop, config, position
<1>3. CASE runtime # Absent \/ ~is_playing
  BY <1>2, <1>3 DEF OverlayInv
<1>4. CASE runtime = Absent /\ is_playing
  <2>1. cycle .. realized' - 1 \subseteq described'
    BY <1>1, <1>2, <1>4 DEF OverlayInv
  <2>2. ASSUME NEW e \in queue, e.on
        PROVE  e.cycle \in described'
    <3>1. e.cycle \in described /\ e.cycle < realized /\ realized <= cycle + 2
          /\ e.tick <= (e.cycle + 2) * tpc
      BY <1>4, <2>2 DEF OverlayInv
    <3>2. cycle * tpc \in Nat /\ ~(e.tick <= cycle * tpc + tick)
      BY <1>1 DEF EndLoop, Due, AbsoluteTick
    <3>3. ASSUME e.cycle + 2 <= cycle PROVE FALSE
      <4>1. (e.cycle + 2) * tpc <= cycle * tpc /\ (e.cycle + 2) * tpc \in Nat
        BY <1>1, <3>3
      <4> QED
        BY <1>1, <3>1, <3>2, <4>1
    <3> QED
      BY <1>1, <1>2, <1>4, <3>1, <3>3
  <2> QED
    BY <1>2, <1>4, <2>1, <2>2 DEF OverlayInv
<1> QED
  BY <1>3, <1>4

\* An empty queue at or behind the playhead.
LEMMA OverlayRequeue ==
  ASSUME SchedulerTypeOK, NEW parallel, NEW grid, NEW t, Requeue(parallel, grid, t),
         cycle' = cycle, tpc' = 0 \/ \E x \in Scores \cup Runtimes : tpc' = Tpc[x]
  PROVE  OverlayInv'
<1>1. cycle \in Nat /\ queue' = {} /\ (realized' = 0 \/ realized' = cycle)
  BY DEF SchedulerTypeOK, Requeue
<1>2. realized' <= cycle' + 2 /\ realized' - 1 < cycle'
  BY <1>1
<1>3. \A c \in cycle' .. realized' - 1 : FALSE
  BY <1>1, <1>2
<1> QED
  BY <1>1, <1>2, <1>3 DEF OverlayInv

LEMMA OverlayCommand ==
  ASSUME NotesStartInTime, SchedulerTypeOK, OverlayInv, Command
  PROVE  OverlayInv'
<1> DEFINE onGrid(g) == g = 0 \/ \E x \in Scores \cup Runtimes : g = Tpc[x]
<1>0. onGrid(tpc)
  BY DEF OverlayInv
<1>1. CASE Play
  BY <1>1, OverlayPlay
<1>2. CASE Stop
  BY <1>2 DEF Stop, OverlayInv, config
<1>3. CASE Panic \/ Shutdown
  BY <1>3 DEF Panic, Shutdown, OverlayInv, config, position, window
<1>4. CASE Resync
  <2>1. CASE is_playing
    BY <1>0, <1>4, <2>1, OverlayRequeue DEF Resync, config, position
  <2>2. CASE ~is_playing
    BY <1>4, <2>2 DEF Resync, OverlayInv, config
  <2> QED
    BY <2>1, <2>2
<1>5. CASE SetSynthPrograms
  BY <1>0, <1>5, OverlayRequeue DEF SetSynthPrograms, config, position
<1>6. ASSUME NEW n \in 0 .. MaxAdvance, SetTempo(n)
      PROVE  OverlayInv'
  <2>1. /\ cycle \in Nat /\ tick \in Nat /\ tpc \in Nat \ {0} /\ n \in Nat
        /\ realized \in Nat
    BY <1>6, SchedulerBoundsAssumption DEF SchedulerTypeOK, SetTempo
  <2>2. tick + n \in Nat /\ cycle * tpc \in Nat
    BY <2>1
  <2>3. AbsoluteTick + n = cycle * tpc + (tick + n)
    BY <2>1, <2>2 DEF AbsoluteTick
  <2>4. cycle' \in Nat /\ cycle' >= cycle
    BY <1>6, <2>1, <2>2, <2>3, ClockAdvances, ClockType DEF SetTempo
  <2>5. /\ queue' = queue /\ realized' = realized /\ described' = described
        /\ runtime' = runtime /\ tpc' = tpc /\ is_playing' = is_playing
    BY <1>6 DEF SetTempo, window, config
  <2>6. is_playing => cycle' .. realized' - 1 \subseteq described'
    BY <2>1, <2>4, <2>5 DEF OverlayInv
  <2>7. is_playing => realized' <= cycle' + 2
    <3>1. is_playing => realized <= cycle + 2
      BY DEF OverlayInv
    <3> QED
      BY <2>1, <2>4, <2>5, <3>1, AheadStays
  <2> QED
    BY <2>5, <2>6, <2>7 DEF OverlayInv
<1>7. ASSUME NEW s \in Scores, SetScore(s)
      PROVE  OverlayInv'
  <2>1. onGrid(tpc') /\ cycle' = cycle /\ is_playing' = is_playing
    BY <1>7 DEF SetScore
  <2>2. CASE is_playing
    BY <1>7, <2>1, <2>2, OverlayRequeue DEF SetScore
  <2>3. CASE ~is_playing
    BY <2>1, <2>3 DEF OverlayInv
  <2> QED
    BY <2>2, <2>3
<1>8. ASSUME NEW r \in Rhythms \cup {Absent}, SetRhythmPlayback(r)
      PROVE  OverlayInv'
  <2>1. onGrid(tpc') /\ cycle' = cycle /\ is_playing' = is_playing
    BY <1>0, <1>8 DEF SetRhythmPlayback, position
  <2>2. CASE is_playing
    BY <1>8, <2>1, <2>2, OverlayRequeue DEF SetRhythmPlayback
  <2>3. CASE ~is_playing
    BY <2>1, <2>3 DEF OverlayInv
  <2> QED
    BY <2>2, <2>3
<1>9. ASSUME NEW p \in Runtimes, ApplyInPlace(p)
      PROVE  OverlayInv'
  <2>1. /\ runtime' # Absent /\ queue' = queue /\ realized' = realized
        /\ described' = described /\ cycle' = cycle /\ tpc' = tpc
        /\ is_playing' = is_playing
    BY <1>9, AbsentAssumption DEF ApplyInPlace, position, window
  <2> QED
    BY <2>1 DEF OverlayInv
<1>10. ASSUME NEW p \in Runtimes \cup {Absent}, SetParallelPlayback(p)
       PROVE  OverlayInv'
  <2>1. onGrid(GridOf(p))
    BY DEF GridOf, SchedulerTypeOK
  <2>2. onGrid(tpc') /\ cycle' = cycle /\ is_playing' = is_playing
    BY <1>10, <2>1 DEF SetParallelPlayback
  <2>3. CASE is_playing
    BY <1>10, <2>2, <2>3, OverlayRequeue DEF SetParallelPlayback
  <2>4. CASE ~is_playing
    BY <2>2, <2>4 DEF OverlayInv
  <2> QED
    BY <2>3, <2>4
<1> QED
  BY <1>1, <1>2, <1>3, <1>4, <1>5, <1>6, <1>7, <1>8, <1>9, <1>10 DEF Command

LEMMA OverlayStep ==
  ASSUME NotesStartInTime, SchedulerTypeOK, OverlayInv, [Next]_vars
  PROVE  OverlayInv'
<1>1. CASE Command
  BY <1>1, OverlayCommand
<1>2. ASSUME NEW n \in 0 .. MaxAdvance, PlayStep(n)
      PROVE  OverlayInv'
  BY <1>2, OverlayPlayStep, SchedulerBoundsAssumption
<1>3. ASSUME NEW e \in Due, NEW sent \in BOOLEAN, Dispatch(e, sent)
      PROVE  OverlayInv'
  BY <1>3 DEF Dispatch, OverlayInv, config, position
<1>4. CASE EndLoop
  BY <1>4, OverlayEndLoop
<1>5. CASE UNCHANGED vars
  BY <1>5 DEF OverlayInv, vars, config, position, window
<1> QED
  BY <1>1, <1>2, <1>3, <1>4, <1>5 DEF Next, Step

\* Every note-on still queued is of a cycle the overlay layers describe, and
\* none of the realized cycles ahead is missing there: pruning the layers by
\* cycle never outruns dispatching the queue by tick.
THEOREM OverlayFollowsQueue ==
  ASSUME NotesStartInTime
  PROVE  Spec => []OverlayMatchesQueue
<1>1. Init => OverlayInv
  BY DEF Init, OverlayInv
<1>2. SchedulerTypeOK /\ OverlayInv /\ [Next]_vars => OverlayInv'
  BY OverlayStep
<1>3. OverlayInv => OverlayMatchesQueue
  BY DEF OverlayInv, OverlayMatchesQueue
<1> QED
  BY <1>1, <1>2, <1>3, SchedulerType, PTL DEF Spec
=============================================================================
