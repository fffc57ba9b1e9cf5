------------------------------ MODULE Scheduler ------------------------------
(************************************************************************** *)
(* scheduler_loop of crates/cseq-transport/src/engine.rs: the commands it  *)
(* drains, the realized lookahead queue, the two deferred reapply          *)
(* watermarks, the active-note ledger and what MIDI receivers hear.        *)
(*                                                                         *)
(* The loop is one thread: it drains commands (pc = "drain"), advances the *)
(* clock and fills and repairs the queue in one go, then sends what is due *)
(* one message at a time (pc = "dispatch").  The content of a cycle is the *)
(* set of notes realization may give it; CCs carry no state here.          *)
(*                                                                         *)
(* realized_up_to_cycle and parallel_realized_until_tick / tpc are one     *)
(* variable, as only the one of the engaged mode is ever read.             *)
(************************************************************************** *)
EXTENDS Integers, FiniteSets

CONSTANTS
  Keys,         \* (wire channel, pitch) pairs
  Scores,       \* single-track scores
  Rhythms,      \* rhythm playback configs
  Runtimes,     \* parallel playback configs
  Absent,       \* no score, no rhythm config or no parallel runtime
  Tpc,          \* ticks per cycle of a score or runtime
  Takes,        \* the note sets realization may give a cycle of a source
  Forward,      \* pairs of runtimes apply_in_place accepts
  Failing,      \* sources whose realization may fail
  HonoursCC123, \* whether the counting receiver obeys all-notes-off
  MaxTick,      \* bound on the playback position
  MaxAdvance,   \* bound on the ticks one loop iteration advances
  MaxFailures   \* bound on failing sends

Sources == (Scores \X (Rhythms \cup {Absent})) \cup Runtimes
Note == [key : Keys, on : Nat, off : Nat]

ASSUME KeysAssumption == IsFiniteSet(Keys)
ASSUME AbsentAssumption == Absent \notin Scores \cup Rhythms \cup Runtimes
ASSUME SourcesAssumption == Runtimes \cap (Scores \X (Rhythms \cup {Absent})) = {}
ASSUME TpcAssumption == Tpc \in [Scores \cup Runtimes -> Nat \ {0}]
ASSUME TakesAssumption ==
  /\ Takes \in [Sources -> SUBSET SUBSET Note]
  /\ \A s \in Sources : \A take \in Takes[s] :
       IsFiniteSet(take) /\ \A n \in take : n.on <= n.off
ASSUME ForwardAssumption ==
  /\ Forward \subseteq Runtimes \X Runtimes
  /\ \A pair \in Forward : Tpc[pair[1]] = Tpc[pair[2]]
ASSUME FailingAssumption == Failing \subseteq Sources \ Runtimes
ASSUME SchedulerBoundsAssumption ==
  /\ HonoursCC123 \in BOOLEAN
  /\ MaxTick \in Nat /\ MaxAdvance \in Nat /\ MaxFailures \in Nat

VARIABLES
  pc,          \* "drain", "dispatch" or "exited"
  is_playing,
  score, rhythm, runtime,
  tpc,         \* ticks per cycle
  cycle, tick, \* the playback position
  queue,       \* event_queue, ordered by Before
  realized,    \* cycles below it are in the queue or dispatched
  described,   \* cycles the overlay layers describe
  discard,     \* discard_queued_before_tick
  sweep,       \* pending_note_sweep
  ledger,      \* active_notes
  ringing,     \* keys sounding at a receiver any note-off silences
  counting,    \* note-ons less note-offs at a receiver that counts them
  failures     \* sends that failed so far

config == <<score, rhythm, runtime, tpc>>
position == <<cycle, tick>>
window == <<queue, realized, described, discard, sweep>>
output == <<ledger, ringing, counting, failures>>
vars == <<pc, is_playing, config, position, window, output>>

(************************************************************************** *)
(* Helpers                                                                 *)
(************************************************************************** *)

\* An optional tick is the set of at most one tick.
AbsoluteTick == cycle * tpc + tick

Source == IF runtime # Absent THEN runtime ELSE <<score, rhythm>>
HasSource == score # Absent \/ runtime # Absent

\* The events of one realized cycle: an on and an off for each note.
CycleEvents(take, c, grid) ==
  {[tick |-> c * grid + n.on, on |-> TRUE, note |-> n, cycle |-> c] : n \in take}
  \cup {[tick |-> c * grid + n.off, on |-> FALSE, note |-> n, cycle |-> c] : n \in take}

\* The queue's order: by tick, note-offs before note-ons at one tick.
Before(e, f) == e.tick < f.tick \/ (e.tick = f.tick /\ ~e.on /\ f.on)

Realize(takes, grid) ==
  UNION {CycleEvents(takes[c], c, grid) : c \in DOMAIN takes}

\* The cycles a realization from `from` towards `to` may get done: all, fewer
\* after an error of a single-track cycle, none if already ahead.
RealizedTo(source, from, to) ==
  IF from >= to THEN {from}
  ELSE IF source \in Failing THEN from .. to ELSE {to}

Of(q, k) == {e \in q : e.note.key = k}
Minus(a, b) == IF a > b THEN a - b ELSE 0

\* Mutant of DropStale: the event just before the cutoff stays.
DropStaleLate(q, cutoffs) == {e \in q : \A cutoff \in cutoffs : e.tick + 1 >= cutoff}

\* discard_stale_events_before_tick.
DropStale(q, cutoffs) == {e \in q : \A cutoff \in cutoffs : e.tick >= cutoff}

\* orphaned_active_notes: sounding keys whose first event from the swap tick
\* on is not a note-off.
Orphaned(notes, q, swap) ==
  {k \in Keys :
     /\ notes[k] > 0
     /\ LET next == {e \in Of(q, k) : e.tick >= swap} IN
        ~ \E e \in next : ~e.on /\ \A f \in next : ~Before(f, e)}

\* stuck_note_residue: keys whose count the queue can never bring to zero.
Stuck(notes, q) ==
  {k \in Keys :
     /\ notes[k] > 0
     /\ notes[k] + Cardinality({e \in Of(q, k) : e.on})
          > Cardinality({e \in Of(q, k) : ~e.on})}

\* The counts once one note-off went out for each of the keys.
AfterOffs(counts, keys) ==
  [k \in Keys |-> IF k \in keys THEN Minus(counts[k], 1) ELSE counts[k]]

\* The phase of a position carried over to another grid, rounded and clamped.
Rescaled(t, old, new) ==
  IF old > 0 /\ new > 0 /\ old # new
  THEN LET r == (2 * t * new + old) \div (2 * old) IN
       IF r >= new THEN new - 1 ELSE r
  ELSE t

(************************************************************************** *)
(* Initial state: a started transport with nothing loaded                  *)
(************************************************************************** *)

Init ==
  /\ pc = "drain"
  /\ is_playing = FALSE
  /\ score = Absent /\ rhythm = Absent /\ runtime = Absent
  /\ tpc = 0
  /\ cycle = 0 /\ tick = 0
  /\ queue = {} /\ realized = 0 /\ described = {}
  /\ discard = {} /\ sweep = {}
  /\ ledger = [k \in Keys |-> 0]
  /\ ringing = {}
  /\ counting = [k \in Keys |-> 0]
  /\ failures = 0

(************************************************************************** *)
(* Commands                                                                *)
(************************************************************************** *)

\* Mutant of Requeue: no sweep is scheduled.
RequeueUnswept(parallel, grid, t) ==
  /\ queue' = {} /\ described' = {}
  /\ realized' = IF parallel THEN 0 ELSE cycle
  /\ discard' = {cycle * grid + t}
  /\ sweep' = {}

\* What a reapply while playing does: the queue restarts, from zero for a
\* parallel runtime and from the current cycle otherwise; what the old stream
\* already played is discarded, and orphans swept, in the next play step.
Requeue(parallel, grid, t) ==
  /\ queue' = {}
  /\ described' = {}
  /\ realized' = IF parallel THEN 0 ELSE cycle
  /\ discard' = {cycle * grid + t}
  /\ sweep' = {cycle * grid + t}

\* Play: the run restarts at zero and its first cycle is realized at once.
Play ==
  /\ pc = "drain" /\ ~is_playing
  /\ is_playing' = TRUE
  /\ cycle' = 0 /\ tick' = 0
  /\ tpc' = IF runtime # Absent THEN Tpc[runtime]
            ELSE IF score # Absent THEN Tpc[score] ELSE tpc
  /\ IF HasSource
     THEN \E to \in RealizedTo(Source, 0, 1) :
          \E takes \in [0 .. to - 1 -> Takes[Source]] :
            /\ queue' = Realize(takes, tpc')
            /\ realized' = to
            /\ described' = 0 .. to - 1
     ELSE queue' = {} /\ realized' = 0 /\ described' = {}
  /\ sweep' = {}
  /\ ledger' = [k \in Keys |-> 0]
  /\ UNCHANGED <<pc, score, rhythm, runtime, discard, ringing, counting, failures>>

\* All-notes-off on every channel.
AfterCC123 ==
  /\ ringing' = {}
  /\ ledger' = [k \in Keys |-> 0]

\* Stop: the queue is dropped and every channel told to be silent.
Stop ==
  /\ pc = "drain" /\ is_playing
  /\ is_playing' = FALSE
  /\ queue' = {} /\ described' = {} /\ sweep' = {}
  /\ AfterCC123
  /\ counting' = IF HonoursCC123 THEN [k \in Keys |-> 0] ELSE counting
  /\ UNCHANGED <<pc, config, position, realized, discard, failures>>

\* send_active_note_offs_logged, once per counted note-on, then CC123.
Silence ==
  /\ AfterCC123
  /\ counting' = [k \in Keys |-> IF HonoursCC123 THEN 0
                                 ELSE Minus(counting[k], ledger[k])]

\* Panic: silence now; queue, watermarks and playback go on.
Panic ==
  /\ pc = "drain"
  /\ Silence
  /\ UNCHANGED <<pc, is_playing, config, position, window, failures>>

\* Shutdown: silence, then the thread ends.
Shutdown ==
  /\ pc = "drain"
  /\ Silence
  /\ pc' = "exited"
  /\ UNCHANGED <<is_playing, config, position, window, failures>>

\* Resync starts the current content over; stopped, there is no old stream.
Resync ==
  /\ pc = "drain"
  /\ IF is_playing
     THEN Requeue(runtime # Absent, tpc, tick)
     ELSE /\ queue' = {} /\ described' = {}
          /\ realized' = IF runtime # Absent THEN 0 ELSE cycle
          /\ UNCHANGED <<discard, sweep>>
  /\ UNCHANGED <<pc, is_playing, config, position, output>>

\* SetSynthPrograms with changed voices: the built-in monitor changes, and
\* while playing everything is requeued.
SetSynthPrograms ==
  /\ pc = "drain" /\ is_playing
  /\ Requeue(runtime # Absent, tpc, tick)
  /\ UNCHANGED <<pc, is_playing, config, position, output>>

\* SetTempo moves the reference point first; the parallel grid is not
\* tempo-dependent, so nothing is requeued.
SetTempo(n) ==
  /\ pc = "drain" /\ is_playing /\ tpc > 0
  /\ n = 0 \/ AbsoluteTick + n <= MaxTick
  /\ cycle' = (AbsoluteTick + n) \div tpc
  /\ tick' = (AbsoluteTick + n) % tpc
  /\ UNCHANGED <<pc, is_playing, config, window, output>>

\* SetScore drops any parallel runtime and, while playing, carries the phase
\* over to the new grid.
SetScore(s) ==
  /\ pc = "drain"
  /\ score' = s /\ runtime' = Absent /\ tpc' = Tpc[s]
  /\ IF is_playing
     THEN /\ tick' = Rescaled(tick, tpc, Tpc[s])
          /\ Requeue(FALSE, Tpc[s], tick')
     ELSE UNCHANGED <<tick, window>>
  /\ UNCHANGED <<pc, is_playing, rhythm, cycle, output>>

\* SetRhythmPlayback ignores an unchanged config and drops any parallel
\* runtime; the tick grid stays as it is.
SetRhythmPlayback(r) ==
  /\ pc = "drain" /\ r # rhythm
  /\ rhythm' = r /\ runtime' = Absent
  /\ IF is_playing THEN Requeue(FALSE, tpc, tick) ELSE UNCHANGED window
  /\ UNCHANGED <<pc, is_playing, score, tpc, position, output>>

\* SetParallelPlayback, NextCycle, over a running runtime: the parameters are
\* replaced in place; a change that cannot be applied forward is rejected.
ApplyInPlace(p) ==
  /\ pc = "drain" /\ is_playing /\ runtime # Absent
  /\ <<runtime, p>> \in Forward
  /\ runtime' = p
  /\ UNCHANGED <<pc, is_playing, score, rhythm, tpc, position, window, output>>

\* Mutant of GridOf: disengaging forgets the score's grid.
GridOfRuntime(p) == IF p # Absent THEN Tpc[p] ELSE 0

\* The grid a parallel command leaves: the runtime's, else the score's.
GridOf(p) ==
  IF p # Absent THEN Tpc[p] ELSE IF score # Absent THEN Tpc[score] ELSE 0

\* SetParallelPlayback otherwise: Immediate, stopped, engaging (p a runtime
\* and none running) or disengaging (p absent).
SetParallelPlayback(p) ==
  /\ pc = "drain"
  /\ runtime' = p /\ tpc' = GridOf(p)
  /\ IF is_playing
     THEN /\ tick' = Rescaled(tick, tpc, GridOf(p))
          /\ Requeue(p # Absent, GridOf(p), tick')
     ELSE UNCHANGED <<tick, window>>
  /\ UNCHANGED <<pc, is_playing, score, rhythm, cycle, output>>

(************************************************************************** *)
(* The play step                                                           *)
(************************************************************************** *)

\* The clock advances n ticks; the lookahead is realized two cycles ahead;
\* stale events are discarded; orphans, then residue, are released.  A
\* release that fails to send leaves its key in the ledger.
PlayStep(n) ==
  /\ pc = "drain" /\ is_playing /\ HasSource /\ tpc > 0
  /\ n = 0 \/ AbsoluteTick + n <= MaxTick
  /\ cycle' = (AbsoluteTick + n) \div tpc
  /\ tick' = (AbsoluteTick + n) % tpc
  /\ \E to \in RealizedTo(Source, realized, cycle' + 2) :
     \E takes \in [realized .. to - 1 -> Takes[Source]] :
     LET q == DropStale(queue \cup Realize(takes, tpc), discard)
         orphans == UNION {Orphaned(ledger, q, swap) : swap \in sweep} IN
     \E released \in SUBSET orphans :
     LET left == [k \in Keys |-> IF k \in released THEN 0 ELSE ledger[k]]
         stuck == IF to # realized THEN Stuck(left, q) ELSE {} IN
     \E freed \in SUBSET stuck :
       /\ failures' = failures + Cardinality(orphans \ released)
                               + Cardinality(stuck \ freed)
       /\ queue' = q
       /\ realized' = to
       /\ described' = described \cup (realized .. to - 1)
       /\ ledger' = [k \in Keys |-> IF k \in freed THEN 0 ELSE left[k]]
       /\ ringing' = ringing \ (released \cup freed)
       /\ counting' = AfterOffs(counting, released \cup freed)
  /\ failures' <= MaxFailures
  /\ discard' = {} /\ sweep' = {}
  /\ pc' = "dispatch"
  /\ UNCHANGED <<is_playing, config>>

Due == {e \in queue : e.tick <= AbsoluteTick}

\* pop_due_event and ledger_record_dispatch: the ledger moves whether or not
\* the send succeeded.
Dispatch(e, sent) ==
  /\ pc = "dispatch"
  /\ ~ \E f \in queue : Before(f, e)
  /\ queue' = queue \ {e}
  /\ LET k == e.note.key IN
     /\ ledger' = [ledger EXCEPT ![k] = IF e.on THEN @ + 1 ELSE Minus(@, 1)]
     /\ ringing' = IF ~sent THEN ringing
                   ELSE IF e.on THEN ringing \cup {k} ELSE ringing \ {k}
     /\ counting' = IF ~sent THEN counting
                    ELSE [counting EXCEPT ![k] = IF e.on THEN @ + 1 ELSE Minus(@, 1)]
  /\ failures' = IF sent THEN failures ELSE failures + 1
  /\ failures' <= MaxFailures
  /\ UNCHANGED <<pc, is_playing, config, position, realized, described, discard, sweep>>

\* Mutant of EndLoop: the pruning drops the cycle being played.
EndLoopPrunesCurrent ==
  /\ pc = "dispatch"
  /\ Due = {}
  /\ pc' = "drain"
  /\ described' = IF runtime = Absent
       THEN {c \in described : c > cycle /\ c <= cycle + 2} ELSE described
  /\ UNCHANGED <<is_playing, config, position, queue, realized, discard, sweep, output>>

\* Nothing more is due: the snapshot is published, single-track playback
\* prunes the overlay layers to the window around the playhead.
EndLoop ==
  /\ pc = "dispatch"
  /\ Due = {}
  /\ pc' = "drain"
  /\ described' = IF runtime = Absent
       THEN {c \in described : c + 1 >= cycle /\ c <= cycle + 2} ELSE described
  /\ UNCHANGED <<is_playing, config, position, queue, realized, discard, sweep, output>>

Command ==
  \/ Play
  \/ Stop
  \/ Panic
  \/ Shutdown
  \/ Resync
  \/ SetSynthPrograms
  \/ \E n \in 0 .. MaxAdvance : SetTempo(n)
  \/ \E s \in Scores : SetScore(s)
  \/ \E r \in Rhythms \cup {Absent} : SetRhythmPlayback(r)
  \/ \E p \in Runtimes : ApplyInPlace(p)
  \/ \E p \in Runtimes \cup {Absent} : SetParallelPlayback(p)

Step ==
  \/ \E n \in 0 .. MaxAdvance : PlayStep(n)
  \/ \E e \in Due : \E sent \in BOOLEAN : Dispatch(e, sent)
  \/ EndLoop

Next == Command \/ Step

Spec == Init /\ [][Next]_vars

\* The loop never stops running while the thread lives; strong, so that
\* commands which take the source away and back do not excuse it.
FairSpec == Spec /\ SF_vars(Step)

-----------------------------------------------------------------------------
(************************************************************************** *)
(* Properties                                                              *)
(************************************************************************** *)

SchedulerEvent == [tick : Nat, on : BOOLEAN, note : Note, cycle : Nat]

SchedulerTypeOK ==
  /\ pc \in {"drain", "dispatch", "exited"}
  /\ is_playing \in BOOLEAN
  /\ score \in Scores \cup {Absent}
  /\ rhythm \in Rhythms \cup {Absent}
  /\ runtime \in Runtimes \cup {Absent}
  /\ tpc \in Nat /\ cycle \in Nat /\ tick \in Nat
  /\ queue \subseteq SchedulerEvent
  /\ realized \in Nat /\ described \subseteq Nat
  /\ discard \subseteq Nat /\ \A t, u \in discard : t = u
  /\ sweep \subseteq Nat /\ \A t, u \in sweep : t = u
  /\ ledger \in [Keys -> Nat]
  /\ ringing \subseteq Keys
  /\ counting \in [Keys -> Nat]
  /\ failures \in Nat

\* active_notes and the queue move on although a send failed, and nothing
\* retries: what receiver and ledger have to do with each other is said of
\* histories in which every send succeeded.
AllSent == failures = 0

\* "The ledger is the record of what is currently sounding" (engine.rs): a
\* key rings at the receiver only if active_notes counts it, whatever
\* commands, swaps and dispatches came before.
LedgerKnowsSounding == AllSent => \A k \in ringing : ledger[k] > 0

\* No note is shorter than half a tick, so that none is rounded to nothing
\* (musical_offset_to_ticks).
NotesLast == \A s \in Sources : \A take \in Takes[s] : \A n \in take : n.on < n.off

\* A score's note starts within its cycle; no grid a disengaged runtime leaves
\* behind is so short that this is more than two of its cycles away.
NotesStartInTime ==
  \A s \in Sources \ Runtimes : \A take \in Takes[s] : \A n \in take :
    \A x \in Scores \cup Runtimes : n.on <= 2 * Tpc[x]

\* No note hangs: while playing, a key that rings has its note-off in the
\* queue, or a sweep is pending that will look for it.  Swaps that throw away
\* the queue are what could lose the note-off.
NoHungNote ==
  AllSent /\ is_playing /\ sweep = {} =>
    \A k \in ringing : \E e \in queue : e.note.key = k /\ ~e.on

\* The timeline shows what is heard: every note-on still queued is of a cycle
\* the overlay layers describe, and of the cycles ahead that were realized
\* none is missing (clear_realized, record_cycle, retain_window).
OverlayMatchesQueue ==
  is_playing =>
    /\ \A e \in queue : e.on => e.cycle \in described
    /\ cycle .. realized - 1 \subseteq described

Iterates == pc = "drain" /\ pc' = "dispatch"

\* A swap never replays: once the new stream is in, nothing from before the
\* swap tick is left to dispatch, although a parallel runtime realizes from
\* tick zero (discard_queued_before_tick).
NoReplay ==
  [][Iterates => \A swap \in sweep : \A e \in queue' : e.tick >= swap]_vars

\* A pending sweep is carried out: while notes of the old stream ring and
\* there is something to play, no sequence of commands, realization errors or
\* late wake-ups keeps it pending for good.
SweepRuns ==
  sweep # {} /\ ringing # {} /\ HasSource ~> sweep = {} \/ ringing = {} \/ ~HasSource
=============================================================================
