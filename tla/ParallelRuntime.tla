--------------------------- MODULE ParallelRuntime ---------------------------
(************************************************************************** *)
(* The parallel runtime of crates/cseq-transport/src/parallel.rs under the  *)
(* commands and the play step of engine.rs: continuous tracks, Track Flow   *)
(* lanes and triggered followers are realized ahead of the playhead, window *)
(* after window, into one queue that the conflict pass filters; an edit is  *)
(* applied in place or rebuilds the runtime; a realization may fail.        *)
(*                                                                          *)
(* What a score generates is data here: a source has a sequence of takes    *)
(* (sets of notes) and of cycle lengths in reference ticks, read by the     *)
(* cycle, or by the History seeds drawn so far when it evolves.             *)
(************************************************************************** *)
EXTENDS ChannelConflicts, Triggers, TrackFlow

CONSTANTS
  Projects,     \* the authored parallel configurations
  MaxTick,      \* bound on the playhead
  Steps,        \* the ticks one iteration may advance
  MaxCommands,  \* bound on play, stop, rebuild and in-place commands
  MaxFailures   \* bound on failed realizations

\* What a project has passed before the engine sees it: ids are unique, a
\* track is one source or a lane of several, and every cycle takes a tick.
ValidSource(s) ==
  /\ Len(s.takes) \in Nat \ {0} /\ DOMAIN s.takes = 1 .. Len(s.takes)
  /\ \A k \in DOMAIN s.takes :
       /\ IsFiniteSet(s.takes[k])
       /\ \A m \in s.takes[k] : m.on \in Nat /\ m.off \in Nat
  /\ s.ticks \in Seq(Nat \ {0}) \ {<<>>}

\* A follower's trigger with the lengths of its own phrases.
TriggerOf(track) == [track.trigger EXCEPT !.phrase = track.sources[1].ticks]

ValidTrack(track) ==
  LET sources == track.sources IN
  /\ DOMAIN track = {"id", "silent", "trigger", "lane", "sources"}
  /\ Len(sources) \in Nat \ {0} /\ DOMAIN sources = 1 .. Len(sources)
  /\ \A n \in DOMAIN sources : ValidSource(sources[n])
  /\ \A m, n \in DOMAIN sources : sources[m].id = sources[n].id => m = n
  /\ track.lane = None => Len(sources) = 1
  /\ track.lane # None => ValidSpec(track.lane, Len(sources)) /\ ~track.silent
  /\ track.lane = None /\ track.trigger # None => WellFormed(TriggerOf(track))

ValidProject(p) ==
  /\ DOMAIN p = {"cycle", "policy", "matrix", "priority", "tracks"}
  /\ p.cycle \in Nat \ {0}
  /\ IsFiniteSet(DOMAIN p.tracks)
  /\ \A t \in DOMAIN p.tracks : ValidTrack(p.tracks[t])
  /\ \A t, u \in DOMAIN p.tracks : p.tracks[t].id = p.tracks[u].id => t = u

ASSUME ParallelAssumption ==
  /\ \A p \in Projects : ValidProject(p)
  /\ MaxTick \in Nat /\ Steps \subseteq Nat
  /\ MaxCommands \in Nat /\ MaxFailures \in Nat

VARIABLES
  project,    \* the authored configuration the runtime carries
  runtime,    \* ParallelRuntimeConfig: cursors by track, Alternate memory
  playing,
  tick,       \* the playhead, in reference ticks
  watermark,  \* parallel_realized_until_tick
  cutoff,     \* discard_queued_before_tick
  queue,
  sent,       \* events dispatched since playback began
  batch,      \* notes of the last realization, whether it was kept or lost
  earlier,    \* notes of the realizations before it since the last reset
  shown,      \* notes the timeline shows as played
  pristine,   \* playing, begun by Play with no cutoff left over, never rebuilt since
  edited,     \* an edit was applied in place since
  commands, failures

vars == <<project, runtime, playing, tick, watermark, cutoff, queue, sent,
          batch, earlier, shown, pristine, edited, commands, failures>>

(************************************************************************** *)
(* Authored configuration                                                  *)
(************************************************************************** *)

Ids(p) == {p.tracks[t].id : t \in DOMAIN p.tracks}
IndexOf(p, id) == CHOOSE t \in DOMAIN p.tracks : p.tracks[t].id = id

\* The trigger graph asked for; a lane has no trigger.
RequestedGraph(p) ==
  [id \in Ids(p) |-> LET track == p.tracks[IndexOf(p, id)] IN
     IF track.trigger = None \/ track.lane # None THEN None ELSE track.trigger.source]

Kind(p, t) ==
  CASE p.tracks[t].lane # None -> "lane"
    [] p.tracks[t].id \in Triggered(RequestedGraph(p)) -> "triggered"
    [] OTHER -> "continuous"

SourceOf(p, t) == IndexOf(p, p.tracks[t].trigger.source)
Followers(p, t) ==
  {f \in DOMAIN p.tracks : Kind(p, f) = "triggered" /\ SourceOf(p, f) = t}

\* A track's place in the conflict priority, its position when it has none.
Rank(p, t) ==
  LET listed == {n \in DOMAIN p.priority : p.priority[n] = p.tracks[t].id}
  IN IF listed # {} THEN Max(listed) ELSE t

\* What the conflict pass reads of the configuration.
ConflictConfig(p) ==
  [policy |-> p.policy, cycle |-> p.cycle,
   matrix |-> {[pair |-> {IndexOf(p, id) : id \in r.pair}, channel |-> r.channel,
                policy |-> r.policy] :
                 r \in {r \in p.matrix : r.pair \subseteq Ids(p) /\ Cardinality(r.pair) = 2}},
   rank |-> [t \in DOMAIN p.tracks |-> Rank(p, t)],
   active |-> Cardinality({t \in DOMAIN p.tracks : ~p.tracks[t].silent})]

SourceIds(p, t) == {p.tracks[t].sources[n].id : n \in DOMAIN p.tracks[t].sources}

\* topology_matches, and the reference grid.
AppliesForward(p, q) ==
  /\ p.cycle = q.cycle
  /\ Ids(p) = Ids(q)
  /\ \A id \in Ids(p) :
       LET t == IndexOf(p, id)  u == IndexOf(q, id)
       IN /\ Kind(p, t) = Kind(q, u)
          /\ Kind(p, t) = "triggered" => p.tracks[t].trigger.source = q.tracks[u].trigger.source
          /\ Kind(p, t) = "lane" => SourceIds(p, t) = SourceIds(q, u)

(************************************************************************** *)
(* Runtime state                                                           *)
(************************************************************************** *)

NewCursor == [cycle |-> 0, pool |-> 0]

\* A track as from_config builds it: nothing realized.
FreshTrack(track) ==
  [until |-> 0, cycle |-> 0, cursors |-> [n \in DOMAIN track.sources |-> NewCursor],
   walk |-> FreshWalk, recent |-> {}, carry |-> FreshCarry,
   launches |-> <<>>, within |-> 0, at |-> 0]

FreshRuntime(p) ==
  [tracks |-> [t \in DOMAIN p.tracks |-> FreshTrack(p.tracks[t])],
   resolved |-> {}, horizon |-> 0]

\* Mutant of Reset: the lane's walk goes on where it was.
ResetKeepsWalk(r) ==
  [tracks |-> [t \in DOMAIN r.tracks |->
     [r.tracks[t] EXCEPT
        !.until = 0, !.cycle = 0, !.recent = {},
        !.cursors = [n \in DOMAIN r.tracks[t].cursors |-> NewCursor],
        !.carry = FreshCarry, !.launches = <<>>, !.within = 0, !.at = 0]],
   resolved |-> {}, horizon |-> r.horizon]

\* reset_realization: cursors, History pools, carries, walks and the Alternate
\* memory; the horizon is the caller's.
Reset(r) ==
  [tracks |-> [t \in DOMAIN r.tracks |->
     [r.tracks[t] EXCEPT
        !.until = 0, !.cycle = 0, !.recent = {},
        !.cursors = [n \in DOMAIN r.tracks[t].cursors |-> NewCursor],
        !.walk = FreshWalk,
        !.carry = FreshCarry, !.launches = <<>>, !.within = 0, !.at = 0]],
   resolved |-> {}, horizon |-> r.horizon]

(************************************************************************** *)
(* Realizing one track                                                     *)
(************************************************************************** *)

\* The notes of the track's n-th source's next cycle, placed at a reference tick.
Take(p, t, n, cursor, base) ==
  LET source == p.tracks[t].sources[n]
      drawn == IF source.evolves THEN cursor.pool ELSE cursor.cycle
  IN {[track |-> t, source |-> n, cycle |-> cursor.cycle,
       channel |-> m.channel, pitch |-> m.pitch,
       start |-> base + m.on, end |-> base + m.off] :
      m \in source.takes[(drawn % Len(source.takes)) + 1]}

Ticks(source, cycle) == source.ticks[(cycle % Len(source.ticks)) + 1]
Realized(cursor) == [cycle |-> cursor.cycle + 1, pool |-> cursor.pool + 1]

\* The structure a follower observes of a cycle, in reference ticks.
Resolved(source, cursor, base, notes) ==
  LET length == Ticks(source, cursor.cycle)
  IN ResolveCycle(cursor.cycle, length \div Ppqn, {}, {},
                  {n.start - base : n \in notes}, base, [x \in 0 .. length |-> x])

\* PASS A, one cycle of a continuous track.  A silent source is realized for
\* its followers and heard by nobody.
ContinuousCycle(p, t, r) ==
  LET source == p.tracks[t].sources[1]
      notes == Take(p, t, 1, r.cursors[1], r.until)
  IN [r |-> [r EXCEPT !.until = @ + Ticks(source, r.cursors[1].cycle),
                      !.cycle = @ + 1,
                      !.cursors[1] = Realized(@),
                      !.recent = IF Followers(p, t) = {} THEN @
                                 ELSE @ \cup {Resolved(source, r.cursors[1], r.until, notes)}],
      notes |-> IF p.tracks[t].silent THEN {} ELSE notes]

\* PASS C, one cycle of a lane: the walk chooses a member, which plays the
\* next of its own cycles.
LaneTurn(p, t, r, choice) ==
  LET n == Minimum(choice.state + 1, Len(r.cursors))
      source == p.tracks[t].sources[n]
  IN [r |-> [r EXCEPT !.until = @ + Ticks(source, r.cursors[n].cycle),
                      !.cycle = @ + 1,
                      !.cursors[n] = Realized(@),
                      !.walk = choice.walk],
      notes |-> Take(p, t, n, r.cursors[n], r.until)]

LaneCycle(p, t, r) == LaneTurn(p, t, r, Choose(p.tracks[t].lane, r.walk))

\* A launch is over when it is played, or the launch after it takes over.
LaunchAt(r) == IF r.within = 0 THEN Head(r.launches).start ELSE r.at
LaunchOver(r) ==
  \/ r.within >= Head(r.launches).passes
  \/ Len(r.launches) > 1 /\ LaunchAt(r) >= r.launches[2].start

\* PASS B, one turn of the launch loop: the first launch plays its next cycle
\* or makes way for the one after it.
LaunchTurn(p, t, r) ==
  LET source == p.tracks[t].sources[1]
      own == Head(r.launches).first + r.within
      cursor == [cycle |-> own, pool |-> r.cursors[1].pool]
  IN IF LaunchOver(r)
     THEN [r |-> [r EXCEPT !.launches = Tail(@), !.within = 0], notes |-> {}]
     ELSE [r |-> [r EXCEPT !.within = @ + 1, !.at = LaunchAt(r) + Ticks(source, own),
                           !.cursors[1] = Realized(cursor)],
           notes |-> Take(p, t, 1, cursor, LaunchAt(r))]

\* The launches of the window join those still to be played.
Launched(p, t, r, cycles, target) ==
  LET Joined(out) == [r EXCEPT !.carry = out.carry, !.launches = @ \o out.launches] IN
  IF r.until >= target THEN r
  ELSE Joined(Compile(TriggerOf(p.tracks[t]), cycles, [start |-> r.until, end |-> target], r.carry))

\* Whether a track has a turn to take before the target.
HasTurn(kind, s, until, target) ==
  IF kind = "triggered"
  THEN until < target /\ s.launches # <<>> /\ (LaunchOver(s) \/ LaunchAt(s) < target)
  ELSE s.until < target

Turn(p, t, s) ==
  CASE Kind(p, t) = "triggered" -> LaunchTurn(p, t, s)
    [] Kind(p, t) = "lane" -> LaneCycle(p, t, s)
    [] Kind(p, t) = "continuous" -> ContinuousCycle(p, t, s)

\* One iteration of a pass: a turn, while there is one to take.
Iterate(p, t, until, target, s) ==
  LET Taken(out) == [r |-> out.r, notes |-> s.notes \cup out.notes]
  IN IF HasTurn(Kind(p, t), s.r, until, target) THEN Taken(Turn(p, t, s.r)) ELSE s

TakeTurns(p, t, begin, target, count) ==
  LET state[n \in 0 .. count] ==
        IF n = 0 THEN [r |-> begin, notes |-> {}]
        ELSE Iterate(p, t, begin.until, target, state[n - 1])
  IN state[count]

\* As many iterations as a pass may take: a cycle lasts a tick at least, a
\* launch has its passes and its end.
Enough(kind, r, target) ==
  LET turns[n \in 0 .. Len(r.launches)] ==
        IF n = 0 THEN 0 ELSE turns[n - 1] + (r.launches[n].passes + 1)
  IN IF kind = "triggered" THEN turns[Len(r.launches)] ELSE Monus(target, r.until)

\* A track realized up to the target, or, when it fails, for some turns only;
\* a lane that fails has already chosen the member.
Advance(p, t, r, cycles, target, turns) ==
  LET kind == Kind(p, t)
      Ended(end, fails) ==
        [notes |-> end.notes, short |-> fails,
         r |-> CASE kind = "triggered" /\ turns = None -> [end.r EXCEPT !.until = Max({@, target})]
                 [] kind = "lane" /\ turns # None /\ fails ->
                      [end.r EXCEPT !.walk = Choose(p.tracks[t].lane, @).walk]
                 [] OTHER -> end.r]
      Judged(end) == Ended(end, /\ HasTurn(kind, end.r, r.until, target)
                                /\ kind = "triggered" => ~LaunchOver(end.r))
      From(begin) == Judged(TakeTurns(p, t, begin, target,
                              IF turns = None THEN Enough(kind, begin, target) ELSE turns))
  IN From(IF kind = "triggered" THEN Launched(p, t, r, cycles, target) ELSE r)

(************************************************************************** *)
(* realize_parallel_until                                                  *)
(************************************************************************** *)

\* How far back of the target a source cycle is kept for its followers.
MaxAfterEvent(p) ==
  LET starts(c) == IF c.starts = None THEN {}
                   ELSE {c.starts.options[n].alignment : n \in DOMAIN c.starts.options}
      alignments == UNION {{p.tracks[f].trigger.alignment} \cup starts(p.tracks[f].trigger) :
                             f \in {f \in DOMAIN p.tracks : Kind(p, f) = "triggered"}}
  IN Max({0} \cup {a.ticks : a \in {a \in alignments : a.type = "afterEventTicks"}})

\* Source cycles are kept a reference cycle and the largest offset back.
Prune(p, r, target) ==
  [r EXCEPT !.recent =
     {c \in @ : c.end >= Monus(target, p.cycle + MaxAfterEvent(p))}]

\* The three passes over the tracks.  An error in one keeps the passes after
\* it, and the later tracks of a sequential pass, from running; of the tracks
\* PASS A realizes in parallel some may be spared.
Passes(p, rt, target, fault) ==
  LET first == IF fault = None THEN None ELSE Kind(p, fault.track)
      Runs(t) ==
        \/ fault = None \/ t = fault.track
        \/ CASE Kind(p, t) = "continuous" -> first # "continuous" \/ t \notin fault.spared
             [] Kind(p, t) = "lane" ->
                  first = "triggered" \/ (first = "lane" /\ t < fault.track)
             [] Kind(p, t) = "triggered" -> first = "triggered" /\ t < fault.track
      Turns(t) == IF fault # None /\ t = fault.track THEN fault.turns ELSE None
      Idle(t) == [r |-> rt.tracks[t], notes |-> {}, short |-> FALSE]
      Pass(t, cycles) ==
        IF Runs(t) THEN Advance(p, t, rt.tracks[t], cycles, target, Turns(t)) ELSE Idle(t)
      Followed(free) ==
        [t \in DOMAIN p.tracks |->
           IF Kind(p, t) # "triggered" THEN free[t]
           ELSE Pass(t, free[SourceOf(p, t)].r.recent)]
  IN Followed([t \in DOMAIN p.tracks |->
                 IF Kind(p, t) = "triggered" THEN Idle(t) ELSE Pass(t, {})])

EventsOf(notes) ==
  {[note |-> n, on |-> TRUE, tick |-> n.start] : n \in notes}
  \cup {[note |-> n, on |-> FALSE, tick |-> n.end] : n \in notes}

\* parallel_note_group_keys reads the batch as it was filled, one cycle of one
\* track after another, and pairs within the cycle.
BatchKeys(notes) ==
  LET CycleOf(n) == {m \in notes : /\ m.track = n.track /\ m.source = n.source
                                   /\ m.cycle = n.cycle}
  IN {GroupKey(g) : g \in UNION {Groups(EventsOf(CycleOf(n))) : n \in notes}}

\* Mutant of FlaggedBy: the start must be the tick itself and the track the first.
FlaggedByFirst(notes, suppressed) ==
  {n \in notes : n.track = 1 /\ \E s \in suppressed : s.track = 1 /\ s.start = n.start}

\* flag_suppressed_playback_metadata: by track and start, give or take a tick,
\* and among the notes of this realization only.
FlaggedBy(notes, suppressed) ==
  {n \in notes : \E s \in suppressed :
     s.track = n.track /\ s.start - n.start \in -1 .. 1}

\* Mutant of AfterError: the cursors are put back, the carries and walks too.
AfterErrorRolledBack(rt, passed) == rt.tracks

\* An error leaves every cursor where the passes brought it.
AfterError(rt, passed) == [t \in DOMAIN passed |-> passed[t].r]

\* The whole call: the batch joins the queue and the components it touches are
\* resolved.  On an error the batch is lost and nothing is pruned.
RealizeUntil(p, rt, events, target, fault) ==
  LET Resolve(notes) ==
        IF fault # None \/ notes = {}
        THEN [queue |-> events, suppressed |-> {}, resolved |-> rt.resolved]
        ELSE ResolveConflicts(events \cup EventsOf(notes), BatchKeys(notes), rt.horizon,
                              rt.resolved, ConflictConfig(p))
      Concluded(passed, notes, result) ==
        [rt |-> [rt EXCEPT
                   !.tracks = IF fault # None THEN AfterError(rt, passed)
                              ELSE [t \in DOMAIN passed |-> Prune(p, passed[t].r, target)],
                   !.resolved = result.resolved],
         notes |-> notes, queue |-> result.queue,
         flagged |-> FlaggedBy(notes, result.suppressed),
         fails |-> fault # None /\ passed[fault.track].short]
      Joined(passed, notes) == Concluded(passed, notes, Resolve(notes))
      After(passed) == Joined(passed, UNION {passed[t].notes : t \in DOMAIN passed})
  IN After(Passes(p, rt, target, fault))

\* A realization can fail in any track, at its first or second turn.
Faults(p) ==
  LET Continuous == {t \in DOMAIN p.tracks : Kind(p, t) = "continuous"} IN
  {f \in [track : DOMAIN p.tracks, turns : 0 .. 1, spared : SUBSET Continuous] :
     IF f.track \in Continuous THEN f.track \notin f.spared ELSE f.spared = {}}

(************************************************************************** *)
(* Commands and the play step                                              *)
(************************************************************************** *)

Init ==
  /\ project \in Projects
  /\ runtime = FreshRuntime(project)
  /\ playing = FALSE
  /\ tick = 0 /\ watermark = 0 /\ cutoff = None
  /\ queue = {} /\ sent = {}
  /\ batch = {} /\ earlier = {} /\ shown = {}
  /\ pristine = FALSE /\ edited = FALSE
  /\ commands = 0 /\ failures = 0

\* What a realization leaves behind, kept or lost.
Record(before, out, history) ==
  /\ runtime' = out.rt
  /\ batch' = out.notes
  /\ earlier' = history
  /\ shown' = before \cup (IF out.fails THEN {} ELSE out.notes \ out.flagged)

\* Play: from tick zero, one reference cycle ahead.  A failure is logged and
\* the first play step tries again.
Play(fault) ==
  /\ commands < MaxCommands
  /\ ~playing
  /\ \E out \in {RealizeUntil(project, [Reset(runtime) EXCEPT !.horizon = 0], {},
                              project.cycle, fault)} :
        /\ fault # None => out.fails /\ failures < MaxFailures
        /\ Record({}, out, {})
        /\ queue' = out.queue
        /\ watermark' = IF out.fails THEN 0 ELSE project.cycle
        /\ failures' = failures + (IF out.fails THEN 1 ELSE 0)
        /\ pristine' = (cutoff = None) /\ edited' = FALSE
  /\ playing' = TRUE
  /\ tick' = 0
  /\ sent' = {}
  /\ commands' = commands + 1
  /\ UNCHANGED <<project, cutoff>>

Stop ==
  /\ commands < MaxCommands
  /\ playing
  /\ playing' = FALSE
  /\ queue' = {} /\ sent' = {} /\ shown' = {}
  /\ pristine' = FALSE
  /\ commands' = commands + 1
  /\ UNCHANGED <<project, runtime, tick, watermark, cutoff, batch, earlier, edited, failures>>

\* A running track edited.  A lane keeps its chain: only its members' content
\* is replaced.
Edited(running, incoming) ==
  LET Incoming(n) == incoming.sources[CHOOSE m \in DOMAIN incoming.sources :
                                        incoming.sources[m].id = running.sources[n].id]
  IN IF running.lane = None THEN incoming
     ELSE [running EXCEPT !.sources = [n \in DOMAIN running.sources |-> Incoming(n)]]

\* The incoming tracks at the positions of the running ones.
InRunningOrder(p, q) ==
  [q EXCEPT !.tracks = [t \in DOMAIN p.tracks |->
     Edited(p.tracks[t], q.tracks[IndexOf(q, p.tracks[t].id)])]]

\* SetParallelPlayback at the next cycle while playing: parameters change, the
\* cursors stay; every History pool restarts from the incoming baseline.  What
\* does not apply forward is rejected.
ApplyInPlace(q) ==
  /\ commands < MaxCommands
  /\ playing
  /\ AppliesForward(project, q)
  /\ project' = InRunningOrder(project, q)
  /\ runtime' = [runtime EXCEPT !.tracks =
       [t \in DOMAIN runtime.tracks |->
          [runtime.tracks[t] EXCEPT
             !.cursors = [n \in DOMAIN @ |-> [@[n] EXCEPT !.pool = 0]]]]]
  /\ edited' = TRUE
  /\ commands' = commands + 1
  /\ UNCHANGED <<playing, tick, watermark, cutoff, queue, sent, batch, earlier, shown, pristine, failures>>

\* The playhead keeps its phase in a cycle of another length, half a tick up.
Rephase(old, new) ==
  LET phase == tick % old IN
  (tick \div old) * new
    + (IF old = new THEN phase ELSE Minimum((2 * phase * new + old) \div (2 * old), new - 1))

\* SetParallelPlayback otherwise: a fresh runtime; while playing the queue is
\* dropped and realized again from tick zero by the next play step.
Rebuild(q) ==
  /\ commands < MaxCommands
  /\ project' = q
  /\ runtime' = FreshRuntime(q)
  /\ watermark' = 0
  /\ tick' = IF playing THEN Rephase(project.cycle, q.cycle) ELSE tick
  /\ cutoff' = IF playing THEN tick' ELSE cutoff
  /\ queue' = IF playing THEN {} ELSE queue
  /\ sent' = {} /\ shown' = {} /\ batch' = {} /\ earlier' = {}
  /\ pristine' = FALSE
  /\ commands' = commands + 1
  /\ UNCHANGED <<playing, edited, failures>>

\* What an edit made stale is dropped, and what is due is sent.
Dispatch(filled, now) ==
  LET kept == {e \in filled : cutoff # None => e.tick >= cutoff} IN
  /\ queue' = {e \in kept : e.tick > now}
  /\ sent' = sent \cup {e \in kept : e.tick <= now}

\* One play step: advance, stay two cycles ahead, drop what an edit made
\* stale, dispatch what is due.
Tick(d, fault) ==
  /\ playing
  /\ tick + d <= MaxTick
  /\ LET now == tick + d
         target == (now \div project.cycle + 2) * project.cycle
         rt == [runtime EXCEPT !.horizon = now]
         due == watermark < target
     IN /\ fault # None => due /\ failures < MaxFailures
        /\ failures' = failures + (IF fault # None THEN 1 ELSE 0)
        /\ tick' = now
        /\ IF due
           THEN \E out \in {RealizeUntil(project, rt, queue, target, fault)} :
                  /\ fault # None => out.fails
                  /\ Record(shown, out, earlier \cup batch)
                  /\ watermark' = IF out.fails THEN watermark ELSE target
                  /\ Dispatch(out.queue, now)
           ELSE /\ runtime' = rt
                /\ Dispatch(queue, now)
                /\ UNCHANGED <<watermark, batch, earlier, shown>>
  /\ cutoff' = None
  /\ UNCHANGED <<project, playing, pristine, edited, commands>>

Next ==
  \/ \E fault \in Faults(project) \cup {None} :
       \/ Play(fault)
       \/ \E d \in Steps : Tick(d, fault)
  \/ Stop
  \/ \E q \in Projects : ApplyInPlace(q) \/ Rebuild(q)

Spec == Init /\ [][Next]_vars

(************************************************************************** *)
(* Properties                                                              *)
(************************************************************************** *)

Events == queue \cup sent
Ons(events) == {e \in events : e.on}

TypeOK ==
  /\ playing \in BOOLEAN /\ pristine \in BOOLEAN /\ edited \in BOOLEAN
  /\ tick \in Nat /\ watermark \in Nat
  /\ cutoff = None \/ cutoff \in Nat
  /\ watermark % project.cycle = 0
  /\ \A t \in DOMAIN project.tracks : Kind(project, t) # "triggered" =>
       runtime.tracks[t].until >= watermark
  /\ commands \in 0 .. MaxCommands /\ failures \in 0 .. MaxFailures

\* No note is shorter than a local tick, which map_parallel_queue_ticks makes a
\* reference tick at least.
NotesLast ==
  \A p \in Projects : \A t \in DOMAIN p.tracks : \A n \in DOMAIN p.tracks[t].sources :
    LET takes == p.tracks[t].sources[n].takes
    IN \A k \in DOMAIN takes : \A m \in takes[k] : m.on < m.off

\* The length of a track's cycles, where they all have one.
CycleLength(p, t) == p.tracks[t].sources[1].ticks[1]

\* No track is triggered, and the cycles of a track have one length, which an
\* edit in place keeps and of which the reference cycle is a multiple; its notes
\* end within them.  What a realization adds then never reaches back.
CyclesMeet(p) ==
  \A t \in DOMAIN p.tracks :
    /\ Kind(p, t) # "triggered"
    /\ p.cycle % CycleLength(p, t) = 0
    /\ \A n \in DOMAIN p.tracks[t].sources :
         LET source == p.tracks[t].sources[n]
         IN /\ \A k \in DOMAIN source.ticks : source.ticks[k] = CycleLength(p, t)
            /\ \A k \in DOMAIN source.takes : \A m \in source.takes[k] : m.off <= CycleLength(p, t)
    /\ \A q \in Projects : \A u \in DOMAIN q.tracks :
         /\ q.cycle = p.cycle /\ Ids(q) = Ids(p)
         /\ q.tracks[u].id = p.tracks[t].id /\ Kind(q, u) # "triggered"
         => CycleLength(q, u) = CycleLength(p, t)

\* Notes of a track that start within a tick of each other start together, on
\* one channel, also across the border of two cycles.
StartsApart(p) ==
  \A t \in DOMAIN p.tracks : \A i, j \in DOMAIN p.tracks[t].sources :
    LET Takes(n) == p.tracks[t].sources[n].takes
    IN \A k \in DOMAIN Takes(i), l \in DOMAIN Takes(j) :
         \A a \in Takes(i)[k], b \in Takes(j)[l] :
           /\ a.on - b.on \notin {-1, 1, 1 - CycleLength(p, t), CycleLength(p, t) - 1}
           /\ i = j /\ k = l /\ a.on = b.on => a.channel = b.channel

\* No play step skips a reference cycle, so what it realizes is ahead of it.
StepsShort == \A p \in Projects, d \in Steps : d <= p.cycle

\* On every track and voice each note-on of a playback has a note-off to come
\* or already sent, whatever the conflict pass removed, paired or deferred.
NoteBalance ==
  pristine => \A e \in Ons(Events) :
    LET voice == {f \in Events : Track(f) = Track(e) /\ Voice(f) = Voice(e)}
        upTo(t) == {f \in voice : f.tick <= t}
    IN Cardinality(Ons(voice)) = Cardinality(voice \ Ons(voice))
       /\ \A t \in {f.tick : f \in voice} :
            Cardinality(upTo(t) \ Ons(voice)) <= Cardinality(Ons(upTo(t)))

\* A cycle of a source is realized once: a retry after a failed realization
\* goes on behind what the failed one took, and plays nothing again.
PlayedOnce ==
  LET Cycles(notes) == {<<n.track, n.source, n.cycle>> : n \in notes}
  IN Cycles(batch) \cap Cycles(earlier) = {}

\* Play starts from the same state whatever was played before.
ReplayIdentical ==
  [][~playing /\ playing' /\ failures' = failures =>
       \E out \in {RealizeUntil(project, FreshRuntime(project), {}, project.cycle, None)} :
         <<runtime', queue'>> = <<out.rt, out.queue>>]_vars

\* Realizing window by window gives the events of one realization of it all.
SteppedMatchesSinglePass ==
  (pristine /\ ~edited /\ failures = 0) =>
    Events = RealizeUntil(project, FreshRuntime(project), {}, watermark, None).queue

\* A policy that elects at most one track never lets two tracks of the channel
\* sound at once.  A late realization is exempt: the guard against deciding
\* again what was dispatched also skips what was never decided.
ExclusiveChannel ==
  (pristine /\ ~edited /\ failures = 0 /\ project.policy \in {"xor", "oneHigh", "randomOne", "alternate", "priorityOrder"}
         /\ project.matrix = {}) =>
    \A e, f \in Ons(Events) :
      e.note.channel = f.note.channel /\ Track(e) # Track(f) =>
        e.note.end <= f.note.start \/ f.note.end <= e.note.start

\* No note-off falls inside a note of its channel and pitch that still sounds.
NoPrematureOff ==
  pristine => \A off \in Events \ Ons(Events) : ~Covered(Groups(Events), Voice(off), off.tick)

\* The timeline shows a note as played when, and only when, it sounds.
TimelineMatchesAudio ==
  pristine => shown = {e.note : e \in Ons(Events)}

\* A lane's members appear in the order of its walk, each playing its own
\* cycles in turn.  (With the types, to which the cursors count.)
LaneFollowsWalk ==
  /\ TypeOK
  /\ \A t \in DOMAIN project.tracks : Kind(project, t) = "lane" =>
    LET r == runtime.tracks[t]
        walk == Walk(project.tracks[t].lane, Len(r.walk.history)).history
    IN /\ r.walk.history = walk
       /\ failures = 0 =>
            \A n \in DOMAIN r.cursors :
              r.cursors[n].cycle = Cardinality({k \in DOMAIN walk : walk[k] = n - 1})

\* The cycles of continuous tracks and of lanes' members, each once and in turn.
CyclesRealizedOnce == PlayedOnce /\ LaneFollowsWalk

=============================================================================
