-------------------------- MODULE ChannelConflicts --------------------------
(************************************************************************** *)
(* The channel conflict pass of crates/cseq-transport/src/parallel.rs: the  *)
(* merged queue of all tracks is cut into overlap components per channel,   *)
(* each component is resolved by the project's policy and its matrix of     *)
(* explicit rules, and premature note-offs of surviving notes are deferred. *)
(*                                                                          *)
(* The queue is a set of events [note, on, tick].  A note carries its       *)
(* track (a position in the project), its channel and its pitch; further    *)
(* fields tell notes apart.  Policy labels and wording are left out.        *)
(************************************************************************** *)
EXTENDS Integers, Sequences, FiniteSets, FiniteSetsExt

Track(e) == e.note.track
Channel(e) == e.note.channel
Voice(e) == <<e.note.channel, e.note.pitch>>

(************************************************************************** *)
(* Note groups                                                             *)
(************************************************************************** *)

\* A note opened before another of its track and voice.  Of two that start
\* together it is the longer.
OpenedBefore(m, n) ==
  \/ m.start < n.start
  \/ m.start = n.start /\ m.end > n.end
  \/ /\ m.start = n.start /\ m.end = n.end
     /\ m.cycle < n.cycle \/ (m.cycle = n.cycle /\ m.source < n.source)

\* sort_queue: by tick, note-offs before note-ons.  The sort is stable: in
\* which order equal events came in decides only which of the groups that
\* start or end together is which, and they are taken as nested.
EventBefore(e, f) ==
  \/ e.tick < f.tick
  \/ /\ e.tick = f.tick
     /\ \/ ~e.on /\ f.on
        \/ e.on /\ f.on /\ OpenedBefore(e.note, f.note)
        \/ ~e.on /\ ~f.on /\ OpenedBefore(f.note, e.note)

\* The events of e's track and voice after e, up to and including f.
Between(queue, e, f) ==
  {g \in queue : /\ Track(g) = Track(e) /\ Voice(g) = Voice(e)
                 /\ EventBefore(e, g) /\ ~EventBefore(f, g)}

\* collect_final_note_groups pairs last in, first out: f closes e when it is
\* the first note-off with everything opened after e closed.
Closes(queue, e, f) ==
  LET Surplus(g) == LET seen == Between(queue, e, g) IN
        Cardinality({h \in seen : ~h.on}) > Cardinality({h \in seen : h.on})
  IN /\ Track(f) = Track(e) /\ Voice(f) = Voice(e)
     /\ ~f.on /\ EventBefore(e, f) /\ Surplus(f)
     /\ \A g \in Between(queue, e, f) : Surplus(g) => ~EventBefore(g, f)

\* The group a note-on opens.
OpenedBy(e, offs) ==
  [track |-> Track(e), channel |-> Channel(e), voice |-> Voice(e),
   start |-> e.tick,
   end |-> IF offs # {} THEN Min({f.tick : f \in offs}) ELSE e.tick,
   on |-> e, offs |-> offs]

GroupOf(queue, e) == OpenedBy(e, {f \in queue : Closes(queue, e, f)})

Groups(queue) == {GroupOf(queue, e) : e \in {e \in queue : e.on}}

\* Mutant of SpanEnd: every group is as short as its note-on.
SpanEndOneTick(g) == g.start + 1

\* note_group_span_end: a group without width occupies one tick.
SpanEnd(g) == IF g.end > g.start THEN g.end ELSE g.start + 1

\* FinalNoteGroupKey
GroupKey(g) == <<g.start, g.end, g.voice, g.track>>

(************************************************************************** *)
(* Overlap components                                                      *)
(************************************************************************** *)

\* Mutant of ComponentStarts: touching groups are one component too.
ComponentStartsTouching(groups, channel) ==
  {t \in {g.start : g \in {g \in groups : g.channel = channel}} :
     \A g \in groups : g.channel = channel => ~(g.start < t /\ t <= SpanEnd(g))}

\* A component starts where a group does and no earlier group still sounds.
ComponentStarts(groups, channel) ==
  {t \in {g.start : g \in {g \in groups : g.channel = channel}} :
     \A g \in groups : g.channel = channel => ~(g.start < t /\ t < SpanEnd(g))}

\* channel_overlap_components: each group belongs to the last component start
\* at or before its own.
Components(groups) ==
  UNION {LET starts == ComponentStarts(groups, c)
             StartOf(g) == Max({t \in starts : t <= g.start}) IN
         {[channel |-> c, start |-> t,
           groups |-> {g \in groups : g.channel = c /\ StartOf(g) = t}] : t \in starts} :
         c \in {g.channel : g \in groups}}

(************************************************************************** *)
(* Policies and the matrix                                                 *)
(************************************************************************** *)

\* deterministic_collision_choice: some function of the collision's identity.
\* The splitmix hash is abstracted to a sum.
ChoiceIndex(start, channel, count) == (start + channel) % count

\* The n-th of a set of track positions, from zero.
NthTrack(S, n) == CHOOSE x \in S : Cardinality({y \in S : y < x}) = n

\* collision_allowed_tracks: colliding is the set of tracks of the component,
\* active the number of audible tracks, rank the priority rank by track.
Allowed(policy, start, channel, colliding, active, rank, ordinal) ==
  LET k == Cardinality(colliding)
      AllIf(pass) == IF pass THEN colliding ELSE {}
      OneOf(n) == IF k = 1 THEN colliding ELSE {NthTrack(colliding, n)}
  IN CASE policy \in {"forceOn", "allowAll", "or"} -> colliding
       [] policy \in {"forceOff", "nor"} -> {}
       [] policy = "randomOne" -> OneOf(ChoiceIndex(start, channel, k))
       [] policy = "alternate" -> OneOf(ordinal % k)
       [] policy = "priorityOrder" ->
            LET best == {t \in colliding : \A u \in colliding : rank[t] <= rank[u]}
            IN {Min(best)}
       [] policy \in {"xor", "oneHigh"} -> AllIf(k = 1)
       [] policy = "xnor" -> AllIf(k >= 2)
       [] policy = "and" -> AllIf(k = active)
       [] policy = "nand" -> AllIf(k # active)
       [] policy = "even" -> AllIf(k % 2 = 0)
       [] policy = "odd" -> AllIf(k % 2 = 1)
       [] policy = "oneLow" -> AllIf(active - k = 1)
       [] policy = "majority" -> AllIf(2 * k > active)
       [] policy = "minority" -> AllIf(2 * k < active)

\* The explicit rule for a pair on a channel: the channel's own, else the
\* legacy one for every channel (0), else none.
RuleFor(matrix, pair, channel) ==
  LET own == {r \in matrix : r.pair = pair /\ r.channel = channel}
  IN IF own # {} THEN own ELSE {r \in matrix : r.pair = pair /\ r.channel = 0}

\* matrix_allowed_tracks: the policy over the whole component, then what the
\* explicit rules rescue and, dominating, what they veto.
MatrixAllowed(policy, matrix, start, channel, colliding, active, rank, ordinal) ==
  LET base == Allowed(policy, start, channel, colliding, active, rank, ordinal)
      pairs == {p \in kSubset(2, colliding) : RuleFor(matrix, p, channel) # {}}
      Passed(p) == UNION {Allowed(r.policy, start, channel, p, 2, rank, ordinal) :
                            r \in RuleFor(matrix, p, channel)}
  IN (base \cup UNION {Passed(p) : p \in pairs}) \ UNION {p \ Passed(p) : p \in pairs}

(************************************************************************** *)
(* Deferral                                                                *)
(************************************************************************** *)

\* Whether a group of the voice sounds strictly across the tick.
Covered(groups, voice, tick) ==
  \E g \in groups : g.voice = voice /\ g.start < tick /\ tick < g.end

\* Mutant of DeferredTick: one span is left, not the whole chain of them.
DeferredTickOnce(groups, voice, tick) ==
  LET over == {g.end : g \in {g \in groups : g.voice = voice /\ g.start < tick /\ tick < g.end}}
  IN IF over = {} THEN tick ELSE Max(over)

\* The end of the chain of spans a note-off is chased out of: the first tick
\* from its own on that no group of the voice sounds across.
DeferredTick(groups, voice, tick) ==
  Min({t \in {tick} \cup {g.end : g \in groups} :
         t >= tick /\ ~Covered(groups, voice, t)})

\* defer_premature_same_pitch_note_offs
Defer(queue) ==
  LET Moved(e, groups) == [e EXCEPT !.tick = DeferredTick(groups, Voice(e), e.tick)]
      Deferred(closing, groups) == (queue \ closing) \cup {Moved(e, groups) : e \in closing}
      Within(groups) == Deferred(UNION {g.offs : g \in groups}, groups)
  IN Within(Groups(queue))

(************************************************************************** *)
(* apply_parallel_channel_conflicts_for_keys                               *)
(************************************************************************** *)

\* Mutant of EventsIn: the note-offs are left behind.
EventsInOns(groups) == {g.on : g \in groups}

\* What removing groups removes.
EventsIn(groups) == {g.on : g \in groups} \cup UNION {g.offs : g \in groups}

TracksOf(c) == {g.track : g \in c.groups}

\* The components the pass decides: they hold a note of the new batch and,
\* once playback has begun, none of them starts behind the playhead (R9).
Resolvable(components, keys, horizon) ==
  {c \in components : /\ \E g \in c.groups : GroupKey(g) \in keys
                      /\ horizon = 0 \/ c.start >= horizon}

\* project: policy, matrix, cycle (reference ticks), rank and active count.
\* resolved: the collisions Alternate has counted, <<channel, cycle, start>>.
ResolveConflicts(queue, keys, horizon, resolved, project) ==
  LET Place(c, t) == <<c.channel, c.start \div project.cycle, t>>
      Counted(components) ==
        resolved \cup {Place(c, c.start) : c \in {c \in components : Cardinality(TracksOf(c)) >= 2}}
      Ordinal(c, counted) == Cardinality({p \in counted : p = Place(c, p[3]) /\ p[3] < c.start})
      Passed(c, counted) ==
        MatrixAllowed(project.policy, project.matrix, c.start, c.channel,
                      TracksOf(c), project.active, project.rank, Ordinal(c, counted))
      Silenced(components, counted) ==
        UNION {{g \in c.groups : g.track \notin Passed(c, counted)} : c \in components}
      Result(components, counted, silenced) ==
        [queue |-> Defer(queue \ EventsIn(silenced)),
         suppressed |-> {g.on.note : g \in silenced},
         resolved |-> {p \in counted : \A q \in counted : p[2] + 2 >= q[2]}]
      Decide(components, counted) == Result(components, counted, Silenced(components, counted))
      Count(components) == Decide(components, Counted(components))
  IN Count(IF project.active > 1
           THEN Resolvable(Components(Groups(queue)), keys, horizon) ELSE {})
=============================================================================
