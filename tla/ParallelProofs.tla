--------------------------- MODULE ParallelProofs ---------------------------
(************************************************************************** *)
(* For every project that passes the engine's validation, every fault and   *)
(* every order of commands: no cycle of a source is realized twice, and a   *)
(* lane's cycles follow its walk (CyclesOnce); Play begins as a runtime     *)
(* just built would (ReplayAlways); and if no note is mapped to nothing,    *)
(* every note-on of a playback has its note-off (EveryNoteEnds).            *)
(*                                                                          *)
(* Behind says that all notes a track ever played lie behind its cursors:   *)
(* cycles below the cursor of the source, launches numbered below the next. *)
(* A turn plays what is at the cursor and moves it on, so what it adds is   *)
(* new, and behind the cursor that it leaves.  The lemmas go outwards: a    *)
(* turn of each kind (ContinuousKeeps, LaneKeeps, LaunchKeeps), the turns   *)
(* of a pass, the passes with a fault in any of them, the realization, the  *)
(* commands around it.                                                      *)
(*                                                                          *)
(* Sound says that on each track and voice there are as many note-offs as   *)
(* note-ons and up to no event more.  That batches bring new notes, and     *)
(* that notes, launches and resolved cycles are well typed along the way,   *)
(* gives that removing and deferring keeps the balance (OperatorProofs,     *)
(* BalanceKept and DeferredSound), whatever was sent before.                *)
(*                                                                          *)
(* Of projects whose cycles meet the reference cycle: no note-off cuts a    *)
(* later note of its voice (OffsWait), the timeline shows what is heard     *)
(* (TimelineTrue), one track at a time has a channel that is xor            *)
(* (ChannelExclusive), and windows taken step by step give what one pass    *)
(* gives (SteppedIsSinglePass).  MeetInv says that what is realized ends by *)
(* the watermark, so that a window is decided by itself; ShowInv, AloneInv  *)
(* and SteppedInv add what each of the four says of the windows so far.     *)
(************************************************************************** *)
EXTENDS ParallelRuntime, OperatorProofs

-----------------------------------------------------------------------------
(************************************************************************** *)
(* The turns of a track                                                    *)
(************************************************************************** *)

Cursor == [cycle : Nat, pool : Nat]

TrackNames == {"until", "cycle", "cursors", "walk", "recent", "carry", "launches", "within", "at"}

\* The first number that no launch behind has.
NextLocal(r) == IF r.launches = <<>> THEN r.carry.nextLocal ELSE Head(r.launches).first

\* A runtime track: its walk is the lane's, its launches go on in numbers.
TrackOK(track, r) ==
  /\ r = [n \in TrackNames |-> r[n]]
  /\ r.until \in Nat
  /\ r.cursors \in Seq(Cursor) /\ Len(r.cursors) = Len(track.sources)
  /\ track.lane # None =>
       /\ r.walk \in WalkState(Len(track.sources))
       /\ r.walk = Walk(track.lane, Len(r.walk.history))
  /\ IsFiniteSet(r.recent) /\ \A c \in r.recent : IsFiniteSet(c.beats)
  /\ Counting(r.carry) /\ NextLocal(r) \in Nat /\ r.within \in Nat
  /\ Numbered(r.launches, NextLocal(r), r.carry.nextLocal)
  /\ r.within <= IF r.launches = <<>> THEN 0 ELSE Head(r.launches).passes

Chosen(history, v) == Cardinality({k \in DOMAIN history : history[k] = v})

\* Each member has played as many cycles as the walk has chosen it.
InStep(r) ==
  \A n \in DOMAIN r.cursors :
    r.cursors[n].cycle = Chosen(r.walk.history, n - 1)

\* The cycle the track's n-th source plays next.
Members(p, t) == DOMAIN p.tracks[t].sources
Upcoming(p, t, r, n) ==
  IF Kind(p, t) = "triggered" THEN NextLocal(r) + r.within ELSE r.cursors[n].cycle

\* What playing on a track leads to: its notes are of cycles not played before
\* and played now.
Follows(p, t, r, s) ==
  /\ TrackOK(p.tracks[t], s.r)
  /\ s.r.until >= r.until
  /\ \A n \in Members(p, t) : Upcoming(p, t, r, n) <= Upcoming(p, t, s.r, n)
  /\ \A n \in s.notes :
       /\ n.track = t /\ n.source \in Members(p, t) /\ n.cycle \in Nat
       /\ Upcoming(p, t, r, n.source) <= n.cycle
       /\ n.cycle < Upcoming(p, t, s.r, n.source)

LEMMA KindIs ==
  ASSUME NEW p, NEW t
  PROVE  Kind(p, t) \in {"lane", "triggered", "continuous"}
BY DEF Kind

LEMMA UpcomingType ==
  ASSUME NEW p, NEW t, ValidTrack(p.tracks[t]), NEW r, TrackOK(p.tracks[t], r),
         NEW n \in Members(p, t)
  PROVE  Upcoming(p, t, r, n) \in Nat
<1>1. n \in 1 .. Len(r.cursors)
  BY DEF TrackOK, ValidTrack, Members
<1>2. r.cursors[n] \in Cursor
  <2>1. r.cursors \in Seq(Cursor)
    BY DEF TrackOK
  <2> QED
    BY <1>1, <2>1, ElementOfSeq
<1>3. NextLocal(r) + r.within \in Nat
  BY DEF TrackOK
<1> QED
  BY <1>2, <1>3 DEF Upcoming, Cursor

\* A cycle of a source has its length.
LEMMA TicksType ==
  ASSUME NEW s, ValidSource(s), NEW n \in Nat
  PROVE  Ticks(s, n) \in Nat \ {0}
<1>1. s.ticks \in Seq(Nat \ {0}) /\ s.ticks # <<>>
  BY DEF ValidSource
<1>2. PICK N \in Nat \ {0} : N = Len(s.ticks)
  BY <1>1, LenProperties, EmptySeq
<1>3. PICK k \in 1 .. N : k = (n % N) + 1
  <2>1. n % N \in Nat /\ n % N < N
    BY RemainderType
  <2> QED
    BY <2>1
<1>4. s.ticks[k] \in Nat \ {0}
  BY <1>1, <1>2, <1>3, ElementOfSeq
<1> QED
  BY <1>2, <1>3, <1>4 DEF Ticks

\* One thing after another.
LEMMA FollowsOn ==
  ASSUME NEW p, NEW t, ValidTrack(p.tracks[t]), NEW r, TrackOK(p.tracks[t], r),
         NEW s, Follows(p, t, r, s), NEW u, Follows(p, t, s.r, u),
         NEW e, e.r = u.r, e.notes = s.notes \cup u.notes
  PROVE  Follows(p, t, r, e)
<1>1. TrackOK(p.tracks[t], s.r) /\ TrackOK(p.tracks[t], u.r)
  BY DEF Follows
<1>2. ASSUME NEW n \in Members(p, t)
      PROVE  /\ Upcoming(p, t, r, n) \in Nat /\ Upcoming(p, t, s.r, n) \in Nat
             /\ Upcoming(p, t, u.r, n) \in Nat
             /\ Upcoming(p, t, r, n) <= Upcoming(p, t, s.r, n)
             /\ Upcoming(p, t, s.r, n) <= Upcoming(p, t, u.r, n)
  BY <1>1, UpcomingType DEF Follows
<1>3. u.r.until >= r.until
  <2>1. r.until \in Nat /\ s.r.until \in Nat /\ u.r.until \in Nat
    BY <1>1 DEF TrackOK
  <2>2. s.r.until >= r.until /\ u.r.until >= s.r.until
    BY DEF Follows
  <2> QED
    BY <2>1, <2>2
<1>4. ASSUME NEW n \in e.notes
      PROVE  /\ n.track = t /\ n.source \in Members(p, t) /\ n.cycle \in Nat
             /\ Upcoming(p, t, r, n.source) <= n.cycle
             /\ n.cycle < Upcoming(p, t, u.r, n.source)
  <2>1. CASE n \in s.notes
    <3>1. /\ n.track = t /\ n.source \in Members(p, t) /\ n.cycle \in Nat
          /\ Upcoming(p, t, r, n.source) <= n.cycle
          /\ n.cycle < Upcoming(p, t, s.r, n.source)
      BY <2>1 DEF Follows
    <3> QED
      BY <1>2, <3>1
  <2>2. CASE n \in u.notes
    <3>1. /\ n.track = t /\ n.source \in Members(p, t) /\ n.cycle \in Nat
          /\ Upcoming(p, t, s.r, n.source) <= n.cycle
          /\ n.cycle < Upcoming(p, t, u.r, n.source)
      BY <2>2 DEF Follows
    <3> QED
      BY <1>2, <3>1
  <2> QED
    BY <2>1, <2>2
<1>5. \A n \in Members(p, t) : Upcoming(p, t, r, n) <= Upcoming(p, t, u.r, n)
  BY <1>2
<1> QED
  BY <1>1, <1>3, <1>4, <1>5 DEF Follows

LEMMA ResolvedFinite ==
  ASSUME NEW s, ValidSource(s), NEW cursor \in Cursor, NEW base, NEW notes
  PROVE  IsFiniteSet(Resolved(s, cursor, base, notes).beats)
<1>1. PICK length \in Nat : length = Ticks(s, cursor.cycle)
  BY TicksType DEF Cursor
<1>2. PICK beats \in Int : beats = length \div Ppqn
  BY TriggersAssumption, QuotientType
<1>3. PICK starts, map : starts = {n.start - base : n \in notes} /\ map = [x \in 0 .. length |-> x]
  OBVIOUS
<1>4. Resolved(s, cursor, base, notes) = ResolveCycle(cursor.cycle, beats, {}, {}, starts, base, map)
  BY <1>1, <1>2, <1>3 DEF Resolved
<1> DEFINE At(x) == base + map[x]
           Remapped(b) == [b EXCEPT !.start = At(b.start), !.end = At(b.end),
                                    !.pulses = {At(x) : x \in b.pulses}]
           f == [n \in 0 .. beats - 1 |-> Remapped(ResolveBeat(n, {}, {}, starts))]
<1>5. Resolved(s, cursor, base, notes).beats = {f[n] : n \in 0 .. beats - 1}
  <2>1. ResolveCycle(cursor.cycle, beats, {}, {}, starts, base, map).beats
          = {Remapped(ResolveBeat(n, {}, {}, starts)) : n \in 0 .. beats - 1}
    BY DEF ResolveCycle
  <2>2. \A n \in 0 .. beats - 1 : f[n] = Remapped(ResolveBeat(n, {}, {}, starts))
    OBVIOUS
  <2> HIDE DEF f, Remapped
  <2>3. {f[n] : n \in 0 .. beats - 1} = {Remapped(ResolveBeat(n, {}, {}, starts)) : n \in 0 .. beats - 1}
    BY <2>2
  <2> QED
    BY <1>4, <2>1, <2>3
<1>6. IsFiniteSet(0 .. beats - 1)
  BY <1>2, FS_Interval
<1>7. DOMAIN f = 0 .. beats - 1 /\ f = [n \in 0 .. beats - 1 |-> f[n]]
  OBVIOUS
<1> HIDE DEF f
<1> QED
  BY <1>5, <1>6, <1>7, ImageFinite

\* What a take places is of the source and of the cursor's cycle.
LEMMA TakeIs ==
  ASSUME NEW p, NEW t, NEW n, NEW cursor, NEW base, NEW m \in Take(p, t, n, cursor, base)
  PROVE  m.track = t /\ m.source = n /\ m.cycle = cursor.cycle
BY SMTT(40) DEF Take

\* The cursor of a source.
LEMMA CursorIs ==
  ASSUME NEW track, ValidTrack(track), NEW r, TrackOK(track, r), NEW n \in 1 .. Len(r.cursors)
  PROVE  /\ Len(r.cursors) \in Nat \ {0} /\ DOMAIN r.cursors = 1 .. Len(r.cursors)
         /\ n \in DOMAIN track.sources /\ ValidSource(track.sources[n])
         /\ r.cursors[n] \in Cursor /\ r.cursors[n].cycle \in Nat
<1>1. r.cursors \in Seq(Cursor) /\ Len(r.cursors) = Len(track.sources)
  BY DEF TrackOK
<1>2. r.cursors[n] \in Cursor
  BY <1>1, ElementOfSeq
<1> QED
  BY <1>1, <1>2, LenProperties DEF ValidTrack, Cursor

\* A cycle of a cursor played.
LEMMA CursorPlayed ==
  ASSUME NEW c \in Seq(Cursor), NEW n \in 1 .. Len(c), NEW d \in Cursor, NEW e, e = [c EXCEPT ![n] = d]
  PROVE  /\ e \in Seq(Cursor) /\ Len(e) = Len(c) /\ e[n] = d
         /\ \A m \in 1 .. Len(c) : m # n => e[m] = c[m]
<1>1. Len(c) \in Nat /\ DOMAIN c = 1 .. Len(c) /\ \A m \in 1 .. Len(c) : c[m] \in Cursor
  BY LenProperties, ElementOfSeq
<1>2. e = [m \in 1 .. Len(c) |-> IF m = n THEN d ELSE c[m]]
  BY <1>1
<1> QED
  BY <1>1, <1>2

LEMMA RealizedIs ==
  ASSUME NEW c \in Cursor
  PROVE  Realized(c) \in Cursor /\ Realized(c).cycle = c.cycle + 1
<1>1. c.cycle + 1 \in Nat /\ c.pool + 1 \in Nat
  BY DEF Cursor
<1> QED
  BY <1>1 DEF Realized, Cursor

LEMMA ContinuousKeeps ==
  ASSUME NEW p, NEW t, ValidTrack(p.tracks[t]), Kind(p, t) = "continuous",
         NEW r, TrackOK(p.tracks[t], r), NEW s, s = ContinuousCycle(p, t, r)
  PROVE  Follows(p, t, r, s) /\ s.r.until > r.until
<1>1. PICK track, source, cursor :
         track = p.tracks[t] /\ source = track.sources[1] /\ cursor = r.cursors[1]
  OBVIOUS
<1>2. /\ 1 \in 1 .. Len(r.cursors) /\ 1 \in DOMAIN track.sources /\ ValidSource(source)
      /\ cursor \in Cursor /\ cursor.cycle \in Nat
  <2>1. 1 \in 1 .. Len(r.cursors)
    BY <1>1 DEF TrackOK, ValidTrack
  <2> QED
    BY <1>1, <2>1, CursorIs
<1>3. PICK notes : notes = Take(p, t, 1, cursor, r.until)
  OBVIOUS
<1>4. PICK length \in Nat \ {0} : length = Ticks(source, cursor.cycle)
  BY <1>2, TicksType
<1>5. PICK recent : recent = IF Followers(p, t) = {} THEN r.recent
                             ELSE r.recent \cup {Resolved(source, cursor, r.until, notes)}
  OBVIOUS
<1>6. IsFiniteSet(recent) /\ \A c \in recent : IsFiniteSet(c.beats)
  <2>1. IsFiniteSet(r.recent) /\ \A c \in r.recent : IsFiniteSet(c.beats)
    BY DEF TrackOK
  <2>2. PICK c : c = Resolved(source, cursor, r.until, notes) /\ IsFiniteSet(c.beats)
    BY <1>2, ResolvedFinite
  <2>3. IsFiniteSet(r.recent \cup {c})
    BY <2>1, FS_AddElement
  <2> QED
    BY <1>5, <2>1, <2>2, <2>3
<1>7. PICK played \in Cursor : played = Realized(cursor) /\ played.cycle = cursor.cycle + 1
  BY <1>2, RealizedIs
<1>8. PICK e : e = [r EXCEPT !.until = @ + length, !.cycle = @ + 1, !.cursors[1] = played, !.recent = recent]
  OBVIOUS
<1>9. s = [r |-> e, notes |-> IF track.silent THEN {} ELSE notes]
  BY <1>1, <1>3, <1>4, <1>5, <1>7, <1>8 DEF ContinuousCycle
<1>10. r = [n \in TrackNames |-> r[n]]
  BY DEF TrackOK
<1>11. /\ e = [n \in TrackNames |-> e[n]]
       /\ e.until = r.until + length /\ e.cursors = [r.cursors EXCEPT ![1] = played] /\ e.recent = recent
       /\ e.walk = r.walk /\ e.carry = r.carry /\ e.launches = r.launches /\ e.within = r.within
  BY <1>8, <1>10 DEF TrackNames
<1>12. r.until \in Nat /\ r.cursors \in Seq(Cursor)
  BY DEF TrackOK
<1>13. e.cursors \in Seq(Cursor) /\ Len(e.cursors) = Len(r.cursors) /\ e.cursors[1] = played
  <2>1. PICK c, d : c = r.cursors /\ d = e.cursors /\ d = [c EXCEPT ![1] = played]
    BY <1>11
  <2>2. c \in Seq(Cursor) /\ 1 \in 1 .. Len(c)
    BY <1>2, <1>12, <2>1
  <2>3. d \in Seq(Cursor) /\ Len(d) = Len(c) /\ d[1] = played
    BY <2>1, <2>2, CursorPlayed
  <2> QED
    BY <2>1, <2>3
<1>14. TrackOK(track, e)
  BY <1>1, <1>6, <1>11, <1>12, <1>13 DEF TrackOK, NextLocal
<1>15. Upcoming(p, t, r, 1) = cursor.cycle /\ Upcoming(p, t, e, 1) = cursor.cycle + 1
  BY <1>1, <1>7, <1>13 DEF Upcoming
<1>16. Members(p, t) = {1}
  <2>1. track.lane = None
    BY <1>1 DEF Kind
  <2> QED
    BY <1>1, <2>1 DEF Members, ValidTrack
<1>17. \A n \in notes : n.track = t /\ n.source = 1 /\ n.cycle = cursor.cycle
  BY <1>3, TakeIs
<1>18. s.r = e /\ s.notes \subseteq notes
  BY <1>9
<1> QED
  BY SMTT(30), <1>1, <1>2, <1>11, <1>12, <1>14, <1>15, <1>16, <1>17, <1>18 DEF Follows

\* The times a state was chosen.
ChosenMore(h, g, x, v) ==
  /\ Chosen(h, v) \in Nat
  /\ Chosen(g, v) = Chosen(h, v) + (IF x = v THEN 1 ELSE 0)

LEMMA ChosenOnceMore ==
  ASSUME NEW h, IsSequence(h), NEW x, NEW v
  PROVE  ChosenMore(h, Append(h, x), x, v)
<1> DEFINE g == Append(h, x)
<1>1. PICK S : h \in Seq(S) /\ x \in S
  <2>1. PICK T : h \in Seq(T)
    BY DEF IsSequence
  <2>2. Len(h) \in Nat /\ h = [n \in 1 .. Len(h) |-> h[n]] /\ \A n \in 1 .. Len(h) : h[n] \in T \cup {x}
    BY <2>1, LenProperties, ElementOfSeq
  <2>3. h \in Seq(T \cup {x})
    BY <2>2
  <2> QED
    BY <2>3
<1>2. PICK N \in Nat : N = Len(h) /\ DOMAIN h = 1 .. N
  BY <1>1, LenProperties
<1> HIDE DEF g
<1>3. DOMAIN g = 1 .. N + 1 /\ g[N + 1] = x /\ \A k \in 1 .. N : g[k] = h[k]
  BY <1>1, <1>2, AppendProperties, LenProperties DEF g
<1>4. PICK old : old = {k \in DOMAIN h : h[k] = v}
  OBVIOUS
<1>5. IsFiniteSet(old) /\ N + 1 \notin old
  <2>1. IsFiniteSet(1 .. N)
    BY FS_Interval
  <2>2. old \subseteq 1 .. N /\ N + 1 \notin 1 .. N
    BY <1>2, <1>4
  <2>3. IsFiniteSet(old)
    BY <2>1, <2>2, FS_Subset
  <2> QED
    BY <2>2, <2>3
<1>6. {k \in DOMAIN g : g[k] = v} = IF x = v THEN old \cup {N + 1} ELSE old
  <2>1. ASSUME NEW k
        PROVE  k \in DOMAIN g /\ g[k] = v <=> k \in old \/ (x = v /\ k = N + 1)
    BY <1>2, <1>3, <1>4
  <2> QED
    BY <2>1
<1>7. Cardinality(old) \in Nat /\ Cardinality(old \cup {N + 1}) = Cardinality(old) + 1
  BY <1>5, FS_AddElement, FS_CardinalityType
<1>8. Chosen(h, v) = Cardinality(old)
  BY <1>4 DEF Chosen
<1>9. Chosen(g, v) = Cardinality(IF x = v THEN old \cup {N + 1} ELSE old)
  BY <1>6 DEF Chosen
<1> QED
  BY <1>7, <1>8, <1>9 DEF ChosenMore, g

LEMMA LaneKeeps ==
  ASSUME NEW p, NEW t, ValidTrack(p.tracks[t]), Kind(p, t) = "lane",
         NEW r, TrackOK(p.tracks[t], r), NEW s, s = LaneCycle(p, t, r)
  PROVE  Follows(p, t, r, s) /\ s.r.until > r.until /\ (InStep(r) => InStep(s.r))
<1>1. PICK track, lane : track = p.tracks[t] /\ lane = track.lane /\ lane # None
  BY DEF Kind
<1>2. PICK k \in Nat \ {0} : k = Len(track.sources) /\ k = Len(r.cursors) /\ ValidSpec(lane, k)
  BY <1>1 DEF ValidTrack, TrackOK
<1>3. r.walk \in WalkState(k) /\ r.walk = Walk(lane, Len(r.walk.history))
  BY <1>1, <1>2 DEF TrackOK
<1>4. PICK choice : choice = Choose(lane, r.walk)
  OBVIOUS
<1>5. /\ choice.state \in States(k) /\ choice.walk \in WalkState(k)
      /\ choice.walk.history = Append(r.walk.history, choice.state)
  BY <1>2, <1>3, <1>4, ChooseIs
<1>6. PICK n \in 1 .. k : n = choice.state + 1 /\ n = Minimum(choice.state + 1, Len(r.cursors))
  BY <1>2, <1>5 DEF States, Minimum
<1>7. PICK source, cursor : source = track.sources[n] /\ cursor = r.cursors[n]
  OBVIOUS
<1>8. /\ n \in 1 .. Len(r.cursors) /\ n \in DOMAIN track.sources /\ ValidSource(source)
      /\ cursor \in Cursor /\ cursor.cycle \in Nat /\ DOMAIN r.cursors = 1 .. k
  <2>1. n \in 1 .. Len(r.cursors)
    BY <1>2, <1>6
  <2> QED
    BY <1>1, <1>2, <1>7, <2>1, CursorIs
<1>9. PICK notes : notes = Take(p, t, n, cursor, r.until)
  OBVIOUS
<1>10. PICK length \in Nat \ {0} : length = Ticks(source, cursor.cycle)
  BY <1>8, TicksType
<1>11. PICK played \in Cursor : played = Realized(cursor) /\ played.cycle = cursor.cycle + 1
  BY <1>8, RealizedIs
<1>12. PICK e : e = [r EXCEPT !.until = @ + length, !.cycle = @ + 1, !.cursors[n] = played, !.walk = choice.walk]
  OBVIOUS
<1>13. s = [r |-> e, notes |-> notes]
  BY <1>1, <1>4, <1>6, <1>7, <1>9, <1>10, <1>11, <1>12 DEF LaneCycle, LaneTurn
<1>14. r = [x \in TrackNames |-> r[x]]
  BY DEF TrackOK
<1>15. /\ e = [x \in TrackNames |-> e[x]]
       /\ e.until = r.until + length /\ e.cursors = [r.cursors EXCEPT ![n] = played] /\ e.recent = r.recent
       /\ e.walk = choice.walk /\ e.carry = r.carry /\ e.launches = r.launches /\ e.within = r.within
  BY <1>12, <1>14 DEF TrackNames
<1>16. r.until \in Nat /\ r.cursors \in Seq(Cursor)
  BY DEF TrackOK
<1>17. /\ e.cursors \in Seq(Cursor) /\ Len(e.cursors) = Len(r.cursors) /\ e.cursors[n] = played
       /\ \A m \in 1 .. k : m # n => e.cursors[m] = r.cursors[m]
  <2>1. PICK c, d : c = r.cursors /\ d = e.cursors /\ d = [c EXCEPT ![n] = played]
    BY <1>15
  <2>2. c \in Seq(Cursor) /\ n \in 1 .. Len(c) /\ Len(c) = k
    BY <1>2, <1>8, <1>16, <2>1
  <2>3. /\ d \in Seq(Cursor) /\ Len(d) = Len(c) /\ d[n] = played
        /\ \A m \in 1 .. Len(c) : m # n => d[m] = c[m]
    BY <2>1, <2>2, CursorPlayed
  <2> QED
    BY <2>1, <2>2, <2>3
<1>18. PICK h, g : h = r.walk.history /\ g = e.walk.history
  OBVIOUS
<1>19. h \in Seq(States(k)) /\ g = Append(h, choice.state)
  BY <1>3, <1>5, <1>15, <1>18 DEF WalkState
<1>20. e.walk \in WalkState(k) /\ e.walk = Walk(lane, Len(e.walk.history))
  <2>1. Len(h) \in Nat /\ Len(g) = Len(h) + 1
    BY <1>5, <1>19, AppendProperties, LenProperties
  <2>2. Walk(lane, Len(h) + 1) = Choose(lane, Walk(lane, Len(h))).walk
    BY <2>1, WalkNext
  <2> QED
    BY <1>3, <1>4, <1>5, <1>15, <1>18, <2>1, <2>2
<1>21. TrackOK(track, e)
  <2>1. e.until \in Nat /\ Len(e.cursors) = Len(track.sources)
    BY <1>2, <1>15, <1>16, <1>17
  <2>2. /\ IsFiniteSet(r.recent) /\ \A c \in r.recent : IsFiniteSet(c.beats)
        /\ Counting(r.carry) /\ NextLocal(r) \in Nat /\ r.within \in Nat
        /\ Numbered(r.launches, NextLocal(r), r.carry.nextLocal)
        /\ r.within <= IF r.launches = <<>> THEN 0 ELSE Head(r.launches).passes
    BY <1>1 DEF TrackOK
  <2>3. NextLocal(e) = NextLocal(r)
    BY <1>15 DEF NextLocal
  <2> QED
    BY <1>1, <1>2, <1>15, <1>17, <1>20, <2>1, <2>2, <2>3 DEF TrackOK
<1>22. ASSUME NEW m \in 1 .. k
       PROVE  /\ r.cursors[m].cycle \in Nat
              /\ e.cursors[m].cycle = r.cursors[m].cycle + (IF m = n THEN 1 ELSE 0)
  <2>1. m \in 1 .. Len(r.cursors)
    BY <1>2
  <2>2. r.cursors[m].cycle \in Nat
    BY <1>1, <2>1, CursorIs
  <2> QED
    BY <1>7, <1>11, <1>17, <2>2
<1>23. ASSUME NEW m \in Members(p, t)
       PROVE  /\ Upcoming(p, t, r, m) \in Nat
              /\ Upcoming(p, t, r, m) <= Upcoming(p, t, e, m)
              /\ m = n => /\ Upcoming(p, t, r, m) = cursor.cycle
                          /\ Upcoming(p, t, e, m) = cursor.cycle + 1
  <2>1. m \in 1 .. k
    BY <1>1, <1>2 DEF ValidTrack, Members
  <2>2. Upcoming(p, t, r, m) = r.cursors[m].cycle /\ Upcoming(p, t, e, m) = e.cursors[m].cycle
    BY DEF Upcoming
  <2> QED
    BY <1>7, <1>22, <2>1, <2>2
<1>24. n \in Members(p, t)
  BY <1>1, <1>8 DEF Members
<1>25. \A x \in notes : x.track = t /\ x.source = n /\ x.cycle = cursor.cycle
  BY <1>9, TakeIs
<1>26. s.r = e /\ s.notes = notes
  BY <1>13
<1>27. Follows(p, t, r, s) /\ s.r.until > r.until
  <2>1. \A x \in notes : /\ x.track = t /\ x.source \in Members(p, t) /\ x.cycle \in Nat
                         /\ Upcoming(p, t, r, x.source) <= x.cycle
                         /\ x.cycle < Upcoming(p, t, e, x.source)
    BY <1>8, <1>23, <1>24, <1>25
  <2>2. \A m \in Members(p, t) : Upcoming(p, t, r, m) <= Upcoming(p, t, e, m)
    BY <1>23
  <2>3. TrackOK(p.tracks[t], e) /\ e.until >= r.until /\ e.until > r.until
    BY <1>1, <1>15, <1>16, <1>21
  <2> QED
    BY <1>26, <2>1, <2>2, <2>3 DEF Follows
<1>28. ASSUME InStep(r)
       PROVE  InStep(e)
  <2>1. DOMAIN e.cursors = 1 .. k
    BY <1>2, <1>17, LenProperties
  <2>2. ASSUME NEW m \in 1 .. k
        PROVE  e.cursors[m].cycle = Chosen(g, m - 1)
    <3>1. PICK v : v = m - 1
      OBVIOUS
    <3>2. r.cursors[m].cycle = Chosen(h, v)
      BY <1>8, <1>18, <1>28, <3>1 DEF InStep
    <3>3. Chosen(g, v) = Chosen(h, v) + (IF choice.state = v THEN 1 ELSE 0)
      <4>1. PICK x : x = choice.state
        OBVIOUS
      <4>2. IsSequence(h)
        BY <1>19 DEF IsSequence
      <4>3. Chosen(g, v) = Chosen(h, v) + (IF x = v THEN 1 ELSE 0)
        <5>1. g = Append(h, x)
          BY <1>19, <4>1
        <5>2. ChosenMore(h, Append(h, x), x, v)
          BY <4>2, ChosenOnceMore
        <5> QED
          BY <4>2, <5>1, <5>2 DEF ChosenMore
      <4> QED
        BY <4>1, <4>3
    <3>4. choice.state = v <=> m = n
      BY <1>5, <1>6, <3>1 DEF States
    <3> QED
      BY <1>22, <3>1, <3>2, <3>3, <3>4
  <2> QED
    BY <1>18, <2>1, <2>2 DEF InStep
<1> QED
  BY <1>26, <1>27, <1>28

Unplayed(r) == [r |-> r, notes |-> {}]

\* The loop of a pass, iteration by iteration.
LEMMA TurnsAre ==
  ASSUME NEW p, NEW t, NEW begin, NEW target, NEW count \in Nat
  PROVE  \E f : /\ f[0] = Unplayed(begin)
                /\ \A n \in 1 .. count : f[n] = Iterate(p, t, begin.until, target, f[n - 1])
                /\ f[count] = TakeTurns(p, t, begin, target, count)
<1> DEFINE Iterates(N, f) ==
             f = [n \in 0 .. N |-> IF n = 0 THEN Unplayed(begin) ELSE Iterate(p, t, begin.until, target, f[n - 1])]
           S == {N \in Nat : \E f : Iterates(N, f)}
<1>1. 0 \in S
  <2>1. Iterates(0, [n \in 0 .. 0 |-> Unplayed(begin)])
    OBVIOUS
  <2> QED
    BY <2>1
<1>2. ASSUME NEW N \in Nat, N \in S
      PROVE  N + 1 \in S
  <2>1. PICK f : Iterates(N, f)
    BY <1>2
  <2> DEFINE h == [n \in 0 .. N + 1 |-> IF n = N + 1 THEN Iterate(p, t, begin.until, target, f[N]) ELSE f[n]]
  <2>2. \A n \in 0 .. N : n \in 0 .. N + 1 /\ n # N + 1 /\ h[n] = f[n]
    OBVIOUS
  <2>3. h[N + 1] = Iterate(p, t, begin.until, target, f[N])
    OBVIOUS
  <2>4. ASSUME NEW n \in 0 .. N + 1
        PROVE  h[n] = IF n = 0 THEN Unplayed(begin) ELSE Iterate(p, t, begin.until, target, h[n - 1])
    <3>1. CASE n = N + 1
      <4>1. n # 0 /\ n - 1 = N /\ h[N] = f[N]
        BY <2>2, <3>1
      <4> HIDE DEF h
      <4> QED
        BY <2>3, <3>1, <4>1
    <3>2. CASE n \in 0 .. N /\ n # 0
      <4>1. n - 1 \in 0 .. N
        BY <3>2
      <4>2. f[n] = Iterate(p, t, begin.until, target, f[n - 1])
        BY <2>1, <3>2
      <4> HIDE DEF h
      <4> QED
        BY <2>2, <3>2, <4>1, <4>2
    <3>3. CASE n = 0
      <4>1. f[0] = Unplayed(begin) /\ 0 \in 0 .. N
        BY <2>1
      <4> HIDE DEF h
      <4> QED
        BY <2>2, <3>3, <4>1
    <3> QED
      BY <3>1, <3>2, <3>3
  <2>5. Iterates(N + 1, h)
    <3>1. h = [n \in 0 .. N + 1 |-> h[n]]
      OBVIOUS
    <3> HIDE DEF h
    <3> QED
      BY <2>4, <3>1
  <2> HIDE DEF h
  <2> QED
    BY <2>5
<1>3. count \in S
  <2> HIDE DEF S
  <2> QED
    BY <1>1, <1>2, Inductive
<1> DEFINE state[n \in 0 .. count] == IF n = 0 THEN Unplayed(begin) ELSE Iterate(p, t, begin.until, target, state[n - 1])
<1>4. state = [n \in 0 .. count |-> IF n = 0 THEN Unplayed(begin) ELSE Iterate(p, t, begin.until, target, state[n - 1])]
  BY <1>3
<1>5. state[count] = TakeTurns(p, t, begin, target, count)
  BY DEF TakeTurns, Unplayed
<1> HIDE DEF state
<1>6. state[0] = Unplayed(begin) /\ \A n \in 1 .. count : state[n] = Iterate(p, t, begin.until, target, state[n - 1])
  BY <1>4
<1> QED
  BY <1>5, <1>6

\* A follower has a trigger, and a track to follow.
LEMMA TriggeredIs ==
  ASSUME NEW p, ValidProject(p), NEW t \in DOMAIN p.tracks, Kind(p, t) = "triggered"
  PROVE  /\ p.tracks[t].lane = None
         /\ WellFormed(TriggerOf(p.tracks[t])) /\ TriggerOf(p.tracks[t]).passes \in Nat
         /\ SourceOf(p, t) \in DOMAIN p.tracks
<1>1. PICK id : id = p.tracks[t].id
  OBVIOUS
<1>2. ValidTrack(p.tracks[t]) /\ \A u \in DOMAIN p.tracks : p.tracks[u].id = id => u = t
  BY <1>1 DEF ValidProject
<1>3. IndexOf(p, id) = t
  BY <1>1, <1>2 DEF IndexOf
<1>4. PICK g : g = RequestedGraph(p)
  OBVIOUS
<1>5. id \in Triggered(g)
  BY <1>1, <1>4 DEF Kind
<1>6. id \in DOMAIN g /\ g[id] # None /\ g[id] \in DOMAIN g
  BY <1>5 DEF Triggered, Possible
<1>7. DOMAIN g = Ids(p)
  BY <1>4 DEF RequestedGraph
<1>8. g[id] = IF p.tracks[t].trigger = None \/ p.tracks[t].lane # None THEN None
              ELSE p.tracks[t].trigger.source
  BY <1>3, <1>4, <1>6, <1>7 DEF RequestedGraph
<1>9. /\ p.tracks[t].lane = None /\ p.tracks[t].trigger # None
      /\ p.tracks[t].trigger.source \in Ids(p)
  BY <1>6, <1>7, <1>8
<1>10. WellFormed(TriggerOf(p.tracks[t])) /\ TriggerOf(p.tracks[t]).passes \in Nat
  BY <1>2, <1>9 DEF ValidTrack, WellFormed
<1>11. SourceOf(p, t) \in DOMAIN p.tracks
  BY <1>9 DEF SourceOf, Ids, IndexOf
<1> QED
  BY <1>9, <1>10, <1>11

\* The numbers begin where they were said to.
LEMMA NumberedFrom ==
  ASSUME NEW l, NEW from \in Nat, NEW to \in Nat, Numbered(l, from, to)
  PROVE  /\ (IF l = <<>> THEN to ELSE Head(l).first) = from
         /\ l # <<>> => Head(l).passes \in Nat
<1>1. CASE l = <<>>
  BY <1>1, EmptySeq DEF Numbered
<1>2. CASE l # <<>>
  BY <1>2, NumberedTail
<1> QED
  BY <1>1, <1>2

\* A follower plays its launches' cycles in turn.
LEMMA LaunchKeeps ==
  ASSUME NEW p, NEW t, ValidTrack(p.tracks[t]), p.tracks[t].lane = None, Kind(p, t) = "triggered",
         NEW r, TrackOK(p.tracks[t], r), r.launches # <<>>, NEW s, s = LaunchTurn(p, t, r)
  PROVE  Follows(p, t, r, s)
<1>1. PICK track, source : track = p.tracks[t] /\ source = track.sources[1]
  OBVIOUS
<1>2. PICK l : l = r.launches /\ l # <<>>
  OBVIOUS
<1>3. PICK from \in Nat, to \in Nat : from = Head(l).first /\ to = r.carry.nextLocal /\ Numbered(l, from, to)
  BY <1>1, <1>2 DEF TrackOK, NextLocal, Counting
<1>4. PICK passes \in Nat : passes = Head(l).passes
  BY <1>2, <1>3, NumberedTail
<1>5. r.within \in Nat /\ r.within <= passes /\ NextLocal(r) = from
  BY <1>2, <1>3, <1>4 DEF TrackOK, NextLocal
<1>6. r = [n \in TrackNames |-> r[n]]
  BY DEF TrackOK
<1>7. CASE LaunchOver(r)
  <2>1. PICK e : e = [r EXCEPT !.launches = Tail(@), !.within = 0]
    OBVIOUS
  <2>2. s = [r |-> e, notes |-> {}]
    BY <1>7, <2>1 DEF LaunchTurn
  <2>3. /\ e = [n \in TrackNames |-> e[n]]
        /\ e.until = r.until /\ e.cursors = r.cursors /\ e.recent = r.recent
        /\ e.walk = r.walk /\ e.carry = r.carry /\ e.within = 0
    BY <1>6, <2>1 DEF TrackNames
  <2>4. e.launches = Tail(l)
    BY <1>2, <1>6, <2>1 DEF TrackNames
  <2>5. PICK m : m = Tail(l) /\ Numbered(m, from + passes, to)
    BY ZenonT(60), <1>2, <1>3, <1>4, NumberedTail
  <2>6. (IF m = <<>> THEN to ELSE Head(m).first) = from + passes /\ (m # <<>> => Head(m).passes \in Nat)
    <3>1. from + passes \in Nat
      OBVIOUS
    <3> QED
      BY <2>5, <3>1, NumberedFrom
  <2>7. NextLocal(e) = from + passes
    BY <1>3, <2>3, <2>4, <2>5, <2>6 DEF NextLocal
  <2>8. TrackOK(track, e)
    <3>1. /\ r.until \in Nat
          /\ r.cursors \in Seq(Cursor) /\ Len(r.cursors) = Len(track.sources)
          /\ IsFiniteSet(r.recent) /\ \A c \in r.recent : IsFiniteSet(c.beats)
          /\ Counting(r.carry) /\ track.lane = None
      BY <1>1 DEF TrackOK
    <3>2. e.launches = m /\ e.carry.nextLocal = to
      BY <1>3, <2>3, <2>4, <2>5
    <3>3. e.within \in Nat /\ e.within <= IF e.launches = <<>> THEN 0 ELSE Head(e.launches).passes
      <4>1. m # <<>> => Head(m).passes \in Nat
        BY <2>6
      <4> QED
        BY <2>3, <3>2, <4>1
    <3>4. Numbered(e.launches, NextLocal(e), e.carry.nextLocal) /\ NextLocal(e) \in Nat
      <4>1. Numbered(m, from + passes, to) /\ from + passes \in Nat
        BY <2>5
      <4> QED
        BY <2>7, <3>2, <4>1
    <3> QED
      BY <2>3, <3>1, <3>3, <3>4 DEF TrackOK
  <2>9. \A n : Upcoming(p, t, r, n) = from + r.within /\ Upcoming(p, t, e, n) = from + passes
    BY <1>5, <2>3, <2>7 DEF Upcoming
  <2>10. from + r.within <= from + passes /\ r.until >= r.until
    BY <1>5 DEF TrackOK
  <2>11. s.r = e /\ s.notes = {}
    BY <2>2
  <2> QED
    BY <1>1, <2>3, <2>8, <2>9, <2>10, <2>11 DEF Follows
<1>8. CASE ~LaunchOver(r)
  <2>1. r.within + 1 <= passes
    BY <1>2, <1>4, <1>5, <1>8 DEF LaunchOver
  <2>2. PICK own \in Nat : own = from + r.within
    BY <1>5
  <2>3. PICK cursor : cursor = [cycle |-> own, pool |-> r.cursors[1].pool]
    OBVIOUS
  <2>4. 1 \in 1 .. Len(r.cursors) /\ 1 \in DOMAIN track.sources /\ r.cursors[1] \in Cursor
    <3>1. 1 \in 1 .. Len(r.cursors)
      BY <1>1 DEF TrackOK, ValidTrack
    <3> QED
      BY <1>1, <3>1, CursorIs
  <2>5. cursor \in Cursor /\ cursor.cycle = own
    BY <2>2, <2>3, <2>4 DEF Cursor
  <2>6. PICK played \in Cursor : played = Realized(cursor)
    BY <2>5, RealizedIs
  <2>7. PICK at, notes : at = LaunchAt(r) + Ticks(source, own) /\ notes = Take(p, t, 1, cursor, LaunchAt(r))
    OBVIOUS
  <2>8. PICK e : e = [r EXCEPT !.within = @ + 1, !.at = at, !.cursors[1] = played]
    OBVIOUS
  <2>9. s = [r |-> e, notes |-> notes]
    BY <1>1, <1>2, <1>3, <1>8, <2>2, <2>3, <2>6, <2>7, <2>8 DEF LaunchTurn
  <2>10. /\ e = [n \in TrackNames |-> e[n]]
         /\ e.until = r.until /\ e.cursors = [r.cursors EXCEPT ![1] = played] /\ e.recent = r.recent
         /\ e.walk = r.walk /\ e.carry = r.carry /\ e.launches = r.launches /\ e.within = r.within + 1
    BY <1>6, <2>8 DEF TrackNames
  <2>11. e.cursors \in Seq(Cursor) /\ Len(e.cursors) = Len(r.cursors)
    <3>1. PICK c, d : c = r.cursors /\ d = e.cursors /\ d = [c EXCEPT ![1] = played]
      BY <2>10
    <3>2. c \in Seq(Cursor) /\ 1 \in 1 .. Len(c)
      BY <2>4, <3>1 DEF TrackOK
    <3>3. d \in Seq(Cursor) /\ Len(d) = Len(c)
      BY <3>1, <3>2, CursorPlayed
    <3> QED
      BY <3>1, <3>3
  <2>12. NextLocal(e) = from
    BY <1>2, <1>3, <2>10 DEF NextLocal
  <2>13. TrackOK(track, e)
    <3>1. /\ r.until \in Nat /\ Len(r.cursors) = Len(track.sources)
          /\ IsFiniteSet(r.recent) /\ \A c \in r.recent : IsFiniteSet(c.beats)
          /\ Counting(r.carry) /\ track.lane = None
      BY <1>1 DEF TrackOK
    <3>2. e.within \in Nat /\ e.within <= IF e.launches = <<>> THEN 0 ELSE Head(e.launches).passes
      BY <1>2, <1>4, <1>5, <2>1, <2>10
    <3>3. Numbered(e.launches, NextLocal(e), e.carry.nextLocal) /\ NextLocal(e) \in Nat
      BY <1>2, <1>3, <2>10, <2>12
    <3> QED
      BY <2>10, <2>11, <3>1, <3>2, <3>3 DEF TrackOK
  <2>14. \A n : Upcoming(p, t, r, n) = own /\ Upcoming(p, t, e, n) = own + 1
    BY <1>5, <2>2, <2>10, <2>12 DEF Upcoming
  <2>15. 1 \in Members(p, t)
    BY <1>1, <2>4 DEF Members
  <2>16. \A n \in notes : n.track = t /\ n.source = 1 /\ n.cycle = own
    BY <2>5, <2>7, TakeIs
  <2>17. s.r = e /\ s.notes = notes
    BY <2>9
  <2>18. r.until >= r.until
    BY DEF TrackOK
  <2> QED
    BY <1>1, <2>2, <2>10, <2>13, <2>14, <2>15, <2>16, <2>17, <2>18 DEF Follows
<1> QED
  BY <1>7, <1>8

\* Nothing played.
LEMMA UnplayedFollows ==
  ASSUME NEW p, NEW t, ValidTrack(p.tracks[t]), NEW r, TrackOK(p.tracks[t], r)
  PROVE  Follows(p, t, r, Unplayed(r))
<1>1. Unplayed(r).r = r /\ Unplayed(r).notes = {}
  BY DEF Unplayed
<1>2. \A n \in Members(p, t) : Upcoming(p, t, r, n) <= Upcoming(p, t, r, n)
  BY UpcomingType
<1>3. r.until >= r.until
  BY DEF TrackOK
<1> QED
  BY <1>1, <1>2, <1>3 DEF Follows

\* Launches that join go on with the numbers.
LEMMA LaunchedKeeps ==
  ASSUME NEW p, NEW t, ValidTrack(p.tracks[t]), p.tracks[t].lane = None, Kind(p, t) = "triggered",
         TriggerOf(p.tracks[t]).passes \in Nat,
         NEW r, TrackOK(p.tracks[t], r),
         NEW cycles, IsFiniteSet(cycles), \A c \in cycles : IsFiniteSet(c.beats),
         NEW target, NEW s, s = Launched(p, t, r, cycles, target)
  PROVE  Follows(p, t, r, Unplayed(s)) /\ s.until = r.until
<1>1. CASE r.until >= target
  <2>1. s = r
    BY <1>1 DEF Launched
  <2> QED
    BY <2>1, UnplayedFollows
<1>2. CASE ~(r.until >= target)
  <2>1. PICK track, l : track = p.tracks[t] /\ l = r.launches
    OBVIOUS
  <2>2. PICK from \in Nat, mid \in Nat : from = NextLocal(r) /\ mid = r.carry.nextLocal /\ Numbered(l, from, mid)
    BY <2>1 DEF TrackOK, Counting
  <2>3. PICK window : window = [start |-> r.until, end |-> target]
    OBVIOUS
  <2>4. PICK cfg : cfg = TriggerOf(p.tracks[t]) /\ cfg.passes \in Nat
    OBVIOUS
  <2>5. PICK out : out = Compile(cfg, cycles, window, r.carry)
    OBVIOUS
  <2>6. Counting(out.carry) /\ Numbered(out.launches, mid, out.carry.nextLocal)
    <3>1. PICK carry : carry = r.carry /\ Counting(carry)
      BY DEF TrackOK
    <3>2. Counting(out.carry) /\ Numbered(out.launches, carry.nextLocal, out.carry.nextLocal)
      BY <2>4, <2>5, <3>1, CompileCounts
    <3> QED
      BY <2>2, <3>1, <3>2
  <2>7. PICK m : m = l \o out.launches
    OBVIOUS
  <2>8. PICK to \in Nat : to = out.carry.nextLocal
    BY <2>6 DEF Counting
  <2>9. s = [r EXCEPT !.carry = out.carry, !.launches = m]
    BY <1>2, <2>1, <2>3, <2>4, <2>5, <2>7 DEF Launched
  <2>10. Numbered(m, from, to)
    BY <2>2, <2>6, <2>7, <2>8, NumberedConcat
  <2>11. r = [n \in TrackNames |-> r[n]]
    BY DEF TrackOK
  <2>12. /\ s = [n \in TrackNames |-> s[n]]
         /\ s.until = r.until /\ s.cursors = r.cursors /\ s.recent = r.recent
         /\ s.walk = r.walk /\ s.carry = out.carry /\ s.launches = m /\ s.within = r.within
    BY <2>9, <2>11 DEF TrackNames
  <2>13. (IF m = <<>> THEN to ELSE Head(m).first) = from /\ (m # <<>> => Head(m).passes \in Nat)
    BY <2>10, NumberedFrom
  <2>14. NextLocal(s) = from
    BY <2>8, <2>12, <2>13 DEF NextLocal
  <2>15. s.within \in Nat /\ s.within <= IF m = <<>> THEN 0 ELSE Head(m).passes
    <3>1. r.within \in Nat /\ r.within <= IF l = <<>> THEN 0 ELSE Head(l).passes
      BY <2>1 DEF TrackOK
    <3>2. CASE l = <<>>
      <4>1. s.within = 0
        BY <2>12, <3>1, <3>2
      <4> QED
        BY <2>13, <4>1
    <3>3. CASE l # <<>>
      <4>1. PICK S, T : l \in Seq(S) /\ out.launches \in Seq(T)
        BY <2>2, <2>6 DEF Numbered, IsSequence
      <4>2. Head(m) = Head(l) /\ m # <<>>
        BY <2>7, <3>3, <4>1
      <4> QED
        BY <2>12, <3>1, <3>3, <4>2
    <3> QED
      BY <3>2, <3>3
  <2>16. TrackOK(track, s)
    <3>1. /\ r.until \in Nat
          /\ r.cursors \in Seq(Cursor) /\ Len(r.cursors) = Len(track.sources)
          /\ IsFiniteSet(r.recent) /\ \A c \in r.recent : IsFiniteSet(c.beats)
          /\ track.lane = None
      BY <2>1 DEF TrackOK
    <3>2. Numbered(s.launches, NextLocal(s), s.carry.nextLocal) /\ NextLocal(s) \in Nat /\ Counting(s.carry)
      BY <2>6, <2>8, <2>10, <2>12, <2>14
    <3> QED
      BY <2>12, <2>15, <3>1, <3>2 DEF TrackOK
  <2>17. \A n : Upcoming(p, t, r, n) = from + r.within /\ Upcoming(p, t, s, n) = from + r.within
    BY <2>2, <2>12, <2>14 DEF Upcoming
  <2>18. r.until \in Nat /\ from + r.within \in Nat
    BY <2>2 DEF TrackOK
  <2>19. Unplayed(s).r = s /\ Unplayed(s).notes = {}
    BY DEF Unplayed
  <2> QED
    BY <2>1, <2>12, <2>16, <2>17, <2>18, <2>19 DEF Follows
<1> QED
  BY <1>1, <1>2

\* A pass takes a number of turns.
LEMMA EnoughType ==
  ASSUME NEW kind, NEW track, NEW r, TrackOK(track, r), NEW target \in Nat
  PROVE  /\ Enough(kind, r, target) \in Nat
         /\ kind # "triggered" => r.until + Enough(kind, r, target) >= target
<1>1. CASE kind = "triggered"
  <2>1. PICK l : l = r.launches
    OBVIOUS
  <2>2. Numbered(l, NextLocal(r), r.carry.nextLocal)
    BY <2>1 DEF TrackOK
  <2>3. PICK N \in Nat : N = Len(l)
    BY <2>2, LenProperties DEF Numbered, IsSequence
  <2>4. \A n \in 1 .. N : l[n].passes \in Nat
    BY <2>2, <2>3 DEF Numbered
  <2> DEFINE g == [n \in 1 .. N |-> l[n].passes + 1]
             turns[n \in 0 .. Len(l)] == IF n = 0 THEN 0 ELSE turns[n - 1] + (l[n].passes + 1)
  <2>5. \A n \in 1 .. N : g[n] \in Nat
    BY <2>4
  <2>6. PICK f : /\ f = [n \in 0 .. N |-> IF n = 0 THEN 0 ELSE f[n - 1] + g[n]]
                 /\ \A n \in 0 .. N : f[n] \in Nat
    <3> HIDE DEF g
    <3> QED
      BY <2>5, SumDefined
  <2>7. f = [n \in 0 .. Len(l) |-> IF n = 0 THEN 0 ELSE f[n - 1] + (l[n].passes + 1)]
    <3>1. \A n \in 0 .. N : n # 0 => n \in 1 .. N
      OBVIOUS
    <3> QED
      BY <2>3, <2>6, <3>1
  <2>8. turns = [n \in 0 .. Len(l) |-> IF n = 0 THEN 0 ELSE turns[n - 1] + (l[n].passes + 1)]
    <3> HIDE DEF g
    <3> QED
      BY <2>7
  <2> HIDE DEF turns
  <2>9. \A n \in 0 .. N : turns[n] = IF n = 0 THEN 0 ELSE turns[n - 1] + g[n]
    <3>1. \A n \in 0 .. N : n # 0 => n \in 1 .. N
      OBVIOUS
    <3> QED
      BY <2>3, <2>8, <3>1
  <2>10. \A n \in 0 .. N : turns[n] \in Nat
    <3> HIDE DEF g
    <3> QED
      BY <2>5, <2>9, SumType
  <2>11. turns[Len(l)] \in Nat
    BY <2>3, <2>10
  <2>12. Enough(kind, r, target) = turns[Len(l)]
    BY <1>1, <2>1 DEF Enough, turns
  <2> QED
    BY <1>1, <2>11, <2>12
<1>2. CASE kind # "triggered"
  <2>1. r.until \in Nat
    BY DEF TrackOK
  <2> QED
    BY <1>2, <2>1 DEF Enough, Monus
<1> QED
  BY <1>1, <1>2

\* What the turns of a pass keep, and how far they bring a track that plays.
Brought(p, t, begin, target, count, s) ==
  /\ Follows(p, t, begin, s)
  /\ Kind(p, t) = "lane" => (InStep(begin) => InStep(s.r))
  /\ Kind(p, t) # "triggered" => s.r.until >= target \/ s.r.until >= begin.until + count

LEMMA IterateKeeps ==
  ASSUME NEW p, ValidProject(p), NEW t \in DOMAIN p.tracks,
         NEW begin, TrackOK(p.tracks[t], begin), NEW target \in Nat, NEW count \in Nat,
         NEW s, Brought(p, t, begin, target, count, s),
         NEW e, e = Iterate(p, t, begin.until, target, s)
  PROVE  Brought(p, t, begin, target, count + 1, e)
<1>1. ValidTrack(p.tracks[t])
  BY DEF ValidProject
<1>2. Follows(p, t, begin, s) /\ TrackOK(p.tracks[t], s.r) /\ s.r.until \in Nat /\ begin.until \in Nat
  BY DEF Brought, Follows, TrackOK
<1>3. CASE ~HasTurn(Kind(p, t), s.r, begin.until, target)
  <2>1. e = s
    BY <1>3 DEF Iterate
  <2>2. Kind(p, t) # "triggered" => s.r.until >= target
    BY <1>2, <1>3 DEF HasTurn
  <2> QED
    BY <2>1, <2>2 DEF Brought
<1>4. CASE HasTurn(Kind(p, t), s.r, begin.until, target)
  <2>1. PICK u : u = Turn(p, t, s.r)
    OBVIOUS
  <2>2. e = [r |-> u.r, notes |-> s.notes \cup u.notes]
    BY <1>4, <2>1 DEF Iterate
  <2>3. /\ Follows(p, t, s.r, u)
        /\ Kind(p, t) = "lane" => (InStep(s.r) => InStep(u.r))
        /\ Kind(p, t) # "triggered" => u.r.until > s.r.until
    <3>1. CASE Kind(p, t) = "triggered"
      <4>1. u = LaunchTurn(p, t, s.r)
        BY <2>1, <3>1 DEF Turn
      <4>2. s.r.launches # <<>>
        BY <1>4, <3>1 DEF HasTurn
      <4>3. p.tracks[t].lane = None
        BY <3>1, TriggeredIs
      <4> QED
        BY <1>1, <1>2, <3>1, <4>1, <4>2, <4>3, LaunchKeeps
    <3>2. CASE Kind(p, t) = "lane"
      <4>1. u = LaneCycle(p, t, s.r)
        BY <2>1, <3>2 DEF Turn
      <4> QED
        BY <1>1, <1>2, <3>2, <4>1, LaneKeeps
    <3>3. CASE Kind(p, t) = "continuous"
      <4>1. u = ContinuousCycle(p, t, s.r)
        BY <2>1, <3>3 DEF Turn
      <4> QED
        BY <1>1, <1>2, <3>3, <4>1, ContinuousKeeps
    <3> QED
      BY <3>1, <3>2, <3>3, KindIs
  <2>4. e.r = u.r /\ e.notes = s.notes \cup u.notes
    BY <2>2
  <2>5. Follows(p, t, begin, e)
    BY <1>1, <1>2, <2>3, <2>4, FollowsOn
  <2>6. e.r.until \in Nat
    BY <2>5 DEF Follows, TrackOK
  <2>7. Kind(p, t) # "triggered" => e.r.until >= target \/ e.r.until >= begin.until + (count + 1)
    BY <1>2, <2>3, <2>4, <2>6 DEF Brought
  <2>8. Kind(p, t) = "lane" => (InStep(begin) => InStep(e.r))
    BY <2>3, <2>4 DEF Brought
  <2> QED
    BY <2>5, <2>7, <2>8 DEF Brought
<1> QED
  BY <1>3, <1>4

LEMMA TurnsKeep ==
  ASSUME NEW p, ValidProject(p), NEW t \in DOMAIN p.tracks,
         NEW begin, TrackOK(p.tracks[t], begin), NEW target \in Nat, NEW count \in Nat
  PROVE  Brought(p, t, begin, target, count, TakeTurns(p, t, begin, target, count))
<1>1. PICK f : /\ f[0] = Unplayed(begin)
               /\ \A n \in 1 .. count : f[n] = Iterate(p, t, begin.until, target, f[n - 1])
               /\ f[count] = TakeTurns(p, t, begin, target, count)
  BY TurnsAre
<1>2. ValidTrack(p.tracks[t])
  BY DEF ValidProject
<1> DEFINE S == {n \in Nat : n <= count => Brought(p, t, begin, target, n, f[n])}
<1>3. 0 \in S
  <2>1. PICK s : s = f[0] /\ s = Unplayed(begin) /\ s.r = begin
    BY <1>1 DEF Unplayed
  <2>2. Follows(p, t, begin, s)
    BY <1>2, <2>1, UnplayedFollows
  <2>3. begin.until >= begin.until + 0
    BY DEF TrackOK
  <2>4. Brought(p, t, begin, target, 0, s)
    BY <2>1, <2>2, <2>3 DEF Brought
  <2> QED
    BY <2>1, <2>4
<1>4. ASSUME NEW n \in Nat, n \in S
      PROVE  n + 1 \in S
  <2> SUFFICES ASSUME n + 1 <= count
               PROVE  Brought(p, t, begin, target, n + 1, f[n + 1])
    OBVIOUS
  <2>1. n + 1 \in 1 .. count /\ (n + 1) - 1 = n
    OBVIOUS
  <2>2. f[n + 1] = Iterate(p, t, begin.until, target, f[n])
    BY <1>1, <2>1
  <2>3. Brought(p, t, begin, target, n, f[n])
    BY <1>4
  <2> QED
    BY <2>2, <2>3, IterateKeeps
<1>5. count \in S
  <2> HIDE DEF S
  <2> QED
    BY <1>3, <1>4, Inductive
<1> QED
  BY <1>1, <1>5

\* What a track plays next is read of its cursors and of its launches.
SameNext(r, s) ==
  /\ s.cursors = r.cursors /\ s.launches = r.launches /\ s.carry = r.carry /\ s.within = r.within

LEMMA FollowsSame ==
  ASSUME NEW p, NEW t, NEW r, TrackOK(p.tracks[t], r), NEW s, Follows(p, t, r, s),
         NEW e, TrackOK(p.tracks[t], e.r), e.r.until >= s.r.until, SameNext(s.r, e.r), e.notes = s.notes
  PROVE  Follows(p, t, r, e)
<1>1. \A n : Upcoming(p, t, e.r, n) = Upcoming(p, t, s.r, n)
  BY DEF Upcoming, SameNext, NextLocal
<1>2. e.r.until >= r.until
  <2>1. e.r.until \in Nat /\ s.r.until \in Nat /\ r.until \in Nat
    BY DEF TrackOK, Follows
  <2>2. s.r.until >= r.until
    BY DEF Follows
  <2> QED
    BY <2>1, <2>2
<1> QED
  BY <1>1, <1>2 DEF Follows

\* A track further on.
LEMMA UntilLater ==
  ASSUME NEW track, NEW r, TrackOK(track, r), NEW until \in Nat, NEW e, e = [r EXCEPT !.until = until]
  PROVE  TrackOK(track, e) /\ SameNext(r, e) /\ e.until = until
<1>1. r = [n \in TrackNames |-> r[n]]
  BY DEF TrackOK
<1>2. /\ e = [n \in TrackNames |-> e[n]]
      /\ e.until = until /\ e.cursors = r.cursors /\ e.recent = r.recent
      /\ e.walk = r.walk /\ e.carry = r.carry /\ e.launches = r.launches /\ e.within = r.within
  BY <1>1 DEF TrackNames
<1> QED
  BY <1>2 DEF TrackOK, SameNext, NextLocal

\* A lane that has chosen, and no more.
LEMMA WalkedOn ==
  ASSUME NEW track, ValidTrack(track), track.lane # None, NEW r, TrackOK(track, r),
         NEW e, e = [r EXCEPT !.walk = Choose(track.lane, @).walk]
  PROVE  TrackOK(track, e) /\ SameNext(r, e) /\ e.until = r.until
<1>1. PICK lane : lane = track.lane
  OBVIOUS
<1>2. PICK k \in Nat \ {0} : k = Len(track.sources) /\ ValidSpec(lane, k)
  BY <1>1 DEF ValidTrack
<1>3. PICK w : w = r.walk
  OBVIOUS
<1>4. w \in WalkState(k) /\ w = Walk(lane, Len(w.history))
  BY <1>1, <1>2, <1>3 DEF TrackOK
<1>5. PICK c : c = Choose(lane, w)
  OBVIOUS
<1>6. /\ c.state \in States(k) /\ c.walk \in WalkState(k)
      /\ c.walk.history = Append(w.history, c.state)
  BY <1>2, <1>4, <1>5, ChooseIs
<1>7. w.history \in Seq(States(k))
  BY <1>4 DEF WalkState
<1>8. PICK N \in Nat : N = Len(w.history) /\ Len(c.walk.history) = N + 1
  BY SMTT(30), <1>6, <1>7, AppendProperties, LenProperties
<1>9. Walk(lane, N + 1) = Choose(lane, Walk(lane, N)).walk
  BY WalkNext
<1>10. c.walk = Walk(lane, Len(c.walk.history))
  BY <1>4, <1>5, <1>8, <1>9
<1>11. r = [n \in TrackNames |-> r[n]]
  BY DEF TrackOK
<1>12. e = [r EXCEPT !.walk = c.walk]
  BY <1>1, <1>3, <1>5
<1>13. /\ e = [n \in TrackNames |-> e[n]]
       /\ e.until = r.until /\ e.cursors = r.cursors /\ e.recent = r.recent
       /\ e.walk = c.walk /\ e.carry = r.carry /\ e.launches = r.launches /\ e.within = r.within
  BY <1>11, <1>12 DEF TrackNames
<1>14. TrackOK(track, e)
  BY <1>1, <1>2, <1>6, <1>10, <1>13 DEF TrackOK, NextLocal
<1> QED
  BY <1>13, <1>14 DEF SameNext

\* The later of two ticks.
LEMMA LaterIs ==
  ASSUME NEW a \in Nat, NEW b \in Nat
  PROVE  Max({a, b}) \in Nat /\ Max({a, b}) >= a /\ Max({a, b}) >= b
<1>1. \E m \in {a, b} : \A n \in {a, b} : m >= n
  <2>1. CASE a >= b
    BY <2>1
  <2>2. CASE b >= a
    BY <2>2
  <2> QED
    BY <2>1, <2>2
<1> QED
  BY <1>1 DEF Max

\* A track realized up to the target, or not as far: its notes are new ones.
LEMMA AdvanceKeeps ==
  ASSUME NEW p, ValidProject(p), NEW t \in DOMAIN p.tracks,
         NEW r, TrackOK(p.tracks[t], r),
         NEW cycles, IsFiniteSet(cycles), \A c \in cycles : IsFiniteSet(c.beats),
         NEW target \in Nat, NEW turns \in Nat \cup {None},
         NEW s, s = Advance(p, t, r, cycles, target, turns)
  PROVE  /\ Follows(p, t, r, s)
         /\ turns = None =>
              /\ Kind(p, t) = "lane" => (InStep(r) => InStep(s.r))
              /\ Kind(p, t) # "triggered" => s.r.until >= target
<1>1. PICK track, kind : track = p.tracks[t] /\ kind = Kind(p, t)
  OBVIOUS
<1>2. ValidTrack(track)
  BY <1>1 DEF ValidProject
<1>3. PICK begin : begin = IF kind = "triggered" THEN Launched(p, t, r, cycles, target) ELSE r
  OBVIOUS
<1>4. Follows(p, t, r, Unplayed(begin)) /\ (kind # "triggered" => begin = r)
  <2>1. CASE kind = "triggered"
    <3>1. track.lane = None /\ TriggerOf(track).passes \in Nat
      BY <1>1, <2>1, TriggeredIs
    <3>2. begin = Launched(p, t, r, cycles, target)
      BY <1>3, <2>1
    <3> QED
      BY <1>1, <1>2, <2>1, <3>1, <3>2, LaunchedKeeps
  <2>2. CASE kind # "triggered"
    BY <1>1, <1>2, <1>3, <2>2, UnplayedFollows
  <2> QED
    BY <2>1, <2>2
<1>5. Unplayed(begin).r = begin /\ Unplayed(begin).notes = {}
  BY DEF Unplayed
<1>6. TrackOK(track, begin) /\ begin.until \in Nat
  <2>1. TrackOK(track, begin)
    BY <1>1, <1>4, <1>5 DEF Follows
  <2> QED
    BY <2>1 DEF TrackOK
<1>7. PICK count \in Nat : count = IF turns = None THEN Enough(kind, begin, target) ELSE turns
  BY <1>6, EnoughType
<1>8. PICK end : end = TakeTurns(p, t, begin, target, count)
  OBVIOUS
<1>9. Brought(p, t, begin, target, count, end)
  BY <1>1, <1>6, <1>8, TurnsKeep
<1>10. Follows(p, t, r, end)
  <2>1. Follows(p, t, begin, end)
    BY <1>9 DEF Brought
  <2>2. PICK b : b = Unplayed(begin) /\ b.r = begin /\ b.notes = {}
    BY <1>5
  <2>3. Follows(p, t, r, b) /\ Follows(p, t, b.r, end) /\ end.notes = b.notes \cup end.notes
    BY <1>4, <2>1, <2>2
  <2> QED
    BY <1>1, <1>2, <2>3, FollowsOn
<1>11. TrackOK(track, end.r) /\ end.r.until \in Nat
  <2>1. TrackOK(track, end.r)
    BY <1>1, <1>10 DEF Follows
  <2> QED
    BY <2>1 DEF TrackOK
<1>12. PICK fails : fails = (/\ HasTurn(kind, end.r, r.until, target)
                             /\ kind = "triggered" => ~LaunchOver(end.r))
  OBVIOUS
<1>13. s = [notes |-> end.notes, short |-> fails,
            r |-> CASE kind = "triggered" /\ turns = None -> [end.r EXCEPT !.until = Max({@, target})]
                    [] kind = "lane" /\ turns # None /\ fails ->
                         [end.r EXCEPT !.walk = Choose(track.lane, @).walk]
                    [] OTHER -> end.r]
  BY <1>1, <1>3, <1>7, <1>8, <1>12 DEF Advance
<1>14. CASE kind = "triggered" /\ turns = None
  <2>1. PICK until \in Nat : until = Max({end.r.until, target}) /\ until >= end.r.until
    BY <1>11, LaterIs
  <2>2. s.r = [end.r EXCEPT !.until = until] /\ s.notes = end.notes
    BY <1>13, <1>14, <2>1
  <2>3. TrackOK(track, s.r) /\ SameNext(end.r, s.r) /\ s.r.until = until
    BY <1>11, <2>2, UntilLater
  <2>4. Follows(p, t, r, s)
    BY <1>1, <1>10, <2>1, <2>2, <2>3, FollowsSame
  <2> QED
    BY <1>1, <1>14, <2>4
<1>15. CASE kind = "lane" /\ turns # None /\ fails
  <2>1. s.r = [end.r EXCEPT !.walk = Choose(track.lane, @).walk] /\ s.notes = end.notes
    BY <1>13, <1>15
  <2>2. track.lane # None
    BY <1>1, <1>15 DEF Kind
  <2>3. TrackOK(track, s.r) /\ SameNext(end.r, s.r) /\ s.r.until = end.r.until
    BY <1>2, <1>11, <2>1, <2>2, WalkedOn
  <2>4. s.r.until >= end.r.until
    BY <1>11, <2>3
  <2>5. Follows(p, t, r, s)
    BY <1>1, <1>10, <2>1, <2>3, <2>4, FollowsSame
  <2> QED
    BY <1>15, <2>5
<1>16. CASE ~(kind = "triggered" /\ turns = None) /\ ~(kind = "lane" /\ turns # None /\ fails)
  <2>1. s.r = end.r /\ s.notes = end.notes
    BY <1>13, <1>16
  <2>2. Follows(p, t, r, s)
    BY <1>10, <2>1 DEF Follows
  <2>3. ASSUME turns = None
        PROVE  /\ Kind(p, t) = "lane" => (InStep(r) => InStep(s.r))
               /\ Kind(p, t) # "triggered" => s.r.until >= target
    <3>1. kind # "triggered" /\ begin = r /\ count = Enough(kind, begin, target)
      BY <1>4, <1>7, <1>16, <2>3
    <3>2. begin.until + count >= target
      BY <1>6, <3>1, EnoughType
    <3>3. s.r.until >= target
      BY <1>1, <1>6, <1>9, <1>11, <2>1, <3>1, <3>2 DEF Brought
    <3> QED
      BY <1>9, <2>1, <3>1, <3>3 DEF Brought
  <2> QED
    BY <2>2, <2>3
<1> QED
  BY <1>14, <1>15, <1>16

-----------------------------------------------------------------------------
(************************************************************************** *)
(* A realization                                                           *)
(************************************************************************** *)

RuntimeNames == {"tracks", "resolved", "horizon"}

RuntimeOK(p, rt) ==
  /\ DOMAIN rt = RuntimeNames /\ DOMAIN rt.tracks = DOMAIN p.tracks
  /\ \A t \in DOMAIN p.tracks : TrackOK(p.tracks[t], rt.tracks[t])

\* What a pass keeps of a track, and, when nothing fails, how far it brings it.
Passed(p, t, r, target, fault, s) ==
  /\ Follows(p, t, r, s)
  /\ fault = None =>
       /\ Kind(p, t) = "lane" => (InStep(r) => InStep(s.r))
       /\ Kind(p, t) # "triggered" => s.r.until >= target

LEMMA PassesKeep ==
  ASSUME NEW p, ValidProject(p), NEW rt, RuntimeOK(p, rt), NEW target \in Nat,
         NEW fault \in Faults(p) \cup {None}, NEW passed, passed = Passes(p, rt, target, fault)
  PROVE  /\ DOMAIN passed = DOMAIN p.tracks
         /\ \A t \in DOMAIN p.tracks : Passed(p, t, rt.tracks[t], target, fault, passed[t])
<1> DEFINE first == IF fault = None THEN None ELSE Kind(p, fault.track)
           Runs(t) ==
             \/ fault = None \/ t = fault.track
             \/ CASE Kind(p, t) = "continuous" -> first # "continuous" \/ t \notin fault.spared
                  [] Kind(p, t) = "lane" ->
                       first = "triggered" \/ (first = "lane" /\ t < fault.track)
                  [] Kind(p, t) = "triggered" -> first = "triggered" /\ t < fault.track
           Turns(t) == IF fault # None /\ t = fault.track THEN fault.turns ELSE None
           Idle(t) == [r |-> rt.tracks[t], notes |-> {}, short |-> FALSE]
           Pass(t, cycles) ==
             IF Runs(t) THEN Advance(p, t, rt.tracks[t], cycles, target, Turns(t)) ELSE Idle(t)
           free == [t \in DOMAIN p.tracks |->
                      IF Kind(p, t) = "triggered" THEN Idle(t) ELSE Pass(t, {})]
<1>1. passed = [t \in DOMAIN p.tracks |->
                  IF Kind(p, t) # "triggered" THEN free[t]
                  ELSE Pass(t, free[SourceOf(p, t)].r.recent)]
  BY DEF Passes
<1>2. ASSUME NEW t \in DOMAIN p.tracks
      PROVE  /\ fault = None => Runs(t) /\ Turns(t) = None
             /\ Turns(t) \in Nat \cup {None}
  <2>1. fault # None => fault.turns \in Nat
    BY DEF Faults
  <2>2. fault = None => Runs(t) /\ Turns(t) = None
    OBVIOUS
  <2>3. Turns(t) \in Nat \cup {None}
    BY <2>1
  <2> QED
    BY <2>2, <2>3
<1> HIDE DEF Runs, Turns
<1>3. ASSUME NEW t \in DOMAIN p.tracks
      PROVE  /\ ValidTrack(p.tracks[t]) /\ TrackOK(p.tracks[t], rt.tracks[t])
             /\ Follows(p, t, rt.tracks[t], Idle(t))
  <2>1. PICK r : r = rt.tracks[t]
    OBVIOUS
  <2>2. ValidTrack(p.tracks[t]) /\ TrackOK(p.tracks[t], r)
    BY <2>1 DEF ValidProject, RuntimeOK
  <2>3. Follows(p, t, r, Unplayed(r)) /\ Unplayed(r).r = r /\ Unplayed(r).notes = {}
    BY <2>2, UnplayedFollows DEF Unplayed
  <2>4. Idle(t).r = r /\ Idle(t).notes = {}
    BY <2>1
  <2>5. Follows(p, t, r, Idle(t))
    BY <2>3, <2>4 DEF Follows
  <2> QED
    BY <2>1, <2>2, <2>5
<1> HIDE DEF Idle
<1>4. ASSUME NEW t \in DOMAIN p.tracks, NEW cycles, IsFiniteSet(cycles),
             \A c \in cycles : IsFiniteSet(c.beats)
      PROVE  Passed(p, t, rt.tracks[t], target, fault, Pass(t, cycles))
  <2>1. CASE Runs(t)
    <3>1. PICK s : s = Advance(p, t, rt.tracks[t], cycles, target, Turns(t))
      OBVIOUS
    <3>2. /\ Follows(p, t, rt.tracks[t], s)
          /\ Turns(t) = None =>
               /\ Kind(p, t) = "lane" => (InStep(rt.tracks[t]) => InStep(s.r))
               /\ Kind(p, t) # "triggered" => s.r.until >= target
      <4>1. TrackOK(p.tracks[t], rt.tracks[t]) /\ Turns(t) \in Nat \cup {None}
        BY <1>2, <1>3
      <4>2. PICK r, turns : r = rt.tracks[t] /\ turns = Turns(t)
        OBVIOUS
      <4>3. TrackOK(p.tracks[t], r) /\ turns \in Nat \cup {None} /\ s = Advance(p, t, r, cycles, target, turns)
        BY <3>1, <4>1, <4>2
      <4>4. /\ Follows(p, t, r, s)
            /\ turns = None =>
                 /\ Kind(p, t) = "lane" => (InStep(r) => InStep(s.r))
                 /\ Kind(p, t) # "triggered" => s.r.until >= target
        BY <1>4, <4>3, AdvanceKeeps
      <4> QED
        BY <4>2, <4>4
    <3>3. Passed(p, t, rt.tracks[t], target, fault, s)
      BY <1>2, <3>2 DEF Passed
    <3> QED
      BY <2>1, <3>1, <3>3
  <2>2. CASE ~Runs(t)
    <3>1. fault # None
      BY <1>2, <2>2
    <3>2. Pass(t, cycles) = Idle(t)
      BY <2>2
    <3> QED
      BY <1>3, <3>1, <3>2 DEF Passed
  <2> QED
    BY <2>1, <2>2
<1> HIDE DEF Pass
<1>5. ASSUME NEW t \in DOMAIN p.tracks
      PROVE  TrackOK(p.tracks[t], free[t].r)
  <2>1. CASE Kind(p, t) = "triggered"
    <3>1. free[t] = Idle(t)
      BY <2>1
    <3> QED
      BY <1>3, <3>1 DEF Follows
  <2>2. CASE Kind(p, t) # "triggered"
    <3>1. free[t] = Pass(t, {})
      BY <2>2
    <3>2. Passed(p, t, rt.tracks[t], target, fault, Pass(t, {}))
      BY <1>4, FS_EmptySet
    <3> QED
      BY <3>1, <3>2 DEF Passed, Follows
  <2> QED
    BY <2>1, <2>2
<1>6. ASSUME NEW t \in DOMAIN p.tracks
      PROVE  Passed(p, t, rt.tracks[t], target, fault, passed[t])
  <2>1. CASE Kind(p, t) # "triggered"
    <3>1. passed[t] = Pass(t, {})
      BY <1>1, <2>1
    <3>2. Passed(p, t, rt.tracks[t], target, fault, Pass(t, {}))
      BY <1>4, FS_EmptySet
    <3> QED
      BY <3>1, <3>2
  <2>2. CASE Kind(p, t) = "triggered"
    <3>1. PICK u \in DOMAIN p.tracks : u = SourceOf(p, t)
      BY <2>2, TriggeredIs
    <3>2. PICK cycles : cycles = free[u].r.recent
      OBVIOUS
    <3>3. IsFiniteSet(cycles) /\ \A c \in cycles : IsFiniteSet(c.beats)
      BY <1>5, <3>2 DEF TrackOK
    <3> HIDE DEF free
    <3>4. passed[t] = Pass(t, cycles)
      BY <1>1, <2>2, <3>1, <3>2
    <3>5. Passed(p, t, rt.tracks[t], target, fault, Pass(t, cycles))
      BY <1>4, <3>3
    <3> QED
      BY <3>4, <3>5
  <2> QED
    BY <2>1, <2>2
<1>7. DOMAIN passed = DOMAIN p.tracks
  BY <1>1
<1> QED
  BY <1>6, <1>7

\* Pruned of the cycles no follower needs any more.
LEMMA PruneKeeps ==
  ASSUME NEW p, NEW track, NEW r, TrackOK(track, r), NEW target, NEW e, e = Prune(p, r, target)
  PROVE  TrackOK(track, e) /\ SameNext(r, e) /\ e.until = r.until /\ e.walk = r.walk
<1>1. PICK recent : recent = {c \in r.recent : c.end >= Monus(target, p.cycle + MaxAfterEvent(p))}
  OBVIOUS
<1>2. IsFiniteSet(recent) /\ \A c \in recent : IsFiniteSet(c.beats)
  <2>1. IsFiniteSet(r.recent) /\ \A c \in r.recent : IsFiniteSet(c.beats)
    BY DEF TrackOK
  <2>2. recent \subseteq r.recent
    BY <1>1
  <2> QED
    BY <2>1, <2>2, FS_Subset
<1>3. r = [n \in TrackNames |-> r[n]]
  BY DEF TrackOK
<1>4. e = [r EXCEPT !.recent = recent]
  BY <1>1 DEF Prune
<1>5. /\ e = [n \in TrackNames |-> e[n]]
      /\ e.until = r.until /\ e.cursors = r.cursors /\ e.recent = recent
      /\ e.walk = r.walk /\ e.carry = r.carry /\ e.launches = r.launches /\ e.within = r.within
  BY <1>3, <1>4 DEF TrackNames
<1>6. TrackOK(track, e)
  BY <1>2, <1>5 DEF TrackOK, NextLocal
<1> QED
  BY <1>5, <1>6 DEF SameNext

\* What a realization leaves of a track, and its notes.
Part(out, t) == [r |-> out.rt.tracks[t], notes |-> {n \in out.notes : n.track = t}]

Kept(p, rt, target, fault, out) ==
  /\ RuntimeOK(p, out.rt)
  /\ \A t \in DOMAIN p.tracks : Passed(p, t, rt.tracks[t], target, fault, Part(out, t))
  /\ \A n \in out.notes : n.track \in DOMAIN p.tracks
  /\ out.fails => fault # None

LEMMA RealizeKeeps ==
  ASSUME NEW p, ValidProject(p), NEW rt, RuntimeOK(p, rt), NEW events, NEW target \in Nat,
         NEW fault \in Faults(p) \cup {None}, NEW out, out = RealizeUntil(p, rt, events, target, fault)
  PROVE  Kept(p, rt, target, fault, out)
<1>1. PICK passed : passed = Passes(p, rt, target, fault)
  OBVIOUS
<1>2. /\ DOMAIN passed = DOMAIN p.tracks
      /\ \A t \in DOMAIN p.tracks : Passed(p, t, rt.tracks[t], target, fault, passed[t])
  BY <1>1, PassesKeep
<1>3. PICK notes : notes = UNION {passed[t].notes : t \in DOMAIN passed}
  OBVIOUS
<1>4. PICK tracks : tracks = IF fault # None THEN AfterError(rt, passed)
                             ELSE [t \in DOMAIN passed |-> Prune(p, passed[t].r, target)]
  OBVIOUS
<1>5. PICK resolved : out.rt = [rt EXCEPT !.tracks = tracks, !.resolved = resolved]
  BY <1>1, <1>3, <1>4 DEF RealizeUntil
<1>6. out.notes = notes /\ (out.fails => fault # None)
  BY <1>1, <1>3 DEF RealizeUntil
<1>7. DOMAIN tracks = DOMAIN p.tracks
  BY <1>2, <1>4 DEF AfterError
<1>8. DOMAIN out.rt = RuntimeNames /\ out.rt.tracks = tracks
  <2>1. DOMAIN rt = RuntimeNames
    BY DEF RuntimeOK
  <2> QED
    BY <1>5, <2>1 DEF RuntimeNames
<1>9. ASSUME NEW t \in DOMAIN p.tracks
      PROVE  /\ TrackOK(p.tracks[t], tracks[t]) /\ SameNext(passed[t].r, tracks[t])
             /\ tracks[t].until = passed[t].r.until /\ tracks[t].walk = passed[t].r.walk
  <2>1. PICK r : r = passed[t].r
    OBVIOUS
  <2>2. TrackOK(p.tracks[t], r)
    BY <1>2, <2>1 DEF Passed, Follows
  <2>3. CASE fault # None
    <3>1. tracks[t] = r
      BY <1>2, <1>4, <2>1, <2>3 DEF AfterError
    <3> QED
      BY <2>1, <2>2, <3>1 DEF SameNext
  <2>4. CASE fault = None
    <3>1. tracks[t] = Prune(p, r, target)
      BY <1>2, <1>4, <2>1, <2>4
    <3> QED
      BY <2>1, <2>2, <3>1, PruneKeeps
  <2> QED
    BY <2>3, <2>4
<1>10. ASSUME NEW t \in DOMAIN p.tracks
       PROVE  {n \in notes : n.track = t} = passed[t].notes
  <2>1. \A u \in DOMAIN p.tracks : \A n \in passed[u].notes : n.track = u
    BY <1>2 DEF Passed, Follows
  <2>2. notes = UNION {passed[u].notes : u \in DOMAIN p.tracks}
    BY <1>2, <1>3
  <2> QED
    BY <2>1, <2>2
<1>11. ASSUME NEW t \in DOMAIN p.tracks
       PROVE  Passed(p, t, rt.tracks[t], target, fault, Part(out, t))
  <2>1. PICK s, e, r : s = passed[t] /\ e = Part(out, t) /\ r = rt.tracks[t]
    OBVIOUS
  <2>2. e.r = tracks[t] /\ e.notes = s.notes
    BY <1>6, <1>8, <1>10, <2>1 DEF Part
  <2>3. Passed(p, t, r, target, fault, s) /\ TrackOK(p.tracks[t], r)
    BY <1>2, <2>1 DEF RuntimeOK
  <2>4. /\ TrackOK(p.tracks[t], e.r) /\ SameNext(s.r, e.r)
        /\ e.r.until = s.r.until /\ e.r.walk = s.r.walk
    BY <1>9, <2>1, <2>2
  <2>5. Follows(p, t, r, s)
    BY <2>3 DEF Passed
  <2>6. e.r.until >= s.r.until
    BY <2>4 DEF TrackOK
  <2>7. Follows(p, t, r, e)
    BY <2>2, <2>3, <2>4, <2>5, <2>6, FollowsSame
  <2>8. InStep(s.r) => InStep(e.r)
    BY <2>4 DEF InStep, SameNext
  <2>9. Passed(p, t, r, target, fault, e)
    BY <2>3, <2>4, <2>7, <2>8 DEF Passed
  <2> QED
    BY <2>1, <2>9
<1>12. \A n \in notes : n.track \in DOMAIN p.tracks
  <2>1. \A u \in DOMAIN p.tracks : \A n \in passed[u].notes : n.track = u
    BY <1>2 DEF Passed, Follows
  <2> QED
    BY <1>2, <1>3, <2>1
<1>13. RuntimeOK(p, out.rt)
  BY <1>7, <1>8, <1>9 DEF RuntimeOK
<1> QED
  BY <1>6, <1>11, <1>12, <1>13 DEF Kept

-----------------------------------------------------------------------------
(************************************************************************** *)
(* A runtime begun, and reset                                              *)
(************************************************************************** *)

\* Nothing realized is in step with nothing chosen.
LEMMA FreshTrackIs ==
  ASSUME NEW track, ValidTrack(track)
  PROVE  TrackOK(track, FreshTrack(track)) /\ InStep(FreshTrack(track))
<1>1. PICK r : r = FreshTrack(track)
  OBVIOUS
<1>2. PICK k \in Nat \ {0} : k = Len(track.sources) /\ DOMAIN track.sources = 1 .. k
  BY DEF ValidTrack
<1>3. /\ r = [n \in TrackNames |-> r[n]]
      /\ r.until = 0 /\ r.cursors = [n \in 1 .. k |-> NewCursor] /\ r.walk = FreshWalk
      /\ r.recent = {} /\ r.carry = FreshCarry /\ r.launches = <<>> /\ r.within = 0
  BY <1>1, <1>2 DEF FreshTrack, TrackNames
<1>4. NewCursor \in Cursor /\ NewCursor.cycle = 0
  BY DEF NewCursor, Cursor
<1>5. r.cursors \in Seq(Cursor) /\ Len(r.cursors) = k /\ DOMAIN r.cursors = 1 .. k
  BY <1>3, <1>4
<1>6. /\ FreshWalk.history = <<>> /\ FreshWalk.draws = 0 /\ FreshWalk.pending = <<>>
      /\ FreshWalk \in WalkState(k) /\ FreshWalk = Walk(track.lane, Len(FreshWalk.history))
  <2>1. FreshWalk.history = <<>> /\ FreshWalk.draws = 0 /\ FreshWalk.pending = <<>>
    BY DEF FreshWalk
  <2>2. FreshWalk \in WalkState(k)
    BY EmptySeq DEF FreshWalk, WalkState
  <2>3. Len(FreshWalk.history) = 0
    BY <2>1
  <2>4. Walk(track.lane, 0) = FreshWalk
    <3>1. 0 \in Nat
      OBVIOUS
    <3> QED
      BY <3>1, WalkNext
  <2> QED
    BY <2>1, <2>2, <2>3, <2>4
<1>7. Counting(r.carry) /\ r.carry.nextLocal = 0
  BY <1>3 DEF FreshCarry, Counting, CarryNames
<1>8. NextLocal(r) = 0 /\ Numbered(r.launches, 0, 0)
  BY <1>3, <1>7, NumberedEmpty DEF NextLocal
<1>9. TrackOK(track, r)
  <2>1. r.until \in Nat /\ Len(r.cursors) = Len(track.sources) /\ r.cursors \in Seq(Cursor)
    BY <1>2, <1>3, <1>5
  <2>2. r.walk \in WalkState(Len(track.sources)) /\ r.walk = Walk(track.lane, Len(r.walk.history))
    BY <1>2, <1>3, <1>6
  <2>3. IsFiniteSet(r.recent) /\ \A c \in r.recent : IsFiniteSet(c.beats)
    BY <1>3, FS_EmptySet
  <2>4. Counting(r.carry) /\ NextLocal(r) \in Nat /\ Numbered(r.launches, NextLocal(r), r.carry.nextLocal)
    BY <1>7, <1>8
  <2>5. r.within \in Nat /\ r.within <= IF r.launches = <<>> THEN 0 ELSE Head(r.launches).passes
    BY <1>3
  <2> QED
    BY <1>3, <2>1, <2>2, <2>3, <2>4, <2>5 DEF TrackOK
<1>10. InStep(r)
  <2>1. PICK h : h = r.walk.history /\ h = <<>>
    BY <1>3, <1>6
  <2>2. ASSUME NEW v
        PROVE  Chosen(h, v) = 0
    <3>1. {j \in DOMAIN h : h[j] = v} = {}
      BY <2>1
    <3> QED
      BY <3>1, FS_EmptySet DEF Chosen
  <2>3. \A n \in 1 .. k : r.cursors[n].cycle = 0
    BY <1>3, <1>4
  <2> QED
    BY <1>5, <2>1, <2>2, <2>3 DEF InStep
<1> QED
  BY <1>1, <1>9, <1>10

LEMMA FreshRuntimeIs ==
  ASSUME NEW p, ValidProject(p), NEW rt, rt = FreshRuntime(p)
  PROVE  RuntimeOK(p, rt) /\ \A t \in DOMAIN p.tracks : InStep(rt.tracks[t])
<1>1. /\ DOMAIN rt = RuntimeNames /\ DOMAIN rt.tracks = DOMAIN p.tracks
      /\ \A t \in DOMAIN p.tracks : rt.tracks[t] = FreshTrack(p.tracks[t])
  BY DEF FreshRuntime, RuntimeNames
<1>2. \A t \in DOMAIN p.tracks : ValidTrack(p.tracks[t])
  BY DEF ValidProject
<1> QED
  BY <1>1, <1>2, FreshTrackIs DEF RuntimeOK

\* Whatever was played: a reset track is a fresh one.
LEMMA ResetTrackIs ==
  ASSUME NEW track, ValidTrack(track), NEW r, TrackOK(track, r),
         NEW e, e = [r EXCEPT
                       !.until = 0, !.cycle = 0, !.recent = {},
                       !.cursors = [n \in DOMAIN r.cursors |-> NewCursor],
                       !.walk = FreshWalk,
                       !.carry = FreshCarry, !.launches = <<>>, !.within = 0, !.at = 0]
  PROVE  e = FreshTrack(track)
<1>1. r = [n \in TrackNames |-> r[n]] /\ DOMAIN r.cursors = DOMAIN track.sources
  <2>1. DOMAIN r.cursors = 1 .. Len(r.cursors)
    BY LenProperties DEF TrackOK
  <2> QED
    BY <2>1 DEF TrackOK, ValidTrack
<1>2. PICK c : c = [n \in DOMAIN track.sources |-> NewCursor]
  OBVIOUS
<1>3. e = [r EXCEPT !.until = 0, !.cycle = 0, !.recent = {}, !.cursors = c, !.walk = FreshWalk,
                    !.carry = FreshCarry, !.launches = <<>>, !.within = 0, !.at = 0]
  BY <1>1, <1>2
<1>4. /\ e = [n \in TrackNames |-> e[n]]
      /\ e.until = 0 /\ e.cycle = 0 /\ e.recent = {} /\ e.cursors = c /\ e.walk = FreshWalk
      /\ e.carry = FreshCarry /\ e.launches = <<>> /\ e.within = 0 /\ e.at = 0
  BY <1>1, <1>3 DEF TrackNames
<1>5. PICK f : f = FreshTrack(track)
  OBVIOUS
<1>6. /\ f = [n \in TrackNames |-> f[n]]
      /\ f.until = 0 /\ f.cycle = 0 /\ f.recent = {} /\ f.cursors = c /\ f.walk = FreshWalk
      /\ f.carry = FreshCarry /\ f.launches = <<>> /\ f.within = 0 /\ f.at = 0
  BY <1>2, <1>5 DEF FreshTrack, TrackNames
<1>7. \A n \in TrackNames : e[n] = f[n]
  BY <1>4, <1>6 DEF TrackNames
<1>8. e = f
  BY <1>4, <1>6, <1>7
<1> QED
  BY <1>5, <1>8

LEMMA ResetIs ==
  ASSUME NEW p, ValidProject(p), NEW rt, RuntimeOK(p, rt)
  PROVE  [Reset(rt) EXCEPT !.horizon = 0] = FreshRuntime(p)
<1> DEFINE Again(r) == [r EXCEPT
                          !.until = 0, !.cycle = 0, !.recent = {},
                          !.cursors = [n \in DOMAIN r.cursors |-> NewCursor],
                          !.walk = FreshWalk,
                          !.carry = FreshCarry, !.launches = <<>>, !.within = 0, !.at = 0]
<1>1. \A t \in DOMAIN p.tracks : Again(rt.tracks[t]) = FreshTrack(p.tracks[t])
  <2>1. ASSUME NEW t \in DOMAIN p.tracks
        PROVE  Again(rt.tracks[t]) = FreshTrack(p.tracks[t])
    <3>1. PICK track, r : track = p.tracks[t] /\ r = rt.tracks[t]
      OBVIOUS
    <3>2. ValidTrack(track) /\ TrackOK(track, r)
      BY <3>1 DEF ValidProject, RuntimeOK
    <3>3. PICK e : e = Again(r)
      OBVIOUS
    <3>4. e = FreshTrack(track)
      BY <3>2, <3>3, ResetTrackIs
    <3> HIDE DEF Again
    <3> QED
      BY <3>1, <3>3, <3>4
  <2> HIDE DEF Again
  <2> QED
    BY <2>1
<1>2. Reset(rt) = [tracks |-> [t \in DOMAIN rt.tracks |-> Again(rt.tracks[t])],
                   resolved |-> {}, horizon |-> rt.horizon]
  BY DEF Reset
<1> HIDE DEF Again
<1>3. DOMAIN rt.tracks = DOMAIN p.tracks
  BY DEF RuntimeOK
<1>4. [t \in DOMAIN rt.tracks |-> Again(rt.tracks[t])] = [t \in DOMAIN p.tracks |-> FreshTrack(p.tracks[t])]
  BY <1>1, <1>3
<1> QED
  BY <1>2, <1>4 DEF FreshRuntime

-----------------------------------------------------------------------------
(************************************************************************** *)
(* Notes behind the cursors                                                *)
(************************************************************************** *)

\* What was played lies behind what is played next.
Behind(p, rt, notes) ==
  \A n \in notes :
    /\ n.track \in DOMAIN p.tracks /\ n.cycle \in Nat /\ n.source \in Members(p, n.track)
    /\ n.cycle < Upcoming(p, n.track, rt.tracks[n.track], n.source)

Apart(a, b) ==
  \A n \in a, m \in b : ~(n.track = m.track /\ n.source = m.source /\ n.cycle = m.cycle)

LEMMA BehindGrows ==
  ASSUME NEW p, ValidProject(p), NEW rt, RuntimeOK(p, rt), NEW target, NEW fault,
         NEW out, Kept(p, rt, target, fault, out), NEW notes, Behind(p, rt, notes)
  PROVE  Behind(p, out.rt, notes \cup out.notes) /\ Apart(out.notes, notes)
<1>1. ASSUME NEW t \in DOMAIN p.tracks
      PROVE  /\ ValidTrack(p.tracks[t]) /\ TrackOK(p.tracks[t], rt.tracks[t])
             /\ TrackOK(p.tracks[t], out.rt.tracks[t])
             /\ Follows(p, t, rt.tracks[t], Part(out, t))
             /\ Part(out, t).r = out.rt.tracks[t]
  BY DEF ValidProject, RuntimeOK, Kept, Passed, Part
<1>2. ASSUME NEW t \in DOMAIN p.tracks, NEW n \in Members(p, t)
      PROVE  /\ Upcoming(p, t, rt.tracks[t], n) \in Nat
             /\ Upcoming(p, t, out.rt.tracks[t], n) \in Nat
             /\ Upcoming(p, t, rt.tracks[t], n) <= Upcoming(p, t, out.rt.tracks[t], n)
  <2>1. Upcoming(p, t, rt.tracks[t], n) \in Nat /\ Upcoming(p, t, out.rt.tracks[t], n) \in Nat
    BY <1>1, UpcomingType
  <2>2. Upcoming(p, t, rt.tracks[t], n) <= Upcoming(p, t, out.rt.tracks[t], n)
    BY <1>1 DEF Follows
  <2> QED
    BY <2>1, <2>2
<1>3. ASSUME NEW n \in out.notes
      PROVE  /\ n.track \in DOMAIN p.tracks /\ n.cycle \in Nat /\ n.source \in Members(p, n.track)
             /\ Upcoming(p, n.track, rt.tracks[n.track], n.source) <= n.cycle
             /\ n.cycle < Upcoming(p, n.track, out.rt.tracks[n.track], n.source)
  <2>1. PICK t \in DOMAIN p.tracks : t = n.track
    BY DEF Kept
  <2>2. n \in Part(out, t).notes
    BY <2>1 DEF Part
  <2> QED
    BY <1>1, <2>1, <2>2 DEF Follows
<1>4. ASSUME NEW n \in notes
      PROVE  /\ n.track \in DOMAIN p.tracks /\ n.cycle \in Nat /\ n.source \in Members(p, n.track)
             /\ n.cycle < Upcoming(p, n.track, rt.tracks[n.track], n.source)
             /\ n.cycle < Upcoming(p, n.track, out.rt.tracks[n.track], n.source)
  <2>1. PICK t \in DOMAIN p.tracks : t = n.track
    BY DEF Behind
  <2>2. /\ n.cycle \in Nat /\ n.source \in Members(p, t)
        /\ n.cycle < Upcoming(p, t, rt.tracks[t], n.source)
    BY <2>1 DEF Behind
  <2>3. /\ Upcoming(p, t, rt.tracks[t], n.source) \in Nat
        /\ Upcoming(p, t, out.rt.tracks[t], n.source) \in Nat
        /\ Upcoming(p, t, rt.tracks[t], n.source) <= Upcoming(p, t, out.rt.tracks[t], n.source)
    BY <1>2, <2>2
  <2>4. n.cycle < Upcoming(p, t, out.rt.tracks[t], n.source)
    BY <2>2, <2>3
  <2> QED
    BY <2>1, <2>2, <2>4
<1>5. Behind(p, out.rt, notes \cup out.notes)
  BY <1>3, <1>4 DEF Behind
<1>6. ASSUME NEW n \in out.notes, NEW m \in notes, n.track = m.track, n.source = m.source, n.cycle = m.cycle
      PROVE  FALSE
  <2>1. PICK u : u = Upcoming(p, n.track, rt.tracks[n.track], n.source)
    OBVIOUS
  <2>2. u <= n.cycle /\ n.cycle \in Nat /\ n.track \in DOMAIN p.tracks /\ n.source \in Members(p, n.track)
    BY <1>3, <2>1
  <2>3. n.cycle < u
    BY <1>4, <1>6, <2>1
  <2>4. u \in Nat
    BY <1>2, <2>1, <2>2
  <2> QED
    BY <2>2, <2>3, <2>4
<1>7. Apart(out.notes, notes)
  BY <1>6 DEF Apart
<1> QED
  BY <1>5, <1>7

-----------------------------------------------------------------------------
(************************************************************************** *)
(* An edit applied in place                                                *)
(************************************************************************** *)

LEMMA IndexIs ==
  ASSUME NEW p, ValidProject(p)
  PROVE  /\ \A t \in DOMAIN p.tracks : p.tracks[t].id \in Ids(p) /\ IndexOf(p, p.tracks[t].id) = t
         /\ \A id \in Ids(p) : IndexOf(p, id) \in DOMAIN p.tracks /\ p.tracks[IndexOf(p, id)].id = id
<1>1. \A t, u \in DOMAIN p.tracks : p.tracks[t].id = p.tracks[u].id => t = u
  BY DEF ValidProject
<1>2. ASSUME NEW t \in DOMAIN p.tracks
      PROVE  p.tracks[t].id \in Ids(p) /\ IndexOf(p, p.tracks[t].id) = t
  BY <1>1 DEF Ids, IndexOf
<1>3. ASSUME NEW id \in Ids(p)
      PROVE  IndexOf(p, id) \in DOMAIN p.tracks /\ p.tracks[IndexOf(p, id)].id = id
  BY DEF Ids, IndexOf
<1> QED
  BY <1>2, <1>3

\* A lane has a chain, and follows nobody.
LEMMA LaneIs ==
  ASSUME NEW p, ValidProject(p), NEW t \in DOMAIN p.tracks
  PROVE  Kind(p, t) = "lane" <=> p.tracks[t].lane # None
<1>1. PICK id : id = p.tracks[t].id /\ id \in Ids(p) /\ IndexOf(p, id) = t
  BY IndexIs
<1>2. PICK g : g = RequestedGraph(p)
  OBVIOUS
<1>3. ASSUME p.tracks[t].lane # None
      PROVE  id \notin Triggered(g)
  <2>1. g[id] = None
    BY <1>1, <1>2, <1>3 DEF RequestedGraph
  <2> QED
    BY <2>1 DEF Triggered, Possible
<1> QED
  BY <1>1, <1>2, <1>3 DEF Kind

\* The tracks of an edit, where they meet the running ones.
LEMMA AppliedTrack ==
  ASSUME NEW p, ValidProject(p), NEW q, ValidProject(q), AppliesForward(p, q),
         NEW w, w = InRunningOrder(p, q), NEW t \in DOMAIN p.tracks, NEW u, u = IndexOf(q, p.tracks[t].id)
  PROVE  /\ u \in DOMAIN q.tracks /\ Kind(p, t) = Kind(q, u) /\ q.tracks[u].id = p.tracks[t].id
         /\ ValidTrack(w.tracks[t]) /\ w.tracks[t].id = p.tracks[t].id
         /\ w.tracks[t].lane = p.tracks[t].lane /\ Len(w.tracks[t].sources) = Len(p.tracks[t].sources)
         /\ p.tracks[t].lane = None => w.tracks[t] = q.tracks[u]
<1>1. PICK id : id = p.tracks[t].id /\ id \in Ids(p) /\ IndexOf(p, id) = t /\ u = IndexOf(q, id)
  BY IndexIs
<1>2. id \in Ids(q) /\ Kind(p, t) = Kind(q, u)
  BY <1>1 DEF AppliesForward
<1>3. u \in DOMAIN q.tracks /\ q.tracks[u].id = id
  BY <1>1, <1>2, IndexIs
<1>4. PICK running, incoming : running = p.tracks[t] /\ incoming = q.tracks[u]
  OBVIOUS
<1>5. ValidTrack(running) /\ ValidTrack(incoming)
  BY <1>3, <1>4 DEF ValidProject
<1>6. running.lane = None <=> incoming.lane = None
  BY <1>2, <1>3, <1>4, LaneIs
<1> DEFINE Incoming(n) == incoming.sources[CHOOSE m \in DOMAIN incoming.sources :
                                             incoming.sources[m].id = running.sources[n].id]
<1>7. w.tracks[t] = IF running.lane = None THEN incoming
                    ELSE [running EXCEPT !.sources = [n \in DOMAIN running.sources |-> Incoming(n)]]
  <2>1. "tracks" \in DOMAIN q
    BY DEF ValidProject
  <2>2. w.tracks[t] = Edited(running, incoming)
    BY <1>1, <1>4, <2>1 DEF InRunningOrder
  <2> QED
    BY <2>2 DEF Edited
<1>8. CASE running.lane = None
  <2>1. w.tracks[t] = incoming
    BY <1>7, <1>8
  <2>2. Len(running.sources) = 1 /\ Len(incoming.sources) = 1
    BY <1>5, <1>6, <1>8 DEF ValidTrack
  <2> QED
    BY <1>1, <1>2, <1>3, <1>4, <1>5, <1>6, <1>8, <2>1, <2>2
<1>9. CASE running.lane # None
  <2>1. PICK S : S = [n \in DOMAIN running.sources |-> Incoming(n)]
    OBVIOUS
  <2>2. PICK e : e = [running EXCEPT !.sources = S]
    OBVIOUS
  <2>3. w.tracks[t] = e
    BY <1>7, <1>9, <2>1, <2>2
  <2>4. SourceIds(p, t) = SourceIds(q, u)
    <3>1. Kind(p, t) = "lane"
      BY <1>4, <1>9, LaneIs
    <3> QED
      BY <1>1, <3>1 DEF AppliesForward
  <2>5. ASSUME NEW n \in DOMAIN running.sources
        PROVE  Incoming(n).id = running.sources[n].id /\ ValidSource(Incoming(n))
    <3>1. running.sources[n].id \in SourceIds(q, u)
      BY <1>4, <2>4 DEF SourceIds
    <3>2. \E m \in DOMAIN incoming.sources : incoming.sources[m].id = running.sources[n].id
      BY <1>4, <3>1 DEF SourceIds
    <3>3. PICK m \in DOMAIN incoming.sources :
            incoming.sources[m].id = running.sources[n].id /\ Incoming(n) = incoming.sources[m]
      BY <3>2
    <3> HIDE DEF Incoming
    <3> QED
      BY <1>5, <3>3 DEF ValidTrack
  <2> HIDE DEF Incoming
  <2>6. PICK k \in Nat \ {0} : k = Len(running.sources) /\ DOMAIN running.sources = 1 .. k
    BY <1>5 DEF ValidTrack
  <2>7. Len(S) = k /\ DOMAIN S = 1 .. k
    BY <2>1, <2>6
  <2>8. \A n \in 1 .. k : S[n].id = running.sources[n].id /\ ValidSource(S[n])
    BY <2>1, <2>5, <2>6
  <2>9. DOMAIN running = {"id", "silent", "trigger", "lane", "sources"}
    BY <1>5 DEF ValidTrack
  <2>10. /\ DOMAIN e = DOMAIN running /\ e.sources = S /\ e.lane = running.lane
         /\ e.trigger = running.trigger /\ e.id = running.id /\ e.silent = running.silent
    BY <2>2, <2>9
  <2>11. ValidTrack(e)
    <3>1. \A m, n \in 1 .. k : S[m].id = S[n].id => m = n
      BY <1>5, <2>6, <2>8 DEF ValidTrack
    <3>2. ValidSpec(e.lane, k) /\ ~e.silent
      BY <1>5, <1>9, <2>6, <2>10 DEF ValidTrack
    <3> QED
      BY <1>9, <2>7, <2>8, <2>9, <2>10, <3>1, <3>2 DEF ValidTrack
  <2> QED
    BY <1>1, <1>2, <1>3, <1>4, <1>9, <2>3, <2>6, <2>7, <2>8, <2>10, <2>11
<1> QED
  BY <1>8, <1>9

\* What an edit applied in place leaves of a track: its kind, its chain and
\* the number of its sources.
Applied(p, w, t) ==
  /\ Kind(w, t) = Kind(p, t)
  /\ w.tracks[t].lane = p.tracks[t].lane /\ Len(w.tracks[t].sources) = Len(p.tracks[t].sources)

LEMMA AppliedIs ==
  ASSUME NEW p, ValidProject(p), NEW q, ValidProject(q), AppliesForward(p, q),
         NEW w, w = InRunningOrder(p, q)
  PROVE  /\ ValidProject(w) /\ DOMAIN w.tracks = DOMAIN p.tracks /\ w.cycle = p.cycle
         /\ \A t \in DOMAIN p.tracks : Applied(p, w, t)
<1>1. /\ DOMAIN w = DOMAIN q /\ DOMAIN w.tracks = DOMAIN p.tracks
      /\ w.cycle = q.cycle
  BY DEF InRunningOrder, ValidProject
<1>2. q.cycle = p.cycle /\ Ids(p) = Ids(q)
  BY DEF AppliesForward
<1>3. ASSUME NEW t \in DOMAIN p.tracks
      PROVE  /\ IndexOf(q, p.tracks[t].id) \in DOMAIN q.tracks
             /\ Kind(p, t) = Kind(q, IndexOf(q, p.tracks[t].id))
             /\ q.tracks[IndexOf(q, p.tracks[t].id)].id = p.tracks[t].id
             /\ ValidTrack(w.tracks[t]) /\ w.tracks[t].id = p.tracks[t].id
             /\ w.tracks[t].lane = p.tracks[t].lane
             /\ Len(w.tracks[t].sources) = Len(p.tracks[t].sources)
             /\ p.tracks[t].lane = None => w.tracks[t] = q.tracks[IndexOf(q, p.tracks[t].id)]
  BY AppliedTrack
<1>4. ValidProject(w)
  <2>1. \A t, u \in DOMAIN w.tracks : w.tracks[t].id = w.tracks[u].id => t = u
    BY <1>1, <1>3 DEF ValidProject
  <2>2. \A t \in DOMAIN w.tracks : ValidTrack(w.tracks[t])
    BY <1>1, <1>3
  <2>3. w.cycle \in Nat \ {0} /\ DOMAIN w = {"cycle", "policy", "matrix", "priority", "tracks"}
    BY <1>1 DEF ValidProject
  <2>4. IsFiniteSet(DOMAIN w.tracks)
    BY <1>1 DEF ValidProject
  <2> QED
    BY <2>1, <2>2, <2>3, <2>4 DEF ValidProject
<1>5. Ids(w) = Ids(q)
  <2>1. \A t \in DOMAIN p.tracks : w.tracks[t].id = p.tracks[t].id
    BY <1>3
  <2>2. Ids(w) = Ids(p)
    BY <1>1, <2>1 DEF Ids
  <2> QED
    BY <1>2, <2>2
<1>6. ASSUME NEW t \in DOMAIN p.tracks
      PROVE  IndexOf(w, p.tracks[t].id) = t
  BY <1>1, <1>3, <1>4, IndexIs
<1>7. RequestedGraph(w) = RequestedGraph(q)
  <2>1. ASSUME NEW id \in Ids(q)
        PROVE  RequestedGraph(w)[id] = RequestedGraph(q)[id]
    <3>1. PICK t \in DOMAIN p.tracks : id = p.tracks[t].id
      BY <1>2 DEF Ids
    <3>2. PICK u \in DOMAIN q.tracks : u = IndexOf(q, id)
      BY <1>3, <3>1
    <3>3. IndexOf(w, id) = t
      BY <1>6, <3>1
    <3>4. p.tracks[t].lane = None => w.tracks[t] = q.tracks[u]
      BY <1>3, <3>1, <3>2
    <3>5. p.tracks[t].lane # None => w.tracks[t].lane # None /\ q.tracks[u].lane # None
      BY <1>3, <3>1, <3>2, LaneIs
    <3> QED
      BY <1>5, <3>2, <3>3, <3>4, <3>5 DEF RequestedGraph
  <2>2. /\ DOMAIN RequestedGraph(w) = Ids(q) /\ DOMAIN RequestedGraph(q) = Ids(q)
        /\ RequestedGraph(w) = [id \in Ids(q) |-> RequestedGraph(w)[id]]
        /\ RequestedGraph(q) = [id \in Ids(q) |-> RequestedGraph(q)[id]]
    BY <1>5 DEF RequestedGraph
  <2> QED
    BY <2>1, <2>2
<1>8. ASSUME NEW t \in DOMAIN p.tracks
      PROVE  Applied(p, w, t)
  <2>1. PICK u \in DOMAIN q.tracks : u = IndexOf(q, p.tracks[t].id)
    BY <1>3
  <2>2. w.tracks[t].id = q.tracks[u].id
    BY <1>3, <2>1
  <2>3. w.tracks[t].lane # None <=> q.tracks[u].lane # None
    BY <1>3, <2>1, LaneIs
  <2>4. Kind(w, t) = Kind(q, u)
    BY <1>7, <2>2, <2>3 DEF Kind
  <2>5. Kind(w, t) = Kind(p, t)
    BY <1>3, <2>1, <2>4
  <2> QED
    BY <1>3, <2>5 DEF Applied
<1> QED
  BY <1>1, <1>2, <1>4, <1>8

\* A pool restarted, a cursor kept.
LEMMA PoolsRestarted ==
  ASSUME NEW track, NEW r, TrackOK(track, r),
         NEW new, new.lane = track.lane, Len(new.sources) = Len(track.sources),
         NEW e, e = [r EXCEPT !.cursors = [n \in DOMAIN r.cursors |-> [r.cursors[n] EXCEPT !.pool = 0]]]
  PROVE  /\ TrackOK(new, e) /\ (InStep(r) => InStep(e)) /\ e.until = r.until
         /\ NextLocal(e) = NextLocal(r) /\ e.within = r.within
         /\ \A n \in DOMAIN r.cursors : e.cursors[n].cycle = r.cursors[n].cycle
<1>1. PICK k \in Nat : k = Len(r.cursors) /\ DOMAIN r.cursors = 1 .. k
  BY LenProperties DEF TrackOK
<1>2. \A n \in 1 .. k : r.cursors[n] \in Cursor
  BY <1>1, ElementOfSeq DEF TrackOK
<1> DEFINE c == [n \in 1 .. k |-> [r.cursors[n] EXCEPT !.pool = 0]]
<1>3. \A n \in 1 .. k : c[n] \in Cursor /\ c[n].cycle = r.cursors[n].cycle
  BY <1>2 DEF Cursor
<1>4. c \in Seq(Cursor) /\ Len(c) = k /\ DOMAIN c = 1 .. k
  <2>1. c = [n \in 1 .. k |-> c[n]]
    OBVIOUS
  <2> HIDE DEF c
  <2> QED
    BY <1>3, <2>1
<1>5. e = [r EXCEPT !.cursors = c]
  BY <1>1
<1> HIDE DEF c
<1>6. r = [n \in TrackNames |-> r[n]]
  BY DEF TrackOK
<1>7. /\ e = [n \in TrackNames |-> e[n]]
      /\ e.until = r.until /\ e.cursors = c /\ e.recent = r.recent
      /\ e.walk = r.walk /\ e.carry = r.carry /\ e.launches = r.launches /\ e.within = r.within
  BY <1>5, <1>6 DEF TrackNames
<1>8. NextLocal(e) = NextLocal(r)
  BY <1>7 DEF NextLocal
<1>9. TrackOK(new, e)
  BY <1>1, <1>4, <1>7, <1>8 DEF TrackOK
<1>10. InStep(r) => InStep(e)
  BY <1>1, <1>3, <1>4, <1>7 DEF InStep
<1> QED
  BY <1>1, <1>3, <1>7, <1>8, <1>9, <1>10

\* After the edit a track plays next what it would have played.
LEMMA AppliedNext ==
  ASSUME NEW p, NEW w, NEW t, Applied(p, w, t), ValidTrack(p.tracks[t]),
         NEW r, TrackOK(p.tracks[t], r),
         NEW e, e = [r EXCEPT !.cursors = [n \in DOMAIN r.cursors |-> [r.cursors[n] EXCEPT !.pool = 0]]],
         NEW n \in Members(p, t)
  PROVE  Upcoming(w, t, e, n) = Upcoming(p, t, r, n)
<1>1. /\ NextLocal(e) = NextLocal(r) /\ e.within = r.within
      /\ \A m \in DOMAIN r.cursors : e.cursors[m].cycle = r.cursors[m].cycle
  <2>1. w.tracks[t].lane = p.tracks[t].lane /\ Len(w.tracks[t].sources) = Len(p.tracks[t].sources)
    BY DEF Applied
  <2>2. PICK new, track : new = w.tracks[t] /\ track = p.tracks[t]
    OBVIOUS
  <2>3. new.lane = track.lane /\ Len(new.sources) = Len(track.sources) /\ TrackOK(track, r)
    BY <2>1, <2>2
  <2> QED
    BY <2>3, PoolsRestarted
<1>2. n \in DOMAIN r.cursors
  BY LenProperties DEF TrackOK, ValidTrack, Members
<1>3. Kind(w, t) = Kind(p, t)
  BY DEF Applied
<1> QED
  BY <1>1, <1>2, <1>3 DEF Upcoming

-----------------------------------------------------------------------------
(************************************************************************** *)
(* Each cycle once, and in turn                                            *)
(************************************************************************** *)

\* A realization plays from where the cursors stand, so that nothing comes
\* twice takes that all that was played lies behind them: across the passes,
\* a failure that leaves them ahead, and an edit.  That lanes follow their walk
\* takes that each runtime track is its walk's.
CyclesInv ==
  /\ TypeOK
  /\ ValidProject(project) /\ RuntimeOK(project, runtime)
  /\ Behind(project, runtime, earlier \cup batch) /\ Apart(batch, earlier)
  /\ failures = 0 =>
       \A t \in DOMAIN project.tracks :
         Kind(project, t) = "lane" => InStep(runtime.tracks[t])

LEMMA ApartIs ==
  ASSUME Apart(batch, earlier)
  PROVE  PlayedOnce
BY DEF Apart, PlayedOnce

LEMMA CyclesInvImplies ==
  ASSUME CyclesInv
  PROVE  CyclesRealizedOnce
<1>1. PlayedOnce
  BY ApartIs DEF CyclesInv
<1>2. ASSUME NEW t \in DOMAIN project.tracks, Kind(project, t) = "lane"
      PROVE  LET r == runtime.tracks[t]
                 walk == Walk(project.tracks[t].lane, Len(r.walk.history)).history
             IN /\ r.walk.history = walk
                /\ failures = 0 =>
                     \A n \in DOMAIN r.cursors :
                       r.cursors[n].cycle = Cardinality({k \in DOMAIN walk : walk[k] = n - 1})
  <2>1. PICK r, h : r = runtime.tracks[t] /\ h = r.walk.history
    OBVIOUS
  <2>2. project.tracks[t].lane # None
    BY <1>2, LaneIs DEF CyclesInv
  <2>3. h = Walk(project.tracks[t].lane, Len(h)).history
    BY <2>1, <2>2 DEF CyclesInv, RuntimeOK, TrackOK
  <2>4. failures = 0 => \A n \in DOMAIN r.cursors : r.cursors[n].cycle = Chosen(h, n - 1)
    BY <1>2, <2>1 DEF CyclesInv, InStep
  <2> QED
    BY ZenonT(30), <2>1, <2>3, <2>4 DEF Chosen
<1>3. TypeOK
  BY DEF CyclesInv
<1> QED
  BY <1>1, <1>2, <1>3 DEF CyclesRealizedOnce, LaneFollowsWalk

LEMMA CyclesInit ==
  ASSUME Init
  PROVE  CyclesInv
<1>1. ValidProject(project)
  BY ParallelAssumption DEF Init
<1>2. /\ RuntimeOK(project, runtime)
      /\ \A t \in DOMAIN project.tracks : InStep(runtime.tracks[t])
  BY <1>1, FreshRuntimeIs DEF Init
<1>3. Behind(project, runtime, earlier \cup batch) /\ Apart(batch, earlier)
  BY DEF Init, Behind, Apart
<1>4. TypeOK
  <2>1. \A t \in DOMAIN project.tracks : runtime.tracks[t].until \in Nat
    BY <1>2 DEF RuntimeOK, TrackOK
  <2>2. 0 % project.cycle = 0
    BY <1>1 DEF ValidProject
  <2>3. /\ playing = FALSE /\ pristine = FALSE /\ edited = FALSE
        /\ tick = 0 /\ watermark = 0 /\ cutoff = None /\ commands = 0 /\ failures = 0
    BY DEF Init
  <2>4. \A t \in DOMAIN project.tracks : runtime.tracks[t].until >= watermark
    BY <2>1, <2>3
  <2>5. commands \in 0 .. MaxCommands /\ failures \in 0 .. MaxFailures
    BY <2>3, ParallelAssumption
  <2> QED
    BY <2>2, <2>3, <2>4, <2>5 DEF TypeOK
<1> QED
  BY <1>1, <1>2, <1>3, <1>4 DEF CyclesInv

\* Play and the play step realize one or two cycles ahead.
LEMMA OneCycle ==
  ASSUME NEW c \in Nat \ {0}
  PROVE  c % c = 0
OBVIOUS

LEMMA WholeCycles ==
  ASSUME NEW c \in Nat \ {0}, NEW now \in Nat
  PROVE  /\ (now \div c + 2) * c \in Nat
         /\ ((now \div c + 2) * c) % c = 0
<1>1. PICK k \in Nat : k = now \div c + 2
  OBVIOUS
<1>2. k * c \in Nat /\ (k * c) % c = 0
  OBVIOUS
<1> QED
  BY <1>1, <1>2

LEMMA CyclesPlay ==
  ASSUME CyclesInv, NEW fault \in Faults(project) \cup {None}, Play(fault)
  PROVE  CyclesInv'
<1>1. ValidProject(project) /\ RuntimeOK(project, runtime) /\ TypeOK
  BY DEF CyclesInv
<1>2. project.cycle \in Nat \ {0}
  BY <1>1 DEF ValidProject
<1>3. PICK rt : rt = FreshRuntime(project) /\ rt = [Reset(runtime) EXCEPT !.horizon = 0]
  BY <1>1, ResetIs
<1>4. RuntimeOK(project, rt) /\ \A t \in DOMAIN project.tracks : InStep(rt.tracks[t])
  BY <1>1, <1>3, FreshRuntimeIs
<1>5. PICK out : /\ out = RealizeUntil(project, rt, {}, project.cycle, fault)
                 /\ fault # None => out.fails /\ failures < MaxFailures
                 /\ runtime' = out.rt /\ batch' = out.notes /\ earlier' = {}
                 /\ watermark' = IF out.fails THEN 0 ELSE project.cycle
                 /\ failures' = failures + (IF out.fails THEN 1 ELSE 0)
                 /\ pristine' = (cutoff = None) /\ edited' = FALSE
  BY <1>3 DEF Play, Record
<1>6. Kept(project, rt, project.cycle, fault, out)
  BY <1>1, <1>2, <1>4, <1>5, RealizeKeeps
<1>7. out.fails <=> fault # None
  BY <1>5, <1>6 DEF Kept
<1>8. project' = project /\ playing' = TRUE /\ tick' = 0 /\ cutoff' = cutoff
      /\ commands < MaxCommands /\ commands' = commands + 1
  BY DEF Play
<1>9. Behind(project, rt, {})
  BY DEF Behind
<1>10. Behind(project, out.rt, {} \cup out.notes) /\ Apart(out.notes, {})
  BY <1>1, <1>4, <1>6, <1>9, BehindGrows
<1>11. Behind(project, runtime, earlier \cup batch)' /\ Apart(batch, earlier)'
  <2>1. earlier' \cup batch' = {} \cup out.notes
    BY <1>5
  <2> QED
    BY <1>5, <1>8, <1>10, <2>1
<1>12. ASSUME NEW t \in DOMAIN project.tracks
       PROVE  /\ runtime'.tracks[t].until \in Nat
              /\ fault = None =>
                   /\ Kind(project, t) # "triggered" => runtime'.tracks[t].until >= project.cycle
                   /\ Kind(project, t) = "lane" => InStep(runtime'.tracks[t])
  <2>1. Part(out, t).r = out.rt.tracks[t]
    BY DEF Part
  <2>2. out.rt.tracks[t].until \in Nat
    BY <1>6 DEF Kept, RuntimeOK, TrackOK
  <2> QED
    BY <1>4, <1>5, <1>6, <2>1, <2>2 DEF Kept, Passed
<1>13. TypeOK'
  <2>1. watermark' \in Nat /\ watermark' % project.cycle = 0
    BY <1>2, <1>5, OneCycle
  <2>2. failures' \in 0 .. MaxFailures /\ commands' \in 0 .. MaxCommands
    BY <1>1, <1>5, <1>7, <1>8, ParallelAssumption DEF TypeOK
  <2>3. \A t \in DOMAIN project.tracks :
          Kind(project, t) # "triggered" => runtime'.tracks[t].until >= watermark'
    BY <1>5, <1>7, <1>12
  <2>4. playing' \in BOOLEAN /\ pristine' \in BOOLEAN /\ edited' \in BOOLEAN /\ tick' \in Nat
    BY <1>5, <1>8
  <2>5. cutoff' = None \/ cutoff' \in Nat
    BY <1>1, <1>8 DEF TypeOK
  <2> QED
    BY <1>8, <2>1, <2>2, <2>3, <2>4, <2>5 DEF TypeOK
<1>14. failures' = 0 => \A t \in DOMAIN project.tracks :
                          Kind(project, t) = "lane" => InStep(runtime'.tracks[t])
  <2>1. failures' = 0 => ~out.fails
    BY <1>1, <1>5 DEF TypeOK
  <2> QED
    BY <1>7, <1>12, <2>1
<1>15. RuntimeOK(project, runtime)'
  BY <1>5, <1>6, <1>8 DEF Kept
<1> QED
  BY <1>1, <1>8, <1>11, <1>13, <1>14, <1>15 DEF CyclesInv

LEMMA CyclesStop ==
  ASSUME CyclesInv, Stop
  PROVE  CyclesInv'
<1>1. /\ project' = project /\ runtime' = runtime /\ batch' = batch /\ earlier' = earlier
      /\ failures' = failures
  BY DEF Stop
<1>2. TypeOK'
  <2>1. TypeOK
    BY DEF CyclesInv
  <2>2. /\ playing' = FALSE /\ pristine' = FALSE /\ edited' = edited /\ tick' = tick
        /\ watermark' = watermark /\ cutoff' = cutoff
        /\ commands < MaxCommands /\ commands' = commands + 1
    BY DEF Stop
  <2>3. commands' \in 0 .. MaxCommands
    BY <2>1, <2>2, ParallelAssumption DEF TypeOK
  <2> QED
    BY <1>1, <2>1, <2>2, <2>3 DEF TypeOK
<1> QED
  BY <1>1, <1>2 DEF CyclesInv

LEMMA CyclesTick ==
  ASSUME CyclesInv, NEW fault \in Faults(project) \cup {None}, NEW d \in Steps, Tick(d, fault)
  PROVE  CyclesInv'
<1>1. ValidProject(project) /\ RuntimeOK(project, runtime) /\ TypeOK
  BY DEF CyclesInv
<1>2. project.cycle \in Nat \ {0}
  BY <1>1 DEF ValidProject
<1>3. PICK now \in Nat : now = tick + d
  BY <1>1, ParallelAssumption DEF TypeOK
<1>4. PICK target \in Nat : target = (now \div project.cycle + 2) * project.cycle /\ target % project.cycle = 0
  BY <1>2, WholeCycles
<1>5. PICK rt : rt = [runtime EXCEPT !.horizon = now]
  OBVIOUS
<1>6. rt.tracks = runtime.tracks /\ RuntimeOK(project, rt)
  <2>1. rt.tracks = runtime.tracks /\ DOMAIN rt = DOMAIN runtime
    BY <1>1, <1>5 DEF RuntimeOK, RuntimeNames
  <2> QED
    BY <1>1, <2>1 DEF RuntimeOK
<1>7. /\ project' = project /\ playing' = playing /\ tick' = now /\ cutoff' = None
      /\ pristine' = pristine /\ edited' = edited /\ commands' = commands
      /\ failures' = failures + (IF fault # None THEN 1 ELSE 0)
      /\ fault # None => watermark < target /\ failures < MaxFailures
  BY <1>3, <1>4 DEF Tick
<1>8. failures' \in 0 .. MaxFailures
  BY <1>1, <1>7, ParallelAssumption DEF TypeOK
<1>9. Behind(project, rt, earlier \cup batch)
  BY <1>6 DEF CyclesInv, Behind, Upcoming
<1>10. CASE watermark < target
  <2>1. PICK out : /\ out = RealizeUntil(project, rt, queue, target, fault)
                   /\ fault # None => out.fails
                   /\ runtime' = out.rt /\ batch' = out.notes /\ earlier' = earlier \cup batch
                   /\ watermark' = IF out.fails THEN watermark ELSE target
    BY <1>3, <1>4, <1>5, <1>10 DEF Tick, Record
  <2>2. Kept(project, rt, target, fault, out)
    BY <1>1, <1>6, <2>1, RealizeKeeps
  <2>3. out.fails <=> fault # None
    BY <2>1, <2>2 DEF Kept
  <2>4. PICK old : old = earlier \cup batch
    OBVIOUS
  <2>5. Behind(project, out.rt, old \cup out.notes) /\ Apart(out.notes, old)
    BY <1>1, <1>6, <1>9, <2>2, <2>4, BehindGrows
  <2>6. Behind(project, runtime, earlier \cup batch)' /\ Apart(batch, earlier)'
    BY <1>7, <2>1, <2>4, <2>5
  <2>7. ASSUME NEW t \in DOMAIN project.tracks
        PROVE  /\ runtime'.tracks[t].until \in Nat /\ runtime.tracks[t].until \in Nat
               /\ runtime'.tracks[t].until >= runtime.tracks[t].until
               /\ fault = None =>
                    /\ Kind(project, t) # "triggered" => runtime'.tracks[t].until >= target
                    /\ Kind(project, t) = "lane" =>
                         (InStep(runtime.tracks[t]) => InStep(runtime'.tracks[t]))
    <3>1. Part(out, t).r = runtime'.tracks[t] /\ rt.tracks[t] = runtime.tracks[t]
      BY <1>6, <2>1 DEF Part
    <3>2. runtime'.tracks[t].until \in Nat /\ runtime.tracks[t].until \in Nat
      BY <1>1, <2>1, <2>2 DEF Kept, RuntimeOK, TrackOK
    <3> QED
      BY <2>2, <3>1, <3>2 DEF Kept, Passed, Follows
  <2>8. \A t \in DOMAIN project.tracks :
          Kind(project, t) # "triggered" => runtime'.tracks[t].until >= watermark'
    <3>1. CASE out.fails
      BY <1>1, <2>1, <2>7, <3>1 DEF TypeOK
    <3>2. CASE ~out.fails
      BY <2>1, <2>3, <2>7, <3>2
    <3> QED
      BY <3>1, <3>2
  <2>9. watermark' \in Nat /\ watermark' % project.cycle = 0
    BY <1>1, <1>4, <2>1 DEF TypeOK
  <2>10. TypeOK'
    BY <1>1, <1>7, <1>8, <2>8, <2>9 DEF TypeOK
  <2>11. failures' = 0 => \A t \in DOMAIN project.tracks :
                            Kind(project, t) = "lane" => InStep(runtime'.tracks[t])
    <3>1. failures' = 0 => failures = 0 /\ fault = None
      BY <1>1, <1>7 DEF TypeOK
    <3> QED
      BY <2>7, <3>1 DEF CyclesInv
  <2>12. RuntimeOK(project, runtime)'
    BY <1>7, <2>1, <2>2 DEF Kept
  <2> QED
    BY <1>1, <1>7, <2>6, <2>10, <2>11, <2>12 DEF CyclesInv
<1>11. CASE ~(watermark < target)
  <2>1. /\ runtime' = rt /\ watermark' = watermark /\ batch' = batch /\ earlier' = earlier
        /\ failures' = failures
    BY <1>1, <1>3, <1>4, <1>5, <1>7, <1>11 DEF Tick, TypeOK
  <2>2. TypeOK'
    BY <1>1, <1>6, <1>7, <1>8, <2>1 DEF TypeOK
  <2>3. RuntimeOK(project, runtime)' /\ Behind(project, runtime, earlier \cup batch)'
    BY <1>6, <1>7, <1>9, <2>1
  <2> QED
    BY <1>1, <1>6, <1>7, <2>1, <2>2, <2>3 DEF CyclesInv
<1> QED
  BY <1>10, <1>11

LEMMA CyclesApply ==
  ASSUME CyclesInv, NEW q \in Projects, ApplyInPlace(q)
  PROVE  CyclesInv'
<1>1. ValidProject(project) /\ RuntimeOK(project, runtime) /\ TypeOK
  BY DEF CyclesInv
<1>2. PICK p, w : p = project /\ w = InRunningOrder(project, q)
  OBVIOUS
<1>3. /\ project' = w /\ playing' = playing /\ tick' = tick /\ watermark' = watermark
      /\ cutoff' = cutoff /\ batch' = batch /\ earlier' = earlier /\ pristine' = pristine
      /\ failures' = failures /\ edited' = TRUE
      /\ commands < MaxCommands /\ commands' = commands + 1
  BY <1>2 DEF ApplyInPlace
<1>4. /\ ValidProject(w) /\ DOMAIN w.tracks = DOMAIN p.tracks /\ w.cycle = p.cycle
      /\ \A t \in DOMAIN p.tracks : Applied(p, w, t)
  <2>1. ValidProject(p) /\ ValidProject(q) /\ AppliesForward(p, q) /\ w = InRunningOrder(p, q)
    BY <1>1, <1>2, ParallelAssumption DEF ApplyInPlace
  <2> QED
    BY <2>1, AppliedIs
<1> DEFINE Again(r) == [r EXCEPT !.cursors = [n \in DOMAIN r.cursors |-> [r.cursors[n] EXCEPT !.pool = 0]]]
<1>5. /\ DOMAIN runtime' = RuntimeNames /\ DOMAIN runtime'.tracks = DOMAIN p.tracks
      /\ \A t \in DOMAIN p.tracks : runtime'.tracks[t] = Again(runtime.tracks[t])
  <2>1. runtime' = [runtime EXCEPT !.tracks = [t \in DOMAIN runtime.tracks |-> Again(runtime.tracks[t])]]
    BY DEF ApplyInPlace
  <2>2. DOMAIN runtime = RuntimeNames /\ DOMAIN runtime.tracks = DOMAIN p.tracks
    BY <1>1, <1>2 DEF RuntimeOK
  <2> HIDE DEF Again
  <2>3. runtime'.tracks = [t \in DOMAIN p.tracks |-> Again(runtime.tracks[t])] /\ DOMAIN runtime' = RuntimeNames
    BY <2>1, <2>2 DEF RuntimeNames
  <2> QED
    BY <2>3
<1>6. ASSUME NEW t \in DOMAIN p.tracks
      PROVE  /\ TrackOK(w.tracks[t], runtime'.tracks[t])
             /\ runtime'.tracks[t].until = runtime.tracks[t].until
             /\ InStep(runtime.tracks[t]) => InStep(runtime'.tracks[t])
             /\ Kind(w, t) = Kind(p, t)
             /\ \A n \in Members(p, t) :
                  /\ Upcoming(w, t, runtime'.tracks[t], n) = Upcoming(p, t, runtime.tracks[t], n)
                  /\ n \in Members(w, t)
  <2>1. PICK r, e : r = runtime.tracks[t] /\ e = runtime'.tracks[t]
    OBVIOUS
  <2>2. e = [r EXCEPT !.cursors = [n \in DOMAIN r.cursors |-> [r.cursors[n] EXCEPT !.pool = 0]]]
    BY <1>5, <2>1, SMTT(40)
  <2>3. Applied(p, w, t) /\ ValidTrack(p.tracks[t]) /\ TrackOK(p.tracks[t], r)
    BY <1>1, <1>2, <1>4, <2>1 DEF ValidProject, RuntimeOK
  <2>4. PICK track, new : track = p.tracks[t] /\ new = w.tracks[t]
    OBVIOUS
  <2>5. new.lane = track.lane /\ Len(new.sources) = Len(track.sources) /\ TrackOK(track, r)
    BY <2>3, <2>4 DEF Applied
  <2>6. TrackOK(new, e) /\ (InStep(r) => InStep(e)) /\ e.until = r.until
    BY <2>2, <2>5, PoolsRestarted
  <2>7. ASSUME NEW n \in Members(p, t)
        PROVE  Upcoming(w, t, e, n) = Upcoming(p, t, r, n)
    BY <2>1, <2>2, <2>3, AppliedNext
  <2>8. Members(w, t) = Members(p, t)
    BY <1>4, <2>3, <2>4, <2>5 DEF Members, ValidTrack, ValidProject
  <2>9. Kind(w, t) = Kind(p, t)
    BY <2>3 DEF Applied
  <2> QED
    BY <2>1, <2>4, <2>6, <2>7, <2>8, <2>9
<1>7. RuntimeOK(w, runtime')
  BY <1>4, <1>5, <1>6 DEF RuntimeOK
<1>8. Behind(w, runtime', earlier \cup batch)
  <2>1. Behind(p, runtime, earlier \cup batch)
    BY <1>2 DEF CyclesInv
  <2>2. ASSUME NEW n \in earlier \cup batch
        PROVE  /\ n.track \in DOMAIN w.tracks /\ n.cycle \in Nat
               /\ n.source \in Members(w, n.track)
               /\ n.cycle < Upcoming(w, n.track, runtime'.tracks[n.track], n.source)
    <3>1. PICK t \in DOMAIN p.tracks : t = n.track
      BY <2>1 DEF Behind
    <3>2. /\ n.cycle \in Nat /\ n.source \in Members(p, t)
          /\ n.cycle < Upcoming(p, t, runtime.tracks[t], n.source)
      BY <2>1, <3>1 DEF Behind
    <3>3. /\ Upcoming(w, t, runtime'.tracks[t], n.source) = Upcoming(p, t, runtime.tracks[t], n.source)
          /\ n.source \in Members(w, t)
      BY <1>6, <3>2
    <3> QED
      BY <1>4, <3>1, <3>2, <3>3
  <2> QED
    BY <2>2 DEF Behind
<1>9. TypeOK'
  <2>1. watermark' % project'.cycle = 0
    BY <1>1, <1>2, <1>3, <1>4 DEF TypeOK
  <2>2. \A t \in DOMAIN project'.tracks :
          Kind(project', t) # "triggered" => runtime'.tracks[t].until >= watermark'
    BY <1>1, <1>2, <1>3, <1>4, <1>6 DEF TypeOK
  <2>3. commands' \in 0 .. MaxCommands
    BY <1>1, <1>3, ParallelAssumption DEF TypeOK
  <2> QED
    BY <1>1, <1>3, <2>1, <2>2, <2>3 DEF TypeOK
<1>10. failures' = 0 => \A t \in DOMAIN project'.tracks :
                           Kind(project', t) = "lane" => InStep(runtime'.tracks[t])
  BY <1>2, <1>3, <1>4, <1>6 DEF CyclesInv
<1>11. Apart(batch', earlier')
  BY <1>3 DEF CyclesInv
<1> QED
  BY <1>3, <1>4, <1>7, <1>8, <1>9, <1>10, <1>11 DEF CyclesInv

\* The playhead is a tick of the new grid.
LEMMA RephaseType ==
  ASSUME tick \in Nat, NEW old \in Nat \ {0}, NEW new \in Nat \ {0}
  PROVE  Rephase(old, new) \in Nat
<1>1. PICK phase \in Nat, turns \in Nat : phase = tick % old /\ turns = tick \div old
  OBVIOUS
<1>2. turns * new \in Nat
  OBVIOUS
<1>3. PICK a \in Nat : a = (2 * phase * new + old) \div (2 * old)
  <2>1. 2 * phase * new + old \in Nat /\ 2 * old \in Nat \ {0}
    OBVIOUS
  <2> QED
    BY <2>1
<1>4. Minimum(a, new - 1) \in Nat
  BY DEF Minimum
<1>5. Rephase(old, new) = turns * new + (IF old = new THEN phase ELSE Minimum(a, new - 1))
  BY <1>1, <1>3 DEF Rephase
<1> QED
  BY <1>2, <1>4, <1>5

LEMMA CyclesRebuild ==
  ASSUME CyclesInv, NEW q \in Projects, Rebuild(q)
  PROVE  CyclesInv'
<1>1. ValidProject(project) /\ TypeOK
  BY DEF CyclesInv
<1>2. ValidProject(q)
  BY ParallelAssumption
<1>3. /\ project' = q /\ runtime' = FreshRuntime(q) /\ watermark' = 0
      /\ batch' = {} /\ earlier' = {} /\ playing' = playing /\ edited' = edited
      /\ failures' = failures /\ pristine' = FALSE
      /\ tick' = (IF playing THEN Rephase(project.cycle, q.cycle) ELSE tick)
      /\ cutoff' = (IF playing THEN tick' ELSE cutoff)
      /\ commands < MaxCommands /\ commands' = commands + 1
  BY DEF Rebuild
<1>4. /\ RuntimeOK(q, runtime')
      /\ \A t \in DOMAIN q.tracks : InStep(runtime'.tracks[t])
  BY <1>2, <1>3, FreshRuntimeIs
<1>5. Behind(q, runtime', earlier' \cup batch') /\ Apart(batch', earlier')
  BY <1>3 DEF Behind, Apart
<1>6. TypeOK'
  <2>1. q.cycle \in Nat \ {0} /\ project.cycle \in Nat \ {0}
    BY <1>1, <1>2 DEF ValidProject
  <2>2. tick' \in Nat
    BY <1>1, <1>3, <2>1, RephaseType DEF TypeOK
  <2>3. 0 % q.cycle = 0
    BY <2>1
  <2>4. \A t \in DOMAIN q.tracks : runtime'.tracks[t].until >= 0
    <3>1. \A t \in DOMAIN q.tracks : runtime'.tracks[t].until \in Nat
      BY <1>4 DEF RuntimeOK, TrackOK
    <3> QED
      BY <3>1
  <2>5. commands' \in 0 .. MaxCommands
    BY <1>1, <1>3, ParallelAssumption DEF TypeOK
  <2> QED
    BY <1>1, <1>3, <2>2, <2>3, <2>4, <2>5 DEF TypeOK
<1> QED
  BY <1>2, <1>3, <1>4, <1>5, <1>6 DEF CyclesInv

LEMMA CyclesStep ==
  ASSUME CyclesInv, [Next]_vars
  PROVE  CyclesInv'
<1>1. ASSUME NEW fault \in Faults(project) \cup {None}, Play(fault)
      PROVE  CyclesInv'
  BY <1>1, CyclesPlay
<1>2. ASSUME NEW fault \in Faults(project) \cup {None}, NEW d \in Steps, Tick(d, fault)
      PROVE  CyclesInv'
  BY <1>2, CyclesTick
<1>3. CASE Stop
  BY <1>3, CyclesStop
<1>4. ASSUME NEW q \in Projects, ApplyInPlace(q)
      PROVE  CyclesInv'
  BY <1>4, CyclesApply
<1>5. ASSUME NEW q \in Projects, Rebuild(q)
      PROVE  CyclesInv'
  BY <1>5, CyclesRebuild
<1>6. CASE UNCHANGED vars
  BY <1>6 DEF CyclesInv, TypeOK, vars
<1> QED
  BY <1>1, <1>2, <1>3, <1>4, <1>5, <1>6 DEF Next

\* Each cycle of a source is realized once, whatever realization failed
\* before it, and a lane's members come in the order of its walk
\* (realize_parallel_until and its retry).
THEOREM CyclesOnce == Spec => []CyclesRealizedOnce
<1>1. CyclesInv /\ [Next]_vars => CyclesInv'
  BY CyclesStep
<1>2. CyclesInv => CyclesRealizedOnce
  BY CyclesInvImplies
<1>3. Init => CyclesInv
  BY CyclesInit
<1> QED
  BY <1>1, <1>2, <1>3, PTL DEF Spec

\* Play begins as a runtime just built would, whatever was played, failed or
\* edited before (ParallelRuntime::reset_realization).
THEOREM ReplayAlways == Spec => ReplayIdentical
<1>1. ASSUME CyclesInv, [Next]_vars, ~playing, playing', failures' = failures
      PROVE  \E out \in {RealizeUntil(project, FreshRuntime(project), {}, project.cycle, None)} :
               <<runtime', queue'>> = <<out.rt, out.queue>>
  <2>1. PICK fault \in Faults(project) \cup {None} : Play(fault)
    BY <1>1 DEF Next, vars, Tick, Stop, ApplyInPlace, Rebuild
  <2>2. [Reset(runtime) EXCEPT !.horizon = 0] = FreshRuntime(project)
    BY <1>1, ResetIs DEF CyclesInv
  <2>3. PICK out : /\ out = RealizeUntil(project, FreshRuntime(project), {}, project.cycle, fault)
                   /\ fault # None => out.fails
                   /\ runtime' = out.rt /\ queue' = out.queue
                   /\ failures' = failures + (IF out.fails THEN 1 ELSE 0)
    BY <2>1, <2>2 DEF Play, Record
  <2>4. failures \in Nat
    BY <1>1, ParallelAssumption DEF CyclesInv, TypeOK
  <2>5. fault = None
    BY <1>1, <2>3, <2>4
  <2> QED
    BY <2>3, <2>5
<1>2. CyclesInv /\ [Next]_vars =>
        [~playing /\ playing' /\ failures' = failures =>
           \E out \in {RealizeUntil(project, FreshRuntime(project), {}, project.cycle, None)} :
             <<runtime', queue'>> = <<out.rt, out.queue>>]_vars
  BY <1>1
<1>3. CyclesInv /\ [Next]_vars => CyclesInv'
  BY CyclesStep
<1>4. Init => CyclesInv
  BY CyclesInit
<1> QED
  BY <1>2, <1>3, <1>4, PTL DEF Spec, ReplayIdentical

-----------------------------------------------------------------------------
(************************************************************************** *)
(* The notes of a batch                                                    *)
(************************************************************************** *)

\* The notes of a batch, each longer than nothing, have balanced events.
LEMMA NotesBalance ==
  ASSUME NEW M, IsFiniteSet(M),
         \A n \in M : n.start \in Nat /\ n.end \in Nat /\ n.start < n.end,
         NEW X, X = EventsOf(M)
  PROVE  Balanced(X)
<1> DEFINE o == [n \in M |-> [note |-> n, on |-> TRUE, tick |-> n.start]]
           f == [n \in M |-> [note |-> n, on |-> FALSE, tick |-> n.end]]
<1>1. /\ DOMAIN o = M /\ DOMAIN f = M
      /\ \A n \in M : /\ o[n].on /\ o[n].note = n /\ o[n].tick = n.start
                      /\ ~f[n].on /\ f[n].note = n /\ f[n].tick = n.end
  OBVIOUS
<1>2. PICK A, B : A = {o[n] : n \in M} /\ B = {f[n] : n \in M}
  OBVIOUS
<1>3. X = A \cup B
  BY <1>2 DEF EventsOf
<1> HIDE DEF o, f
<1>4. (\A e \in A : e.on) /\ (\A e \in B : ~e.on)
  BY <1>1, <1>2
<1>5. /\ IsFiniteSet(A) /\ IsFiniteSet(B)
      /\ Cardinality(A) = Cardinality(M) /\ Cardinality(B) = Cardinality(M)
  <2>1. /\ \A x, y \in M : o[x] = o[y] => x = y
        /\ \A x \in M : x \in DOMAIN o
    BY <1>1
  <2>2. IsFiniteSet(A) /\ Cardinality(A) = Cardinality(M)
    BY <1>2, <2>1, ImageSize
  <2>3. /\ \A x, y \in M : f[x] = f[y] => x = y
        /\ \A x \in M : x \in DOMAIN f
    BY <1>1
  <2>4. IsFiniteSet(B) /\ Cardinality(B) = Cardinality(M)
    BY <1>2, <2>3, ImageSize
  <2> QED
    BY <2>2, <2>4
<1>6. Excess(X) = 0
  <2>1. Excess(A \cup B) = Cardinality(B) - Cardinality(A) /\ Cardinality(A) \in Nat /\ Cardinality(B) \in Nat
    BY <1>4, <1>5, ExcessOf
  <2> QED
    BY <1>3, <1>5, <2>1
<1>7. ASSUME NEW T \in Nat
      PROVE  Excess(Seen(X, T)) <= 0
  <2>1. PICK a, b : a = Seen(A, T) /\ b = Seen(B, T)
    OBVIOUS
  <2>2. Seen(X, T) = a \cup b /\ a \subseteq A /\ b \subseteq B
    BY <1>3, <2>1 DEF Seen
  <2>3. IsFiniteSet(a) /\ IsFiniteSet(b) /\ (\A e \in a : e.on) /\ (\A e \in b : ~e.on)
    BY <1>4, <1>5, <2>2, FS_Subset
  <2>4. Excess(a \cup b) = Cardinality(b) - Cardinality(a) /\ Cardinality(a) \in Nat /\ Cardinality(b) \in Nat
    BY <2>3, ExcessOf
  <2>5. PICK N : N = {n \in M : f[n] \in b}
    OBVIOUS
  <2>6. IsFiniteSet(N) /\ N \subseteq M
    <3>1. N \subseteq M
      BY <2>5
    <3> QED
      BY <3>1, FS_Subset
  <2>7. PICK i : i = {o[n] : n \in N}
    OBVIOUS
  <2>8. Cardinality(b) = Cardinality(N)
    <3>1. b = {f[n] : n \in N}
      BY <1>2, <2>2, <2>5
    <3> QED
      BY <1>1, <2>6, <3>1, ImageSize
  <2>9. IsFiniteSet(i) /\ Cardinality(i) = Cardinality(N)
    <3>1. /\ \A x, y \in N : o[x] = o[y] => x = y
          /\ \A x \in N : x \in DOMAIN o
      BY <1>1, <2>6
    <3> QED
      BY <2>6, <2>7, <3>1, ImageSize
  <2>10. i \subseteq a
    <3> SUFFICES ASSUME NEW n \in N
                 PROVE  o[n] \in a
      BY <2>7
    <3>1. n \in M /\ f[n] \in b
      BY <2>5
    <3>2. n.end < T \/ n.end = T
      BY <1>1, <2>1, <3>1 DEF Seen
    <3>3. n.start < T
      BY <3>1, <3>2, <1>7
    <3> QED
      BY <1>1, <1>2, <2>1, <3>1, <3>3 DEF Seen
  <2>11. Cardinality(i) <= Cardinality(a)
    BY <2>3, <2>10, FS_Subset
  <2>12. Excess(a \cup b) <= 0
    BY <2>4, <2>8, <2>9, <2>11
  <2> QED
    BY <2>2, <2>12
<1> QED
  BY <1>6, <1>7 DEF Balanced, Prefixed

-----------------------------------------------------------------------------
(************************************************************************** *)
(* The types of what is launched and played                                *)
(************************************************************************** *)

\* An iteration of the compiler's loop keeps the types.
LEMMA StepTyped ==
  ASSUME NEW cfg, WellFormed(cfg), NEW s \in State, NEW window,
         NEW e, e = CompileStep(cfg, s, window)
  PROVE  e \in State
<1>1. CASE Releases(s, window)
  <2>1. s.carry \in Carry
    BY DEF State
  <2>2. s.carry.active \in Run /\ s.carry.queued \in Id
    BY <1>1, <2>1, CarryFields DEF Releases
  <2>3. PICK t \in Nat, id \in Id : t = s.carry.active.end /\ id = s.carry.queued
    BY <2>2 DEF Run
  <2>4. e = Emit(cfg, [s EXCEPT !.carry.queued = None], t, id)
    BY <1>1, <2>3 DEF CompileStep
  <2>5. Launches(cfg, s, t, id, e)
    BY <2>4, EmptyThenLaunch
  <2> QED
    BY <2>5 DEF Launches
<1>2. CASE ~Releases(s, window) /\ s.fires # {}
  <2>1. e = TakeFire(cfg, s)
    BY <1>2 DEF CompileStep
  <2>2. PICK fire : fire = NextFire(s.fires) /\ Took(cfg, s, fire, e)
    BY <1>2, <2>1, TakeFireIs
  <2> QED
    BY <2>2 DEF Took, Taken, Queued, Launches
<1>3. CASE ~Releases(s, window) /\ s.fires = {}
  BY <1>3 DEF CompileStep
<1> QED
  BY <1>1, <1>2, <1>3

\* What a compile gives is launches, and a carry.
LEMMA CompileTyped ==
  ASSUME NEW cfg, WellFormed(cfg), NEW cycles, cycles \subseteq ResolvedCycle,
         IsFiniteSet(cycles), \A c \in cycles : IsFiniteSet(c.beats),
         NEW window, window.start \in Nat, window.end \in Nat,
         NEW carry \in Carry, NEW o, o = Compile(cfg, cycles, window, carry)
  PROVE  o.carry \in Carry /\ o.launches \in Seq(Launch)
<1>1. PICK placed : placed = Placed(cfg, cycles) /\ placed \subseteq PlacedFire /\ IsFiniteSet(placed)
  BY PlacedTyped, PlacedFinite
<1>2. PICK begin : begin = Opened(placed, window, carry)
  OBVIOUS
<1>3. begin \in State /\ IsFiniteSet(begin.fires)
  <2>1. PICK past : past = {Identity(f) : f \in {f \in placed : f.tick < window.start}}
    OBVIOUS
  <2>2. PICK due : due = Due(placed, carry.consumed, window)
    OBVIOUS
  <2>3. PICK d : d = [carry EXCEPT !.consumed = @ \cup past]
    OBVIOUS
  <2>4. begin = [fires |-> due, launches |-> <<>>, carry |-> d]
    BY <1>2, <2>1, <2>2, <2>3 DEF Opened
  <2>5. \A f \in placed : f.tick \in Int /\ f.cycle \in Nat /\ f.beat \in Nat
    BY <1>1 DEF PlacedFire
  <2>6. past \subseteq Id
    BY <2>1, <2>5 DEF Identity, Id
  <2>7. \A f \in due : f \in PlacedFire /\ window.start <= f.tick
    BY <1>1, <2>2 DEF Due
  <2>8. due \subseteq WindowFire
    BY <2>7 DEF PlacedFire, WindowFire
  <2>9. d \in Carry
    BY <2>3, <2>6 DEF Carry
  <2>10. <<>> \in Seq(Launch)
    OBVIOUS
  <2>11. begin \in State
    BY <2>4, <2>8, <2>9, <2>10 DEF State
  <2>12. due \subseteq placed
    BY <2>2 DEF Due
  <2> QED
    BY <1>1, <2>4, <2>11, <2>12, FS_Subset
<1>4. PICK count \in Nat : count = 2 * Cardinality(begin.fires) + 8
  BY <1>3, FS_CardinalityType
<1>5. PICK f : /\ f[0] = begin
               /\ \A n \in 1 .. count : f[n] = CompileStep(cfg, f[n - 1], window)
               /\ f[count] = Looped(cfg, begin, window, count)
  BY LoopedIs
<1> DEFINE S == {n \in Nat : n <= count => f[n] \in State}
<1>6. 0 \in S
  BY <1>3, <1>5
<1>7. ASSUME NEW n \in Nat, n \in S
      PROVE  n + 1 \in S
  <2> SUFFICES ASSUME n + 1 <= count
               PROVE  f[n + 1] \in State
    OBVIOUS
  <2>1. n + 1 \in 1 .. count /\ (n + 1) - 1 = n
    BY <1>4
  <2>2. f[n + 1] = CompileStep(cfg, f[n], window)
    BY <1>5, <2>1
  <2>3. f[n] \in State
    BY <1>4, <1>7
  <2> QED
    BY <2>2, <2>3, StepTyped
<1>8. count \in S
  <2> HIDE DEF S
  <2> QED
    BY <1>4, <1>6, <1>7, Inductive
<1>9. PICK s : s = Looped(cfg, begin, window, count) /\ s \in State
  BY <1>4, <1>5, <1>8
<1>10. o = [launches |-> s.launches,
            carry |-> [Canonical(s.carry, window) EXCEPT !.consumed = PruneConsumed(@, cycles)]]
  BY <1>1, <1>2, <1>4, <1>9 DEF Compile
<1>11. s.carry \in Carry /\ s.launches \in Seq(Launch)
  BY <1>9 DEF State
<1>12. PICK d : d = Canonical(s.carry, window)
  OBVIOUS
<1>13. d \in Carry /\ d.consumed = s.carry.consumed
  BY <1>11, <1>12 DEF Canonical, Carry
<1>14. PruneConsumed(d.consumed, cycles) \subseteq Id
  BY <1>13 DEF PruneConsumed, Carry
<1>15. PICK p \in SUBSET Id : p = PruneConsumed(d.consumed, cycles)
  BY <1>14
<1>16. o.carry = [d EXCEPT !.consumed = p] /\ o.launches = s.launches
  BY <1>10, <1>12, <1>15
<1>17. o.carry \in Carry
  BY <1>13, <1>15, <1>16 DEF Carry
<1> QED
  BY <1>11, <1>16, <1>17

\* Takes whose notes last.
Lasting(source) == \A k \in DOMAIN source.takes : \A m \in source.takes[k] : m.on < m.off
Lasts(track) == \A n \in DOMAIN track.sources : Lasting(track.sources[n])

\* Notes as they are played, finitely many.
Written(M) == IsFiniteSet(M) /\ \A n \in M : IsNote(n) /\ n.start < n.end

\* What a runtime track keeps for those that follow it, and of its launches.
Timed(r) ==
  /\ r.recent \subseteq ResolvedCycle
  /\ r.at \in Nat /\ r.carry \in Carry /\ r.launches \in Seq(Launch)

LEMMA TakeTyped ==
  ASSUME NEW p, NEW t, NEW n \in Nat, ValidSource(p.tracks[t].sources[n]), Lasting(p.tracks[t].sources[n]),
         NEW cursor \in Cursor, NEW base \in Nat, NEW M, M = Take(p, t, n, cursor, base)
  PROVE  Written(M) /\ \A m \in M : m.start - base \in Nat
<1>1. PICK source : source = p.tracks[t].sources[n] /\ ValidSource(source) /\ Lasting(source)
  OBVIOUS
<1>2. cursor.cycle \in Nat /\ cursor.pool \in Nat
  BY DEF Cursor
<1>3. PICK drawn \in Nat : drawn = IF source.evolves THEN cursor.pool ELSE cursor.cycle
  BY <1>2
<1>4. PICK k \in DOMAIN source.takes : k = (drawn % Len(source.takes)) + 1
  <2>1. PICK N \in Nat \ {0} : N = Len(source.takes) /\ DOMAIN source.takes = 1 .. N
    BY <1>1 DEF ValidSource
  <2>2. drawn % N \in Nat /\ drawn % N < N
    BY <2>1, RemainderType
  <2>3. (drawn % N) + 1 \in 1 .. N
    BY <2>2
  <2> QED
    BY <2>1, <2>3
<1>5. PICK take : take = source.takes[k]
  OBVIOUS
<1>6. IsFiniteSet(take) /\ \A m \in take : m.on \in Nat /\ m.off \in Nat /\ m.on < m.off
  BY <1>1, <1>4, <1>5 DEF ValidSource, Lasting
<1> DEFINE f == [m \in take |-> [track |-> t, source |-> n, cycle |-> cursor.cycle,
                                 channel |-> m.channel, pitch |-> m.pitch,
                                 start |-> base + m.on, end |-> base + m.off]]
<1>7. M = {f[m] : m \in take}
  <2>1. M = {[track |-> t, source |-> n, cycle |-> cursor.cycle,
              channel |-> m.channel, pitch |-> m.pitch,
              start |-> base + m.on, end |-> base + m.off] : m \in take}
    BY <1>1, <1>3, <1>4, <1>5 DEF Take
  <2> QED
    BY <2>1
<1>8. DOMAIN f = take /\ f = [m \in take |-> f[m]]
  OBVIOUS
<1>9. ASSUME NEW m \in take
      PROVE  IsNote(f[m]) /\ f[m].start < f[m].end /\ f[m].start - base \in Nat
  <2>1. m.on \in Nat /\ m.off \in Nat /\ m.on < m.off
    BY <1>6
  <2>2. base + m.on \in Nat /\ base + m.off \in Nat /\ base + m.on < base + m.off /\ (base + m.on) - base \in Nat
    BY <2>1
  <2>3. f[m] = [track |-> t, source |-> n, cycle |-> cursor.cycle,
                channel |-> m.channel, pitch |-> m.pitch,
                start |-> base + m.on, end |-> base + m.off]
    OBVIOUS
  <2> HIDE DEF f
  <2> QED
    BY <1>2, <2>2, <2>3 DEF IsNote
<1> HIDE DEF f
<1>10. IsFiniteSet(M)
  BY <1>6, <1>7, <1>8, ImageFinite
<1> QED
  BY <1>7, <1>9, <1>10 DEF Written

\* What a follower sees of a cycle.
LEMMA ResolvedTyped ==
  ASSUME NEW source, ValidSource(source), NEW cursor \in Cursor, NEW base \in Nat,
         NEW notes, \A n \in notes : n.start - base \in Nat,
         NEW c, c = Resolved(source, cursor, base, notes)
  PROVE  c \in ResolvedCycle
<1>1. PICK length \in Nat : length = Ticks(source, cursor.cycle)
  BY TicksType DEF Cursor
<1>2. Ppqn \in Nat \ {0} /\ cursor.cycle \in Nat
  BY TriggersAssumption DEF Cursor
<1>3. PICK beats \in Nat : beats = length \div Ppqn /\ beats * Ppqn <= length
  <2>1. PICK P \in Nat \ {0} : P = Ppqn
    BY <1>2
  <2>2. length \div P \in Nat /\ (length \div P) * P <= length
    OBVIOUS
  <2> QED
    BY <2>1, <2>2
<1>4. PICK starts, map : starts = {n.start - base : n \in notes} /\ map = [x \in 0 .. length |-> x]
  OBVIOUS
<1>5. starts \subseteq Nat
  BY <1>4
<1> DEFINE At(x) == base + map[x]
           Remapped(b) == [b EXCEPT !.start = At(b.start), !.end = At(b.end),
                                    !.pulses = {At(x) : x \in b.pulses}]
<1>6. c = [index |-> cursor.cycle, start |-> At(0), end |-> At(beats * Ppqn),
           beats |-> {Remapped(ResolveBeat(n, {}, {}, starts)) : n \in 0 .. beats - 1}]
  <2>1. Resolved(source, cursor, base, notes) = ResolveCycle(cursor.cycle, beats, {}, {}, starts, base, map)
    BY <1>1, <1>3, <1>4 DEF Resolved
  <2>2. ResolveCycle(cursor.cycle, beats, {}, {}, starts, base, map)
          = [index |-> cursor.cycle, start |-> At(0), end |-> At(beats * Ppqn),
             beats |-> {Remapped(ResolveBeat(n, {}, {}, starts)) : n \in 0 .. beats - 1}]
    BY DEF ResolveCycle
  <2> HIDE DEF Remapped, At
  <2> QED
    BY <2>1, <2>2
<1>7. \A x \in 0 .. length : At(x) = base + x /\ At(x) \in Nat
  BY <1>4
<1> HIDE DEF At
<1>8. At(0) \in Nat /\ At(beats * Ppqn) \in Nat
  BY <1>2, <1>3, <1>7
<1>9. ASSUME NEW n \in 0 .. beats - 1
      PROVE  Remapped(ResolveBeat(n, {}, {}, starts)) \in ResolvedBeat
  <2>1. ToTick([num |-> n, den |-> 1]) = n * Ppqn /\ ToTick([num |-> n + 1, den |-> 1]) = (n + 1) * Ppqn
    <3>1. ASSUME NEW m \in Nat
          PROVE  ToTick([num |-> m, den |-> 1]) = m * Ppqn
      <4>1. PICK a \in Nat : a = m * Ppqn
        BY <1>2
      <4>2. (2 * a + 1) \div 2 = a
        OBVIOUS
      <4>3. ToTick([num |-> m, den |-> 1]) = (2 * m * Ppqn + 1) \div (2 * 1)
        BY DEF ToTick
      <4>4. 2 * m * Ppqn = 2 * a
        BY <1>2, <4>1
      <4> QED
        BY <4>1, <4>2, <4>3, <4>4
    <3>2. n \in Nat /\ n + 1 \in Nat
      OBVIOUS
    <3> QED
      BY <3>1, <3>2
  <2>2. PICK from \in 0 .. length, to \in 0 .. length :
          from = n * Ppqn /\ to = (n + 1) * Ppqn /\ from < to
    <3>1. n * Ppqn \in Nat /\ (n + 1) * Ppqn \in Nat /\ n * Ppqn < (n + 1) * Ppqn
      BY <1>2
    <3>2. (n + 1) * Ppqn <= beats * Ppqn
      BY <1>2, <1>3
    <3>3. (n + 1) * Ppqn <= length
      BY <1>2, <1>3, <3>1, <3>2
    <3> QED
      BY <3>1, <3>3
  <2>3. PICK beat : beat = [start |-> from, end |-> to, gati |-> 1]
    OBVIOUS
  <2>4. PICK within : within = {x \in starts : from <= x /\ x < to} /\ within \subseteq starts
    OBVIOUS
  <2>5. ResolveBeat(n, {}, {}, starts)
          = [beat |-> n, gati |-> 1, start |-> from, end |-> to, sectionStart |-> FALSE,
             pulses |-> {}, sounding |-> within # {}, matras |-> {MatraOf(x, beat) : x \in within}]
    <3> DEFINE real == [gati |-> 1, section |-> 0, from |-> [num |-> n, den |-> 1],
                        to |-> [num |-> n + 1, den |-> 1]]
               inSection == {s.beat : s \in {s \in {} : s.section = real.section}}
               bounds == [start |-> ToTick(real.from), end |-> ToTick(real.to),
                          gati |-> IF real.gati < 1 THEN 1 ELSE real.gati]
               inside == {x \in starts : bounds.start <= x /\ x < bounds.end}
    <3>1. {s \in {} : s.beat = n} = {}
      OBVIOUS
    <3>2. ResolveBeat(n, {}, {}, starts)
            = [beat |-> n, gati |-> real.gati, start |-> bounds.start, end |-> bounds.end,
               sectionStart |-> inSection # {} /\ Min(inSection) = n,
               pulses |-> {ToTick(x) : x \in {}} \cap (bounds.start .. bounds.end - 1),
               sounding |-> inside # {},
               matras |-> {MatraOf(x, bounds) : x \in inside}]
      BY ZenonT(30), <3>1 DEF ResolveBeat
    <3>3. bounds = beat
      BY <2>1, <2>2, <2>3
    <3>4. inSection = {} /\ {ToTick(x) : x \in {}} = {}
      OBVIOUS
    <3>5. beat.start = from /\ beat.end = to /\ real.gati = 1
      BY <2>3
    <3>6. inside = within
      BY <2>4, <3>3, <3>5
    <3> HIDE DEF real, inSection, bounds, inside
    <3> QED
      BY <3>2, <3>3, <3>4, <3>5, <3>6
  <2>6. PICK matras : matras = {MatraOf(x, beat) : x \in within}
    OBVIOUS
  <2>7. matras \subseteq Int
    <3>1. ASSUME NEW x \in within
          PROVE  MatraOf(x, beat) \in Int
      <4>1. x \in Nat /\ beat.start = from /\ beat.end = to /\ beat.gati = 1
        BY <1>5, <2>3, <2>4
      <4>2. (x - from) * 1 \in Int /\ to - from \in Nat \ {0}
        BY <2>2, <4>1
      <4>3. ((x - from) * 1) \div (to - from) \in Int
        BY <4>2, QuotientType
      <4> QED
        BY <4>1, <4>3 DEF MatraOf, Minimum
    <3> QED
      BY <2>6, <3>1
  <2>8. PICK heard \in BOOLEAN : heard = (within # {})
    OBVIOUS
  <2>9. PICK b : b = ResolveBeat(n, {}, {}, starts)
    OBVIOUS
  <2>10. b = [beat |-> n, gati |-> 1, start |-> from, end |-> to, sectionStart |-> FALSE,
              pulses |-> {}, sounding |-> heard, matras |-> matras]
    BY <2>5, <2>6, <2>8, <2>9
  <2>11. At(from) \in Nat /\ At(to) \in Nat
    BY <1>7
  <2>12. {At(x) : x \in b.pulses} = {}
    BY <2>10
  <2>13. Remapped(b) = [b EXCEPT !.start = At(from), !.end = At(to), !.pulses = {}]
    BY <2>10, <2>12
  <2>14. PICK u \in Nat, v \in Nat : u = At(from) /\ v = At(to)
    BY <2>11
  <2> HIDE DEF Remapped
  <2>15. Remapped(b) = [beat |-> n, gati |-> 1, start |-> u, end |-> v, sectionStart |-> FALSE,
                        pulses |-> {}, sounding |-> heard, matras |-> matras]
    BY <2>10, <2>13, <2>14
  <2>16. n \in Nat /\ 1 \in Nat \ {0} /\ FALSE \in BOOLEAN /\ {} \in SUBSET Nat /\ matras \in SUBSET Int
    BY <2>7
  <2>17. Remapped(b) \in ResolvedBeat
    BY <2>8, <2>14, <2>15, <2>16 DEF ResolvedBeat
  <2> QED
    BY <2>9, <2>17
<1> HIDE DEF Remapped
<1>10. PICK bs : bs = {Remapped(ResolveBeat(n, {}, {}, starts)) : n \in 0 .. beats - 1} /\ bs \subseteq ResolvedBeat
  BY <1>9
<1> QED
  BY <1>2, <1>6, <1>8, <1>10 DEF ResolvedCycle

\* A track after it played, and its notes.
Typed(s) == Timed(s.r) /\ Written(s.notes)

LEMMA WrittenUnion ==
  ASSUME NEW M, Written(M), NEW N, Written(N)
  PROVE  Written(M \cup N) /\ Written({})
<1>1. IsFiniteSet(M \cup N) /\ IsFiniteSet({})
  BY FS_Union, FS_EmptySet DEF Written
<1> QED
  BY <1>1 DEF Written

LEMMA ContinuousTyped ==
  ASSUME NEW p, NEW t, ValidTrack(p.tracks[t]), Lasts(p.tracks[t]),
         NEW r, TrackOK(p.tracks[t], r), Timed(r), NEW s, s = ContinuousCycle(p, t, r)
  PROVE  Typed(s)
<1>1. PICK track, source, cursor :
         track = p.tracks[t] /\ source = track.sources[1] /\ cursor = r.cursors[1]
  OBVIOUS
<1>2. 1 \in 1 .. Len(r.cursors) /\ 1 \in DOMAIN track.sources /\ ValidSource(source) /\ cursor \in Cursor
  <2>1. 1 \in 1 .. Len(r.cursors)
    BY <1>1 DEF TrackOK, ValidTrack
  <2> QED
    BY <1>1, <2>1, CursorIs
<1>3. Lasting(source) /\ r.until \in Nat
  BY <1>1, <1>2 DEF Lasts, TrackOK
<1>4. PICK notes : notes = Take(p, t, 1, cursor, r.until)
  OBVIOUS
<1>5. Written(notes) /\ \A m \in notes : m.start - r.until \in Nat
  BY <1>1, <1>2, <1>3, <1>4, TakeTyped
<1>6. PICK c \in ResolvedCycle : c = Resolved(source, cursor, r.until, notes)
  <2>1. PICK base \in Nat : base = r.until
    BY <1>3
  <2>2. \A m \in notes : m.start - base \in Nat
    BY <1>5, <2>1
  <2>3. Resolved(source, cursor, base, notes) \in ResolvedCycle
    BY <1>2, <2>2, ResolvedTyped
  <2> QED
    BY <2>1, <2>3
<1>7. PICK recent : recent = IF Followers(p, t) = {} THEN r.recent ELSE r.recent \cup {c}
  OBVIOUS
<1>8. recent \subseteq ResolvedCycle
  BY <1>6, <1>7 DEF Timed
<1>9. PICK until, played : until = r.until + Ticks(source, cursor.cycle) /\ played = Realized(cursor)
  OBVIOUS
<1>10. PICK e : e = [r EXCEPT !.until = until, !.cycle = @ + 1, !.cursors[1] = played, !.recent = recent]
  OBVIOUS
<1>11. s = [r |-> e, notes |-> IF track.silent THEN {} ELSE notes]
  BY <1>1, <1>4, <1>6, <1>7, <1>9, <1>10 DEF ContinuousCycle
<1>12. r = [n \in TrackNames |-> r[n]]
  BY DEF TrackOK
<1>13. e.recent = recent /\ e.at = r.at /\ e.carry = r.carry /\ e.launches = r.launches
  BY <1>10, <1>12 DEF TrackNames
<1>14. Timed(e)
  BY <1>8, <1>13 DEF Timed
<1>15. Written(s.notes)
  BY <1>5, <1>11, WrittenUnion
<1> QED
  BY <1>11, <1>14, <1>15 DEF Typed

LEMMA LaneTyped ==
  ASSUME NEW p, NEW t, ValidTrack(p.tracks[t]), Lasts(p.tracks[t]), Kind(p, t) = "lane",
         NEW r, TrackOK(p.tracks[t], r), Timed(r), NEW s, s = LaneCycle(p, t, r)
  PROVE  Typed(s)
<1>1. PICK track, lane : track = p.tracks[t] /\ lane = track.lane /\ lane # None
  BY DEF Kind
<1>2. PICK k \in Nat \ {0} : k = Len(track.sources) /\ k = Len(r.cursors) /\ ValidSpec(lane, k)
  BY <1>1 DEF ValidTrack, TrackOK
<1>3. r.walk \in WalkState(k)
  BY <1>1, <1>2 DEF TrackOK
<1>4. PICK choice : choice = Choose(lane, r.walk)
  OBVIOUS
<1>5. choice.state \in States(k)
  BY <1>2, <1>3, <1>4, ChooseIs
<1>6. PICK n \in 1 .. k : n = choice.state + 1 /\ n = Minimum(choice.state + 1, Len(r.cursors))
  BY <1>2, <1>5 DEF States, Minimum
<1>7. PICK source, cursor : source = track.sources[n] /\ cursor = r.cursors[n]
  OBVIOUS
<1>8. n \in DOMAIN track.sources /\ ValidSource(source) /\ cursor \in Cursor
  <2>1. n \in 1 .. Len(r.cursors)
    BY <1>2, <1>6
  <2> QED
    BY <1>1, <1>7, <2>1, CursorIs
<1>9. Lasting(source) /\ r.until \in Nat /\ n \in Nat
  BY <1>1, <1>7, <1>8 DEF Lasts, TrackOK
<1>10. PICK notes : notes = Take(p, t, n, cursor, r.until)
  OBVIOUS
<1>11. Written(notes)
  BY <1>1, <1>7, <1>8, <1>9, <1>10, TakeTyped
<1>12. PICK until, played, walk : /\ until = r.until + Ticks(source, cursor.cycle)
                                  /\ played = Realized(cursor) /\ walk = choice.walk
  OBVIOUS
<1>13. PICK e : e = [r EXCEPT !.until = until, !.cycle = @ + 1, !.cursors[n] = played, !.walk = walk]
  OBVIOUS
<1>14. s = [r |-> e, notes |-> notes]
  BY <1>1, <1>4, <1>6, <1>7, <1>10, <1>12, <1>13 DEF LaneCycle, LaneTurn
<1>15. r = [x \in TrackNames |-> r[x]]
  BY DEF TrackOK
<1>16. e.recent = r.recent /\ e.at = r.at /\ e.carry = r.carry /\ e.launches = r.launches
  BY <1>13, <1>15 DEF TrackNames
<1> QED
  BY <1>11, <1>14, <1>16 DEF Timed, Typed

LEMMA LaunchTyped ==
  ASSUME NEW p, NEW t, ValidTrack(p.tracks[t]), Lasts(p.tracks[t]),
         NEW r, TrackOK(p.tracks[t], r), Timed(r), r.launches # <<>>, NEW s, s = LaunchTurn(p, t, r)
  PROVE  Typed(s)
<1>1. PICK track, source : track = p.tracks[t] /\ source = track.sources[1]
  OBVIOUS
<1>2. PICK l \in Seq(Launch) : l = r.launches /\ l # <<>>
  BY DEF Timed
<1>3. r = [x \in TrackNames |-> r[x]]
  BY DEF TrackOK
<1>4. Head(l) \in Launch /\ Tail(l) \in Seq(Launch)
  BY <1>2, HeadTailProperties
<1>5. CASE LaunchOver(r)
  <2>1. PICK e : e = [r EXCEPT !.launches = Tail(@), !.within = 0]
    OBVIOUS
  <2>2. s = [r |-> e, notes |-> {}]
    BY <1>5, <2>1 DEF LaunchTurn
  <2>3. e.recent = r.recent /\ e.at = r.at /\ e.carry = r.carry /\ e.launches = Tail(l)
    BY <1>2, <1>3, <2>1 DEF TrackNames
  <2>4. Timed(e)
    BY <1>4, <2>3 DEF Timed
  <2>5. Written({})
    BY FS_EmptySet DEF Written
  <2> QED
    BY <2>2, <2>4, <2>5 DEF Typed
<1>6. CASE ~LaunchOver(r)
  <2>1. r.within \in Nat /\ r.at \in Nat /\ Head(l).first \in Nat /\ Head(l).start \in Nat
    BY <1>4 DEF Launch, TrackOK, Timed
  <2>2. PICK own \in Nat, base \in Nat : own = Head(l).first + r.within /\ base = LaunchAt(r)
    BY <1>2, <2>1 DEF LaunchAt
  <2>3. PICK cursor : cursor = [cycle |-> own, pool |-> r.cursors[1].pool]
    OBVIOUS
  <2>4. /\ 1 \in 1 .. Len(r.cursors) /\ 1 \in DOMAIN track.sources /\ ValidSource(source)
        /\ r.cursors[1] \in Cursor
    <3>1. 1 \in 1 .. Len(r.cursors)
      BY <1>1 DEF TrackOK, ValidTrack
    <3> QED
      BY <1>1, <3>1, CursorIs
  <2>5. cursor \in Cursor /\ Lasting(source)
    BY <1>1, <2>2, <2>3, <2>4 DEF Cursor, Lasts
  <2>6. PICK notes : notes = Take(p, t, 1, cursor, base)
    OBVIOUS
  <2>7. Written(notes)
    BY <1>1, <2>4, <2>5, <2>6, TakeTyped
  <2>8. PICK at \in Nat : at = base + Ticks(source, own)
    <3>1. PICK length \in Nat \ {0} : length = Ticks(source, own)
      BY <2>2, <2>4, TicksType
    <3> QED
      BY <2>2, <3>1
  <2>9. PICK played : played = Realized(cursor)
    OBVIOUS
  <2>10. PICK e : e = [r EXCEPT !.within = @ + 1, !.at = at, !.cursors[1] = played]
    OBVIOUS
  <2>11. s = [r |-> e, notes |-> notes]
    BY <1>1, <1>2, <1>6, <2>2, <2>3, <2>6, <2>8, <2>9, <2>10 DEF LaunchTurn
  <2>12. e.recent = r.recent /\ e.at = at /\ e.carry = r.carry /\ e.launches = r.launches
    BY <1>3, <2>10 DEF TrackNames
  <2>13. Timed(e)
    BY <2>8, <2>12 DEF Timed
  <2> QED
    BY <2>7, <2>11, <2>13 DEF Typed
<1> QED
  BY <1>5, <1>6

LEMMA LaunchedTyped ==
  ASSUME NEW p, NEW t, WellFormed(TriggerOf(p.tracks[t])),
         NEW r, TrackOK(p.tracks[t], r), Timed(r),
         NEW cycles, cycles \subseteq ResolvedCycle, IsFiniteSet(cycles), \A c \in cycles : IsFiniteSet(c.beats),
         NEW target \in Nat, NEW s, s = Launched(p, t, r, cycles, target)
  PROVE  Timed(s)
<1>1. CASE r.until >= target
  BY <1>1 DEF Launched
<1>2. CASE ~(r.until >= target)
  <2>1. PICK window : window = [start |-> r.until, end |-> target]
    OBVIOUS
  <2>2. PICK cfg : cfg = TriggerOf(p.tracks[t]) /\ WellFormed(cfg)
    OBVIOUS
  <2>3. PICK carry \in Carry : carry = r.carry
    BY DEF Timed
  <2>4. PICK out : out = Compile(cfg, cycles, window, carry)
    OBVIOUS
  <2>5. window.start \in Nat /\ window.end \in Nat
    BY <2>1 DEF TrackOK
  <2>6. out.carry \in Carry /\ out.launches \in Seq(Launch)
    BY <2>2, <2>4, <2>5, CompileTyped
  <2>7. PICK l \in Seq(Launch) : l = r.launches \o out.launches
    BY <2>6, ConcatProperties DEF Timed
  <2>8. s = [r EXCEPT !.carry = out.carry, !.launches = l]
    BY <1>2, <2>1, <2>2, <2>3, <2>4, <2>7 DEF Launched
  <2>9. r = [x \in TrackNames |-> r[x]]
    BY DEF TrackOK
  <2>10. s.recent = r.recent /\ s.at = r.at /\ s.carry = out.carry /\ s.launches = l
    BY <2>8, <2>9 DEF TrackNames
  <2> QED
    BY <2>6, <2>7, <2>10 DEF Timed
<1> QED
  BY <1>1, <1>2

LEMMA IterateTyped ==
  ASSUME NEW p, ValidProject(p), NEW t \in DOMAIN p.tracks, Lasts(p.tracks[t]),
         NEW s, TrackOK(p.tracks[t], s.r), Typed(s), NEW until, NEW target,
         NEW e, e = Iterate(p, t, until, target, s)
  PROVE  Typed(e)
<1>1. ValidTrack(p.tracks[t])
  BY DEF ValidProject
<1>2. PICK r : r = s.r /\ TrackOK(p.tracks[t], r) /\ Timed(r)
  BY DEF Typed
<1>3. CASE ~HasTurn(Kind(p, t), s.r, until, target)
  BY <1>3 DEF Iterate
<1>4. CASE HasTurn(Kind(p, t), s.r, until, target)
  <2>1. PICK u : u = Turn(p, t, r)
    OBVIOUS
  <2>2. e = [r |-> u.r, notes |-> s.notes \cup u.notes]
    BY <1>2, <1>4, <2>1 DEF Iterate
  <2>3. Typed(u)
    <3>1. CASE Kind(p, t) = "triggered"
      <4>1. u = LaunchTurn(p, t, r) /\ r.launches # <<>>
        BY <1>2, <1>4, <2>1, <3>1 DEF Turn, HasTurn
      <4> QED
        BY <1>1, <1>2, <4>1, LaunchTyped
    <3>2. CASE Kind(p, t) = "lane"
      <4>1. u = LaneCycle(p, t, r)
        BY <2>1, <3>2 DEF Turn
      <4> QED
        BY <1>1, <1>2, <3>2, <4>1, LaneTyped
    <3>3. CASE Kind(p, t) = "continuous"
      <4>1. u = ContinuousCycle(p, t, r)
        BY <2>1, <3>3 DEF Turn
      <4> QED
        BY <1>1, <1>2, <4>1, ContinuousTyped
    <3> QED
      BY <3>1, <3>2, <3>3, KindIs
  <2> QED
    BY <2>2, <2>3, WrittenUnion DEF Typed
<1> QED
  BY <1>3, <1>4

LEMMA TurnsTyped ==
  ASSUME NEW p, ValidProject(p), NEW t \in DOMAIN p.tracks, Lasts(p.tracks[t]),
         NEW begin, TrackOK(p.tracks[t], begin), Timed(begin), NEW target \in Nat, NEW count \in Nat
  PROVE  Typed(TakeTurns(p, t, begin, target, count))
<1>1. PICK f : /\ f[0] = Unplayed(begin)
               /\ \A n \in 1 .. count : f[n] = Iterate(p, t, begin.until, target, f[n - 1])
               /\ f[count] = TakeTurns(p, t, begin, target, count)
  BY TurnsAre
<1>2. ValidTrack(p.tracks[t])
  BY DEF ValidProject
<1> DEFINE S == {n \in Nat : n <= count => Brought(p, t, begin, target, n, f[n]) /\ Typed(f[n])}
<1>3. 0 \in S
  <2>1. PICK s : s = f[0] /\ s = Unplayed(begin) /\ s.r = begin /\ s.notes = {}
    BY <1>1 DEF Unplayed
  <2>2. Follows(p, t, begin, s)
    BY <1>2, <2>1, UnplayedFollows
  <2>3. begin.until >= begin.until + 0
    BY DEF TrackOK
  <2>4. Brought(p, t, begin, target, 0, s)
    BY <2>1, <2>2, <2>3 DEF Brought
  <2>5. Typed(s)
    BY <2>1, FS_EmptySet DEF Typed, Written
  <2> QED
    BY <2>1, <2>4, <2>5
<1>4. ASSUME NEW n \in Nat, n \in S
      PROVE  n + 1 \in S
  <2> SUFFICES ASSUME n + 1 <= count
               PROVE  Brought(p, t, begin, target, n + 1, f[n + 1]) /\ Typed(f[n + 1])
    OBVIOUS
  <2>1. n + 1 \in 1 .. count /\ (n + 1) - 1 = n
    OBVIOUS
  <2>2. f[n + 1] = Iterate(p, t, begin.until, target, f[n])
    BY <1>1, <2>1
  <2>3. Brought(p, t, begin, target, n, f[n]) /\ Typed(f[n])
    BY <1>4
  <2>4. Brought(p, t, begin, target, n + 1, f[n + 1])
    BY <2>2, <2>3, IterateKeeps
  <2>5. PICK s : s = f[n] /\ TrackOK(p.tracks[t], s.r) /\ Typed(s)
    BY <2>3 DEF Brought, Follows
  <2>6. Typed(f[n + 1])
    BY <2>2, <2>5, IterateTyped
  <2> QED
    BY <2>4, <2>6
<1>5. count \in S
  <2> HIDE DEF S
  <2> QED
    BY <1>3, <1>4, Inductive
<1> QED
  BY <1>1, <1>5

LEMMA AdvanceTyped ==
  ASSUME NEW p, ValidProject(p), NEW t \in DOMAIN p.tracks, Lasts(p.tracks[t]),
         NEW r, TrackOK(p.tracks[t], r), Timed(r),
         NEW cycles, cycles \subseteq ResolvedCycle, IsFiniteSet(cycles), \A c \in cycles : IsFiniteSet(c.beats),
         NEW target \in Nat, NEW turns \in Nat \cup {None},
         NEW s, s = Advance(p, t, r, cycles, target, turns)
  PROVE  Typed(s)
<1>1. PICK track, kind : track = p.tracks[t] /\ kind = Kind(p, t)
  OBVIOUS
<1>2. ValidTrack(track)
  BY <1>1 DEF ValidProject
<1>3. PICK begin : begin = IF kind = "triggered" THEN Launched(p, t, r, cycles, target) ELSE r
  OBVIOUS
<1>4. TrackOK(track, begin) /\ Timed(begin)
  <2>1. CASE kind = "triggered"
    <3>1. track.lane = None /\ TriggerOf(track).passes \in Nat /\ WellFormed(TriggerOf(track))
      BY <1>1, <2>1, TriggeredIs
    <3>2. begin = Launched(p, t, r, cycles, target)
      BY <1>3, <2>1
    <3>3. Follows(p, t, r, Unplayed(begin))
      BY <1>1, <1>2, <2>1, <3>1, <3>2, LaunchedKeeps
    <3>4. TrackOK(track, begin)
      BY <1>1, <3>3 DEF Follows, Unplayed
    <3>5. Timed(begin)
      BY <1>1, <3>1, <3>2, LaunchedTyped
    <3> QED
      BY <3>4, <3>5
  <2>2. CASE kind # "triggered"
    BY <1>1, <1>3, <2>2
  <2> QED
    BY <2>1, <2>2
<1>5. PICK count \in Nat : count = IF turns = None THEN Enough(kind, begin, target) ELSE turns
  BY <1>4, EnoughType
<1>6. PICK end : end = TakeTurns(p, t, begin, target, count)
  OBVIOUS
<1>7. Typed(end) /\ TrackOK(track, end.r)
  <2>1. Typed(end)
    BY <1>1, <1>4, <1>6, TurnsTyped
  <2>2. Brought(p, t, begin, target, count, end)
    BY <1>1, <1>4, <1>6, TurnsKeep
  <2> QED
    BY <1>1, <2>1, <2>2 DEF Brought, Follows
<1>8. PICK fails : fails = (/\ HasTurn(kind, end.r, r.until, target)
                            /\ kind = "triggered" => ~LaunchOver(end.r))
  OBVIOUS
<1>9. s = [notes |-> end.notes, short |-> fails,
           r |-> CASE kind = "triggered" /\ turns = None -> [end.r EXCEPT !.until = Max({@, target})]
                   [] kind = "lane" /\ turns # None /\ fails ->
                        [end.r EXCEPT !.walk = Choose(track.lane, @).walk]
                   [] OTHER -> end.r]
  BY <1>1, <1>3, <1>5, <1>6, <1>8 DEF Advance
<1>10. PICK x : x = end.r /\ x = [n \in TrackNames |-> x[n]] /\ Timed(x)
  BY <1>7 DEF TrackOK, Typed
<1>11. s.r.recent = x.recent /\ s.r.at = x.at /\ s.r.carry = x.carry /\ s.r.launches = x.launches
  <2>1. CASE kind = "triggered" /\ turns = None
    <3>1. PICK until : until = Max({x.until, target})
      OBVIOUS
    <3>2. s.r = [x EXCEPT !.until = until]
      BY <1>9, <1>10, <2>1, <3>1
    <3> QED
      BY <1>10, <3>2 DEF TrackNames
  <2>2. CASE kind = "lane" /\ turns # None /\ fails
    <3>1. PICK walk : walk = Choose(track.lane, x.walk).walk
      OBVIOUS
    <3>2. s.r = [x EXCEPT !.walk = walk]
      BY <1>9, <1>10, <2>2, <3>1
    <3> QED
      BY <1>10, <3>2 DEF TrackNames
  <2>3. CASE ~(kind = "triggered" /\ turns = None) /\ ~(kind = "lane" /\ turns # None /\ fails)
    BY <1>9, <1>10, <2>3
  <2> QED
    BY <2>1, <2>2, <2>3
<1>12. s.notes = end.notes
  BY <1>9
<1>13. Written(s.notes)
  BY <1>7, <1>12 DEF Typed
<1>14. Timed(s.r)
  BY <1>10, <1>11 DEF Timed
<1> QED
  BY <1>13, <1>14 DEF Typed

\* Every take of a project, and every track of a runtime.
AllLast(p) == \A t \in DOMAIN p.tracks : Lasts(p.tracks[t])
AllTimed(p, rt) == \A t \in DOMAIN p.tracks : Timed(rt.tracks[t])

LEMMA PassesTyped ==
  ASSUME NEW p, ValidProject(p), AllLast(p), NEW rt, RuntimeOK(p, rt), AllTimed(p, rt), NEW target \in Nat,
         NEW fault \in Faults(p) \cup {None}, NEW passed, passed = Passes(p, rt, target, fault)
  PROVE  \A t \in DOMAIN p.tracks : Typed(passed[t])
<1> DEFINE first == IF fault = None THEN None ELSE Kind(p, fault.track)
           Runs(t) ==
             \/ fault = None \/ t = fault.track
             \/ CASE Kind(p, t) = "continuous" -> first # "continuous" \/ t \notin fault.spared
                  [] Kind(p, t) = "lane" ->
                       first = "triggered" \/ (first = "lane" /\ t < fault.track)
                  [] Kind(p, t) = "triggered" -> first = "triggered" /\ t < fault.track
           Turns(t) == IF fault # None /\ t = fault.track THEN fault.turns ELSE None
           Idle(t) == [r |-> rt.tracks[t], notes |-> {}, short |-> FALSE]
           Pass(t, cycles) ==
             IF Runs(t) THEN Advance(p, t, rt.tracks[t], cycles, target, Turns(t)) ELSE Idle(t)
           free == [t \in DOMAIN p.tracks |->
                      IF Kind(p, t) = "triggered" THEN Idle(t) ELSE Pass(t, {})]
<1>1. passed = [t \in DOMAIN p.tracks |->
                  IF Kind(p, t) # "triggered" THEN free[t]
                  ELSE Pass(t, free[SourceOf(p, t)].r.recent)]
  BY DEF Passes
<1>2. ASSUME NEW t \in DOMAIN p.tracks
      PROVE  Turns(t) \in Nat \cup {None}
  <2>1. fault # None => fault.turns \in Nat
    BY DEF Faults
  <2> QED
    BY <2>1
<1> HIDE DEF Runs, Turns
<1>3. ASSUME NEW t \in DOMAIN p.tracks
      PROVE  Typed(Idle(t)) /\ Idle(t).r = rt.tracks[t]
  <2>1. PICK e : e = Idle(t)
    OBVIOUS
  <2>2. e.r = rt.tracks[t] /\ e.notes = {}
    BY <2>1
  <2>3. Timed(e.r)
    BY <2>2 DEF AllTimed
  <2>4. Written(e.notes)
    BY <2>2, FS_EmptySet DEF Written
  <2>5. Typed(e)
    BY <2>3, <2>4 DEF Typed
  <2> HIDE DEF Idle
  <2> QED
    BY <2>1, <2>2, <2>5
<1> HIDE DEF Idle
<1>4. ASSUME NEW t \in DOMAIN p.tracks, NEW cycles, cycles \subseteq ResolvedCycle,
             IsFiniteSet(cycles), \A c \in cycles : IsFiniteSet(c.beats)
      PROVE  Typed(Pass(t, cycles))
  <2>1. CASE Runs(t)
    <3>1. PICK r, turns, s : r = rt.tracks[t] /\ turns = Turns(t) /\ s = Advance(p, t, r, cycles, target, turns)
      OBVIOUS
    <3>2. /\ TrackOK(p.tracks[t], r) /\ Timed(r) /\ Lasts(p.tracks[t])
          /\ turns \in Nat \cup {None}
      BY <1>2, <3>1 DEF RuntimeOK, AllTimed, AllLast
    <3>3. Typed(s)
      BY <1>4, <3>1, <3>2, AdvanceTyped
    <3> QED
      BY <2>1, <3>1, <3>3
  <2>2. CASE ~Runs(t)
    BY <1>3, <2>2
  <2> QED
    BY <2>1, <2>2
<1> HIDE DEF Pass
<1>5. ASSUME NEW t \in DOMAIN p.tracks, Kind(p, t) # "triggered"
      PROVE  passed[t] = free[t] /\ Typed(passed[t])
  <2>1. passed[t] = free[t] /\ free[t] = Pass(t, {})
    BY <1>1, <1>5
  <2>2. Typed(Pass(t, {}))
    <3>1. PICK none : none = {} /\ none \subseteq ResolvedCycle /\ IsFiniteSet(none)
                      /\ \A c \in none : IsFiniteSet(c.beats)
      BY FS_EmptySet
    <3>2. Typed(Pass(t, none))
      BY <1>4, <3>1
    <3> QED
      BY <3>1, <3>2
  <2> QED
    BY <2>1, <2>2
<1>6. \A t \in DOMAIN p.tracks : TrackOK(p.tracks[t], passed[t].r)
  <2>1. \A t \in DOMAIN p.tracks : Passed(p, t, rt.tracks[t], target, fault, passed[t])
    BY PassesKeep
  <2> QED
    BY <2>1 DEF Passed, Follows
<1>7. ASSUME NEW t \in DOMAIN p.tracks
      PROVE  TrackOK(p.tracks[t], free[t].r) /\ Timed(free[t].r)
  <2>1. CASE Kind(p, t) = "triggered"
    <3>1. free[t].r = rt.tracks[t]
      BY <1>3, <2>1
    <3> HIDE DEF free
    <3> QED
      BY <3>1 DEF RuntimeOK, AllTimed
  <2>2. CASE Kind(p, t) # "triggered"
    <3>1. free[t] = passed[t] /\ Typed(passed[t])
      BY <1>5, <2>2
    <3> HIDE DEF free
    <3> QED
      BY <1>6, <3>1 DEF Typed
  <2> QED
    BY <2>1, <2>2
<1>8. ASSUME NEW t \in DOMAIN p.tracks, Kind(p, t) = "triggered"
      PROVE  Typed(passed[t])
  <2>1. PICK u \in DOMAIN p.tracks : u = SourceOf(p, t)
    BY <1>8, TriggeredIs
  <2>2. PICK cycles : cycles = free[u].r.recent
    OBVIOUS
  <2>3. cycles \subseteq ResolvedCycle /\ IsFiniteSet(cycles) /\ \A c \in cycles : IsFiniteSet(c.beats)
    BY <1>7, <2>2 DEF TrackOK, Timed
  <2> HIDE DEF free
  <2>4. passed[t] = Pass(t, cycles)
    BY <1>1, <1>8, <2>1, <2>2
  <2>5. Typed(Pass(t, cycles))
    BY <1>4, <2>3
  <2> QED
    BY <2>4, <2>5
<1> QED
  BY <1>5, <1>8

LEMMA WrittenAll ==
  ASSUME NEW D, IsFiniteSet(D), NEW f, \A d \in D : Written(f[d]), NEW M, M = UNION {f[d] : d \in D}
  PROVE  Written(M)
<1>1. PICK g : g = [d \in D |-> f[d]]
  OBVIOUS
<1>2. PICK X : X = {g[d] : d \in D}
  OBVIOUS
<1>3. DOMAIN g = D /\ \A d \in D : Written(g[d])
  BY <1>1
<1>4. IsFiniteSet(X)
  BY <1>2, <1>3, ImageSize
<1>5. \A x \in X : Written(x)
  BY <1>2, <1>3
<1>6. IsFiniteSet(UNION X)
  <2>1. \A x \in X : IsFiniteSet(x)
    BY <1>5 DEF Written
  <2> QED
    BY <1>4, <2>1, FS_UNION
<1>7. M = UNION X
  BY <1>1, <1>2
<1> QED
  BY <1>5, <1>6, <1>7 DEF Written

\* A realization leaves the tracks typed and the notes of its batch written.
LEMMA RealizeTyped ==
  ASSUME NEW p, ValidProject(p), AllLast(p), NEW rt, RuntimeOK(p, rt), AllTimed(p, rt),
         NEW events, NEW target \in Nat, NEW fault \in Faults(p) \cup {None},
         NEW out, out = RealizeUntil(p, rt, events, target, fault)
  PROVE  AllTimed(p, out.rt) /\ Written(out.notes)
<1>1. PICK passed : passed = Passes(p, rt, target, fault)
  OBVIOUS
<1>2. DOMAIN passed = DOMAIN p.tracks /\ \A t \in DOMAIN p.tracks : Typed(passed[t])
  BY <1>1, PassesKeep, PassesTyped
<1>3. PICK notes : notes = UNION {passed[t].notes : t \in DOMAIN passed}
  OBVIOUS
<1>4. PICK tracks : tracks = IF fault # None THEN AfterError(rt, passed)
                             ELSE [t \in DOMAIN passed |-> Prune(p, passed[t].r, target)]
  OBVIOUS
<1>5. PICK resolved : out.rt = [rt EXCEPT !.tracks = tracks, !.resolved = resolved]
  BY <1>1, <1>3, <1>4 DEF RealizeUntil
<1>6. out.notes = notes
  BY <1>1, <1>3 DEF RealizeUntil
<1>7. out.rt.tracks = tracks
  <2>1. DOMAIN rt = RuntimeNames
    BY DEF RuntimeOK
  <2> QED
    BY <1>5, <2>1 DEF RuntimeNames
<1>8. ASSUME NEW t \in DOMAIN p.tracks
      PROVE  Timed(tracks[t])
  <2>1. PICK r : r = passed[t].r /\ Timed(r) /\ r = [n \in TrackNames |-> r[n]]
    <3>1. \A u \in DOMAIN p.tracks : Passed(p, u, rt.tracks[u], target, fault, passed[u])
      BY <1>1, PassesKeep
    <3> QED
      BY <1>2, <3>1 DEF Typed, Passed, Follows, TrackOK
  <2>2. CASE fault # None
    BY <1>2, <1>4, <2>1, <2>2 DEF AfterError
  <2>3. CASE fault = None
    <3>1. PICK recent : recent = {c \in r.recent : c.end >= Monus(target, p.cycle + MaxAfterEvent(p))}
      OBVIOUS
    <3>2. tracks[t] = [r EXCEPT !.recent = recent]
      BY <1>2, <1>4, <2>1, <2>3, <3>1 DEF Prune
    <3>3. PICK e : e = tracks[t]
      OBVIOUS
    <3>4. e.recent = recent /\ e.at = r.at /\ e.carry = r.carry /\ e.launches = r.launches
      BY <2>1, <3>2, <3>3 DEF TrackNames
    <3>5. Timed(e)
      BY <2>1, <3>1, <3>4 DEF Timed
    <3> QED
      BY <3>3, <3>5
  <2> QED
    BY <2>2, <2>3
<1>9. Written(notes)
  <2>1. PICK f : f = [t \in DOMAIN p.tracks |-> passed[t].notes]
    OBVIOUS
  <2>2. \A t \in DOMAIN p.tracks : Written(f[t])
    BY <1>2, <2>1 DEF Typed
  <2>3. notes = UNION {f[t] : t \in DOMAIN p.tracks}
    BY <1>2, <1>3, <2>1
  <2>4. IsFiniteSet(DOMAIN p.tracks)
    BY DEF ValidProject
  <2> QED
    BY <2>2, <2>3, <2>4, WrittenAll
<1> QED
  BY <1>6, <1>7, <1>8, <1>9 DEF AllTimed

LEMMA FreshTimed ==
  ASSUME NEW p, NEW rt, rt = FreshRuntime(p)
  PROVE  AllTimed(p, rt)
<1>1. ASSUME NEW t \in DOMAIN p.tracks
      PROVE  Timed(rt.tracks[t])
  <2>1. PICK r : r = rt.tracks[t]
    OBVIOUS
  <2>2. r.recent = {} /\ r.at = 0 /\ r.carry = FreshCarry /\ r.launches = <<>>
    BY <2>1 DEF FreshRuntime, FreshTrack
  <2>3. FreshCarry \in Carry
    BY FreshIsCarried
  <2>4. Timed(r)
    BY <2>2, <2>3 DEF Timed
  <2> QED
    BY <2>1, <2>4
<1> QED
  BY <1>1 DEF AllTimed

LEMMA PoolsTimed ==
  ASSUME NEW track, NEW r, TrackOK(track, r), Timed(r),
         NEW e, e = [r EXCEPT !.cursors = [n \in DOMAIN r.cursors |-> [r.cursors[n] EXCEPT !.pool = 0]]]
  PROVE  Timed(e)
<1>1. r = [n \in TrackNames |-> r[n]]
  BY DEF TrackOK
<1>2. PICK c : c = [n \in DOMAIN r.cursors |-> [r.cursors[n] EXCEPT !.pool = 0]]
  OBVIOUS
<1>3. e = [r EXCEPT !.cursors = c]
  BY <1>2
<1>4. e.recent = r.recent /\ e.at = r.at /\ e.carry = r.carry /\ e.launches = r.launches
  BY <1>1, <1>3 DEF TrackNames
<1> QED
  BY <1>4 DEF Timed

\* The takes of an edit applied in place are the running ones or its own.
LEMMA AppliedLasts ==
  ASSUME NEW p, ValidProject(p), AllLast(p), NEW q, ValidProject(q), AllLast(q), AppliesForward(p, q),
         NEW w, w = InRunningOrder(p, q)
  PROVE  AllLast(w)
<1>1. DOMAIN w.tracks = DOMAIN p.tracks
  BY DEF InRunningOrder, ValidProject
<1>2. ASSUME NEW t \in DOMAIN p.tracks
      PROVE  Lasts(w.tracks[t])
  <2>1. PICK u \in DOMAIN q.tracks : u = IndexOf(q, p.tracks[t].id)
    <3>1. IndexOf(q, p.tracks[t].id) \in DOMAIN q.tracks
      BY AppliedTrack
    <3> QED
      BY <3>1
  <2>2. PICK running, incoming : running = p.tracks[t] /\ incoming = q.tracks[u]
    OBVIOUS
  <2> DEFINE Incoming(n) == incoming.sources[CHOOSE m \in DOMAIN incoming.sources :
                                               incoming.sources[m].id = running.sources[n].id]
  <2>3. w.tracks[t] = IF running.lane = None THEN incoming
                      ELSE [running EXCEPT !.sources = [n \in DOMAIN running.sources |-> Incoming(n)]]
    <3>1. "tracks" \in DOMAIN q
      BY DEF ValidProject
    <3>2. w.tracks[t] = Edited(running, incoming)
      BY <2>1, <2>2, <3>1 DEF InRunningOrder
    <3> QED
      BY <3>2 DEF Edited
  <2>4. Lasts(incoming)
    BY <2>2 DEF AllLast
  <2>5. CASE running.lane = None
    BY <2>3, <2>4, <2>5
  <2>6. CASE running.lane # None
    <3>1. PICK S : S = [n \in DOMAIN running.sources |-> Incoming(n)]
      OBVIOUS
    <3>2. w.tracks[t].sources = S
      <4>1. "sources" \in DOMAIN running
        BY <2>2 DEF ValidProject, ValidTrack
      <4>2. w.tracks[t] = [running EXCEPT !.sources = S]
        BY <2>3, <2>6, <3>1
      <4> QED
        BY <4>1, <4>2
    <3>3. SourceIds(p, t) = SourceIds(q, u)
      <4>1. Kind(p, t) = "lane"
        BY <2>2, <2>6, LaneIs
      <4>2. p.tracks[t].id \in Ids(p) /\ IndexOf(p, p.tracks[t].id) = t
        BY IndexIs
      <4>3. PICK id \in Ids(p) : id = p.tracks[t].id /\ IndexOf(p, id) = t /\ IndexOf(q, id) = u
        BY <2>1, <4>2
      <4> QED
        BY <4>1, <4>3 DEF AppliesForward
    <3>4. ASSUME NEW n \in DOMAIN running.sources
          PROVE  Lasting(S[n])
      <4>1. running.sources[n].id \in SourceIds(q, u)
        BY <2>2, <3>3 DEF SourceIds
      <4>2. \E m \in DOMAIN incoming.sources : incoming.sources[m].id = running.sources[n].id
        BY <2>2, <4>1 DEF SourceIds
      <4>3. PICK m \in DOMAIN incoming.sources : Incoming(n) = incoming.sources[m]
        BY <4>2
      <4> HIDE DEF Incoming
      <4>4. S[n] = incoming.sources[m]
        BY <3>1, <4>3
      <4> QED
        BY <2>4, <4>4 DEF Lasts
    <3>5. DOMAIN S = DOMAIN running.sources
      BY <3>1
    <3> QED
      BY <3>2, <3>4, <3>5 DEF Lasts
  <2> QED
    BY <2>5, <2>6
<1> QED
  BY <1>1, <1>2 DEF AllLast

-----------------------------------------------------------------------------
(************************************************************************** *)
(* The queue after a realization, and after a dispatch                     *)
(************************************************************************** *)

\* What notes are played as balances.
LEMMA WrittenSound ==
  ASSUME NEW M, Written(M), NEW X, X = EventsOf(M)
  PROVE  EventSet(X) /\ Sound(X) /\ \A e \in X : e.note \in M
<1>1. PICK f, g : /\ f = [n \in M |-> [note |-> n, on |-> TRUE, tick |-> n.start]]
                  /\ g = [n \in M |-> [note |-> n, on |-> FALSE, tick |-> n.end]]
  OBVIOUS
<1>2. PICK A, B : A = {f[n] : n \in M} /\ B = {g[n] : n \in M}
  OBVIOUS
<1>3. X = A \cup B
  BY <1>1, <1>2 DEF EventsOf
<1>4. IsFiniteSet(M) /\ DOMAIN f = M /\ DOMAIN g = M
  BY <1>1 DEF Written
<1>5. IsFiniteSet(A) /\ IsFiniteSet(B)
  BY <1>2, <1>4, ImageSize
<1>6. IsFiniteSet(X)
  BY <1>3, <1>5, FS_Union
<1>7. \A e \in X : /\ IsEvent(e) /\ e.note \in M
                   /\ e = [note |-> e.note, on |-> e.on,
                           tick |-> IF e.on THEN e.note.start ELSE e.note.end]
  <2>1. \A n \in M : IsNote(n) /\ n.start \in Nat /\ n.end \in Nat
    BY DEF Written, IsNote
  <2>2. ASSUME NEW e \in A
        PROVE  /\ IsEvent(e) /\ e.note \in M
               /\ e = [note |-> e.note, on |-> e.on,
                       tick |-> IF e.on THEN e.note.start ELSE e.note.end]
    <3>1. PICK n \in M : e = [note |-> n, on |-> TRUE, tick |-> n.start]
      BY <1>1, <1>2
    <3> QED
      BY <2>1, <3>1 DEF IsEvent
  <2>3. ASSUME NEW e \in B
        PROVE  /\ IsEvent(e) /\ e.note \in M
               /\ e = [note |-> e.note, on |-> e.on,
                       tick |-> IF e.on THEN e.note.start ELSE e.note.end]
    <3>1. PICK n \in M : e = [note |-> n, on |-> FALSE, tick |-> n.end]
      BY <1>1, <1>2
    <3> QED
      BY <2>1, <3>1 DEF IsEvent
  <2> QED
    BY <1>3, <2>2, <2>3
<1>8. ASSUME NEW e \in X, NEW h \in X, e.note = h.note, e.on = h.on
      PROVE  e = h
  BY <1>7, <1>8
<1>9. EventSet(X)
  BY <1>6, <1>7, <1>8 DEF EventSet
<1>10. ASSUME NEW k
       PROVE  Balanced(Along(X, k))
  <2>1. PICK N : N = {n \in M : <<n.track, <<n.channel, n.pitch>>>> = k}
    OBVIOUS
  <2>2. PICK Y : Y = EventsOf(N)
    OBVIOUS
  <2>3. IsFiniteSet(N) /\ \A n \in N : n.start \in Nat /\ n.end \in Nat /\ n.start < n.end
    <3>1. N \subseteq M
      BY <2>1
    <3> QED
      BY <3>1, FS_Subset DEF Written, IsNote
  <2>4. Balanced(Y)
    BY <2>2, <2>3, NotesBalance
  <2>5. \A e \in X : Line(e) = <<e.note.track, <<e.note.channel, e.note.pitch>>>>
    BY DEF Line, Track, Voice
  <2>6. \A e \in Y : e \in X /\ e.note \in N
    BY <2>1, <2>2 DEF EventsOf
  <2>7. \A e \in X : e.note \in N => e \in Y
    <3>1. ASSUME NEW e \in X, e.note \in N
          PROVE  e \in Y
      <4>1. PICK n \in M : \/ e = [note |-> n, on |-> TRUE, tick |-> n.start]
                           \/ e = [note |-> n, on |-> FALSE, tick |-> n.end]
        BY DEF EventsOf
      <4>2. n \in N
        BY <3>1, <4>1
      <4> QED
        BY <2>2, <4>1, <4>2 DEF EventsOf
    <3> QED
      BY <3>1
  <2>8. \A e \in X : Line(e) = k <=> e.note \in N
    BY <1>7, <2>1, <2>5
  <2>9. Along(X, k) = Y
    BY <2>6, <2>7, <2>8 DEF Along
  <2> QED
    BY <2>4, <2>9
<1>11. Sound(X)
  BY <1>10 DEF Sound
<1> QED
  BY <1>7, <1>9, <1>11

\* What was sent, and what is to come.
InFlight(S, Q) ==
  /\ EventSet(S \cup Q) /\ S \cap Q = {} /\ Sound(S \cup Q) /\ Heard(S)
  /\ \A s \in S, e \in Q : s.tick < e.tick

\* What a batch makes of them.
Joins(S, Q, M, D) ==
  /\ EventSet(S \cup D) /\ S \cap D = {} /\ Sound(S \cup D)
  /\ \A d \in D : (\E e \in Q : d.note = e.note) \/ d.note \in M

New(E, M) == \A e \in E : e.note \notin M

\* What joins the queue and passes the conflict pass leaves it sound.
LEMMA ResolveSound ==
  ASSUME NEW S, NEW Q, InFlight(S, Q), NEW M, Written(M), New(S \cup Q, M),
         NEW keys, NEW horizon, NEW resolved, NEW config,
         NEW D, D = ResolveConflicts(Q \cup EventsOf(M), keys, horizon, resolved, config).queue
  PROVE  Joins(S, Q, M, D)
<1>0. /\ EventSet(S \cup Q) /\ S \cap Q = {} /\ Sound(S \cup Q) /\ Heard(S)
      /\ \A s \in S, e \in Q : s.tick < e.tick
      /\ \A e \in S \cup Q : e.note \notin M
  BY DEF InFlight, New
<1>1. PICK N : N = EventsOf(M)
  OBVIOUS
<1>2. EventSet(N) /\ Sound(N) /\ \A e \in N : e.note \in M
  BY <1>1, WrittenSound
<1>3. S \cap (Q \cup N) = {} /\ Q \cap N = {}
  BY <1>0, <1>2
<1>4. EventSet(S \cup (Q \cup N))
  <2>1. S \cup (Q \cup N) = (S \cup Q) \cup N
    OBVIOUS
  <2>2. IsFiniteSet((S \cup Q) \cup N)
    BY <1>0, <1>2, FS_Union DEF EventSet
  <2>3. \A e \in S \cup (Q \cup N) : IsEvent(e)
    BY <1>0, <1>2 DEF EventSet
  <2>4. ASSUME NEW e \in S \cup (Q \cup N), NEW f \in S \cup (Q \cup N), e.note = f.note, e.on = f.on
        PROVE  e = f
    <3>1. CASE e \in N /\ f \in N
      BY <1>0, <1>2, <2>4, <3>1 DEF EventSet
    <3>2. CASE e \in S \cup Q /\ f \in S \cup Q
      BY <1>0, <2>4, <3>2 DEF EventSet
    <3>3. CASE e \in N /\ f \in S \cup Q
      BY <1>0, <1>2, <2>4, <3>3
    <3>4. CASE f \in N /\ e \in S \cup Q
      BY <1>0, <1>2, <2>4, <3>4
    <3> QED
      BY <3>1, <3>2, <3>3, <3>4
  <2> QED
    BY <2>1, <2>2, <2>3, <2>4 DEF EventSet
<1>5. PICK silenced : silenced \subseteq Groups(Q \cup N) /\ D = Defer((Q \cup N) \ EventsIn(silenced))
  <2>1. PICK q : q = Q \cup N
    OBVIOUS
  <2>2. PICK r : r = ResolveConflicts(q, keys, horizon, resolved, config)
    OBVIOUS
  <2>3. D = r.queue
    BY <1>1, <2>1, <2>2
  <2>4. PICK silenced : silenced \subseteq Groups(q) /\ r.queue = Defer(q \ EventsIn(silenced))
    BY <2>2, ResolveIs
  <2> QED
    BY <2>1, <2>3, <2>4
<1>6. PICK X : X = (Q \cup N) \ EventsIn(silenced)
  OBVIOUS
<1>7. Sound(S \cup X)
  <2>1. Sound(S \cup ((Q \cup N) \ EventsIn(silenced)))
    BY <1>0, <1>2, <1>3, <1>4, <1>5, RemovedSound
  <2> QED
    BY <1>6, <2>1
<1>8. X \subseteq Q \cup N /\ EventSet(S \cup X) /\ S \cap X = {}
  <2>1. X \subseteq Q \cup N
    BY <1>6
  <2>2. S \cup X \subseteq S \cup (Q \cup N)
    BY <2>1
  <2>3. EventSet(S \cup X)
    BY <1>4, <2>2, EventSubset
  <2> QED
    BY <1>3, <2>1, <2>3
<1>9. D = Defer(X)
  BY <1>5, <1>6
<1>10. /\ EventSet(S \cup D) /\ S \cap D = {} /\ Sound(S \cup D)
       /\ \A d \in D : \E e \in X : d.note = e.note
  BY <1>7, <1>8, <1>9, DeferredSound
<1>11. ASSUME NEW d \in D
       PROVE  (\E e \in Q : d.note = e.note) \/ d.note \in M
  <2>1. PICK e \in X : d.note = e.note
    BY <1>10
  <2> QED
    BY <1>2, <1>8, <2>1
<1> QED
  BY <1>10, <1>11 DEF Joins

LEMMA RealizeSound ==
  ASSUME NEW S, NEW Q, InFlight(S, Q),
         NEW p, NEW rt, NEW target, NEW fault, NEW out, out = RealizeUntil(p, rt, Q, target, fault),
         Written(out.notes), New(S \cup Q, out.notes)
  PROVE  Joins(S, Q, out.notes, out.queue)
<1>1. PICK passed : passed = Passes(p, rt, target, fault)
  OBVIOUS
<1>2. PICK M : M = UNION {passed[t].notes : t \in DOMAIN passed}
  OBVIOUS
<1>3. out.notes = M
  BY <1>1, <1>2 DEF RealizeUntil
<1>4. PICK D : D = ResolveConflicts(Q \cup EventsOf(M), BatchKeys(M), rt.horizon,
                                    rt.resolved, ConflictConfig(p)).queue
  OBVIOUS
<1>5. out.queue = IF fault # None \/ M = {} THEN Q ELSE D
  BY <1>1, <1>2, <1>4 DEF RealizeUntil
<1>6. CASE fault # None \/ M = {}
  BY <1>5, <1>6 DEF Joins, InFlight
<1>7. CASE ~(fault # None \/ M = {})
  <2>1. Joins(S, Q, M, D)
    <3>1. PICK keys, horizon, resolved, config :
            /\ keys = BatchKeys(M) /\ horizon = rt.horizon
            /\ resolved = rt.resolved /\ config = ConflictConfig(p)
      OBVIOUS
    <3>2. D = ResolveConflicts(Q \cup EventsOf(M), keys, horizon, resolved, config).queue
      BY <1>4, <3>1
    <3>3. Written(M) /\ New(S \cup Q, M)
      BY <1>3
    <3> QED
      BY <3>2, <3>3, ResolveSound
  <2> QED
    BY <1>3, <1>5, <1>7, <2>1
<1> QED
  BY <1>6, <1>7

\* What is due is sent: nothing is lost, and what was heard is.
Sends(S, Q, now, T, R) ==
  /\ T = S \cup {e \in Q : e.tick <= now}
  /\ R = {e \in Q : e.tick > now}

LEMMA DispatchedSound ==
  ASSUME NEW S, NEW Q, EventSet(S \cup Q), S \cap Q = {}, Sound(S \cup Q), NEW now \in Nat,
         \A s \in S : s.tick <= now, NEW T, NEW R, Sends(S, Q, now, T, R)
  PROVE  InFlight(T, R) /\ T \cup R = S \cup Q /\ \A s \in T : s.tick <= now
<1>0. T = S \cup {e \in Q : e.tick <= now} /\ R = {e \in Q : e.tick > now}
  BY DEF Sends
<1>1. \A e \in S \cup Q : e.tick \in Nat
  BY DEF EventSet, IsEvent
<1>2. T \cup R = S \cup Q /\ T \cap R = {}
  BY <1>0, <1>1
<1>3. \A s \in T : s.tick <= now /\ \A e \in R : s.tick < e.tick
  BY <1>0, <1>1
<1>4. ASSUME NEW k
      PROVE  Prefixed(Along(T, k))
  <2>1. PICK X, Y : X = Along(S \cup Q, k) /\ Y = {e \in X : e.tick <= now}
    OBVIOUS
  <2>2. Stream(X) /\ Balanced(X)
    BY <2>1, AlongStream DEF Sound
  <2>3. Prefixed(Y)
    BY <2>1, <2>2, HeardPrefixed
  <2>4. Along(T, k) = Y
    BY <1>0, <1>1, <2>1 DEF Along
  <2> QED
    BY <2>3, <2>4
<1>5. Heard(T)
  BY <1>4 DEF Heard
<1>6. EventSet(T \cup R) /\ Sound(T \cup R)
  BY <1>2
<1> QED
  BY <1>2, <1>3, <1>5, <1>6 DEF InFlight

\* A note-off for each note-on, and none before it.
Evened(voice) ==
  /\ Cardinality(Ons(voice)) = Cardinality(voice \ Ons(voice))
  /\ \A t \in {f.tick : f \in voice} :
       Cardinality({f \in voice : f.tick <= t} \ Ons(voice)) <= Cardinality(Ons({f \in voice : f.tick <= t}))

LEMMA SoundIsEvened ==
  ASSUME NEW X, EventSet(X), Sound(X), NEW k
  PROVE  Evened(Along(X, k))
<1>1. PICK voice : voice = Along(X, k)
  OBVIOUS
<1>2. Stream(voice) /\ Balanced(voice)
  BY <1>1, AlongStream DEF Sound
<1>3. IsFiniteSet(voice) /\ \A f \in voice : f.tick \in Nat /\ f.on \in BOOLEAN
  BY <1>2 DEF Stream, IsEvent
<1>4. PICK A, B : A = {f \in voice : f.on} /\ B = {f \in voice : ~f.on}
  OBVIOUS
<1>5. /\ Excess(voice) = Cardinality(B) - Cardinality(A)
      /\ Cardinality(A) \in Nat /\ Cardinality(B) \in Nat /\ IsFiniteSet(A) /\ IsFiniteSet(B)
  BY <1>3, <1>4, ExcessIs
<1>6. Ons(voice) = A /\ voice \ Ons(voice) = B
  BY <1>4 DEF Ons
<1>7. Cardinality(A) = Cardinality(B)
  BY <1>2, <1>5 DEF Balanced
<1>8. ASSUME NEW t \in {f.tick : f \in voice}
      PROVE  Cardinality({f \in voice : f.tick <= t} \ Ons(voice)) <= Cardinality(Ons({f \in voice : f.tick <= t}))
  <2>1. t \in Nat
    BY <1>3
  <2>2. PICK upTo, seen : upTo = {f \in voice : f.tick <= t} /\ seen = Seen(voice, t)
    OBVIOUS
  <2>3. PICK C, D : C = {f \in seen : f.on} /\ D = {f \in seen : ~f.on}
    OBVIOUS
  <2>4. IsFiniteSet(seen) /\ IsFiniteSet(upTo)
    <3>1. seen \subseteq voice /\ upTo \subseteq voice
      BY <2>2 DEF Seen
    <3> QED
      BY <1>3, <3>1, FS_Subset
  <2>5. /\ Excess(seen) = Cardinality(D) - Cardinality(C)
        /\ Cardinality(C) \in Nat /\ Cardinality(D) \in Nat
    BY <2>3, <2>4, ExcessIs
  <2>6. Excess(seen) <= 0
    BY <1>2, <2>1, <2>2 DEF Balanced, Prefixed
  <2>7. upTo \ Ons(voice) = D
    BY <1>3, <2>1, <2>2, <2>3 DEF Ons, Seen
  <2>8. PICK E : E = Ons(upTo) /\ C \subseteq E /\ E \subseteq upTo
    <3>1. C \subseteq Ons(upTo)
      BY <1>3, <2>1, <2>2, <2>3 DEF Ons, Seen
    <3> QED
      BY <3>1 DEF Ons
  <2>9. Cardinality(C) <= Cardinality(E) /\ Cardinality(E) \in Nat
    <3>1. IsFiniteSet(E)
      BY <2>4, <2>8, FS_Subset
    <3> QED
      BY <2>8, <3>1, FS_Subset, FS_CardinalityType
  <2>10. Cardinality(D) <= Cardinality(E)
    BY <2>5, <2>6, <2>9
  <2> QED
    BY <2>2, <2>7, <2>8, <2>10
<1>9. Cardinality(Ons(voice)) = Cardinality(voice \ Ons(voice))
  BY <1>6, <1>7
<1>10. Evened(voice)
  BY <1>8, <1>9 DEF Evened
<1> QED
  BY <1>1, <1>10

-----------------------------------------------------------------------------
(************************************************************************** *)
(* A note-off for each note-on                                             *)
(************************************************************************** *)

\* Of a playback begun afresh, what was sent and what is queued are sound
\* together, and of notes that were played.
Sounding ==
  /\ cutoff = None /\ InFlight(sent, queue)
  /\ \A s \in sent : s.tick <= tick
  /\ \A e \in sent \cup queue : e.note \in earlier \cup batch

\* That a batch brings no note that is queued takes that every cycle comes
\* once; that it balances by itself takes the types of all that is played.
BalanceInv ==
  /\ CyclesInv
  /\ AllLast(project) /\ AllTimed(project, runtime)
  /\ pristine => Sounding

LEMMA BalanceInvImplies ==
  ASSUME BalanceInv
  PROVE  NoteBalance
<1> SUFFICES ASSUME pristine, NEW e \in Ons(Events)
             PROVE  LET voice == {f \in Events : Track(f) = Track(e) /\ Voice(f) = Voice(e)}
                        upTo(t) == {f \in voice : f.tick <= t}
                    IN Cardinality(Ons(voice)) = Cardinality(voice \ Ons(voice))
                       /\ \A t \in {f.tick : f \in voice} :
                            Cardinality(upTo(t) \ Ons(voice)) <= Cardinality(Ons(upTo(t)))
  BY DEF NoteBalance
<1>1. PICK X : X = Events
  OBVIOUS
<1>2. EventSet(X) /\ Sound(X) /\ e \in X
  <2>1. Events = sent \cup queue
    BY DEF Events
  <2>2. EventSet(sent \cup queue) /\ Sound(sent \cup queue)
    BY DEF BalanceInv, Sounding, InFlight
  <2> QED
    BY <1>1, <2>1, <2>2 DEF Ons
<1>3. PICK voice : voice = {f \in X : Track(f) = Track(e) /\ Voice(f) = Voice(e)}
  OBVIOUS
<1>4. voice = Along(X, Line(e))
  BY <1>3 DEF Along, Line
<1>5. Evened(voice)
  BY <1>2, <1>4, SoundIsEvened
<1> QED
  BY <1>1, <1>3, <1>5 DEF Evened

LEMMA NothingInFlight == InFlight({}, {})
<1>1. Written({})
  BY FS_EmptySet DEF Written
<1>2. EventsOf({}) = {}
  BY DEF EventsOf
<1>3. EventSet({}) /\ Sound({})
  <2>1. PICK M, X : M = {} /\ X = EventsOf(M) /\ Written(M)
    BY <1>1
  <2>2. EventSet(X) /\ Sound(X) /\ X = {}
    BY <1>2, <2>1, WrittenSound
  <2> QED
    BY <2>2
<1>4. Heard({})
  BY <1>3 DEF Sound, Heard, Balanced
<1>5. {} \cup {} = {} /\ {} \cap {} = {}
  OBVIOUS
<1> QED
  BY <1>3, <1>4, <1>5 DEF InFlight

LEMMA BalancePlay ==
  ASSUME BalanceInv, NEW fault \in Faults(project) \cup {None}, Play(fault)
  PROVE  BalanceInv'
<1>1. CyclesInv /\ CyclesInv'
  BY CyclesPlay DEF BalanceInv
<1>2. ValidProject(project) /\ RuntimeOK(project, runtime) /\ AllLast(project)
  BY DEF BalanceInv, CyclesInv
<1>3. project.cycle \in Nat \ {0}
  BY <1>2 DEF ValidProject
<1>4. PICK rt : rt = FreshRuntime(project) /\ rt = [Reset(runtime) EXCEPT !.horizon = 0]
  BY <1>2, ResetIs
<1>5. RuntimeOK(project, rt) /\ AllTimed(project, rt)
  BY <1>2, <1>4, FreshRuntimeIs, FreshTimed
<1>6. PICK out : /\ out = RealizeUntil(project, rt, {}, project.cycle, fault)
                 /\ runtime' = out.rt /\ batch' = out.notes /\ earlier' = {}
                 /\ queue' = out.queue /\ pristine' = (cutoff = None)
  BY <1>4 DEF Play, Record
<1>7. project' = project /\ tick' = 0 /\ sent' = {} /\ cutoff' = cutoff
  BY DEF Play
<1>8. AllTimed(project, out.rt) /\ Written(out.notes)
  BY <1>2, <1>3, <1>5, <1>6, RealizeTyped
<1>9. Joins({}, {}, out.notes, out.queue)
  <2>1. New({} \cup {}, out.notes)
    BY DEF New
  <2>2. PICK S, Q : S = {} /\ Q = {} /\ InFlight(S, Q) /\ New(S \cup Q, out.notes)
    BY <2>1, NothingInFlight
  <2>3. out = RealizeUntil(project, rt, Q, project.cycle, fault)
    BY <1>6, <2>2
  <2>4. PICK target : target = project.cycle
    OBVIOUS
  <2>5. Joins(S, Q, out.notes, out.queue)
    BY <1>8, <2>2, <2>3, <2>4, RealizeSound
  <2> QED
    BY <2>2, <2>5
<1>10. InFlight({}, out.queue)
  BY <1>9, NothingInFlight DEF Joins, InFlight
<1>11. \A e \in out.queue : e.note \in out.notes
  BY <1>9 DEF Joins
<1>12. pristine' => Sounding'
  BY <1>6, <1>7, <1>10, <1>11 DEF Sounding
<1>13. AllLast(project)' /\ AllTimed(project, runtime)'
  BY <1>2, <1>6, <1>7, <1>8
<1> QED
  BY <1>1, <1>12, <1>13 DEF BalanceInv

LEMMA BalanceTick ==
  ASSUME BalanceInv, NEW fault \in Faults(project) \cup {None}, NEW d \in Steps, Tick(d, fault)
  PROVE  BalanceInv'
<1>1. CyclesInv /\ CyclesInv'
  BY CyclesTick DEF BalanceInv
<1>2. /\ ValidProject(project) /\ RuntimeOK(project, runtime) /\ TypeOK
      /\ AllLast(project) /\ AllTimed(project, runtime)
  BY DEF BalanceInv, CyclesInv
<1>3. project.cycle \in Nat \ {0}
  BY <1>2 DEF ValidProject
<1>4. PICK now \in Nat : now = tick + d /\ tick <= now /\ tick \in Nat
  BY <1>2, ParallelAssumption DEF TypeOK
<1>5. PICK target \in Nat : target = (now \div project.cycle + 2) * project.cycle
  BY <1>3, WholeCycles
<1>6. PICK rt : rt = [runtime EXCEPT !.horizon = now]
  OBVIOUS
<1>7. rt.tracks = runtime.tracks /\ RuntimeOK(project, rt) /\ AllTimed(project, rt)
  <2>1. rt.tracks = runtime.tracks /\ DOMAIN rt = DOMAIN runtime
    BY <1>2, <1>6 DEF RuntimeOK, RuntimeNames
  <2> QED
    BY <1>2, <2>1 DEF RuntimeOK, AllTimed
<1>8. project' = project /\ tick' = now /\ cutoff' = None /\ pristine' = pristine
  BY <1>4 DEF Tick
<1>9. ASSUME pristine
      PROVE  /\ cutoff = None /\ InFlight(sent, queue)
             /\ \A s \in sent : s.tick <= tick /\ s.tick \in Nat
             /\ \A e \in sent \cup queue : e.note \in earlier \cup batch
  BY <1>9 DEF BalanceInv, Sounding, InFlight, EventSet, IsEvent
<1>10. ASSUME NEW filled, Dispatch(filled, now), pristine,
              EventSet(sent \cup filled), sent \cap filled = {}, Sound(sent \cup filled)
       PROVE  /\ InFlight(sent', queue') /\ sent' \cup queue' = sent \cup filled
              /\ \A s \in sent' : s.tick <= now
  <2>1. queue' = {e \in filled : e.tick > now} /\ sent' = sent \cup {e \in filled : e.tick <= now}
    BY <1>9, <1>10 DEF Dispatch
  <2>2. PICK S, T, R : S = sent /\ T = sent' /\ R = queue'
    OBVIOUS
  <2>3. \A s \in S : s.tick <= now
    BY <1>4, <1>9, <1>10, <2>2
  <2>4. Sends(S, filled, now, T, R)
    BY <2>1, <2>2 DEF Sends
  <2>5. EventSet(S \cup filled) /\ S \cap filled = {} /\ Sound(S \cup filled)
    BY <1>10, <2>2
  <2>6. InFlight(T, R) /\ T \cup R = S \cup filled /\ \A s \in T : s.tick <= now
    BY <2>3, <2>4, <2>5, DispatchedSound
  <2> QED
    BY <2>2, <2>6
<1>11. CASE watermark < target
  <2>1. PICK out : /\ out = RealizeUntil(project, rt, queue, target, fault)
                   /\ runtime' = out.rt /\ batch' = out.notes /\ earlier' = earlier \cup batch
                   /\ Dispatch(out.queue, now)
    BY <1>4, <1>5, <1>6, <1>11 DEF Tick, Record
  <2>2. AllTimed(project, out.rt) /\ Written(out.notes)
    BY <1>2, <1>7, <2>1, RealizeTyped
  <2>3. ASSUME pristine
        PROVE  Sounding'
    <3>1. New(sent \cup queue, out.notes)
      <4>1. Kept(project, rt, target, fault, out)
        BY <1>2, <1>7, <2>1, RealizeKeeps
      <4>2. PICK old : old = earlier \cup batch
        OBVIOUS
      <4>3. Behind(project, rt, old)
        BY <1>1, <1>7, <4>2 DEF CyclesInv, Behind, Upcoming
      <4>4. Apart(out.notes, old)
        BY <1>2, <1>7, <4>1, <4>3, BehindGrows
      <4>5. \A e \in sent \cup queue : e.note \in old
        BY <1>9, <2>3, <4>2
      <4> QED
        BY <4>4, <4>5 DEF New, Apart
    <3>2. PICK S, Q, D : S = sent /\ Q = queue /\ D = out.queue
      OBVIOUS
    <3>3. Joins(S, Q, out.notes, D)
      <4>1. InFlight(S, Q) /\ New(S \cup Q, out.notes) /\ out = RealizeUntil(project, rt, Q, target, fault)
        BY <1>9, <2>1, <2>3, <3>1, <3>2
      <4>2. Joins(S, Q, out.notes, out.queue)
        BY <2>2, <4>1, RealizeSound
      <4> QED
        BY <3>2, <4>2
    <3>4. /\ InFlight(sent', queue') /\ sent' \cup queue' = sent \cup D
          /\ \A s \in sent' : s.tick <= now
      BY <1>10, <2>1, <2>3, <3>2, <3>3 DEF Joins
    <3>5. \A e \in sent \cup D : e.note \in (earlier \cup batch) \cup out.notes
      BY <1>9, <2>3, <3>2, <3>3 DEF Joins
    <3> QED
      BY <1>8, <2>1, <3>4, <3>5 DEF Sounding
  <2>4. AllLast(project)' /\ AllTimed(project, runtime)'
    BY <1>2, <1>8, <2>1, <2>2
  <2> QED
    BY <1>1, <1>8, <2>3, <2>4 DEF BalanceInv
<1>12. CASE ~(watermark < target)
  <2>1. /\ runtime' = rt /\ batch' = batch /\ earlier' = earlier /\ Dispatch(queue, now)
    BY <1>4, <1>5, <1>6, <1>12 DEF Tick
  <2>2. ASSUME pristine
        PROVE  Sounding'
    <3>1. EventSet(sent \cup queue) /\ sent \cap queue = {} /\ Sound(sent \cup queue)
      BY <1>9, <2>2 DEF InFlight
    <3>2. /\ InFlight(sent', queue') /\ sent' \cup queue' = sent \cup queue
          /\ \A s \in sent' : s.tick <= now
      BY <1>10, <2>1, <2>2, <3>1
    <3> QED
      BY <1>8, <1>9, <2>1, <2>2, <3>2 DEF Sounding
  <2>3. AllLast(project)' /\ AllTimed(project, runtime)'
    BY <1>2, <1>7, <1>8, <2>1
  <2> QED
    BY <1>1, <1>8, <2>2, <2>3 DEF BalanceInv
<1> QED
  BY <1>11, <1>12

LEMMA BalanceApply ==
  ASSUME BalanceInv, NEW q \in Projects, AllLast(q), ApplyInPlace(q)
  PROVE  BalanceInv'
<1>1. CyclesInv /\ CyclesInv'
  BY CyclesApply DEF BalanceInv
<1>2. /\ ValidProject(project) /\ RuntimeOK(project, runtime)
      /\ AllLast(project) /\ AllTimed(project, runtime)
  BY DEF BalanceInv, CyclesInv
<1>3. PICK p, w : p = project /\ w = InRunningOrder(project, q)
  OBVIOUS
<1>4. ValidProject(q) /\ AppliesForward(p, q) /\ project' = w
  BY <1>3, ParallelAssumption DEF ApplyInPlace
<1>5. AllLast(w)
  BY <1>2, <1>3, <1>4, AppliedLasts
<1>6. DOMAIN w.tracks = DOMAIN p.tracks
  BY <1>2, <1>3, <1>4, AppliedIs
<1> DEFINE Again(r) == [r EXCEPT !.cursors = [n \in DOMAIN r.cursors |-> [r.cursors[n] EXCEPT !.pool = 0]]]
<1>7. \A t \in DOMAIN p.tracks : runtime'.tracks[t] = Again(runtime.tracks[t])
  <2>1. runtime' = [runtime EXCEPT !.tracks = [t \in DOMAIN runtime.tracks |-> Again(runtime.tracks[t])]]
    BY DEF ApplyInPlace
  <2>2. DOMAIN runtime = RuntimeNames /\ DOMAIN runtime.tracks = DOMAIN p.tracks
    BY <1>2, <1>3 DEF RuntimeOK
  <2> HIDE DEF Again
  <2>3. runtime'.tracks = [t \in DOMAIN p.tracks |-> Again(runtime.tracks[t])]
    BY <2>1, <2>2 DEF RuntimeNames
  <2> QED
    BY <2>3
<1>8. ASSUME NEW t \in DOMAIN p.tracks
      PROVE  Timed(runtime'.tracks[t])
  <2>1. PICK track, r, e : track = p.tracks[t] /\ r = runtime.tracks[t] /\ e = runtime'.tracks[t]
    OBVIOUS
  <2>2. TrackOK(track, r) /\ Timed(r)
    BY <1>2, <1>3, <2>1 DEF RuntimeOK, AllTimed
  <2>3. e = [r EXCEPT !.cursors = [n \in DOMAIN r.cursors |-> [r.cursors[n] EXCEPT !.pool = 0]]]
    BY <1>7, <2>1
  <2>4. Timed(e)
    BY <2>2, <2>3, PoolsTimed
  <2> QED
    BY <2>1, <2>4
<1>9. AllTimed(w, runtime')
  BY <1>6, <1>8 DEF AllTimed
<1>10. pristine' => Sounding'
  <2>1. /\ pristine' = pristine /\ cutoff' = cutoff /\ sent' = sent /\ queue' = queue /\ tick' = tick
        /\ batch' = batch /\ earlier' = earlier
    BY DEF ApplyInPlace
  <2>2. pristine => Sounding
    BY DEF BalanceInv
  <2> QED
    BY <2>1, <2>2 DEF Sounding
<1>11. AllLast(project)' /\ AllTimed(project, runtime)'
  BY <1>4, <1>5, <1>9
<1> QED
  BY <1>1, <1>10, <1>11 DEF BalanceInv

LEMMA LastsAll ==
  ASSUME NotesLast, NEW p \in Projects
  PROVE  AllLast(p)
BY DEF NotesLast, AllLast, Lasts, Lasting

LEMMA BalanceStep ==
  ASSUME NotesLast, BalanceInv, [Next]_vars
  PROVE  BalanceInv'
<1>1. CyclesInv'
  BY CyclesStep DEF BalanceInv
<1>2. ASSUME NEW fault \in Faults(project) \cup {None}, Play(fault)
      PROVE  BalanceInv'
  BY <1>2, BalancePlay
<1>3. ASSUME NEW fault \in Faults(project) \cup {None}, NEW d \in Steps, Tick(d, fault)
      PROVE  BalanceInv'
  BY <1>3, BalanceTick
<1>4. CASE Stop
  <2>1. project' = project /\ runtime' = runtime /\ pristine' = FALSE
    BY <1>4 DEF Stop
  <2>2. AllLast(project) /\ AllTimed(project, runtime)
    BY DEF BalanceInv
  <2>3. AllLast(project)' /\ AllTimed(project, runtime)'
    BY <2>1, <2>2
  <2> QED
    BY <1>1, <2>1, <2>3 DEF BalanceInv
<1>5. ASSUME NEW q \in Projects, ApplyInPlace(q)
      PROVE  BalanceInv'
  <2>1. AllLast(q)
    BY LastsAll
  <2> QED
    BY <1>5, <2>1, BalanceApply
<1>6. ASSUME NEW q \in Projects, Rebuild(q)
      PROVE  BalanceInv'
  <2>1. project' = q /\ runtime' = FreshRuntime(q) /\ pristine' = FALSE
    BY <1>6 DEF Rebuild
  <2>2. AllLast(q) /\ AllTimed(q, FreshRuntime(q))
    BY FreshTimed, LastsAll
  <2>3. AllLast(project)' /\ AllTimed(project, runtime)'
    BY <2>1, <2>2
  <2> QED
    BY <1>1, <2>1, <2>3 DEF BalanceInv
<1>7. CASE UNCHANGED vars
  <2>1. /\ project' = project /\ runtime' = runtime /\ pristine' = pristine /\ cutoff' = cutoff
        /\ sent' = sent /\ queue' = queue /\ tick' = tick /\ batch' = batch /\ earlier' = earlier
    BY <1>7 DEF vars
  <2>2. AllLast(project) /\ AllTimed(project, runtime) /\ (pristine => Sounding)
    BY DEF BalanceInv
  <2>3. AllLast(project)' /\ AllTimed(project, runtime)'
    BY <2>1, <2>2
  <2>4. pristine' => Sounding'
    BY <2>1, <2>2 DEF Sounding
  <2> QED
    BY <1>1, <2>3, <2>4 DEF BalanceInv
<1> QED
  BY <1>2, <1>3, <1>4, <1>5, <1>6, <1>7 DEF Next

\* On every track and voice each note-on of a playback has a note-off, sent or
\* to come, and none comes before its note-on, whatever the conflict pass
\* silences, pairs or defers, whatever realization fails and whatever is edited
\* in place: if every note lasts (apply_parallel_channel_conflicts).
THEOREM EveryNoteEnds == ASSUME NotesLast PROVE Spec => []NoteBalance
<1>1. BalanceInv /\ [Next]_vars => BalanceInv'
  BY BalanceStep
<1>2. BalanceInv => NoteBalance
  BY BalanceInvImplies
<1>3. Init => BalanceInv
  <2> SUFFICES ASSUME Init
               PROVE  BalanceInv
    OBVIOUS
  <2>1. AllLast(project) /\ AllTimed(project, runtime)
    BY FreshTimed, LastsAll DEF Init
  <2>2. ~pristine
    BY DEF Init
  <2> QED
    BY <2>1, <2>2, CyclesInit DEF BalanceInv
<1> QED
  BY <1>1, <1>2, <1>3, PTL DEF Spec

-----------------------------------------------------------------------------
(************************************************************************** *)
(* A window decided by itself                                              *)
(************************************************************************** *)

\* What has ended by a tick, and what does not begin before it.
EndedBy(X, W) == \A e \in X : e.tick <= W /\ (e.on => e.tick < W)
BeginsAt(X, W) == \A e \in X : e.tick >= W /\ (~e.on => e.tick > W)

LEMMA WindowPrecedes ==
  ASSUME NEW A, NEW B, EventSet(A), EventSet(B), NEW W \in Nat, EndedBy(A, W), BeginsAt(B, W)
  PROVE  Precedes(A, B)
<1> SUFFICES ASSUME NEW a \in A, NEW b \in B
             PROVE  EventBefore(a, b)
  BY DEF Precedes
<1>1. a.tick \in Nat /\ b.tick \in Nat /\ a.on \in BOOLEAN /\ b.on \in BOOLEAN
  BY DEF EventSet, IsEvent
<1>2. a.tick <= W /\ (a.on => a.tick < W) /\ b.tick >= W /\ (~b.on => b.tick > W)
  BY DEF EndedBy, BeginsAt
<1>3. a.tick < b.tick \/ (a.tick = b.tick /\ ~a.on /\ b.on)
  BY <1>1, <1>2
<1> QED
  BY <1>3 DEF EventBefore

LEMMA GroupsSpan ==
  ASSUME NEW X, EventSet(X), Closed(X), NEW G, G = Groups(X)
  PROVE  /\ Spans(G)
         /\ \A g \in G : (\E e \in X : e.on /\ g.start = e.tick) /\ (\E f \in X : ~f.on /\ g.end = f.tick)
<1>1. \A e \in X : e.tick \in Nat
  BY DEF EventSet, IsEvent
<1>2. ASSUME NEW g \in G
      PROVE  \E e, f \in X : e.on /\ ~f.on /\ g.start = e.tick /\ g.end = f.tick /\ e.tick < f.tick
  <2>1. PICK e, f \in X :
           /\ e.on /\ ~f.on /\ Closes(X, e, f) /\ Line(f) = Line(e) /\ e.tick < f.tick
           /\ g = [track |-> Track(e), channel |-> Channel(e), voice |-> Voice(e),
                   start |-> e.tick, end |-> f.tick, on |-> e, offs |-> {f}]
    BY GroupsClosed
  <2>2. g.start = e.tick /\ g.end = f.tick
    BY <2>1
  <2> QED
    BY <2>1, <2>2
<1> QED
  BY <1>1, <1>2 DEF Spans

\* Keys of what begins at a tick.
KeysAt(keys, W) == \A k \in keys : k[1] >= W

\* Where all that is queued has ended when the window begins, the pass decides
\* what it would of the window alone.
LEMMA DecidedApart ==
  ASSUME NEW Q, NEW X, EventSet(Q \cup X), Closed(Q), Closed(X), NEW W \in Nat,
         EndedBy(Q, W), BeginsAt(X, W), NEW keys, KeysAt(keys, W), NEW horizon, NEW config
  PROVE  Decided(Q \cup X, keys, horizon, config) = Decided(X, keys, horizon, config)
<1>1. EventSet(Q) /\ EventSet(X) /\ Precedes(Q, X)
  BY EventSubset, WindowPrecedes
<1>2. PICK A, B : A = Groups(Q) /\ B = Groups(X)
  OBVIOUS
<1>3. Groups(Q \cup X) = A \cup B
  BY <1>1, <1>2, GroupsSplit
<1>4. Spans(A) /\ Spans(B)
  BY <1>1, <1>2, GroupsSpan
<1>5. \A a \in A : a.start < W /\ a.end <= W
  BY <1>1, <1>2, GroupsSpan DEF EndedBy
<1>6. \A b \in B : W <= b.start
  <2>1. \A e \in X : e.tick \in Nat
    BY <1>1 DEF EventSet, IsEvent
  <2> QED
    BY <1>1, <1>2, <2>1, GroupsSpan DEF BeginsAt
<1>7. Components(A \cup B) = Components(A) \cup Components(B)
  BY <1>4, <1>5, <1>6, ComponentsUnion
<1>8. ASSUME NEW c \in Components(A), NEW g \in c.groups
      PROVE  GroupKey(g) \notin keys
  <2>1. g \in A
    BY <1>8, ComponentsAre
  <2>2. g.start < W /\ g.start \in Nat
    BY <1>4, <1>5, <2>1 DEF Spans
  <2>3. GroupKey(g)[1] = g.start
    BY DEF GroupKey
  <2>4. ~(g.start >= W)
    BY <2>2
  <2> QED
    BY <2>3, <2>4 DEF KeysAt
<1>9. Resolvable(Components(A) \cup Components(B), keys, horizon) = Resolvable(Components(B), keys, horizon)
  BY <1>8 DEF Resolvable
<1>10. Resolvable(Components(Groups(Q \cup X)), keys, horizon) = Resolvable(Components(Groups(X)), keys, horizon)
  BY <1>2, <1>3, <1>7, <1>9
<1> QED
  BY <1>10 DEF Decided

LEMMA SilencedGroups ==
  ASSUME NEW q, NEW keys, NEW horizon, NEW config, NEW counted,
         NEW silenced, silenced = SilencedIn(Decided(q, keys, horizon, config), counted, config)
  PROVE  silenced \subseteq Groups(q)
<1>1. \A c \in Decided(q, keys, horizon, config) : c.groups \subseteq Groups(q)
  BY ComponentsAre DEF Decided, Resolvable
<1> QED
  BY <1>1 DEF SilencedIn

LEMMA EventsInGroups ==
  ASSUME NEW X, EventSet(X), Closed(X), NEW silenced, silenced \subseteq Groups(X)
  PROVE  EventsIn(silenced) \subseteq X
<1>1. ASSUME NEW g \in silenced
      PROVE  g.on \in X /\ g.offs \subseteq X
  BY GroupsClosed
<1> QED
  BY <1>1 DEF EventsIn

LEMMA RestSound ==
  ASSUME NEW X, EventSet(X), Sound(X), NEW silenced, silenced \subseteq Groups(X),
         NEW N, N = X \ EventsIn(silenced)
  PROVE  EventSet(N) /\ Sound(N)
<1>1. N \subseteq X /\ EventSet(N)
  BY EventSubset
<1>2. PICK Z : Z = {}
  OBVIOUS
<1>3. EventSet(Z) /\ Sound(Z) /\ Heard(Z)
  BY <1>2, NothingInFlight DEF InFlight
<1>4. Z \cup (Z \cup X) = X /\ Z \cup Z = Z /\ Z \cap (Z \cup X) = {} /\ Z \cap X = {} /\ Z \cup X = X
  BY <1>2
<1>5. Sound(Z \cup ((Z \cup X) \ EventsIn(silenced)))
  <2>1. EventSet(Z \cup (Z \cup X)) /\ Sound(Z \cup Z) /\ silenced \subseteq Groups(Z \cup X)
    BY <1>3, <1>4
  <2>2. \A s \in Z, e \in Z : s.tick < e.tick
    BY <1>2
  <2> QED
    BY <1>3, <1>4, <2>1, <2>2, RemovedSound
<1>6. Z \cup ((Z \cup X) \ EventsIn(silenced)) = N
  BY <1>4
<1> QED
  BY <1>1, <1>5, <1>6

\* The outcome of a window beside what is queued.
Beside(Q, s, r) ==
  r.queue = Q \cup s.queue /\ r.suppressed = s.suppressed /\ r.resolved = s.resolved

\* The whole pass over what is queued and a window.
LEMMA WindowApart ==
  ASSUME NEW Q, NEW X, EventSet(Q \cup X), Closed(Q), Quiet(Q), Sound(X), NEW W \in Nat,
         EndedBy(Q, W), BeginsAt(X, W), NEW keys, KeysAt(keys, W), NEW horizon, NEW resolved, NEW config,
         NEW r, r = ResolveConflicts(Q \cup X, keys, horizon, resolved, config),
         NEW s, s = ResolveConflicts(X, keys, horizon, resolved, config)
  PROVE  Beside(Q, s, r)
<1>1. EventSet(Q) /\ EventSet(X)
  BY EventSubset
<1>2. Closed(X)
  BY <1>1, SoundClosed
<1>3. PICK components, counted, silenced :
        /\ components = Decided(X, keys, horizon, config)
        /\ counted = Counted(components, resolved, config.cycle)
        /\ silenced = SilencedIn(components, counted, config)
  OBVIOUS
<1>4. components = Decided(Q \cup X, keys, horizon, config)
  BY <1>2, <1>3, DecidedApart
<1>5. /\ s.queue = Defer(X \ EventsIn(silenced))
      /\ s.suppressed = NotesOf(silenced)
      /\ s.resolved = Remembered(counted)
  BY <1>3, ResolvePass
<1>6. /\ r.queue = Defer((Q \cup X) \ EventsIn(silenced))
      /\ r.suppressed = NotesOf(silenced)
      /\ r.resolved = Remembered(counted)
  <2>1. PICK q : q = Q \cup X
    OBVIOUS
  <2> QED
    BY <1>3, <1>4, <2>1, ResolvePass
<1>7. silenced \subseteq Groups(X)
  BY <1>3, SilencedGroups
<1>8. PICK R, N : R = EventsIn(silenced) /\ N = X \ R
  OBVIOUS
<1>9. EventSet(N) /\ Closed(N) /\ N \subseteq X /\ R \subseteq X
  BY <1>1, <1>2, <1>7, <1>8, RestSound, SoundClosed, EventsInGroups
<1>10. Precedes(Q, X)
  BY <1>1, WindowPrecedes
<1>11. (Q \cup X) \ R = Q \cup N
  <2>1. Q \cap X = {}
    BY <1>1, <1>10, EventOrder DEF EventSet, Precedes
  <2> QED
    BY <1>8, <1>9, <2>1
<1>12. Defer(Q \cup N) = Defer(Q) \cup Defer(N)
  <2>1. Q \cup N \subseteq Q \cup X
    BY <1>9
  <2>2. EventSet(Q \cup N)
    BY <2>1, EventSubset
  <2>3. Precedes(Q, N)
    BY <1>9, <1>10 DEF Precedes
  <2> QED
    BY <1>9, <2>2, <2>3, DeferSplit
<1>13. Defer(Q) = Q
  BY <1>1, QuietStays
<1>14. r.queue = Q \cup s.queue /\ r.suppressed = s.suppressed /\ r.resolved = s.resolved
  BY <1>5, <1>6, <1>8, <1>11, <1>12, <1>13
<1> QED
  BY <1>14 DEF Beside

\* What of a window is heard, and when.
LEMMA WindowIs ==
  ASSUME NEW X, EventSet(X), Sound(X), NEW keys, NEW horizon, NEW resolved, NEW config,
         NEW D, D = ResolveConflicts(X, keys, horizon, resolved, config).queue
  PROVE  /\ EventSet(D) /\ Sound(D) /\ Settled(D)
         /\ \A d \in D : \E x \in X : /\ d.note = x.note /\ d.on = x.on /\ d.tick >= x.tick
                                      /\ d.on => d = x
         /\ \A d \in D : \E x \in X : d.tick <= x.tick
<1>1. PICK components, counted, silenced :
        /\ components = Decided(X, keys, horizon, config)
        /\ counted = Counted(components, resolved, config.cycle)
        /\ silenced = SilencedIn(components, counted, config)
  OBVIOUS
<1>2. D = Defer(X \ EventsIn(silenced))
  <2>1. PICK r : r = ResolveConflicts(X, keys, horizon, resolved, config)
    OBVIOUS
  <2>2. r.queue = Defer(X \ EventsIn(silenced))
    BY <1>1, <2>1, ResolvePass
  <2> QED
    BY <2>1, <2>2
<1>3. PICK N : N = X \ EventsIn(silenced)
  OBVIOUS
<1>4. silenced \subseteq Groups(X)
  BY <1>1, SilencedGroups
<1>5. EventSet(N) /\ Sound(N) /\ N \subseteq X
  BY <1>3, <1>4, RestSound
<1>6. /\ EventSet(D) /\ Sound(D) /\ Settled(D)
      /\ \A d \in D : \E x \in N : d.note = x.note /\ d.on = x.on /\ d.tick >= x.tick /\ (d.on => d = x)
      /\ \A d \in D : \E x \in N : d.tick = x.tick
  <2>1. D = Defer(N)
    BY <1>2, <1>3
  <2> QED
    BY <1>5, <2>1, DeferSettles
<1>7. \A x \in N : x.tick <= x.tick
  BY <1>5 DEF EventSet, IsEvent
<1> QED
  BY <1>5, <1>6, <1>7

\* Settled apart, settled together.
LEMMA SettledApart ==
  ASSUME NEW E, NEW D, EventSet(E \cup D), NEW W \in Nat, EndedBy(E, W), BeginsAt(D, W),
         Closed(E), Closed(D), Settled(E), Settled(D)
  PROVE  Settled(E \cup D)
<1>1. EventSet(E) /\ EventSet(D) /\ Precedes(E, D)
  BY EventSubset, WindowPrecedes
<1>2. PICK A, B : A = Groups(E) /\ B = Groups(D)
  OBVIOUS
<1>3. Groups(E \cup D) = A \cup B
  BY <1>1, <1>2, GroupsSplit
<1>4. Spans(A) /\ Spans(B)
  BY <1>1, <1>2, GroupsSpan
<1>5. \A a \in A : a.end <= W
  BY <1>1, <1>2, GroupsSpan DEF EndedBy
<1>6. \A b \in B : W <= b.start
  <2>1. \A e \in D : e.tick \in Nat
    BY <1>1 DEF EventSet, IsEvent
  <2> QED
    BY <1>1, <1>2, <2>1, GroupsSpan DEF BeginsAt
<1>7. ASSUME NEW f \in E, ~f.on
      PROVE  ~Covered(A \cup B, Voice(f), f.tick)
  <2>1. ~Covered(A, Voice(f), f.tick)
    BY <1>2, <1>7 DEF Settled
  <2>2. f.tick \in Nat /\ f.tick <= W
    BY <1>1 DEF EventSet, IsEvent, EndedBy
  <2>3. \A b \in B : ~(b.start < f.tick)
    BY <1>4, <1>6, <2>2 DEF Spans
  <2> QED
    BY <2>1, <2>3 DEF Covered
<1>8. ASSUME NEW f \in D, ~f.on
      PROVE  ~Covered(A \cup B, Voice(f), f.tick)
  <2>1. ~Covered(B, Voice(f), f.tick)
    BY <1>2, <1>8 DEF Settled
  <2>2. f.tick \in Nat /\ f.tick >= W
    BY <1>1 DEF EventSet, IsEvent, BeginsAt
  <2>3. \A a \in A : ~(f.tick < a.end)
    BY <1>4, <1>5, <2>2 DEF Spans
  <2> QED
    BY <2>1, <2>3 DEF Covered
<1> QED
  BY <1>3, <1>7, <1>8 DEF Settled

-----------------------------------------------------------------------------
(************************************************************************** *)
(* Where notes are placed                                                  *)
(************************************************************************** *)

\* A track whose every cycle has a length, in which its notes end.
MeetsCycle(track, c) ==
  \A n \in DOMAIN track.sources :
    /\ \A k \in DOMAIN track.sources[n].ticks : track.sources[n].ticks[k] = c
    /\ \A k \in DOMAIN track.sources[n].takes : \A m \in track.sources[n].takes[k] : m.off <= c

LEMMA Multiple ==
  ASSUME NEW c \in Nat \ {0}, NEW a \in Nat, a % c = 0
  PROVE  \E k \in Nat : a = k * c
<1>1. a = c * (a \div c) + (a % c) /\ a \div c \in Nat
  OBVIOUS
<1>2. PICK k \in Nat : k = a \div c
  BY <1>1
<1>3. c * k = k * c /\ k * c \in Nat
  OBVIOUS
<1>4. a = c * k + 0
  BY <1>1, <1>2
<1>5. a = k * c
  BY <1>3, <1>4
<1> QED
  BY <1>5

LEMMA WholeLater ==
  ASSUME NEW c \in Nat \ {0}, NEW a \in Nat, NEW b \in Nat, a % c = 0, b % c = 0
  PROVE  a < b => a + c <= b
<1>1. PICK i \in Nat : a = i * c
  BY Multiple
<1>2. PICK j \in Nat : b = j * c
  BY Multiple
<1> SUFFICES ASSUME a < b
             PROVE  a + c <= b
  OBVIOUS
<1>3. i < j
  <2>1. SUFFICES ASSUME j <= i
                 PROVE  FALSE
    OBVIOUS
  <2>2. PICK d \in Nat : i = j + d
    <3>1. i - j \in Nat /\ i = j + (i - j)
      BY <2>1
    <3> QED
      BY <3>1
  <2>3. (j + d) * c = j * c + d * c /\ d * c \in Nat
    OBVIOUS
  <2> QED
    BY <1>1, <1>2, <2>2, <2>3
<1>4. PICK d \in Nat : j = i + 1 + d
  <2>1. j - i - 1 \in Nat /\ j = i + 1 + (j - i - 1)
    BY <1>3
  <2> QED
    BY <2>1
<1>5. (i + 1 + d) * c = i * c + c + d * c /\ d * c \in Nat
  OBVIOUS
<1> QED
  BY <1>1, <1>2, <1>4, <1>5

LEMMA WholeNext ==
  ASSUME NEW c \in Nat \ {0}, NEW a \in Nat, a % c = 0
  PROVE  (a + c) % c = 0
<1>1. PICK i \in Nat : a = i * c
  BY Multiple
<1>2. i * c + c = (i + 1) * c
  OBVIOUS
<1>3. PICK k \in Nat : k = i + 1
  OBVIOUS
<1>4. (k * c) % c = 0
  OBVIOUS
<1> QED
  BY <1>1, <1>2, <1>3, <1>4

LEMMA LengthIs ==
  ASSUME NEW p, NEW t, ValidTrack(p.tracks[t])
  PROVE  CycleLength(p, t) \in Nat \ {0}
<1>1. PICK source : source = p.tracks[t].sources[1] /\ ValidSource(source)
  BY DEF ValidTrack
<1>2. PICK ticks : ticks = source.ticks /\ ticks \in Seq(Nat \ {0}) /\ ticks # <<>>
  BY <1>1 DEF ValidSource
<1>3. Len(ticks) \in Nat \ {0}
  BY <1>2, EmptySeq, LenProperties
<1>4. ticks[1] \in Nat \ {0}
  BY <1>2, <1>3, ElementOfSeq
<1> QED
  BY <1>1, <1>2, <1>4 DEF CycleLength

\* A multiple of what a length divides is one of the length.
LEMMA WholeOf ==
  ASSUME NEW c \in Nat \ {0}, NEW d \in Nat \ {0}, d % c = 0, NEW a \in Nat, a % d = 0
  PROVE  c <= d /\ a % c = 0
<1>1. PICK j \in Nat : d = j * c
  BY Multiple
<1>2. PICK k \in Nat : a = k * d
  BY Multiple
<1>3. PICK m \in Nat : m = k * j
  OBVIOUS
<1>4. a = m * c
  BY <1>1, <1>2, <1>3
<1>5. (m * c) % c = 0
  OBVIOUS
<1>6. c <= d
  <2>1. 0 \in Nat /\ 0 % c = 0 /\ 0 < d
    OBVIOUS
  <2>2. PICK zero \in Nat : zero = 0
    OBVIOUS
  <2>3. zero < d => zero + c <= d
    BY <2>1, <2>2, WholeLater
  <2> QED
    BY <2>1, <2>2, <2>3
<1> QED
  BY <1>4, <1>5, <1>6

\* Takes of a track from a tick on, each where the one before it ended.
Laid(p, t, b, target, s, L) ==
  /\ s.r.until \in Nat /\ s.r.until % CycleLength(p, t) = 0 /\ s.r.until >= b
  /\ \A n \in s.notes : \E l \in L : n \in Take(p, t, l.source, l.cursor, l.base)
  /\ p.tracks[t].silent => s.notes = {}
  /\ \A l \in L :
       /\ l.source \in Members(p, t) /\ l.cursor \in Cursor /\ l.base \in Nat
       /\ l.base % CycleLength(p, t) = 0 /\ b <= l.base
       /\ l.base + CycleLength(p, t) <= s.r.until /\ l.base + CycleLength(p, t) <= target
       /\ l.cursor.cycle < Upcoming(p, t, s.r, l.source)
  /\ \A l, m \in L : l.base = m.base => l = m
  /\ \A l, m \in L : l.source = m.source /\ l.cursor.cycle = m.cursor.cycle => l = m

\* A turn is one take, placed where the track stood, and a cycle long.
LEMMA TurnLaid ==
  ASSUME NEW p, NEW t, ValidTrack(p.tracks[t]), Kind(p, t) # "triggered",
         CycleLength(p, t) \in Nat \ {0}, MeetsCycle(p.tracks[t], CycleLength(p, t)),
         NEW r, TrackOK(p.tracks[t], r), NEW s, s = Turn(p, t, r)
  PROVE  \E n \in Members(p, t) :
           /\ n \in 1 .. Len(r.cursors) /\ r.cursors[n] \in Cursor
           /\ s.notes \subseteq Take(p, t, n, r.cursors[n], r.until)
           /\ p.tracks[t].silent => s.notes = {}
           /\ s.r.until = r.until + CycleLength(p, t)
           /\ Upcoming(p, t, r, n) = r.cursors[n].cycle
           /\ Upcoming(p, t, s.r, n) = r.cursors[n].cycle + 1
<1>1. PICK track : track = p.tracks[t]
  OBVIOUS
<1>2. r = [x \in TrackNames |-> r[x]] /\ r.until \in Nat
  BY DEF TrackOK
<1>3. ASSUME NEW n \in 1 .. Len(r.cursors)
      PROVE  /\ n \in Members(p, t) /\ ValidSource(track.sources[n]) /\ r.cursors[n] \in Cursor
             /\ r.cursors[n].cycle \in Nat /\ DOMAIN r.cursors = 1 .. Len(r.cursors)
             /\ Ticks(track.sources[n], r.cursors[n].cycle) = CycleLength(p, t)
  <2>1. /\ n \in DOMAIN track.sources /\ ValidSource(track.sources[n])
        /\ r.cursors[n] \in Cursor /\ r.cursors[n].cycle \in Nat /\ DOMAIN r.cursors = 1 .. Len(r.cursors)
    BY <1>1, CursorIs
  <2>2. PICK s1, k : s1 = track.sources[n] /\ k \in Nat /\ k = r.cursors[n].cycle
    BY <2>1
  <2>3. s1.ticks \in Seq(Nat \ {0}) /\ s1.ticks # <<>>
    BY <2>1, <2>2 DEF ValidSource
  <2>4. PICK N \in Nat \ {0} : N = Len(s1.ticks) /\ DOMAIN s1.ticks = 1 .. N
    BY <2>3, EmptySeq, LenProperties
  <2>5. (k % N) + 1 \in 1 .. N
    <3>1. k % N \in Nat /\ k % N < N
      BY <2>2
    <3> QED
      BY <3>1
  <2>6. s1.ticks[(k % N) + 1] = CycleLength(p, t)
    BY <1>1, <2>1, <2>2, <2>4, <2>5 DEF MeetsCycle
  <2> QED
    BY <1>1, <2>1, <2>2, <2>4, <2>6 DEF Ticks, Members
<1>4. CASE Kind(p, t) = "continuous"
  <2>1. PICK source, cursor, notes, recent :
          /\ source = track.sources[1] /\ cursor = r.cursors[1]
          /\ notes = Take(p, t, 1, cursor, r.until)
          /\ recent = IF Followers(p, t) = {} THEN r.recent
                      ELSE r.recent \cup {Resolved(source, cursor, r.until, notes)}
    OBVIOUS
  <2>2. 1 \in 1 .. Len(r.cursors)
    BY LenProperties DEF TrackOK, ValidTrack
  <2>3. /\ 1 \in Members(p, t) /\ cursor \in Cursor /\ cursor.cycle \in Nat
        /\ Ticks(source, cursor.cycle) = CycleLength(p, t)
    BY <1>3, <2>1, <2>2
  <2>4. s = ContinuousCycle(p, t, r)
    BY <1>4 DEF Turn
  <2>5. PICK e : e = [r EXCEPT !.until = @ + CycleLength(p, t), !.cycle = @ + 1, !.cursors[1] = Realized(cursor), !.recent = recent]
    OBVIOUS
  <2>6. s = [r |-> e, notes |-> IF track.silent THEN {} ELSE notes]
    BY <1>1, <2>1, <2>3, <2>4, <2>5 DEF ContinuousCycle
  <2>7. e.until = r.until + CycleLength(p, t) /\ e.cursors = [r.cursors EXCEPT ![1] = Realized(cursor)]
    BY <1>2, <2>5 DEF TrackNames
  <2>8. e.cursors[1] = Realized(cursor) /\ Realized(cursor).cycle = cursor.cycle + 1
    BY <1>3, <2>2, <2>3, <2>7, RealizedIs
  <2>9. s.r = e /\ s.notes \subseteq notes /\ (p.tracks[t].silent => s.notes = {})
    BY <1>1, <2>6
  <2>10. Upcoming(p, t, r, 1) = cursor.cycle /\ Upcoming(p, t, e, 1) = cursor.cycle + 1
    BY <1>4, <2>1, <2>8 DEF Upcoming
  <2> QED
    BY <2>1, <2>2, <2>3, <2>7, <2>9, <2>10
<1>5. CASE Kind(p, t) = "lane"
  <2>1. PICK lane : lane = track.lane /\ lane # None
    BY <1>1, <1>5 DEF Kind
  <2>2. PICK k \in Nat \ {0} : k = Len(track.sources) /\ k = Len(r.cursors) /\ ValidSpec(lane, k)
    BY <1>1, <2>1 DEF ValidTrack, TrackOK
  <2>3. r.walk \in WalkState(k)
    BY <1>1, <2>1, <2>2 DEF TrackOK
  <2>4. PICK choice : choice = Choose(lane, r.walk) /\ choice.state \in States(k)
    <3>1. Choose(lane, r.walk).state \in States(k)
      BY <2>2, <2>3, ChooseIs
    <3> QED
      BY <3>1
  <2>5. PICK n \in 1 .. k : n = choice.state + 1 /\ n = Minimum(choice.state + 1, Len(r.cursors))
    BY <2>2, <2>4 DEF States, Minimum
  <2>6. PICK source, cursor, notes :
          /\ source = track.sources[n] /\ cursor = r.cursors[n]
          /\ notes = Take(p, t, n, cursor, r.until)
    OBVIOUS
  <2>7. /\ n \in 1 .. Len(r.cursors) /\ n \in Members(p, t) /\ cursor \in Cursor /\ cursor.cycle \in Nat
        /\ Ticks(source, cursor.cycle) = CycleLength(p, t) /\ n \in DOMAIN r.cursors
    BY <1>3, <2>2, <2>6
  <2>8. s = LaneCycle(p, t, r)
    BY <1>5 DEF Turn
  <2>9. PICK e : e = [r EXCEPT !.until = @ + CycleLength(p, t), !.cycle = @ + 1, !.cursors[n] = Realized(cursor), !.walk = choice.walk]
    OBVIOUS
  <2>10. s = [r |-> e, notes |-> notes]
    BY <1>1, <2>1, <2>4, <2>5, <2>6, <2>7, <2>8, <2>9 DEF LaneCycle, LaneTurn
  <2>11. e.until = r.until + CycleLength(p, t) /\ e.cursors = [r.cursors EXCEPT ![n] = Realized(cursor)]
    BY <1>2, <2>9 DEF TrackNames
  <2>12. e.cursors[n] = Realized(cursor) /\ Realized(cursor).cycle = cursor.cycle + 1
    BY <2>7, <2>11, RealizedIs
  <2>13. s.r = e /\ s.notes = notes
    BY <2>10
  <2>14. Upcoming(p, t, r, n) = cursor.cycle /\ Upcoming(p, t, e, n) = cursor.cycle + 1
    BY <1>5, <2>6, <2>12 DEF Upcoming
  <2>15. ~p.tracks[t].silent
    BY <1>1, <2>1 DEF ValidTrack
  <2> QED
    BY <2>6, <2>7, <2>11, <2>13, <2>14, <2>15
<1> QED
  BY <1>4, <1>5, KindIs

LEMMA IterateLaid ==
  ASSUME NEW p, ValidProject(p), NEW t \in DOMAIN p.tracks, Kind(p, t) # "triggered",
         MeetsCycle(p.tracks[t], CycleLength(p, t)),
         NEW b \in Nat, NEW until, NEW target \in Nat, target % CycleLength(p, t) = 0,
         NEW s, TrackOK(p.tracks[t], s.r), NEW L, Laid(p, t, b, target, s, L),
         NEW e, e = Iterate(p, t, until, target, s)
  PROVE  \E M : Laid(p, t, b, target, e, M)
<1>1. ValidTrack(p.tracks[t]) /\ CycleLength(p, t) \in Nat \ {0}
  BY LengthIs DEF ValidProject
<1>2. CASE ~HasTurn(Kind(p, t), s.r, until, target)
  BY <1>2 DEF Iterate
<1>3. CASE HasTurn(Kind(p, t), s.r, until, target)
  <2>1. PICK r, u : r = s.r /\ u = Turn(p, t, r)
    OBVIOUS
  <2>2. e.r = u.r /\ e.notes = s.notes \cup u.notes
    BY <1>3, <2>1 DEF Iterate
  <2>3. r.until < target
    BY <1>3, <2>1 DEF HasTurn
  <2>4. PICK n \in Members(p, t) :
           /\ r.cursors[n] \in Cursor
           /\ u.notes \subseteq Take(p, t, n, r.cursors[n], r.until)
           /\ p.tracks[t].silent => u.notes = {}
           /\ u.r.until = r.until + CycleLength(p, t)
           /\ Upcoming(p, t, r, n) = r.cursors[n].cycle
           /\ Upcoming(p, t, u.r, n) = r.cursors[n].cycle + 1
    BY <1>1, <2>1, TurnLaid
  <2>5. Follows(p, t, r, u)
    <3>1. CASE Kind(p, t) = "lane"
      BY <1>1, <2>1, <3>1, LaneKeeps DEF Turn
    <3>2. CASE Kind(p, t) = "continuous"
      BY <1>1, <2>1, <3>2, ContinuousKeeps DEF Turn
    <3> QED
      BY <3>1, <3>2, KindIs
  <2>6. PICK new : new = [source |-> n, cursor |-> r.cursors[n], base |-> r.until]
    OBVIOUS
  <2>7. PICK M : M = L \cup {new}
    OBVIOUS
  <2>8. r.until \in Nat /\ r.until % CycleLength(p, t) = 0 /\ r.until >= b /\ r.cursors[n].cycle \in Nat
    BY <2>1, <2>4 DEF Laid, Cursor
  <2>9. u.r.until \in Nat /\ u.r.until % CycleLength(p, t) = 0 /\ u.r.until >= b
    <3>1. PICK c \in Nat \ {0}, a \in Nat : c = CycleLength(p, t) /\ a = r.until /\ a % c = 0
      BY <1>1, <2>8
    <3>2. (a + c) % c = 0 /\ u.r.until = a + c
      BY <2>4, <3>1, WholeNext
    <3> QED
      BY <2>8, <3>1, <3>2
  <2>10. r.until + CycleLength(p, t) <= target
    BY <1>1, <2>3, <2>8, WholeLater
  <2>11. ASSUME NEW l \in L
         PROVE  /\ l.source \in Members(p, t) /\ l.cursor \in Cursor /\ l.base \in Nat
                /\ l.base % CycleLength(p, t) = 0 /\ b <= l.base
                /\ l.base + CycleLength(p, t) <= u.r.until /\ l.base + CycleLength(p, t) <= target
                /\ l.cursor.cycle < Upcoming(p, t, u.r, l.source)
                /\ l.base # r.until
                /\ l.source = n => l.cursor.cycle # r.cursors[n].cycle
    <3>1. /\ l.source \in Members(p, t) /\ l.cursor \in Cursor /\ l.base \in Nat
          /\ l.base % CycleLength(p, t) = 0 /\ b <= l.base
          /\ l.base + CycleLength(p, t) <= r.until /\ l.base + CycleLength(p, t) <= target
          /\ l.cursor.cycle < Upcoming(p, t, r, l.source)
      BY <2>1 DEF Laid
    <3>2. l.cursor.cycle \in Nat
      BY <3>1 DEF Cursor
    <3>3. /\ Upcoming(p, t, r, l.source) <= Upcoming(p, t, u.r, l.source)
          /\ Upcoming(p, t, r, l.source) \in Nat /\ Upcoming(p, t, u.r, l.source) \in Nat
      <4>1. TrackOK(p.tracks[t], r) /\ TrackOK(p.tracks[t], u.r)
        BY <2>1, <2>5 DEF Follows
      <4> QED
        BY <1>1, <2>5, <3>1, <4>1, UpcomingType DEF Follows
    <3>4. l.cursor.cycle < Upcoming(p, t, u.r, l.source)
      BY <3>1, <3>2, <3>3
    <3>5. l.base + CycleLength(p, t) <= u.r.until /\ l.base # r.until
      BY <1>1, <2>4, <2>8, <3>1
    <3>6. l.source = n => l.cursor.cycle # r.cursors[n].cycle
      BY <2>4, <2>8, <3>1, <3>2
    <3> QED
      BY <3>1, <3>4, <3>5, <3>6
  <2>12. /\ new.source = n /\ new.cursor = r.cursors[n] /\ new.base = r.until
    BY <2>6
  <2>13. ASSUME NEW x \in e.notes
         PROVE  \E l \in M : x \in Take(p, t, l.source, l.cursor, l.base)
    <3>1. CASE x \in s.notes
      BY <2>7, <3>1 DEF Laid
    <3>2. CASE x \in u.notes
      <4>1. x \in Take(p, t, new.source, new.cursor, new.base)
        BY <2>4, <2>12, <3>2
      <4> QED
        BY <2>7, <4>1
    <3> QED
      BY <2>2, <3>1, <3>2
  <2>14. ASSUME NEW l \in M
         PROVE  /\ l.source \in Members(p, t) /\ l.cursor \in Cursor /\ l.base \in Nat
                /\ l.base % CycleLength(p, t) = 0 /\ b <= l.base
                /\ l.base + CycleLength(p, t) <= e.r.until /\ l.base + CycleLength(p, t) <= target
                /\ l.cursor.cycle < Upcoming(p, t, e.r, l.source)
    <3>1. CASE l \in L
      BY <2>2, <2>11, <3>1
    <3>2. CASE l = new
      BY <1>1, <2>2, <2>4, <2>8, <2>9, <2>10, <2>12, <3>2
    <3> QED
      BY <2>7, <3>1, <3>2
  <2>15. ASSUME NEW l \in M, NEW m \in M
         PROVE  /\ l.base = m.base => l = m
                /\ l.source = m.source /\ l.cursor.cycle = m.cursor.cycle => l = m
    <3>1. CASE l \in L /\ m \in L
      BY <3>1 DEF Laid
    <3>2. CASE l = new /\ m \in L
      BY <2>11, <2>12, <3>2
    <3>3. CASE l \in L /\ m = new
      BY <2>11, <2>12, <3>3
    <3>4. CASE l = new /\ m = new
      BY <3>4
    <3> QED
      BY <2>7, <3>1, <3>2, <3>3, <3>4
  <2>16. p.tracks[t].silent => e.notes = {}
    BY <2>2, <2>4 DEF Laid
  <2>17. Laid(p, t, b, target, e, M)
    BY <2>2, <2>9, <2>13, <2>14, <2>15, <2>16 DEF Laid
  <2> QED
    BY <2>17
<1> QED
  BY <1>2, <1>3

LEMMA TurnsLaid ==
  ASSUME NEW p, ValidProject(p), NEW t \in DOMAIN p.tracks, Kind(p, t) # "triggered",
         MeetsCycle(p.tracks[t], CycleLength(p, t)),
         NEW begin, TrackOK(p.tracks[t], begin), begin.until % CycleLength(p, t) = 0,
         NEW target \in Nat, target % CycleLength(p, t) = 0, NEW count \in Nat,
         NEW s, s = TakeTurns(p, t, begin, target, count)
  PROVE  \E L : Laid(p, t, begin.until, target, s, L)
<1>1. PICK f : /\ f[0] = Unplayed(begin)
               /\ \A n \in 1 .. count : f[n] = Iterate(p, t, begin.until, target, f[n - 1])
               /\ f[count] = TakeTurns(p, t, begin, target, count)
  BY TurnsAre
<1>2. ValidTrack(p.tracks[t])
  BY DEF ValidProject
<1>3. PICK b \in Nat : b = begin.until
  BY DEF TrackOK
<1> DEFINE S == {n \in Nat : n <= count => /\ Brought(p, t, begin, target, n, f[n])
                                           /\ \E L : Laid(p, t, b, target, f[n], L)}
<1>4. 0 \in S
  <2>1. PICK u : u = f[0] /\ u = Unplayed(begin) /\ u.r = begin /\ u.notes = {}
    BY <1>1 DEF Unplayed
  <2>2. Follows(p, t, begin, u)
    BY <1>2, <2>1, UnplayedFollows
  <2>3. begin.until >= begin.until + 0
    BY DEF TrackOK
  <2>4. Brought(p, t, begin, target, 0, u)
    BY <2>1, <2>2, <2>3 DEF Brought
  <2>5. Laid(p, t, b, target, u, {})
    BY <1>3, <2>1 DEF Laid
  <2> QED
    BY <2>1, <2>4, <2>5
<1>5. ASSUME NEW n \in Nat, n \in S
      PROVE  n + 1 \in S
  <2> SUFFICES ASSUME n + 1 <= count
               PROVE  Brought(p, t, begin, target, n + 1, f[n + 1]) /\ \E L : Laid(p, t, b, target, f[n + 1], L)
    OBVIOUS
  <2>1. n + 1 \in 1 .. count /\ (n + 1) - 1 = n
    OBVIOUS
  <2>2. f[n + 1] = Iterate(p, t, begin.until, target, f[n])
    BY <1>1, <2>1
  <2>3. Brought(p, t, begin, target, n, f[n]) /\ \E L : Laid(p, t, b, target, f[n], L)
    BY <1>5
  <2>4. Brought(p, t, begin, target, n + 1, f[n + 1])
    BY <2>2, <2>3, IterateKeeps
  <2>5. PICK u : u = f[n] /\ TrackOK(p.tracks[t], u.r)
    BY <2>3 DEF Brought, Follows
  <2>6. PICK L : Laid(p, t, b, target, u, L)
    BY <2>3, <2>5
  <2>7. \E M : Laid(p, t, b, target, f[n + 1], M)
    BY <2>2, <2>5, <2>6, IterateLaid
  <2> QED
    BY <2>4, <2>7
<1>6. count \in S
  <2> HIDE DEF S
  <2> QED
    BY <1>4, <1>5, Inductive
<1> QED
  BY <1>1, <1>3, <1>6

LEMMA AdvanceLaid ==
  ASSUME NEW p, ValidProject(p), NEW t \in DOMAIN p.tracks, Kind(p, t) # "triggered",
         MeetsCycle(p.tracks[t], CycleLength(p, t)),
         NEW r, TrackOK(p.tracks[t], r), r.until % CycleLength(p, t) = 0,
         NEW target \in Nat, target % CycleLength(p, t) = 0, NEW turns \in Nat \cup {None}, NEW cycles,
         NEW s, s = Advance(p, t, r, cycles, target, turns)
  PROVE  \E L : Laid(p, t, r.until, target, s, L)
<1>1. PICK track, kind : track = p.tracks[t] /\ kind = Kind(p, t)
  OBVIOUS
<1>2. ValidTrack(track)
  BY <1>1 DEF ValidProject
<1>3. PICK count \in Nat : count = IF turns = None THEN Enough(kind, r, target) ELSE turns
  BY <1>1, EnoughType
<1>4. PICK end : end = TakeTurns(p, t, r, target, count)
  OBVIOUS
<1>5. PICK L : Laid(p, t, r.until, target, end, L)
  BY <1>4, TurnsLaid
<1>6. TrackOK(track, end.r)
  <2>1. Brought(p, t, r, target, count, end)
    BY <1>4, TurnsKeep
  <2> QED
    BY <1>1, <2>1 DEF Brought, Follows
<1>7. PICK fails : fails = (/\ HasTurn(kind, end.r, r.until, target)
                            /\ kind = "triggered" => ~LaunchOver(end.r))
  OBVIOUS
<1>8. s = [notes |-> end.notes, short |-> fails,
           r |-> CASE kind = "triggered" /\ turns = None -> [end.r EXCEPT !.until = Max({@, target})]
                   [] kind = "lane" /\ turns # None /\ fails ->
                        [end.r EXCEPT !.walk = Choose(track.lane, @).walk]
                   [] OTHER -> end.r]
  BY <1>1, <1>3, <1>4, <1>7 DEF Advance
<1>9. s.notes = end.notes
  BY <1>8
<1>10. s.r.until = end.r.until /\ \A n : Upcoming(p, t, s.r, n) = Upcoming(p, t, end.r, n)
  <2>1. CASE kind = "lane" /\ turns # None /\ fails
    <3>1. s.r = [end.r EXCEPT !.walk = Choose(track.lane, @).walk]
      BY <1>8, <2>1
    <3>2. track.lane # None
      BY <1>1, <2>1 DEF Kind
    <3>3. PICK x, e : x = end.r /\ e = s.r /\ TrackOK(track, x) /\ e = [x EXCEPT !.walk = Choose(track.lane, @).walk]
      BY <1>6, <3>1
    <3>4. SameNext(x, e) /\ e.until = x.until
      BY <1>2, <3>2, <3>3, WalkedOn
    <3>5. \A n : Upcoming(p, t, e, n) = Upcoming(p, t, x, n)
      BY <3>4 DEF Upcoming, SameNext, NextLocal
    <3> QED
      BY <3>3, <3>4, <3>5
  <2>2. CASE ~(kind = "lane" /\ turns # None /\ fails)
    <3>1. s.r = end.r
      BY <1>1, <1>8, <2>2
    <3> QED
      BY <3>1
  <2> QED
    BY <2>1, <2>2
<1>11. Laid(p, t, r.until, target, s, L)
  BY <1>5, <1>9, <1>10 DEF Laid
<1> QED
  BY <1>11

\* A project of whole cycles, track by track.
LEMMA MeetsAll ==
  ASSUME NEW p, CyclesMeet(p), NEW t \in DOMAIN p.tracks
  PROVE  Kind(p, t) # "triggered" /\ MeetsCycle(p.tracks[t], CycleLength(p, t))
BY DEF CyclesMeet, MeetsCycle

LEMMA MeetsWindow ==
  ASSUME NEW p, ValidProject(p), CyclesMeet(p), NEW t \in DOMAIN p.tracks
  PROVE  /\ CycleLength(p, t) \in Nat \ {0} /\ CycleLength(p, t) <= p.cycle
         /\ \A a \in Nat : a % p.cycle = 0 => a % CycleLength(p, t) = 0
<1>1. ValidTrack(p.tracks[t]) /\ p.cycle \in Nat \ {0} /\ p.cycle % CycleLength(p, t) = 0
  BY DEF ValidProject, CyclesMeet
<1>2. PICK c \in Nat \ {0}, d \in Nat \ {0} : c = CycleLength(p, t) /\ d = p.cycle /\ d % c = 0
  BY <1>1, LengthIs
<1>3. d \in Nat /\ d % d = 0
  OBVIOUS
<1>4. c <= d
  BY <1>2, <1>3, WholeOf
<1>5. ASSUME NEW a \in Nat, a % d = 0
      PROVE  a % c = 0
  BY <1>2, <1>5, WholeOf
<1> QED
  BY <1>2, <1>4, <1>5

AllWhole(p, rt) == \A t \in DOMAIN p.tracks : rt.tracks[t].until % CycleLength(p, t) = 0

LEMMA PassesLaid ==
  ASSUME NEW p, ValidProject(p), CyclesMeet(p), NEW rt, RuntimeOK(p, rt), AllWhole(p, rt),
         NEW target \in Nat, target % p.cycle = 0,
         NEW fault \in Faults(p) \cup {None}, NEW passed, passed = Passes(p, rt, target, fault)
  PROVE  \A t \in DOMAIN p.tracks : \E L : Laid(p, t, rt.tracks[t].until, target, passed[t], L)
<1> DEFINE first == IF fault = None THEN None ELSE Kind(p, fault.track)
           Runs(t) ==
             \/ fault = None \/ t = fault.track
             \/ CASE Kind(p, t) = "continuous" -> first # "continuous" \/ t \notin fault.spared
                  [] Kind(p, t) = "lane" ->
                       first = "triggered" \/ (first = "lane" /\ t < fault.track)
                  [] Kind(p, t) = "triggered" -> first = "triggered" /\ t < fault.track
           Turns(t) == IF fault # None /\ t = fault.track THEN fault.turns ELSE None
           Idle(t) == [r |-> rt.tracks[t], notes |-> {}, short |-> FALSE]
           Pass(t, cycles) ==
             IF Runs(t) THEN Advance(p, t, rt.tracks[t], cycles, target, Turns(t)) ELSE Idle(t)
           free == [t \in DOMAIN p.tracks |->
                      IF Kind(p, t) = "triggered" THEN Idle(t) ELSE Pass(t, {})]
<1>1. passed = [t \in DOMAIN p.tracks |->
                  IF Kind(p, t) # "triggered" THEN free[t]
                  ELSE Pass(t, free[SourceOf(p, t)].r.recent)]
  BY DEF Passes
<1>2. ASSUME NEW t \in DOMAIN p.tracks
      PROVE  Turns(t) \in Nat \cup {None}
  <2>1. fault # None => fault.turns \in Nat
    BY DEF Faults
  <2> QED
    BY <2>1
<1> HIDE DEF Runs, Turns
<1>3. ASSUME NEW t \in DOMAIN p.tracks
      PROVE  /\ Kind(p, t) # "triggered" /\ MeetsCycle(p.tracks[t], CycleLength(p, t))
             /\ TrackOK(p.tracks[t], rt.tracks[t]) /\ rt.tracks[t].until % CycleLength(p, t) = 0
             /\ target % CycleLength(p, t) = 0
             /\ Laid(p, t, rt.tracks[t].until, target, Idle(t), {})
  <2>1. PICK r : r = rt.tracks[t] /\ TrackOK(p.tracks[t], r) /\ r.until % CycleLength(p, t) = 0
    BY DEF RuntimeOK, AllWhole
  <2>2. Idle(t).r = r /\ Idle(t).notes = {}
    BY <2>1
  <2>3. r.until \in Nat
    BY <2>1 DEF TrackOK
  <2> HIDE DEF Idle
  <2>4. Laid(p, t, r.until, target, Idle(t), {})
    BY <2>1, <2>2, <2>3 DEF Laid
  <2>5. target % CycleLength(p, t) = 0
    BY MeetsWindow
  <2> QED
    BY <2>1, <2>4, <2>5, MeetsAll
<1> HIDE DEF Idle
<1>4. ASSUME NEW t \in DOMAIN p.tracks
      PROVE  \E L : Laid(p, t, rt.tracks[t].until, target, passed[t], L)
  <2>1. passed[t] = Pass(t, {})
    BY <1>1, <1>3
  <2>2. CASE Runs(t)
    <3>1. PICK r, turns : r = rt.tracks[t] /\ turns = Turns(t)
      OBVIOUS
    <3>2. passed[t] = Advance(p, t, r, {}, target, turns)
      BY <2>1, <2>2, <3>1
    <3>3. TrackOK(p.tracks[t], r) /\ r.until % CycleLength(p, t) = 0 /\ turns \in Nat \cup {None}
      BY <1>2, <1>3, <3>1
    <3>4. \E L : Laid(p, t, r.until, target, passed[t], L)
      BY <1>3, <3>2, <3>3, AdvanceLaid
    <3> QED
      BY <3>1, <3>4
  <2>3. CASE ~Runs(t)
    BY <1>3, <2>1, <2>3
  <2> QED
    BY <2>2, <2>3
<1> QED
  BY <1>4

\* What a realization adds to a track, and where it leaves it.
LEMMA RealizeLaid ==
  ASSUME NEW p, ValidProject(p), CyclesMeet(p), NEW rt, RuntimeOK(p, rt), AllWhole(p, rt),
         NEW events, NEW target \in Nat, target % p.cycle = 0, NEW fault \in Faults(p) \cup {None},
         NEW out, out = RealizeUntil(p, rt, events, target, fault)
  PROVE  /\ AllWhole(p, out.rt)
         /\ \A t \in DOMAIN p.tracks : \E L : Laid(p, t, rt.tracks[t].until, target, Part(out, t), L)
<1>1. PICK passed : passed = Passes(p, rt, target, fault)
  OBVIOUS
<1>2. /\ DOMAIN passed = DOMAIN p.tracks
      /\ \A t \in DOMAIN p.tracks : Passed(p, t, rt.tracks[t], target, fault, passed[t])
  BY <1>1, PassesKeep
<1>3. PICK notes : notes = UNION {passed[t].notes : t \in DOMAIN passed}
  OBVIOUS
<1>4. PICK tracks : tracks = IF fault # None THEN AfterError(rt, passed)
                             ELSE [t \in DOMAIN passed |-> Prune(p, passed[t].r, target)]
  OBVIOUS
<1>5. PICK resolved : out.rt = [rt EXCEPT !.tracks = tracks, !.resolved = resolved]
  BY <1>1, <1>3, <1>4 DEF RealizeUntil
<1>6. out.notes = notes
  BY <1>1, <1>3 DEF RealizeUntil
<1>7. out.rt.tracks = tracks
  <2>1. DOMAIN rt = RuntimeNames
    BY DEF RuntimeOK
  <2> QED
    BY <1>5, <2>1 DEF RuntimeNames
<1>8. ASSUME NEW t \in DOMAIN p.tracks
      PROVE  /\ TrackOK(p.tracks[t], tracks[t]) /\ SameNext(passed[t].r, tracks[t])
             /\ tracks[t].until = passed[t].r.until
  <2>1. PICK r : r = passed[t].r
    OBVIOUS
  <2>2. TrackOK(p.tracks[t], r)
    BY <1>2, <2>1 DEF Passed, Follows
  <2>3. CASE fault # None
    <3>1. tracks[t] = r
      BY <1>2, <1>4, <2>1, <2>3 DEF AfterError
    <3> QED
      BY <2>1, <2>2, <3>1 DEF SameNext
  <2>4. CASE fault = None
    <3>1. tracks[t] = Prune(p, r, target)
      BY <1>2, <1>4, <2>1, <2>4
    <3> QED
      BY <2>1, <2>2, <3>1, PruneKeeps
  <2> QED
    BY <2>3, <2>4
<1>9. ASSUME NEW t \in DOMAIN p.tracks
      PROVE  {n \in notes : n.track = t} = passed[t].notes
  <2>1. \A u \in DOMAIN p.tracks : \A n \in passed[u].notes : n.track = u
    BY <1>2 DEF Passed, Follows
  <2>2. notes = UNION {passed[u].notes : u \in DOMAIN p.tracks}
    BY <1>2, <1>3
  <2> QED
    BY <2>1, <2>2
<1>10. ASSUME NEW t \in DOMAIN p.tracks
       PROVE  /\ out.rt.tracks[t].until % CycleLength(p, t) = 0
              /\ \E L : Laid(p, t, rt.tracks[t].until, target, Part(out, t), L)
  <2>1. PICK s, e, b : s = passed[t] /\ e = Part(out, t) /\ b = rt.tracks[t].until
    OBVIOUS
  <2>2. e.r = tracks[t] /\ e.notes = s.notes
    BY <1>6, <1>7, <1>9, <2>1 DEF Part
  <2>3. PICK L : Laid(p, t, b, target, s, L)
    BY <1>1, <2>1, PassesLaid
  <2>4. SameNext(s.r, e.r) /\ e.r.until = s.r.until
    BY <1>8, <2>1, <2>2
  <2>5. \A n : Upcoming(p, t, e.r, n) = Upcoming(p, t, s.r, n)
    BY <2>4 DEF Upcoming, SameNext, NextLocal
  <2>6. Laid(p, t, b, target, e, L)
    BY <2>2, <2>3, <2>4, <2>5 DEF Laid
  <2>7. out.rt.tracks[t].until = e.r.until
    BY <1>7, <2>2
  <2> QED
    BY <2>1, <2>6, <2>7 DEF Laid
<1> QED
  BY <1>10 DEF AllWhole

LEMMA FreshWhole ==
  ASSUME NEW p, ValidProject(p), NEW rt, rt = FreshRuntime(p)
  PROVE  AllWhole(p, rt)
<1>1. ASSUME NEW t \in DOMAIN p.tracks
      PROVE  rt.tracks[t].until = 0
  BY DEF FreshRuntime, FreshTrack
<1>2. ASSUME NEW t \in DOMAIN p.tracks
      PROVE  0 % CycleLength(p, t) = 0
  <2>1. PICK c \in Nat \ {0} : c = CycleLength(p, t)
    BY LengthIs DEF ValidProject
  <2> QED
    BY <2>1
<1> QED
  BY <1>1, <1>2 DEF AllWhole

\* A note, where it is placed: in the cycle that its take begins.
PlacedAs(p, n, base, k, m) ==
  /\ n.track \in DOMAIN p.tracks /\ n.source \in Members(p, n.track)
  /\ base \in Nat /\ base % CycleLength(p, n.track) = 0
  /\ k \in DOMAIN p.tracks[n.track].sources[n.source].takes
  /\ m \in p.tracks[n.track].sources[n.source].takes[k]
  /\ n.start = base + m.on /\ n.end = base + m.off /\ n.channel = m.channel
  /\ m.on \in Nat /\ m.off \in Nat /\ m.on < m.off /\ m.off <= CycleLength(p, n.track)

LEMMA TakePlaced ==
  ASSUME NEW p, ValidProject(p), AllLast(p), CyclesMeet(p), NEW t \in DOMAIN p.tracks,
         NEW n \in Members(p, t), NEW cursor \in Cursor, NEW base \in Nat, base % CycleLength(p, t) = 0
  PROVE  \E k : \A x \in Take(p, t, n, cursor, base) : \E m : PlacedAs(p, x, base, k, m)
<1>1. PICK source : /\ source = p.tracks[t].sources[n] /\ ValidSource(source) /\ Lasting(source)
                    /\ n \in DOMAIN p.tracks[t].sources
  BY DEF ValidProject, ValidTrack, Members, AllLast, Lasts
<1>2. PICK drawn \in Nat : drawn = IF source.evolves THEN cursor.pool ELSE cursor.cycle
  BY DEF Cursor
<1>3. PICK N \in Nat \ {0} : N = Len(source.takes) /\ DOMAIN source.takes = 1 .. N
  BY <1>1 DEF ValidSource
<1>4. PICK k \in 1 .. N : k = (drawn % N) + 1
  <2>1. drawn % N \in Nat /\ drawn % N < N
    OBVIOUS
  <2> QED
    BY <2>1
<1>5. \A m \in source.takes[k] : m.on \in Nat /\ m.off \in Nat /\ m.on < m.off /\ m.off <= CycleLength(p, t)
  BY <1>1, <1>3, MeetsAll DEF ValidSource, Lasting, MeetsCycle
<1>6. Take(p, t, n, cursor, base) =
        {[track |-> t, source |-> n, cycle |-> cursor.cycle,
          channel |-> m.channel, pitch |-> m.pitch,
          start |-> base + m.on, end |-> base + m.off] : m \in source.takes[k]}
  BY <1>1, <1>2, <1>3, <1>4 DEF Take
<1>7. ASSUME NEW x \in Take(p, t, n, cursor, base)
      PROVE  \E m : PlacedAs(p, x, base, k, m)
  <2>1. PICK m \in source.takes[k] :
          x = [track |-> t, source |-> n, cycle |-> cursor.cycle,
               channel |-> m.channel, pitch |-> m.pitch,
               start |-> base + m.on, end |-> base + m.off]
    BY <1>6
  <2>2. PlacedAs(p, x, base, k, m)
    BY <1>1, <1>3, <1>5, <2>1 DEF PlacedAs
  <2> QED
    BY <2>2
<1> QED
  BY <1>7

\* The sources of an edit applied in place are those of the incoming track.
LEMMA AppliedSources ==
  ASSUME NEW p, ValidProject(p), NEW q, ValidProject(q), AppliesForward(p, q),
         NEW w, w = InRunningOrder(p, q), NEW t \in DOMAIN p.tracks
  PROVE  \E u \in DOMAIN q.tracks :
           /\ u = IndexOf(q, p.tracks[t].id)
           /\ \E f : \A n \in DOMAIN w.tracks[t].sources :
                f[n] \in DOMAIN q.tracks[u].sources /\ w.tracks[t].sources[n] = q.tracks[u].sources[f[n]]
<1>1. PICK u \in DOMAIN q.tracks : u = IndexOf(q, p.tracks[t].id)
  <2>1. IndexOf(q, p.tracks[t].id) \in DOMAIN q.tracks
    BY AppliedTrack
  <2> QED
    BY <2>1
<1>2. PICK running, incoming : running = p.tracks[t] /\ incoming = q.tracks[u]
  OBVIOUS
<1> DEFINE At(n) == CHOOSE m \in DOMAIN incoming.sources : incoming.sources[m].id = running.sources[n].id
<1>3. w.tracks[t] = IF running.lane = None THEN incoming
                    ELSE [running EXCEPT !.sources = [n \in DOMAIN running.sources |-> incoming.sources[At(n)]]]
  <2>1. "tracks" \in DOMAIN q
    BY DEF ValidProject
  <2>2. w.tracks[t] = Edited(running, incoming)
    BY <1>1, <1>2, <2>1 DEF InRunningOrder
  <2> QED
    BY <2>2 DEF Edited
<1>4. CASE running.lane = None
  <2>1. PICK f : f = [n \in DOMAIN incoming.sources |-> n]
    OBVIOUS
  <2>2. \A n \in DOMAIN w.tracks[t].sources :
          f[n] \in DOMAIN q.tracks[u].sources /\ w.tracks[t].sources[n] = q.tracks[u].sources[f[n]]
    BY <1>2, <1>3, <1>4, <2>1
  <2> QED
    BY <1>1, <2>2
<1>5. CASE running.lane # None
  <2>1. PICK f : f = [n \in DOMAIN running.sources |-> At(n)]
    OBVIOUS
  <2>2. PICK S : S = [n \in DOMAIN running.sources |-> incoming.sources[At(n)]]
    OBVIOUS
  <2>3. w.tracks[t].sources = S
    <3>1. "sources" \in DOMAIN running
      BY <1>2 DEF ValidProject, ValidTrack
    <3>2. w.tracks[t] = [running EXCEPT !.sources = S]
      BY <1>3, <1>5, <2>2
    <3> QED
      BY <3>1, <3>2
  <2>4. SourceIds(p, t) = SourceIds(q, u)
    <3>1. Kind(p, t) = "lane"
      BY <1>2, <1>5, LaneIs
    <3>2. p.tracks[t].id \in Ids(p) /\ IndexOf(p, p.tracks[t].id) = t
      BY IndexIs
    <3>3. PICK id \in Ids(p) : id = p.tracks[t].id /\ IndexOf(p, id) = t /\ IndexOf(q, id) = u
      BY <1>1, <3>2
    <3> QED
      BY <3>1, <3>3 DEF AppliesForward
  <2>5. ASSUME NEW n \in DOMAIN running.sources
        PROVE  At(n) \in DOMAIN incoming.sources
    <3>1. running.sources[n].id \in SourceIds(q, u)
      BY <1>2, <2>4 DEF SourceIds
    <3>2. \E m \in DOMAIN incoming.sources : incoming.sources[m].id = running.sources[n].id
      BY <1>2, <3>1 DEF SourceIds
    <3> QED
      BY <3>2
  <2> HIDE DEF At
  <2>6. DOMAIN S = DOMAIN running.sources
    BY <2>2
  <2>7. ASSUME NEW n \in DOMAIN running.sources
        PROVE  f[n] \in DOMAIN q.tracks[u].sources /\ S[n] = q.tracks[u].sources[f[n]]
    BY <1>2, <2>1, <2>2, <2>5
  <2>8. \A n \in DOMAIN w.tracks[t].sources :
          f[n] \in DOMAIN q.tracks[u].sources /\ w.tracks[t].sources[n] = q.tracks[u].sources[f[n]]
    BY <2>3, <2>6, <2>7
  <2> QED
    BY <1>1, <2>8
<1> QED
  BY <1>4, <1>5

LEMMA AppliedLength ==
  ASSUME NEW p, ValidProject(p), CyclesMeet(p), NEW q \in Projects, ValidProject(q), CyclesMeet(q),
         AppliesForward(p, q), NEW w, w = InRunningOrder(p, q), NEW t \in DOMAIN p.tracks
  PROVE  \E u \in DOMAIN q.tracks :
           /\ q.tracks[u].id = w.tracks[t].id /\ CycleLength(w, t) = CycleLength(p, t)
           /\ CycleLength(q, u) = CycleLength(p, t)
           /\ \E f : \A n \in DOMAIN w.tracks[t].sources :
                f[n] \in DOMAIN q.tracks[u].sources /\ w.tracks[t].sources[n] = q.tracks[u].sources[f[n]]
<1>1. PICK u : u = IndexOf(q, p.tracks[t].id)
  OBVIOUS
<1>2. /\ u \in DOMAIN q.tracks /\ q.tracks[u].id = p.tracks[t].id /\ w.tracks[t].id = p.tracks[t].id
      /\ ValidTrack(w.tracks[t])
  BY <1>1, AppliedTrack
<1>3. PICK f : \A n \in DOMAIN w.tracks[t].sources :
        f[n] \in DOMAIN q.tracks[u].sources /\ w.tracks[t].sources[n] = q.tracks[u].sources[f[n]]
  BY <1>1, AppliedSources
<1>4. CycleLength(q, u) = CycleLength(p, t)
  <2>1. q.cycle = p.cycle /\ Ids(q) = Ids(p)
    BY DEF AppliesForward
  <2>2. Kind(q, u) # "triggered"
    BY <1>2, MeetsAll
  <2> QED
    BY <1>2, <2>1, <2>2 DEF CyclesMeet
<1>5. CycleLength(w, t) = CycleLength(q, u)
  <2>1. PICK source : source = w.tracks[t].sources[1] /\ 1 \in DOMAIN w.tracks[t].sources /\ ValidSource(source)
    BY <1>2 DEF ValidTrack
  <2>2. PICK ticks : ticks = source.ticks /\ ticks \in Seq(Nat \ {0}) /\ ticks # <<>>
    BY <2>1 DEF ValidSource
  <2>3. 1 \in DOMAIN ticks
    BY <2>2, EmptySeq, LenProperties
  <2>4. PICK m \in DOMAIN q.tracks[u].sources : source = q.tracks[u].sources[m]
    BY <1>3, <2>1
  <2>5. ticks[1] = CycleLength(q, u)
    BY <1>2, <2>2, <2>3, <2>4 DEF CyclesMeet
  <2> QED
    BY <2>1, <2>2, <2>5 DEF CycleLength
<1> QED
  BY <1>2, <1>3, <1>4, <1>5

LEMMA AppliedMeets ==
  ASSUME NEW p, ValidProject(p), CyclesMeet(p), NEW q \in Projects, ValidProject(q), CyclesMeet(q),
         AppliesForward(p, q), NEW w, w = InRunningOrder(p, q)
  PROVE  CyclesMeet(w) /\ \A t \in DOMAIN p.tracks : CycleLength(w, t) = CycleLength(p, t)
<1>1. /\ DOMAIN w.tracks = DOMAIN p.tracks /\ w.cycle = p.cycle
      /\ \A t \in DOMAIN p.tracks : Applied(p, w, t)
  BY AppliedIs
<1>2. q.cycle = p.cycle /\ Ids(q) = Ids(p)
  BY DEF AppliesForward
<1>3. Ids(w) = Ids(p)
  <2>1. \A t \in DOMAIN p.tracks : w.tracks[t].id = p.tracks[t].id
    BY AppliedTrack
  <2> QED
    BY <1>1, <2>1 DEF Ids
<1>4. ASSUME NEW t \in DOMAIN p.tracks
      PROVE  /\ CycleLength(w, t) = CycleLength(p, t)
             /\ Kind(w, t) # "triggered" /\ w.cycle % CycleLength(w, t) = 0
             /\ \A n \in DOMAIN w.tracks[t].sources :
                  LET source == w.tracks[t].sources[n]
                  IN /\ \A k \in DOMAIN source.ticks : source.ticks[k] = CycleLength(w, t)
                     /\ \A k \in DOMAIN source.takes : \A m \in source.takes[k] : m.off <= CycleLength(w, t)
             /\ \A o \in Projects : \A u \in DOMAIN o.tracks :
                  /\ o.cycle = w.cycle /\ Ids(o) = Ids(w)
                  /\ o.tracks[u].id = w.tracks[t].id /\ Kind(o, u) # "triggered"
                  => CycleLength(o, u) = CycleLength(w, t)
  <2>1. Kind(w, t) # "triggered"
    BY <1>1, MeetsAll DEF Applied
  <2>2. PICK u, f : /\ u \in DOMAIN q.tracks /\ q.tracks[u].id = w.tracks[t].id
                    /\ CycleLength(w, t) = CycleLength(p, t) /\ CycleLength(q, u) = CycleLength(p, t)
                    /\ \A n \in DOMAIN w.tracks[t].sources :
                         f[n] \in DOMAIN q.tracks[u].sources /\ w.tracks[t].sources[n] = q.tracks[u].sources[f[n]]
    BY AppliedLength
  <2>3. ASSUME NEW n \in DOMAIN w.tracks[t].sources, NEW source, source = w.tracks[t].sources[n]
        PROVE  /\ \A k \in DOMAIN source.ticks : source.ticks[k] = CycleLength(w, t)
               /\ \A k \in DOMAIN source.takes : \A m \in source.takes[k] : m.off <= CycleLength(w, t)
    BY <2>2, <2>3 DEF CyclesMeet
  <2>4. w.cycle % CycleLength(w, t) = 0
    BY <1>1, <2>2 DEF CyclesMeet
  <2>5. ASSUME NEW o \in Projects, NEW v \in DOMAIN o.tracks,
               o.cycle = w.cycle, Ids(o) = Ids(w),
               o.tracks[v].id = w.tracks[t].id, Kind(o, v) # "triggered"
        PROVE  CycleLength(o, v) = CycleLength(w, t)
    BY <1>1, <1>2, <1>3, <2>2, <2>5 DEF CyclesMeet
  <2> QED
    BY <2>1, <2>2, <2>3, <2>4, <2>5
<1> QED
  BY <1>1, <1>4 DEF CyclesMeet

LEMMA AppliedApart ==
  ASSUME NEW p, ValidProject(p), CyclesMeet(p), NEW q \in Projects, ValidProject(q), CyclesMeet(q),
         StartsApart(q), AppliesForward(p, q), NEW w, w = InRunningOrder(p, q)
  PROVE  StartsApart(w)
<1>1. DOMAIN w.tracks = DOMAIN p.tracks
  BY AppliedIs
<1>2. ASSUME NEW t \in DOMAIN p.tracks, NEW i \in DOMAIN w.tracks[t].sources, NEW j \in DOMAIN w.tracks[t].sources
      PROVE  LET Takes(n) == w.tracks[t].sources[n].takes
             IN \A k \in DOMAIN Takes(i), l \in DOMAIN Takes(j) :
                  \A a \in Takes(i)[k], b \in Takes(j)[l] :
                    /\ a.on - b.on \notin {-1, 1, 1 - CycleLength(w, t), CycleLength(w, t) - 1}
                    /\ i = j /\ k = l /\ a.on = b.on => a.channel = b.channel
  <2>1. PICK u, f : /\ u \in DOMAIN q.tracks
                    /\ CycleLength(w, t) = CycleLength(p, t) /\ CycleLength(q, u) = CycleLength(p, t)
                    /\ \A n \in DOMAIN w.tracks[t].sources :
                         f[n] \in DOMAIN q.tracks[u].sources /\ w.tracks[t].sources[n] = q.tracks[u].sources[f[n]]
    BY AppliedLength
  <2>2. PICK x, y : /\ x = f[i] /\ y = f[j] /\ x \in DOMAIN q.tracks[u].sources /\ y \in DOMAIN q.tracks[u].sources
                    /\ w.tracks[t].sources[i] = q.tracks[u].sources[x]
                    /\ w.tracks[t].sources[j] = q.tracks[u].sources[y]
                    /\ (i = j => x = y)
    BY <2>1
  <2>3. ASSUME NEW k \in DOMAIN q.tracks[u].sources[x].takes, NEW l \in DOMAIN q.tracks[u].sources[y].takes,
               NEW a \in q.tracks[u].sources[x].takes[k], NEW b \in q.tracks[u].sources[y].takes[l]
        PROVE  /\ a.on - b.on \notin {-1, 1, 1 - CycleLength(q, u), CycleLength(q, u) - 1}
               /\ x = y /\ k = l /\ a.on = b.on => a.channel = b.channel
    BY <2>1, <2>2 DEF StartsApart
  <2> QED
    BY <2>1, <2>2, <2>3, SMTT(40)
<1> QED
  BY <1>1, <1>2 DEF StartsApart

\* What a realization adds lies within the window.
Within(M, W, target) == \A n \in M : W <= n.start /\ n.end <= target

LEMMA RealizeWithin ==
  ASSUME NEW p, ValidProject(p), AllLast(p), CyclesMeet(p), NEW rt, RuntimeOK(p, rt), AllTimed(p, rt),
         AllWhole(p, rt), NEW W \in Nat, \A t \in DOMAIN p.tracks : W <= rt.tracks[t].until,
         NEW events, NEW target \in Nat, target % p.cycle = 0, NEW fault \in Faults(p) \cup {None},
         NEW out, out = RealizeUntil(p, rt, events, target, fault)
  PROVE  Within(out.notes, W, target)
<1>1. \A t \in DOMAIN p.tracks : \E L : Laid(p, t, rt.tracks[t].until, target, Part(out, t), L)
  BY RealizeLaid
<1>2. \A n \in out.notes : n.track \in DOMAIN p.tracks
  BY RealizeKeeps DEF Kept
<1>3. ASSUME NEW x \in out.notes
      PROVE  W <= x.start /\ x.end <= target
  <2>1. PICK t \in DOMAIN p.tracks : t = x.track
    BY <1>2
  <2>2. x \in Part(out, t).notes
    BY <2>1 DEF Part
  <2>3. PICK b, s : b \in Nat /\ b = rt.tracks[t].until /\ W <= b /\ s = Part(out, t)
    BY DEF RuntimeOK, TrackOK
  <2>4. PICK L : Laid(p, t, b, target, s, L)
    BY <1>1, <2>3
  <2>5. PICK l \in L : x \in Take(p, t, l.source, l.cursor, l.base)
    BY <2>2, <2>3, <2>4 DEF Laid
  <2>6. PICK n, cursor, base :
          /\ n = l.source /\ cursor = l.cursor /\ base = l.base
          /\ n \in Members(p, t) /\ cursor \in Cursor /\ base \in Nat /\ base % CycleLength(p, t) = 0
          /\ b <= base /\ base + CycleLength(p, t) <= target
    BY <2>4 DEF Laid
  <2>7. PICK k : \A y \in Take(p, t, n, cursor, base) : \E m : PlacedAs(p, y, base, k, m)
    BY <2>6, TakePlaced
  <2>8. PICK m : PlacedAs(p, x, base, k, m)
    BY <2>5, <2>6, <2>7
  <2>9. /\ x.start = base + m.on /\ x.end = base + m.off
        /\ m.on \in Nat /\ m.off \in Nat /\ m.off <= CycleLength(p, t)
    BY <2>1, <2>8 DEF PlacedAs
  <2>10. CycleLength(p, t) \in Nat
    BY MeetsWindow
  <2> QED
    BY <2>3, <2>6, <2>9, <2>10
<1> QED
  BY <1>3 DEF Within

LEMMA WithinBegins ==
  ASSUME NEW M, Written(M), NEW W \in Nat, NEW target \in Nat, Within(M, W, target)
  PROVE  BeginsAt(EventsOf(M), W) /\ \A e \in EventsOf(M) : e.tick <= target
<1>1. ASSUME NEW e \in EventsOf(M)
      PROVE  e.tick >= W /\ (~e.on => e.tick > W) /\ e.tick <= target
  <2>1. PICK n \in M : \/ e = [note |-> n, on |-> TRUE, tick |-> n.start]
                       \/ e = [note |-> n, on |-> FALSE, tick |-> n.end]
    BY DEF EventsOf
  <2>2. n.start \in Nat /\ n.end \in Nat /\ n.start < n.end /\ W <= n.start /\ n.end <= target
    BY DEF Written, IsNote, Within
  <2> QED
    BY <2>1, <2>2
<1> QED
  BY <1>1 DEF BeginsAt

LEMMA WithinKeys ==
  ASSUME NEW M, Written(M), NEW W \in Nat, NEW target \in Nat, Within(M, W, target)
  PROVE  KeysAt(BatchKeys(M), W)
<1> DEFINE CycleOf(n) == {m \in M : m.track = n.track /\ m.source = n.source /\ m.cycle = n.cycle}
<1>1. BatchKeys(M) = {GroupKey(g) : g \in UNION {Groups(EventsOf(CycleOf(n))) : n \in M}}
  BY DEF BatchKeys
<1>2. \A n \in M : CycleOf(n) \subseteq M
  OBVIOUS
<1> HIDE DEF CycleOf
<1>3. ASSUME NEW n \in M, NEW g \in Groups(EventsOf(CycleOf(n)))
      PROVE  GroupKey(g)[1] >= W
  <2>1. PICK C, X : C = CycleOf(n) /\ C \subseteq M /\ X = EventsOf(C)
    BY <1>2
  <2>2. Written(C) /\ Within(C, W, target)
    <3>1. IsFiniteSet(C)
      BY <2>1, FS_Subset DEF Written
    <3> QED
      BY <2>1, <3>1 DEF Written, Within
  <2>3. EventSet(X) /\ Closed(X) /\ BeginsAt(X, W)
    BY <2>1, <2>2, WrittenSound, SoundClosed, WithinBegins
  <2>4. \E e \in X : e.on /\ g.start = e.tick
    BY <1>3, <2>1, <2>3, GroupsSpan
  <2>5. g.start >= W
    BY <2>3, <2>4 DEF BeginsAt
  <2>6. GroupKey(g)[1] = g.start
    BY DEF GroupKey
  <2> QED
    BY <2>5, <2>6
<1> QED
  BY <1>1, <1>3 DEF KeysAt

LEMMA InFlightQuiet ==
  ASSUME NEW S, NEW Q, InFlight(S, Q), Settled(S \cup Q)
  PROVE  Closed(S \cup Q) /\ Closed(Q) /\ Quiet(Q) /\ EventSet(Q)
<1>1. EventSet(S \cup Q) /\ Sound(S \cup Q) /\ \A s \in S, e \in Q : s.tick < e.tick
  BY DEF InFlight
<1>2. EventSet(Q)
  BY <1>1, EventSubset
<1>3. Closed(S \cup Q)
  BY <1>1, SoundClosed
<1>4. Precedes(S, Q)
  BY <1>1 DEF Precedes, EventBefore
<1>5. Groups(Q) \subseteq Groups(S \cup Q) /\ Closed(Q)
  BY <1>1, <1>3, <1>4, GroupsLater
<1>6. ASSUME NEW f \in ClosingOf(Q)
      PROVE  ~Covered(Groups(Q), Voice(f), f.tick)
  <2>1. f \in S \cup Q /\ ~f.on
    <3>1. PICK g \in Groups(Q) : f \in g.offs
      BY <1>6 DEF ClosingOf
    <3>2. g.offs \subseteq Q /\ \A h \in g.offs : ~h.on
      BY <1>2, <1>5, GroupsClosed
    <3> QED
      BY <3>1, <3>2
  <2>2. ~Covered(Groups(S \cup Q), Voice(f), f.tick)
    BY <2>1 DEF Settled
  <2> QED
    BY <1>5, <2>2 DEF Covered
<1> QED
  BY <1>2, <1>3, <1>5, <1>6 DEF Quiet

\* A window joins what was played before it.
LEMMA WindowJoins ==
  ASSUME NEW S, NEW Q, InFlight(S, Q), Settled(S \cup Q), NEW W \in Nat, EndedBy(S \cup Q, W),
         NEW M, Written(M), New(S \cup Q, M), NEW target \in Nat, Within(M, W, target),
         NEW horizon, NEW resolved, NEW config,
         NEW r, r = ResolveConflicts(Q \cup EventsOf(M), BatchKeys(M), horizon, resolved, config),
         NEW s, s = ResolveConflicts(EventsOf(M), BatchKeys(M), horizon, resolved, config), W <= target
  PROVE  /\ Beside(Q, s, r)
         /\ EndedBy(S \cup r.queue, target) /\ Settled(S \cup r.queue)
<1>1. PICK X, keys : X = EventsOf(M) /\ keys = BatchKeys(M)
  OBVIOUS
<1>2. /\ EventSet(X) /\ Sound(X) /\ BeginsAt(X, W) /\ KeysAt(keys, W)
      /\ \A x \in X : x.tick <= target
  BY <1>1, WrittenSound, WithinBegins, WithinKeys
<1>3. \A x \in X : x.on => x.tick < target
  <2>1. ASSUME NEW x \in X, x.on
        PROVE  x.tick < target
    <3>1. PICK n \in M : \/ x = [note |-> n, on |-> TRUE, tick |-> n.start]
                         \/ x = [note |-> n, on |-> FALSE, tick |-> n.end]
      BY <1>1 DEF EventsOf
    <3>2. n.start \in Nat /\ n.end \in Nat /\ n.start < n.end /\ n.end <= target
      BY DEF Written, IsNote, Within
    <3>3. x.tick = n.start
      BY <2>1, <3>1
    <3> QED
      BY <3>2, <3>3
  <2> QED
    BY <2>1
<1>4. PICK D : D = s.queue
  OBVIOUS
<1>5. /\ EventSet(D) /\ Sound(D) /\ Settled(D)
      /\ \A d \in D : \E x \in X : d.note = x.note /\ d.on = x.on /\ d.tick >= x.tick /\ (d.on => d = x)
      /\ \A d \in D : \E x \in X : d.tick <= x.tick
  <2>1. D = ResolveConflicts(X, keys, horizon, resolved, config).queue
    BY <1>1, <1>4
  <2> QED
    BY <1>2, <2>1, WindowIs
<1>6. \A x \in X : x.tick \in Nat /\ x.on \in BOOLEAN
  BY <1>2 DEF EventSet, IsEvent
<1>7. \A d \in D : d.tick \in Nat /\ d.on \in BOOLEAN
  BY <1>5 DEF EventSet, IsEvent
<1>8. BeginsAt(D, W)
  <2>1. ASSUME NEW d \in D
        PROVE  d.tick >= W /\ (~d.on => d.tick > W)
    <3>1. PICK x \in X : d.on = x.on /\ d.tick >= x.tick
      BY <1>5
    <3>2. x.tick >= W /\ (~x.on => x.tick > W)
      BY <1>2 DEF BeginsAt
    <3> QED
      BY <1>6, <1>7, <3>1, <3>2
  <2> QED
    BY <2>1 DEF BeginsAt
<1>9. EndedBy(D, target)
  <2>1. ASSUME NEW d \in D
        PROVE  d.tick <= target
    <3>1. PICK x \in X : d.tick <= x.tick
      BY <1>5
    <3>2. x.tick <= target
      BY <1>2
    <3> QED
      BY <1>6, <1>7, <3>1, <3>2
  <2>2. ASSUME NEW d \in D, d.on
        PROVE  d.tick < target
    <3>1. d \in X
      BY <1>5, <2>2
    <3> QED
      BY <1>3, <2>2, <3>1
  <2> QED
    BY <2>1, <2>2 DEF EndedBy
<1>10. PICK E : E = S \cup Q
  OBVIOUS
<1>11. EventSet(E) /\ EventSet(Q) /\ Closed(E) /\ Closed(Q) /\ Quiet(Q)
  BY <1>10, InFlightQuiet DEF InFlight
<1>12. EventSet(Q \cup X) /\ EventSet(E \cup D)
  <2>1. IsFiniteSet(Q \cup X) /\ IsFiniteSet(E \cup D)
    BY <1>2, <1>5, <1>11, FS_Union DEF EventSet
  <2>2. (\A x \in X : x.note \in M) /\ (\A d \in D : d.note \in M)
    BY <1>1, <1>5, WrittenSound
  <2>3. (\A e \in E : e.note \notin M) /\ Q \subseteq E
    BY <1>10 DEF New
  <2>4. EventSet(Q \cup X)
    BY <1>2, <1>11, <2>1, <2>2, <2>3 DEF EventSet
  <2>5. EventSet(E \cup D)
    BY <1>5, <1>11, <2>1, <2>2, <2>3 DEF EventSet
  <2> QED
    BY <2>4, <2>5
<1>13. EndedBy(Q, W)
  BY DEF EndedBy
<1>14. Beside(Q, s, r)
  <2>1. /\ r = ResolveConflicts(Q \cup X, keys, horizon, resolved, config)
        /\ s = ResolveConflicts(X, keys, horizon, resolved, config)
    BY <1>1
  <2>2. EventSet(Q \cup X) /\ Closed(Q) /\ Quiet(Q) /\ Sound(X) /\ EndedBy(Q, W) /\ BeginsAt(X, W) /\ KeysAt(keys, W)
    BY <1>2, <1>11, <1>12, <1>13
  <2> QED
    BY <2>1, <2>2, WindowApart
<1>15. S \cup r.queue = E \cup D
  BY <1>4, <1>10, <1>14 DEF Beside
<1>16. Settled(E \cup D)
  <2>1. EndedBy(E, W) /\ Settled(E) /\ Closed(D)
    BY <1>5, <1>10, SoundClosed
  <2> QED
    BY <1>5, <1>8, <1>11, <1>12, <2>1, SettledApart
<1>17. EndedBy(E \cup D, target)
  <2>1. \A e \in E : e.tick \in Nat /\ e.tick <= W /\ (e.on => e.tick < W)
    BY <1>10, <1>11 DEF EventSet, IsEvent, EndedBy
  <2>2. \A e \in E : e.tick <= target /\ (e.on => e.tick < target)
    BY <2>1
  <2> QED
    BY <1>9, <2>2 DEF EndedBy
<1> QED
  BY <1>4, <1>14, <1>15, <1>16, <1>17

\* What a realization makes of what was played and queued before it.
LEMMA RealizeSettles ==
  ASSUME NEW S, NEW Q, InFlight(S, Q), Settled(S \cup Q), NEW W \in Nat, EndedBy(S \cup Q, W),
         NEW p, NEW rt, NEW target \in Nat, W <= target, NEW fault,
         NEW out, out = RealizeUntil(p, rt, Q, target, fault),
         Written(out.notes), New(S \cup Q, out.notes), Within(out.notes, W, target)
  PROVE  /\ Settled(S \cup out.queue)
         /\ EndedBy(S \cup out.queue, IF fault = None THEN target ELSE W)
<1>1. PICK passed : passed = Passes(p, rt, target, fault)
  OBVIOUS
<1>2. PICK M : M = UNION {passed[t].notes : t \in DOMAIN passed}
  OBVIOUS
<1>3. out.notes = M
  BY <1>1, <1>2 DEF RealizeUntil
<1>4. PICK keys, horizon, resolved, config :
        /\ keys = BatchKeys(M) /\ horizon = rt.horizon
        /\ resolved = rt.resolved /\ config = ConflictConfig(p)
  OBVIOUS
<1>5. PICK r : r = ResolveConflicts(Q \cup EventsOf(M), keys, horizon, resolved, config)
  OBVIOUS
<1>6. out.queue = IF fault # None \/ M = {} THEN Q ELSE r.queue
  BY <1>1, <1>2, <1>4, <1>5 DEF RealizeUntil
<1>7. EndedBy(S \cup Q, target)
  <2>1. \A e \in S \cup Q : e.tick \in Nat
    BY DEF InFlight, EventSet, IsEvent
  <2> QED
    BY <2>1 DEF EndedBy
<1>8. CASE fault # None \/ M = {}
  BY <1>6, <1>7, <1>8
<1>9. CASE ~(fault # None \/ M = {})
  <2>1. Written(M) /\ Within(M, W, target) /\ New(S \cup Q, M)
    BY <1>3
  <2>2. r = ResolveConflicts(Q \cup EventsOf(M), BatchKeys(M), horizon, resolved, config)
    BY <1>4, <1>5
  <2>3. EndedBy(S \cup r.queue, target) /\ Settled(S \cup r.queue)
    BY <2>1, <2>2, WindowJoins
  <2> QED
    BY <1>6, <1>9, <2>3
<1> QED
  BY <1>8, <1>9

-----------------------------------------------------------------------------
(************************************************************************** *)
(* No note-off inside a note                                               *)
(************************************************************************** *)

\* Where the cycles of every track fill the reference cycle, all that was realized
\* ends by the watermark, at which the next window begins: what is sent takes
\* no part in a later decision, and what is deferred stays within its window.
MeetInv ==
  /\ BalanceInv
  /\ CyclesMeet(project) /\ AllWhole(project, runtime)
  /\ pristine => EndedBy(Events, watermark) /\ Settled(Events)

LEMMA MeetInvImplies ==
  ASSUME MeetInv
  PROVE  NoPrematureOff
<1> SUFFICES ASSUME pristine, NEW off \in Events \ Ons(Events)
             PROVE  ~Covered(Groups(Events), Voice(off), off.tick)
  BY DEF NoPrematureOff
<1>1. off \in Events /\ ~off.on
  BY DEF Ons
<1> QED
  BY <1>1 DEF MeetInv, Settled

\* What is dispatched is neither lost nor added to.
LEMMA DispatchKeeps ==
  ASSUME NEW filled, NEW now \in Nat, Dispatch(filled, now), cutoff = None, \A e \in filled : e.tick \in Nat
  PROVE  sent' \cup queue' = sent \cup filled
<1>1. queue' = {e \in filled : e.tick > now} /\ sent' = sent \cup {e \in filled : e.tick <= now}
  BY DEF Dispatch
<1> QED
  BY <1>1

LEMMA NothingSettled == Settled({}) /\ \A W : EndedBy({}, W)
BY DEF Settled, EndedBy

LEMMA MeetPlay ==
  ASSUME MeetInv, NEW fault \in Faults(project) \cup {None}, Play(fault)
  PROVE  MeetInv'
<1>1. BalanceInv /\ BalanceInv'
  BY BalancePlay DEF MeetInv
<1>2. ValidProject(project) /\ RuntimeOK(project, runtime) /\ AllLast(project) /\ CyclesMeet(project)
  BY DEF MeetInv, BalanceInv, CyclesInv
<1>3. PICK target \in Nat \ {0} : target = project.cycle /\ target % project.cycle = 0
  BY <1>2, OneCycle DEF ValidProject
<1>4. PICK rt : rt = FreshRuntime(project) /\ rt = [Reset(runtime) EXCEPT !.horizon = 0]
  BY <1>2, ResetIs
<1>5. /\ RuntimeOK(project, rt) /\ AllTimed(project, rt) /\ AllWhole(project, rt)
      /\ \A t \in DOMAIN project.tracks : 0 <= rt.tracks[t].until
  <2>1. RuntimeOK(project, rt) /\ AllTimed(project, rt) /\ AllWhole(project, rt)
    BY <1>2, <1>4, FreshRuntimeIs, FreshTimed, FreshWhole
  <2>2. ASSUME NEW t \in DOMAIN project.tracks
        PROVE  0 <= rt.tracks[t].until
    <3>1. rt.tracks[t].until \in Nat
      BY <2>1 DEF RuntimeOK, TrackOK
    <3> QED
      BY <3>1
  <2> QED
    BY <2>1, <2>2
<1>6. PICK out : /\ out = RealizeUntil(project, rt, {}, target, fault)
                 /\ fault # None => out.fails
                 /\ runtime' = out.rt /\ queue' = out.queue
                 /\ watermark' = IF out.fails THEN 0 ELSE target
  BY <1>3, <1>4 DEF Play, Record
<1>7. project' = project /\ sent' = {}
  BY DEF Play
<1>8. out.fails <=> fault # None
  <2>1. Kept(project, rt, target, fault, out)
    BY <1>2, <1>5, <1>6, RealizeKeeps
  <2> QED
    BY <1>6, <2>1 DEF Kept
<1>9. Written(out.notes) /\ Within(out.notes, 0, target) /\ AllWhole(project, out.rt)
  <2>1. PICK Q, W : Q = {} /\ W = 0 /\ W \in Nat
    OBVIOUS
  <2>2. out = RealizeUntil(project, rt, Q, target, fault)
    BY <1>6, <2>1
  <2>3. Written(out.notes)
    BY <1>2, <1>3, <1>5, <2>2, RealizeTyped
  <2>4. AllWhole(project, out.rt)
    BY <1>2, <1>3, <1>5, <2>2, RealizeLaid
  <2>5. \A t \in DOMAIN project.tracks : W <= rt.tracks[t].until
    BY <1>5, <2>1
  <2>6. Within(out.notes, W, target)
    BY <1>2, <1>3, <1>5, <2>1, <2>2, <2>5, RealizeWithin
  <2> QED
    BY <2>1, <2>3, <2>4, <2>6
<1>10. Settled({} \cup out.queue) /\ EndedBy({} \cup out.queue, IF fault = None THEN target ELSE 0)
  <2>1. PICK S, Q, W : S = {} /\ Q = {} /\ W = 0 /\ W \in Nat /\ W <= target
    <3>1. 0 <= target
      BY <1>3
    <3> QED
      BY <3>1
  <2>2. S \cup Q = {}
    BY <2>1
  <2>3. InFlight(S, Q) /\ New(S \cup Q, out.notes)
    BY <2>1, <2>2, NothingInFlight DEF New
  <2>4. Settled(S \cup Q) /\ EndedBy(S \cup Q, W)
    BY <2>2, NothingSettled
  <2>5. out = RealizeUntil(project, rt, Q, target, fault) /\ Within(out.notes, W, target)
    BY <1>6, <1>9, <2>1
  <2>6. Settled(S \cup out.queue) /\ EndedBy(S \cup out.queue, IF fault = None THEN target ELSE W)
    BY <1>3, <1>9, <2>1, <2>3, <2>4, <2>5, RealizeSettles
  <2> QED
    BY <2>1, <2>6
<1>11. Events' = {} \cup out.queue
  BY <1>6, <1>7 DEF Events
<1>12. EndedBy(Events', watermark') /\ Settled(Events')
  BY <1>6, <1>8, <1>10, <1>11
<1>13. CyclesMeet(project') /\ AllWhole(project', runtime')
  BY <1>2, <1>6, <1>7, <1>9
<1> QED
  BY <1>1, <1>12, <1>13 DEF MeetInv

LEMMA MeetTick ==
  ASSUME MeetInv, NEW fault \in Faults(project) \cup {None}, NEW d \in Steps, Tick(d, fault)
  PROVE  MeetInv'
<1>1. BalanceInv /\ BalanceInv'
  BY BalanceTick DEF MeetInv
<1>2. /\ ValidProject(project) /\ RuntimeOK(project, runtime) /\ AllLast(project) /\ CyclesMeet(project)
      /\ AllTimed(project, runtime) /\ AllWhole(project, runtime) /\ TypeOK
  BY DEF MeetInv, BalanceInv, CyclesInv
<1>3. project.cycle \in Nat \ {0}
  BY <1>2 DEF ValidProject
<1>4. PICK now \in Nat : now = tick + d
  BY <1>2, ParallelAssumption DEF TypeOK
<1>5. PICK target \in Nat : target = (now \div project.cycle + 2) * project.cycle /\ target % project.cycle = 0
  BY <1>3, WholeCycles
<1>6. PICK rt : rt = [runtime EXCEPT !.horizon = now]
  OBVIOUS
<1>7. /\ rt.tracks = runtime.tracks /\ RuntimeOK(project, rt) /\ AllTimed(project, rt)
      /\ AllWhole(project, rt)
  <2>1. rt.tracks = runtime.tracks /\ DOMAIN rt = DOMAIN runtime
    BY <1>2, <1>6 DEF RuntimeOK, RuntimeNames
  <2> QED
    BY <1>2, <2>1 DEF RuntimeOK, AllTimed, AllWhole
<1>8. project' = project /\ pristine' = pristine
  BY DEF Tick
<1>9. CyclesMeet(project')
  BY <1>2, <1>8
<1>10. ASSUME pristine
       PROVE  /\ cutoff = None /\ InFlight(sent, queue) /\ sent \cup queue = Events
              /\ Settled(sent \cup queue) /\ EndedBy(sent \cup queue, watermark)
  <2>1. sent \cup queue = Events
    BY DEF Events
  <2> QED
    BY <1>10, <2>1 DEF MeetInv, BalanceInv, Sounding
<1>11. CASE watermark < target
  <2>1. PICK out : /\ out = RealizeUntil(project, rt, queue, target, fault)
                   /\ fault # None => out.fails
                   /\ runtime' = out.rt /\ Dispatch(out.queue, now)
                   /\ watermark' = IF out.fails THEN watermark ELSE target
    BY <1>4, <1>5, <1>6, <1>11 DEF Tick, Record
  <2>2. out.fails <=> fault # None
    <3>1. Kept(project, rt, target, fault, out)
      BY <1>2, <1>7, <2>1, RealizeKeeps
    <3> QED
      BY <2>1, <3>1 DEF Kept
  <2>3. Written(out.notes) /\ AllWhole(project, out.rt)
    <3>1. Written(out.notes)
      BY <1>2, <1>7, <2>1, RealizeTyped
    <3>2. AllWhole(project, out.rt)
      BY <1>2, <1>5, <1>7, <2>1, RealizeLaid
    <3> QED
      BY <3>1, <3>2
  <2>4. PICK W \in Nat : W = watermark /\ W <= target
    BY <1>2, <1>11 DEF TypeOK
  <2>5. \A t \in DOMAIN project.tracks : W <= rt.tracks[t].until
    <3>1. ASSUME NEW t \in DOMAIN project.tracks
          PROVE  W <= rt.tracks[t].until
      <4>1. Kind(project, t) # "triggered"
        BY <1>2, MeetsAll
      <4>2. runtime.tracks[t].until >= watermark /\ runtime.tracks[t].until \in Nat
        BY <1>2, <4>1 DEF TypeOK, RuntimeOK, TrackOK
      <4> QED
        BY <1>7, <2>4, <4>2
    <3> QED
      BY <3>1
  <2>6. Within(out.notes, W, target)
    BY <1>2, <1>5, <1>7, <2>1, <2>5, RealizeWithin
  <2>7. ASSUME pristine
        PROVE  EndedBy(Events', watermark') /\ Settled(Events')
    <3>1. PICK S, Q : S = sent /\ Q = queue
      OBVIOUS
    <3>2. /\ InFlight(S, Q) /\ Settled(S \cup Q) /\ EndedBy(S \cup Q, W)
          /\ out = RealizeUntil(project, rt, Q, target, fault)
      BY <1>10, <2>1, <2>4, <2>7, <3>1
    <3>9. New(S \cup Q, out.notes)
      <4>1. Kept(project, rt, target, fault, out)
        BY <1>2, <1>7, <2>1, RealizeKeeps
      <4>2. PICK old : old = earlier \cup batch
        OBVIOUS
      <4>3. Behind(project, rt, old)
        BY <1>1, <1>7, <4>2 DEF BalanceInv, CyclesInv, Behind, Upcoming
      <4>4. Apart(out.notes, old)
        BY <1>2, <1>7, <4>1, <4>3, BehindGrows
      <4>5. \A e \in S \cup Q : e.note \in old
        BY <1>1, <2>7, <3>1, <4>2 DEF BalanceInv, Sounding
      <4> QED
        BY <4>4, <4>5 DEF New, Apart
    <3>3. Settled(S \cup out.queue) /\ EndedBy(S \cup out.queue, IF fault = None THEN target ELSE W)
      BY <2>3, <2>4, <2>6, <3>2, <3>9, RealizeSettles
    <3>4. Events' = S \cup out.queue
      <4>1. \A e \in out.queue : e.tick \in Nat
        <5>1. Joins(S, Q, out.notes, out.queue)
          BY <2>3, <3>2, <3>9, RealizeSound
        <5> QED
          BY <5>1 DEF Joins, EventSet, IsEvent
      <4>2. sent' \cup queue' = sent \cup out.queue
        BY <1>10, <2>1, <2>7, <4>1, DispatchKeeps
      <4> QED
        BY <3>1, <4>2 DEF Events
    <3> QED
      BY <2>1, <2>2, <2>4, <3>3, <3>4
  <2> QED
    BY <1>1, <1>8, <1>9, <2>1, <2>3, <2>7 DEF MeetInv
<1>12. CASE ~(watermark < target)
  <2>1. runtime' = rt /\ watermark' = watermark /\ Dispatch(queue, now)
    BY <1>4, <1>5, <1>6, <1>12 DEF Tick
  <2>2. ASSUME pristine
        PROVE  EndedBy(Events', watermark') /\ Settled(Events')
    <3>1. \A e \in queue : e.tick \in Nat
      BY <1>10, <2>2 DEF InFlight, EventSet, IsEvent
    <3>2. sent' \cup queue' = sent \cup queue
      BY <1>10, <2>1, <2>2, <3>1, DispatchKeeps
    <3>3. Events' = Events
      BY <3>2 DEF Events
    <3> QED
      BY <1>10, <2>1, <2>2, <3>3
  <2>3. AllWhole(project', runtime')
    BY <1>7, <1>8, <2>1
  <2> QED
    BY <1>1, <1>8, <1>9, <2>2, <2>3 DEF MeetInv
<1> QED
  BY <1>11, <1>12

LEMMA MeetApply ==
  ASSUME MeetInv, NEW q \in Projects, AllLast(q), CyclesMeet(q), ApplyInPlace(q)
  PROVE  MeetInv'
<1>1. BalanceInv'
  BY BalanceApply DEF MeetInv
<1>2. /\ ValidProject(project) /\ RuntimeOK(project, runtime)
      /\ CyclesMeet(project) /\ AllWhole(project, runtime)
  BY DEF MeetInv, BalanceInv, CyclesInv
<1>3. PICK p, w : p = project /\ w = InRunningOrder(project, q)
  OBVIOUS
<1>4. ValidProject(q) /\ AppliesForward(p, q) /\ project' = w
  BY <1>3, ParallelAssumption DEF ApplyInPlace
<1>5. CyclesMeet(w) /\ \A t \in DOMAIN p.tracks : CycleLength(w, t) = CycleLength(p, t)
  BY <1>2, <1>3, <1>4, AppliedMeets
<1>6. DOMAIN w.tracks = DOMAIN p.tracks /\ w.cycle = p.cycle
  BY <1>2, <1>3, <1>4, AppliedIs
<1> DEFINE Again(r) == [r EXCEPT !.cursors = [n \in DOMAIN r.cursors |-> [r.cursors[n] EXCEPT !.pool = 0]]]
<1>7. \A t \in DOMAIN p.tracks : runtime'.tracks[t] = Again(runtime.tracks[t])
  <2>1. runtime' = [runtime EXCEPT !.tracks = [t \in DOMAIN runtime.tracks |-> Again(runtime.tracks[t])]]
    BY DEF ApplyInPlace
  <2>2. DOMAIN runtime = RuntimeNames /\ DOMAIN runtime.tracks = DOMAIN p.tracks
    BY <1>2, <1>3 DEF RuntimeOK
  <2> HIDE DEF Again
  <2>3. runtime'.tracks = [t \in DOMAIN p.tracks |-> Again(runtime.tracks[t])]
    BY <2>1, <2>2, SMTT(40) DEF RuntimeNames
  <2> QED
    BY <2>3
<1>8. ASSUME NEW t \in DOMAIN p.tracks
      PROVE  runtime'.tracks[t].until % CycleLength(w, t) = 0
  <2>1. PICK r, e : r = runtime.tracks[t] /\ e = runtime'.tracks[t]
    OBVIOUS
  <2>2. PICK c : c = [n \in DOMAIN r.cursors |-> [r.cursors[n] EXCEPT !.pool = 0]]
    OBVIOUS
  <2>3. e = [r EXCEPT !.cursors = c] /\ r = [n \in TrackNames |-> r[n]]
    BY <1>2, <1>3, <1>7, <2>1, <2>2 DEF RuntimeOK, TrackOK
  <2>4. e.until = r.until
    BY <2>3 DEF TrackNames
  <2> QED
    BY <1>2, <1>3, <1>5, <2>1, <2>4 DEF AllWhole
<1>9. AllWhole(w, runtime')
  BY <1>6, <1>8 DEF AllWhole
<1>10. pristine' = pristine /\ sent' = sent /\ queue' = queue /\ watermark' = watermark
  BY DEF ApplyInPlace
<1>11. pristine' => EndedBy(Events', watermark') /\ Settled(Events')
  BY <1>10 DEF MeetInv, Events
<1> QED
  BY <1>1, <1>4, <1>5, <1>9, <1>11 DEF MeetInv

LEMMA MeetStep ==
  ASSUME NotesLast, \A p \in Projects : CyclesMeet(p), MeetInv, [Next]_vars
  PROVE  MeetInv'
<1>1. BalanceInv'
  BY BalanceStep DEF MeetInv
<1>2. ASSUME NEW fault \in Faults(project) \cup {None}, Play(fault)
      PROVE  MeetInv'
  BY <1>2, MeetPlay
<1>3. ASSUME NEW fault \in Faults(project) \cup {None}, NEW d \in Steps, Tick(d, fault)
      PROVE  MeetInv'
  BY <1>3, MeetTick
<1>4. CASE Stop
  <2>1. project' = project /\ runtime' = runtime /\ pristine' = FALSE
    BY <1>4 DEF Stop
  <2>2. CyclesMeet(project)' /\ AllWhole(project, runtime)'
    BY <2>1 DEF MeetInv
  <2> QED
    BY <1>1, <2>1, <2>2 DEF MeetInv
<1>5. ASSUME NEW q \in Projects, ApplyInPlace(q)
      PROVE  MeetInv'
  <2>1. AllLast(q)
    BY LastsAll
  <2> QED
    BY <1>5, <2>1, MeetApply
<1>6. ASSUME NEW q \in Projects, Rebuild(q)
      PROVE  MeetInv'
  <2>1. project' = q /\ runtime' = FreshRuntime(q) /\ pristine' = FALSE
    BY <1>6 DEF Rebuild
  <2>2. CyclesMeet(q) /\ AllWhole(q, FreshRuntime(q))
    BY FreshWhole, ParallelAssumption
  <2>3. CyclesMeet(project)' /\ AllWhole(project, runtime)'
    BY <2>1, <2>2
  <2> QED
    BY <1>1, <2>1, <2>3 DEF MeetInv
<1>7. CASE UNCHANGED vars
  <2>1. /\ project' = project /\ runtime' = runtime /\ pristine' = pristine
        /\ sent' = sent /\ queue' = queue /\ watermark' = watermark
    BY <1>7 DEF vars
  <2>2. CyclesMeet(project)' /\ AllWhole(project, runtime)'
    BY <2>1 DEF MeetInv
  <2>3. pristine' => EndedBy(Events', watermark') /\ Settled(Events')
    BY <2>1 DEF MeetInv, Events
  <2> QED
    BY <1>1, <2>2, <2>3 DEF MeetInv
<1> QED
  BY <1>2, <1>3, <1>4, <1>5, <1>6, <1>7 DEF Next

LEMMA MeetInit ==
  ASSUME NotesLast, \A p \in Projects : CyclesMeet(p), Init
  PROVE  MeetInv
<1>1. project \in Projects /\ runtime = FreshRuntime(project) /\ ~pristine
  BY DEF Init
<1>2. BalanceInv
  BY <1>1, CyclesInit, FreshTimed, LastsAll DEF BalanceInv
<1>3. CyclesMeet(project) /\ AllWhole(project, runtime)
  BY <1>1, FreshWhole, ParallelAssumption
<1> QED
  BY <1>1, <1>2, <1>3 DEF MeetInv

\* No note-off, sent or to come, falls inside a note of its channel and pitch that
\* still sounds: it waits for the last that overlaps
\* (defer_premature_same_pitch_note_offs).
THEOREM OffsWait ==
  ASSUME NotesLast, \A p \in Projects : CyclesMeet(p)
  PROVE  Spec => []NoPrematureOff
<1>1. MeetInv /\ [Next]_vars => MeetInv'
  BY MeetStep
<1>2. MeetInv => NoPrematureOff
  BY MeetInvImplies
<1>3. Init => MeetInv
  BY MeetInit
<1> QED
  BY <1>1, <1>2, <1>3, PTL DEF Spec

-----------------------------------------------------------------------------
(************************************************************************** *)
(* What the timeline shows                                                 *)
(************************************************************************** *)

NotesIn(E) == {e.note : e \in Ons(E)}

\* Notes of a track that start within a tick of each other.
Neighbours(M) ==
  \A n, s \in M :
    n.track = s.track /\ s.start - n.start \in -1 .. 1 => n.start = s.start /\ n.channel = s.channel

\* Two notes of a track, each where its take places it.
LEMMA PlacedSpaced ==
  ASSUME NEW p, ValidProject(p), StartsApart(p), NEW n, NEW s, NEW b, NEW d, NEW k, NEW i, NEW m, NEW o,
         PlacedAs(p, n, b, k, m), PlacedAs(p, s, d, i, o), n.track = s.track,
         b = d => n.source = s.source /\ k = i, s.start - n.start \in -1 .. 1
  PROVE  n.start = s.start /\ n.channel = s.channel
<1>1. PICK c \in Nat \ {0} : c = CycleLength(p, n.track) /\ c = CycleLength(p, s.track)
  BY LengthIs DEF ValidProject, PlacedAs
<1>2. /\ b \in Nat /\ b % c = 0 /\ n.start = b + m.on /\ n.channel = m.channel
      /\ m.on \in Nat /\ m.on < c
      /\ d \in Nat /\ d % c = 0 /\ s.start = d + o.on /\ s.channel = o.channel
      /\ o.on \in Nat /\ o.on < c
  BY <1>1 DEF PlacedAs
<1>3. /\ m.on - o.on \notin {-1, 1, 1 - c, c - 1}
      /\ n.source = s.source /\ k = i /\ m.on = o.on => m.channel = o.channel
  <2>1. PICK t : t = n.track
    OBVIOUS
  <2>2. PICK x, y : x = n.source /\ y = s.source
    OBVIOUS
  <2>3. /\ t \in DOMAIN p.tracks /\ x \in DOMAIN p.tracks[t].sources /\ y \in DOMAIN p.tracks[t].sources
        /\ k \in DOMAIN p.tracks[t].sources[x].takes /\ m \in p.tracks[t].sources[x].takes[k]
        /\ i \in DOMAIN p.tracks[t].sources[y].takes /\ o \in p.tracks[t].sources[y].takes[i]
    BY <2>1, <2>2 DEF PlacedAs, Members
  <2>4. /\ m.on - o.on \notin {-1, 1, 1 - CycleLength(p, t), CycleLength(p, t) - 1}
        /\ x = y /\ k = i /\ m.on = o.on => m.channel = o.channel
    BY <2>3 DEF StartsApart
  <2> QED
    BY <1>1, <2>1, <2>2, <2>4
<1>4. b = d
  <2>1. b < d => b + c <= d
    BY <1>2, WholeLater
  <2>2. d < b => d + c <= b
    BY <1>2, WholeLater
  <2>3. PICK x \in Nat, y \in Nat : x = m.on /\ y = o.on /\ x < c /\ y < c
    BY <1>2
  <2>4. x - y # -1 /\ x - y # 1 /\ x - y # 1 - c /\ x - y # c - 1
    BY <1>3, <2>3
  <2>5. (d + y) - (b + x) \in -1 .. 1
    BY <1>2, <2>3
  <2>6. ~(b < d)
    <3> SUFFICES ASSUME b < d
                 PROVE  FALSE
      OBVIOUS
    <3>1. b \in Nat /\ d \in Nat /\ b + c <= d /\ (d + y) - (b + x) <= 1
      BY <1>2, <2>1, <2>3, <2>5
    <3>2. x >= c + y - 1
      BY <2>3, <3>1
    <3>4. y = 0 /\ x = c - 1
      BY <2>3, <3>2
    <3>3. x - y = c - 1
      BY <2>3, <3>4
    <3> QED
      BY <2>4, <3>3
  <2>7. ~(d < b)
    <3> SUFFICES ASSUME d < b
                 PROVE  FALSE
      OBVIOUS
    <3>1. b \in Nat /\ d \in Nat /\ d + c <= b /\ (d + y) - (b + x) >= -1
      BY <1>2, <2>2, <2>3, <2>5
    <3>2. y >= c + x - 1
      BY <2>3, <3>1
    <3>3. x - y = 1 - c
      BY <2>3, <3>2
    <3> QED
      BY <2>4, <3>3
  <2> QED
    BY <1>2, <2>6, <2>7
<1>5. m.on = o.on
  <2>1. PICK x \in Nat, y \in Nat : x = m.on /\ y = o.on
    BY <1>2
  <2>2. x - y # -1 /\ x - y # 1
    BY <1>3, <2>1
  <2>3. (b + y) - (b + x) \in -1 .. 1
    BY <1>2, <1>4, <2>1
  <2> QED
    BY <1>2, <2>1, <2>2, <2>3
<1> QED
  BY <1>2, <1>3, <1>4, <1>5

LEMMA RealizeSpaced ==
  ASSUME NEW p, ValidProject(p), AllLast(p), CyclesMeet(p), StartsApart(p),
         NEW rt, RuntimeOK(p, rt), AllWhole(p, rt),
         NEW events, NEW target \in Nat, target % p.cycle = 0, NEW fault \in Faults(p) \cup {None},
         NEW out, out = RealizeUntil(p, rt, events, target, fault)
  PROVE  Neighbours(out.notes)
<1>1. \A t \in DOMAIN p.tracks : \E L : Laid(p, t, rt.tracks[t].until, target, Part(out, t), L)
  BY RealizeLaid
<1>2. \A n \in out.notes : n.track \in DOMAIN p.tracks
  BY RealizeKeeps DEF Kept
<1>3. ASSUME NEW n \in out.notes, NEW s \in out.notes, n.track = s.track, s.start - n.start \in -1 .. 1
      PROVE  n.start = s.start /\ n.channel = s.channel
  <2>1. PICK t \in DOMAIN p.tracks : t = n.track /\ t = s.track
    BY <1>2, <1>3
  <2>2. n \in Part(out, t).notes /\ s \in Part(out, t).notes
    BY <2>1 DEF Part
  <2>3. PICK b, e : b = rt.tracks[t].until /\ e = Part(out, t)
    OBVIOUS
  <2>4. PICK L : Laid(p, t, b, target, e, L)
    BY <1>1, <2>3
  <2>5. PICK l \in L : n \in Take(p, t, l.source, l.cursor, l.base)
    BY <2>2, <2>3, <2>4 DEF Laid
  <2>6. PICK j \in L : s \in Take(p, t, j.source, j.cursor, j.base)
    BY <2>2, <2>3, <2>4 DEF Laid
  <2>7. l.base = j.base => l = j
    BY <2>4 DEF Laid
  <2>8. ASSUME NEW y \in L
        PROVE  /\ y.source \in Members(p, t) /\ y.cursor \in Cursor /\ y.base \in Nat /\ y.base % CycleLength(p, t) = 0
               /\ \E k : \A x \in Take(p, t, y.source, y.cursor, y.base) : \E m : PlacedAs(p, x, y.base, k, m)
    <3>1. PICK a, c, d : /\ a = y.source /\ c = y.cursor /\ d = y.base
                         /\ a \in Members(p, t) /\ c \in Cursor /\ d \in Nat /\ d % CycleLength(p, t) = 0
      BY <2>4 DEF Laid
    <3>2. \E k : \A x \in Take(p, t, a, c, d) : \E m : PlacedAs(p, x, d, k, m)
      BY <3>1, TakePlaced
    <3> QED
      BY <3>1, <3>2
  <2>9. \A y \in L : \A x \in Take(p, t, y.source, y.cursor, y.base) : x.source = y.source
    BY TakeIs
  <2>10. PICK k, m, i, o : /\ PlacedAs(p, n, l.base, k, m) /\ PlacedAs(p, s, j.base, i, o)
                           /\ l = j => k = i
    <3>1. PICK k : \A x \in Take(p, t, l.source, l.cursor, l.base) : \E m : PlacedAs(p, x, l.base, k, m)
      BY <2>8
    <3>2. PICK i : /\ \A x \in Take(p, t, j.source, j.cursor, j.base) : \E m : PlacedAs(p, x, j.base, i, m)
                   /\ l = j => k = i
      BY <2>8, <3>1
    <3>3. PICK m : PlacedAs(p, n, l.base, k, m)
      BY <2>5, <3>1
    <3>4. PICK o : PlacedAs(p, s, j.base, i, o)
      BY <2>6, <3>2
    <3> QED
      BY <3>2, <3>3, <3>4
  <2>11. PICK d, f : d = l.base /\ f = j.base
    OBVIOUS
  <2>12. d = f => n.source = s.source /\ k = i
    BY <2>5, <2>6, <2>7, <2>9, <2>10, <2>11
  <2> QED
    BY <1>3, <2>10, <2>11, <2>12, PlacedSpaced
<1> QED
  BY <1>3 DEF Neighbours

\* The groups of a component with the track of a group it silences.
LEMMA SilencedAlike ==
  ASSUME NEW G, Spans(G), NEW keys, NEW horizon, NEW config, NEW counted,
         NEW decided, decided \subseteq Components(G),
         NEW silenced, silenced = SilencedIn(decided, counted, config),
         NEW g \in silenced, NEW h \in G, h.track = g.track, h.channel = g.channel, h.start = g.start
  PROVE  h \in silenced
<1>1. PICK c \in decided : g \in c.groups /\ g.track \notin PassedTracks(c, OrdinalOf(c, counted, config.cycle), config)
  BY DEF SilencedIn
<1>2. PICK k \in G : c = ComponentOf(G, k)
  BY ComponentsAll
<1>3. g \in G /\ g.channel = k.channel /\ StartOf(G, g) = StartOf(G, k)
  BY <1>1, <1>2 DEF ComponentOf
<1>4. StartOf(G, h) = StartOf(G, g)
  BY DEF StartOf
<1>5. h \in c.groups
  BY <1>2, <1>3, <1>4 DEF ComponentOf
<1> QED
  BY <1>1, <1>5 DEF SilencedIn

\* Of a window the note-ons that are not silenced are heard.
LEMMA WindowHears ==
  ASSUME NEW X, EventSet(X), Sound(X), NEW keys, NEW horizon, NEW resolved, NEW config,
         NEW decided, decided = Decided(X, keys, horizon, config),
         NEW counted, counted = Counted(decided, resolved, config.cycle),
         NEW silenced, silenced = SilencedIn(decided, counted, config),
         NEW r, r = ResolveConflicts(X, keys, horizon, resolved, config)
  PROVE  /\ silenced \subseteq Groups(X) /\ r.suppressed = NotesOf(silenced)
         /\ \A g \in silenced : g.on \in X /\ g.on.on
         /\ Ons(r.queue) = {x \in X : x.on /\ x \notin {g.on : g \in silenced}}
<1>2. r.queue = Defer(X \ EventsIn(silenced)) /\ r.suppressed = NotesOf(silenced)
  BY ResolvePass
<1>3. silenced \subseteq Groups(X)
  BY SilencedGroups
<1>4. PICK N : N = X \ EventsIn(silenced)
  OBVIOUS
<1>5. PICK D : D = r.queue
  OBVIOUS
<1>6. EventSet(N) /\ Sound(N) /\ Closed(X)
  BY <1>3, <1>4, RestSound, SoundClosed
<1>7. \A g \in silenced : g.on \in X /\ g.on.on /\ \A f \in g.offs : ~f.on
  <2>1. ASSUME NEW g \in silenced
        PROVE  g.on \in X /\ g.on.on /\ \A f \in g.offs : ~f.on
    <3>1. PICK e, f \in X :
             /\ e.on /\ ~f.on
             /\ g = [track |-> Track(e), channel |-> Channel(e), voice |-> Voice(e),
                     start |-> e.tick, end |-> f.tick, on |-> e, offs |-> {f}]
      BY <1>3, <1>6, GroupsClosed
    <3> QED
      BY <3>1
  <2> QED
    BY <2>1
<1>8. /\ \A d \in D : \E x \in N : d.note = x.note /\ d.on = x.on /\ d.tick >= x.tick /\ (d.on => d = x)
      /\ \A x \in N : x.on => x \in D
  <2>1. D = Defer(N)
    BY <1>2, <1>4, <1>5
  <2> QED
    BY <1>6, <2>1, DeferSettles
<1>9. Ons(D) = Ons(N)
  BY <1>8 DEF Ons
<1>10. \A x \in X : x.on => (x \in EventsIn(silenced) <=> x \in {g.on : g \in silenced})
  BY <1>7 DEF EventsIn
<1>11. Ons(D) = {x \in X : x.on /\ x \notin {g.on : g \in silenced}}
  BY <1>4, <1>9, <1>10 DEF Ons
<1> QED
  BY <1>2, <1>3, <1>5, <1>7, <1>11

\* Of a window the notes that are not flagged are those heard.
LEMMA WindowShows ==
  ASSUME NEW M, Written(M), Neighbours(M), NEW keys, NEW horizon, NEW resolved, NEW config,
         NEW r, r = ResolveConflicts(EventsOf(M), keys, horizon, resolved, config)
  PROVE  NotesIn(r.queue) = M \ FlaggedBy(M, r.suppressed)
<1>1. PICK X : X = EventsOf(M)
  OBVIOUS
<1>2. EventSet(X) /\ Sound(X) /\ \A x \in X : x.note \in M
  BY <1>1, WrittenSound
<1>3. PICK decided, counted, silenced :
        /\ decided = Decided(X, keys, horizon, config)
        /\ counted = Counted(decided, resolved, config.cycle)
        /\ silenced = SilencedIn(decided, counted, config)
  OBVIOUS
<1>4. /\ silenced \subseteq Groups(X) /\ r.suppressed = NotesOf(silenced)
      /\ \A g \in silenced : g.on \in X /\ g.on.on
      /\ Ons(r.queue) = {x \in X : x.on /\ x \notin {g.on : g \in silenced}}
  <2>1. r = ResolveConflicts(X, keys, horizon, resolved, config)
    BY <1>1
  <2> QED
    BY <1>2, <1>3, <2>1, WindowHears
<1>5. silenced \subseteq Groups(X)
  BY <1>4
<1>7. PICK D : D = r.queue
  OBVIOUS
<1>8. Closed(X)
  BY <1>2, SoundClosed
<1>9. PICK G : G = Groups(X) /\ Spans(G)
  BY <1>2, <1>8, GroupsSpan
<1>10. \A g \in silenced : g.on \in X /\ g.on.on
  BY <1>4
<1>11. Ons(D) = {x \in X : x.on /\ x \notin {g.on : g \in silenced}}
  BY <1>4, <1>7
<1>12. ASSUME NEW n \in M
       PROVE  \E e \in X : /\ e.on /\ e.note = n /\ e.tick = n.start
                           /\ \A x \in X : x.on /\ x.note = n => x = e
  <2>1. PICK e : e = [note |-> n, on |-> TRUE, tick |-> n.start]
    OBVIOUS
  <2>2. e \in X /\ e.on /\ e.note = n /\ e.tick = n.start
    BY <1>1, <2>1 DEF EventsOf
  <2> QED
    BY <1>2, <2>2 DEF EventSet
<1>13. NotesIn(D) = M \ NotesOf(silenced)
  <2>1. ASSUME NEW n \in NotesIn(D)
        PROVE  n \in M /\ n \notin NotesOf(silenced)
    <3>1. PICK x \in X : x.on /\ x.note = n /\ x \notin {g.on : g \in silenced}
      BY <1>11 DEF NotesIn
    <3>2. n \in M
      BY <1>2, <3>1
    <3>3. ASSUME NEW g \in silenced, g.on.note = n
          PROVE  FALSE
      <4>1. g.on \in X /\ g.on.on
        BY <1>10
      <4>2. g.on = x
        BY <1>12, <3>1, <3>2, <3>3, <4>1
      <4> QED
        BY <3>1, <4>2
    <3> QED
      BY <3>2, <3>3 DEF NotesOf
  <2>2. ASSUME NEW n \in M, n \notin NotesOf(silenced)
        PROVE  n \in NotesIn(D)
    <3>1. PICK e \in X : e.on /\ e.note = n
      BY <1>12
    <3>2. e \notin {g.on : g \in silenced}
      BY <2>2, <3>1 DEF NotesOf
    <3>3. e \in Ons(D)
      BY <1>11, <3>1, <3>2
    <3> QED
      BY <3>1, <3>3 DEF NotesIn
  <2> QED
    BY <2>1, <2>2
<1>14. ASSUME NEW n \in M, NEW s \in NotesOf(silenced), s.track = n.track, s.start - n.start \in -1 .. 1
       PROVE  n \in NotesOf(silenced)
  <2>1. PICK g \in silenced : s = g.on.note
    BY DEF NotesOf
  <2>2. s \in M
    BY <1>2, <1>10, <2>1
  <2>3. n.start = s.start /\ n.channel = s.channel
    BY <1>14, <2>2 DEF Neighbours
  <2>4. PICK x, y \in X : /\ x.on /\ x.note = n /\ x.tick = n.start
                          /\ y.on /\ y.note = s /\ y.tick = s.start /\ y = g.on
    BY <1>10, <1>12, <2>1, <2>2
  <2>5. PICK h \in G : h.on = x /\ h.track = x.note.track /\ h.channel = x.note.channel /\ h.start = x.tick
    <3>1. PICK h : h = GroupOf(X, x)
      OBVIOUS
    <3>2. PICK f \in X : Closes(X, x, f)
      BY <1>8, <2>4 DEF Closed
    <3>3. h = [track |-> Track(x), channel |-> Channel(x), voice |-> Voice(x),
               start |-> x.tick, end |-> f.tick, on |-> x, offs |-> {f}]
      BY <1>2, <2>4, <3>1, <3>2, GroupIs
    <3>4. h \in G
      BY <1>9, <2>4, <3>1 DEF Groups
    <3> QED
      BY <3>3, <3>4 DEF Track, Channel
  <2>6. g.track = y.note.track /\ g.channel = y.note.channel /\ g.start = y.tick
    <3>1. PICK e \in X : \E f \in X :
             g = [track |-> Track(e), channel |-> Channel(e), voice |-> Voice(e),
                  start |-> e.tick, end |-> f.tick, on |-> e, offs |-> {f}]
      BY <1>2, <1>5, <1>8, GroupsClosed
    <3>2. g.on = e /\ g.track = Track(e) /\ g.channel = Channel(e) /\ g.start = e.tick
      BY <3>1
    <3> QED
      BY <2>4, <3>2 DEF Track, Channel
  <2>7. h.track = g.track /\ h.channel = g.channel /\ h.start = g.start
    BY <1>14, <2>3, <2>4, <2>5, <2>6
  <2>8. h \in silenced
    <3>1. decided \subseteq Components(G)
      BY <1>3, <1>9 DEF Decided, Resolvable
    <3> QED
      BY <1>3, <1>9, <2>7, <3>1, SilencedAlike
  <2> QED
    BY <2>4, <2>5, <2>8 DEF NotesOf
<1>15. FlaggedBy(M, NotesOf(silenced)) = M \cap NotesOf(silenced)
  <2>1. \A n \in M : n.start - n.start \in -1 .. 1
    <3>1. \A n \in M : n.start \in Nat
      BY DEF Written, IsNote
    <3> QED
      BY <3>1
  <2> QED
    BY <1>14, <2>1 DEF FlaggedBy
<1> QED
  BY <1>4, <1>7, <1>13, <1>15

\* What a realization shows is what it adds to what is heard.
Shows(S, Q, out, fault) ==
  NotesIn(S \cup out.queue) = NotesIn(S \cup Q) \cup (IF fault # None THEN {} ELSE out.notes \ out.flagged)

LEMMA RealizeShows ==
  ASSUME NEW S, NEW Q, InFlight(S, Q), Settled(S \cup Q), NEW W \in Nat, EndedBy(S \cup Q, W),
         NEW p, NEW rt, NEW target \in Nat, W <= target, NEW fault,
         NEW out, out = RealizeUntil(p, rt, Q, target, fault),
         Written(out.notes), New(S \cup Q, out.notes), Within(out.notes, W, target), Neighbours(out.notes)
  PROVE  Shows(S, Q, out, fault)
<1>1. PICK passed : passed = Passes(p, rt, target, fault)
  OBVIOUS
<1>2. PICK M : M = UNION {passed[t].notes : t \in DOMAIN passed}
  OBVIOUS
<1>3. out.notes = M
  BY <1>1, <1>2 DEF RealizeUntil
<1>4. PICK keys, horizon, resolved, config :
        /\ keys = BatchKeys(M) /\ horizon = rt.horizon
        /\ resolved = rt.resolved /\ config = ConflictConfig(p)
  OBVIOUS
<1>5. PICK r : r = ResolveConflicts(Q \cup EventsOf(M), keys, horizon, resolved, config)
  OBVIOUS
<1>6. /\ out.queue = IF fault # None \/ M = {} THEN Q ELSE r.queue
      /\ out.flagged = FlaggedBy(M, IF fault # None \/ M = {} THEN {} ELSE r.suppressed)
  BY <1>1, <1>2, <1>4, <1>5 DEF RealizeUntil
<1>7. CASE fault # None
  BY <1>6, <1>7 DEF Shows
<1>8. CASE fault = None /\ M = {}
  BY <1>3, <1>6, <1>8 DEF Shows
<1>9. CASE fault = None /\ M # {}
  <2>1. Written(M) /\ Within(M, W, target) /\ New(S \cup Q, M) /\ Neighbours(M)
    BY <1>3
  <2>2. PICK s : s = ResolveConflicts(EventsOf(M), keys, horizon, resolved, config)
    OBVIOUS
  <2>3. Beside(Q, s, r)
    <3>1. /\ r = ResolveConflicts(Q \cup EventsOf(M), BatchKeys(M), horizon, resolved, config)
          /\ s = ResolveConflicts(EventsOf(M), BatchKeys(M), horizon, resolved, config)
      BY <1>4, <1>5, <2>2
    <3> QED
      BY <2>1, <3>1, WindowJoins
  <2>4. NotesIn(s.queue) = M \ FlaggedBy(M, s.suppressed)
    BY <2>1, <2>2, WindowShows
  <2>5. out.queue = Q \cup s.queue /\ out.flagged = FlaggedBy(M, s.suppressed)
    BY <1>6, <1>9, <2>3 DEF Beside
  <2>6. NotesIn(S \cup (Q \cup s.queue)) = NotesIn(S \cup Q) \cup NotesIn(s.queue)
    BY DEF NotesIn, Ons
  <2> QED
    BY <1>3, <1>9, <2>4, <2>5, <2>6 DEF Shows
<1> QED
  BY <1>7, <1>8, <1>9

\* What is shown is what is heard, as long as the notes of a track keep apart.
ShowInv ==
  /\ MeetInv
  /\ StartsApart(project)
  /\ pristine => shown = NotesIn(Events)

LEMMA ShowInvImplies ==
  ASSUME ShowInv
  PROVE  TimelineMatchesAudio
BY DEF ShowInv, TimelineMatchesAudio, NotesIn

LEMMA ShowPlay ==
  ASSUME ShowInv, NEW fault \in Faults(project) \cup {None}, Play(fault)
  PROVE  ShowInv'
<1>1. MeetInv /\ MeetInv'
  BY MeetPlay DEF ShowInv
<1>2. /\ ValidProject(project) /\ RuntimeOK(project, runtime) /\ AllLast(project) /\ CyclesMeet(project)
      /\ StartsApart(project)
  BY DEF ShowInv, MeetInv, BalanceInv, CyclesInv
<1>3. PICK target \in Nat \ {0} : target = project.cycle /\ target % project.cycle = 0
  BY <1>2, OneCycle DEF ValidProject
<1>4. PICK rt : rt = FreshRuntime(project) /\ rt = [Reset(runtime) EXCEPT !.horizon = 0]
  BY <1>2, ResetIs
<1>5. /\ RuntimeOK(project, rt) /\ AllTimed(project, rt) /\ AllWhole(project, rt)
      /\ \A t \in DOMAIN project.tracks : 0 <= rt.tracks[t].until
  <2>1. RuntimeOK(project, rt) /\ AllTimed(project, rt) /\ AllWhole(project, rt)
    BY <1>2, <1>4, FreshRuntimeIs, FreshTimed, FreshWhole
  <2>2. ASSUME NEW t \in DOMAIN project.tracks
        PROVE  0 <= rt.tracks[t].until
    <3>1. rt.tracks[t].until \in Nat
      BY <2>1 DEF RuntimeOK, TrackOK
    <3> QED
      BY <3>1
  <2> QED
    BY <2>1, <2>2
<1>6. PICK out : /\ out = RealizeUntil(project, rt, {}, target, fault)
                 /\ fault # None => out.fails
                 /\ queue' = out.queue
                 /\ shown' = {} \cup (IF out.fails THEN {} ELSE out.notes \ out.flagged)
  BY <1>3, <1>4 DEF Play, Record
<1>7. project' = project /\ sent' = {}
  BY DEF Play
<1>8. PICK S, Q, W : S = {} /\ Q = {} /\ W = 0 /\ W \in Nat /\ W <= target
  <2>1. 0 <= target
    BY <1>3
  <2> QED
    BY <2>1
<1>9. out = RealizeUntil(project, rt, Q, target, fault)
  BY <1>6, <1>8
<1>10. out.fails <=> fault # None
  <2>1. Kept(project, rt, target, fault, out)
    BY <1>2, <1>5, <1>9, RealizeKeeps
  <2> QED
    BY <1>6, <2>1 DEF Kept
<1>11. Written(out.notes) /\ Within(out.notes, W, target) /\ Neighbours(out.notes)
  <2>1. Written(out.notes)
    BY <1>2, <1>5, <1>9, RealizeTyped
  <2>2. \A t \in DOMAIN project.tracks : W <= rt.tracks[t].until
    BY <1>5, <1>8
  <2>3. Within(out.notes, W, target)
    BY <1>2, <1>3, <1>5, <1>8, <1>9, <2>2, RealizeWithin
  <2>4. Neighbours(out.notes)
    BY <1>2, <1>3, <1>5, <1>9, RealizeSpaced
  <2> QED
    BY <2>1, <2>3, <2>4
<1>12. S \cup Q = {} /\ S \cup out.queue = out.queue
  BY <1>8
<1>13. NotesIn(out.queue) = NotesIn({}) \cup (IF fault # None THEN {} ELSE out.notes \ out.flagged)
  <2>1. InFlight(S, Q) /\ New(S \cup Q, out.notes)
    BY <1>8, <1>12, NothingInFlight DEF New
  <2>2. Settled(S \cup Q) /\ EndedBy(S \cup Q, W)
    BY <1>12, NothingSettled
  <2>3. Shows(S, Q, out, fault)
    BY <1>3, <1>8, <1>9, <1>11, <2>1, <2>2, RealizeShows
  <2> QED
    BY <1>12, <2>3 DEF Shows
<1>14. NotesIn({}) = {}
  BY DEF NotesIn, Ons
<1>15. Events' = out.queue
  BY <1>6, <1>7 DEF Events
<1>16. shown' = NotesIn(Events')
  BY <1>6, <1>10, <1>13, <1>14, <1>15
<1>17. NotesIn(Events)' = NotesIn(Events')
  BY DEF NotesIn, Ons
<1> QED
  BY <1>1, <1>2, <1>7, <1>16, <1>17 DEF ShowInv

LEMMA ShowTick ==
  ASSUME ShowInv, NEW fault \in Faults(project) \cup {None}, NEW d \in Steps, Tick(d, fault)
  PROVE  ShowInv'
<1>1. MeetInv /\ MeetInv' /\ BalanceInv
  BY MeetTick DEF ShowInv, MeetInv
<1>2. /\ ValidProject(project) /\ RuntimeOK(project, runtime) /\ AllLast(project) /\ CyclesMeet(project)
      /\ AllTimed(project, runtime) /\ AllWhole(project, runtime) /\ TypeOK /\ StartsApart(project)
  BY DEF ShowInv, MeetInv, BalanceInv, CyclesInv
<1>3. project.cycle \in Nat \ {0}
  BY <1>2 DEF ValidProject
<1>4. PICK now \in Nat : now = tick + d
  BY <1>2, ParallelAssumption DEF TypeOK
<1>5. PICK target \in Nat : target = (now \div project.cycle + 2) * project.cycle /\ target % project.cycle = 0
  BY <1>3, WholeCycles
<1>6. PICK rt : rt = [runtime EXCEPT !.horizon = now]
  OBVIOUS
<1>7. /\ rt.tracks = runtime.tracks /\ RuntimeOK(project, rt) /\ AllTimed(project, rt)
      /\ AllWhole(project, rt)
  <2>1. rt.tracks = runtime.tracks /\ DOMAIN rt = DOMAIN runtime
    BY <1>2, <1>6 DEF RuntimeOK, RuntimeNames
  <2> QED
    BY <1>2, <2>1 DEF RuntimeOK, AllTimed, AllWhole
<1>8. project' = project /\ pristine' = pristine
  BY DEF Tick
<1>9. NotesIn(Events)' = NotesIn(Events')
  BY DEF NotesIn, Ons
<1>10. ASSUME pristine
       PROVE  /\ cutoff = None /\ InFlight(sent, queue) /\ sent \cup queue = Events
              /\ Settled(sent \cup queue) /\ EndedBy(sent \cup queue, watermark)
              /\ shown = NotesIn(sent \cup queue)
  <2>1. sent \cup queue = Events
    BY DEF Events
  <2> QED
    BY <1>1, <1>10, <2>1 DEF ShowInv, MeetInv, BalanceInv, Sounding
<1>11. CASE watermark < target
  <2>1. PICK out : /\ out = RealizeUntil(project, rt, queue, target, fault)
                   /\ fault # None => out.fails
                   /\ shown' = shown \cup (IF out.fails THEN {} ELSE out.notes \ out.flagged)
                   /\ Dispatch(out.queue, now)
    BY <1>4, <1>5, <1>6, <1>11 DEF Tick, Record
  <2>2. out.fails <=> fault # None
    <3>1. Kept(project, rt, target, fault, out)
      BY <1>2, <1>7, <2>1, RealizeKeeps
    <3> QED
      BY <2>1, <3>1 DEF Kept
  <2>3. Written(out.notes) /\ Neighbours(out.notes)
    <3>1. Written(out.notes)
      BY <1>2, <1>7, <2>1, RealizeTyped
    <3>2. Neighbours(out.notes)
      BY <1>2, <1>5, <1>7, <2>1, RealizeSpaced
    <3> QED
      BY <3>1, <3>2
  <2>4. PICK W \in Nat : W = watermark /\ W <= target
    BY <1>2, <1>11 DEF TypeOK
  <2>5. \A t \in DOMAIN project.tracks : W <= rt.tracks[t].until
    <3>1. ASSUME NEW t \in DOMAIN project.tracks
          PROVE  W <= rt.tracks[t].until
      <4>1. Kind(project, t) # "triggered"
        BY <1>2, MeetsAll
      <4>2. runtime.tracks[t].until >= watermark /\ runtime.tracks[t].until \in Nat
        BY <1>2, <4>1 DEF TypeOK, RuntimeOK, TrackOK
      <4> QED
        BY <1>7, <2>4, <4>2
    <3> QED
      BY <3>1
  <2>6. Within(out.notes, W, target)
    BY <1>2, <1>5, <1>7, <2>1, <2>5, RealizeWithin
  <2>7. ASSUME pristine
        PROVE  shown' = NotesIn(Events')
    <3>1. PICK S, Q : S = sent /\ Q = queue
      OBVIOUS
    <3>2. /\ InFlight(S, Q) /\ Settled(S \cup Q) /\ EndedBy(S \cup Q, W)
          /\ out = RealizeUntil(project, rt, Q, target, fault)
      BY <1>10, <2>1, <2>4, <2>7, <3>1
    <3>3. New(S \cup Q, out.notes)
      <4>1. Kept(project, rt, target, fault, out)
        BY <1>2, <1>7, <2>1, RealizeKeeps
      <4>2. PICK old : old = earlier \cup batch
        OBVIOUS
      <4>3. Behind(project, rt, old)
        BY <1>1, <1>7, <4>2 DEF BalanceInv, CyclesInv, Behind, Upcoming
      <4>4. Apart(out.notes, old)
        BY <1>2, <1>7, <4>1, <4>3, BehindGrows
      <4>5. \A e \in S \cup Q : e.note \in old
        BY <1>1, <2>7, <3>1, <4>2 DEF BalanceInv, Sounding
      <4> QED
        BY <4>4, <4>5 DEF New, Apart
    <3>4. Shows(S, Q, out, fault)
      BY <2>3, <2>4, <2>6, <3>2, <3>3, RealizeShows
    <3>5. Events' = S \cup out.queue
      <4>1. \A e \in out.queue : e.tick \in Nat
        <5>1. Joins(S, Q, out.notes, out.queue)
          BY <2>3, <3>2, <3>3, RealizeSound
        <5> QED
          BY <5>1 DEF Joins, EventSet, IsEvent
      <4>2. sent' \cup queue' = sent \cup out.queue
        BY <1>10, <2>1, <2>7, <4>1, DispatchKeeps
      <4> QED
        BY <3>1, <4>2 DEF Events
    <3>6. shown = NotesIn(S \cup Q)
      BY <1>10, <2>7, <3>1
    <3> QED
      BY <2>1, <2>2, <3>4, <3>5, <3>6 DEF Shows
  <2> QED
    BY <1>1, <1>2, <1>8, <1>9, <2>7 DEF ShowInv
<1>12. CASE ~(watermark < target)
  <2>1. shown' = shown /\ Dispatch(queue, now)
    BY <1>4, <1>5, <1>12 DEF Tick
  <2>2. ASSUME pristine
        PROVE  shown' = NotesIn(Events')
    <3>1. \A e \in queue : e.tick \in Nat
      BY <1>10, <2>2 DEF InFlight, EventSet, IsEvent
    <3>2. sent' \cup queue' = sent \cup queue
      BY <1>10, <2>1, <2>2, <3>1, DispatchKeeps
    <3>3. Events' = Events
      BY <3>2 DEF Events
    <3> QED
      BY <1>10, <2>1, <2>2, <3>3
  <2> QED
    BY <1>1, <1>2, <1>8, <1>9, <2>2 DEF ShowInv
<1> QED
  BY <1>11, <1>12

LEMMA ShowStep ==
  ASSUME NotesLast, \A p \in Projects : CyclesMeet(p) /\ StartsApart(p), ShowInv, [Next]_vars
  PROVE  ShowInv'
<1>1. MeetInv'
  BY MeetStep DEF ShowInv
<1>2. ASSUME NEW fault \in Faults(project) \cup {None}, Play(fault)
      PROVE  ShowInv'
  BY <1>2, ShowPlay
<1>3. ASSUME NEW fault \in Faults(project) \cup {None}, NEW d \in Steps, Tick(d, fault)
      PROVE  ShowInv'
  BY <1>3, ShowTick
<1>4. CASE Stop
  <2>1. project' = project /\ pristine' = FALSE
    BY <1>4 DEF Stop
  <2> QED
    BY <1>1, <2>1 DEF ShowInv
<1>5. ASSUME NEW q \in Projects, ApplyInPlace(q)
      PROVE  ShowInv'
  <2>1. PICK p, w : p = project /\ w = InRunningOrder(project, q)
    OBVIOUS
  <2>2. ValidProject(p) /\ ValidProject(q) /\ AppliesForward(p, q) /\ project' = w /\ w = InRunningOrder(p, q)
    BY <1>5, <2>1, ParallelAssumption DEF ApplyInPlace, ShowInv, MeetInv, BalanceInv, CyclesInv
  <2>3. StartsApart(w)
    <3>1. CyclesMeet(p) /\ CyclesMeet(q) /\ StartsApart(q)
      BY <2>1 DEF ShowInv, MeetInv
    <3> QED
      BY <2>2, <3>1, AppliedApart
  <2>4. pristine' = pristine /\ shown' = shown /\ sent' = sent /\ queue' = queue
    BY <1>5 DEF ApplyInPlace
  <2>5. NotesIn(Events)' = NotesIn(Events)
    BY <2>4 DEF NotesIn, Ons, Events
  <2> QED
    BY <1>1, <2>2, <2>3, <2>4, <2>5 DEF ShowInv
<1>6. ASSUME NEW q \in Projects, Rebuild(q)
      PROVE  ShowInv'
  <2>1. project' = q /\ pristine' = FALSE
    BY <1>6 DEF Rebuild
  <2> QED
    BY <1>1, <2>1 DEF ShowInv
<1>7. CASE UNCHANGED vars
  <2>1. project' = project /\ pristine' = pristine /\ shown' = shown /\ sent' = sent /\ queue' = queue
    BY <1>7 DEF vars
  <2>2. NotesIn(Events)' = NotesIn(Events)
    BY <2>1 DEF NotesIn, Ons, Events
  <2> QED
    BY <1>1, <2>1, <2>2 DEF ShowInv
<1> QED
  BY <1>2, <1>3, <1>4, <1>5, <1>6, <1>7 DEF Next

\* What the timeline shows as played is what has a note-on, queued or sent, across
\* every window, failure and edit (flag_suppressed_playback_metadata).
THEOREM TimelineTrue ==
  ASSUME NotesLast, \A p \in Projects : CyclesMeet(p) /\ StartsApart(p)
  PROVE  Spec => []TimelineMatchesAudio
<1>1. ShowInv /\ [Next]_vars => ShowInv'
  BY ShowStep
<1>2. ShowInv => TimelineMatchesAudio
  BY ShowInvImplies
<1>3. Init => ShowInv
  <2>1. Init => MeetInv
    BY MeetInit
  <2>2. Init => project \in Projects /\ ~pristine
    BY DEF Init
  <2> QED
    BY <2>1, <2>2 DEF ShowInv
<1> QED
  BY <1>1, <1>2, <1>3, PTL DEF Spec

-----------------------------------------------------------------------------
(************************************************************************** *)
(* One track to a channel                                                  *)
(************************************************************************** *)

\* Where a note sounds a group of its track and voice does: pairing last in,
\* first out moves note-offs from note to note, and leaves no gap.
LEMMA Straddled ==
  ASSUME NEW M, Written(M), NEW X, X = EventsOf(M), NEW n \in M, NEW s \in Nat, n.start < s, s < n.end
  PROVE  \E g \in Groups(X) : g.track = n.track /\ g.channel = n.channel /\ g.start < s /\ s < g.end
<1> SUFFICES ASSUME \A g \in Groups(X) : g.track = n.track /\ g.channel = n.channel => ~(g.start < s /\ s < g.end)
             PROVE  FALSE
  OBVIOUS
<1>1. EventSet(X) /\ Sound(X) /\ Closed(X) /\ \A x \in X : x.note \in M
  BY WrittenSound, SoundClosed
<1>2. ASSUME NEW m \in M
      PROVE  /\ m.start \in Nat /\ m.end \in Nat /\ m.start < m.end
             /\ \E x \in X : x.on /\ x.note = m /\ x.tick = m.start
             /\ \A x \in X : x.note = m => x.tick = IF x.on THEN m.start ELSE m.end
  <2>1. PICK x, y : x = [note |-> m, on |-> TRUE, tick |-> m.start] /\ y = [note |-> m, on |-> FALSE, tick |-> m.end]
    OBVIOUS
  <2>2. x \in X /\ y \in X
    BY <2>1 DEF EventsOf
  <2>3. \A z \in X : z.on \in BOOLEAN
    BY <1>1 DEF EventSet, IsEvent
  <2>4. ASSUME NEW z \in X, z.note = m
        PROVE  z.tick = IF z.on THEN m.start ELSE m.end
    <3>1. CASE z.on
      <4>1. z = x
        BY <1>1, <2>1, <2>2, <2>4, <3>1 DEF EventSet
      <4> QED
        BY <2>1, <3>1, <4>1
    <3>2. CASE ~z.on
      <4>1. z = y
        BY <1>1, <2>1, <2>2, <2>3, <2>4, <3>2 DEF EventSet
      <4> QED
        BY <2>1, <3>2, <4>1
    <3> QED
      BY <3>1, <3>2
  <2>5. m.start \in Nat /\ m.end \in Nat /\ m.start < m.end
    BY DEF Written, IsNote
  <2> QED
    BY <2>1, <2>2, <2>4, <2>5
<1>3. PICK e \in X : e.on /\ e.note = n /\ e.tick = n.start
  BY <1>2
<1>4. PICK C : C = {h \in X : Alike(h, e)}
  OBVIOUS
<1>5. Stream(C) /\ e \in C
  <2>1. C = Along(X, Line(e))
    BY <1>4 DEF Along, Alike
  <2>2. Stream(C)
    BY <1>1, <2>1, AlongStream
  <2> QED
    BY <1>3, <1>4, <2>2 DEF Alike
<1>6. PICK A : A = {x \in C : x.on /\ x.tick < s}
  OBVIOUS
<1>7. IsFiniteSet(A) /\ e \in A
  <2>1. IsFiniteSet(C) /\ A \subseteq C
    BY <1>5, <1>6 DEF Stream
  <2> QED
    BY <1>3, <1>5, <1>6, <2>1, FS_Subset
<1>8. ASSUME NEW x \in A
      PROVE  \E y \in A, f \in C : Pairs(C, x, f) /\ ~f.on /\ y.note = f.note /\ y # e
  <2>1. x \in X /\ x.on /\ x.tick < s /\ Line(x) = Line(e)
    BY <1>4, <1>6 DEF Alike
  <2>2. PICK f \in X : Closes(X, x, f)
    BY <1>1, <2>1 DEF Closed
  <2>3. PICK g : g = GroupOf(X, x)
    OBVIOUS
  <2>4. /\ ~f.on /\ Line(f) = Line(x) /\ x.tick < f.tick
        /\ g = [track |-> Track(x), channel |-> Channel(x), voice |-> Voice(x),
                start |-> x.tick, end |-> f.tick, on |-> x, offs |-> {f}]
    BY <1>1, <2>1, <2>2, <2>3, GroupIs
  <2>5. g \in Groups(X)
    BY <2>1, <2>3 DEF Groups
  <2>6. f.tick <= s
    <3>1. g.track = n.track /\ g.channel = n.channel
      BY <1>3, <2>1, <2>4 DEF Line, Track, Channel, Voice
    <3>2. ~(s < f.tick)
      BY <2>1, <2>4, <2>5, <3>1
    <3>3. f.tick \in Nat
      BY <1>1 DEF EventSet, IsEvent
    <3> QED
      BY <3>2, <3>3
  <2>7. f \in C
    BY <1>4, <2>1, <2>4 DEF Alike
  <2>8. Pairs(C, x, f)
    <3>1. x \in C /\ C = {h \in X : Alike(h, x)}
      BY <1>4, <1>6, <2>1 DEF Alike
    <3> QED
      BY <1>5, <2>2, <3>1, ClosesIs
  <2>9. PICK m \in M : m = f.note
    BY <1>1
  <2>10. PICK y \in X : y.on /\ y.note = m /\ y.tick = m.start
    BY <1>2
  <2>11. f.tick = m.end /\ m.start < m.end /\ m.start \in Nat /\ m.end \in Nat
    BY <1>2, <2>4, <2>9
  <2>12. y \in A
    <3>1. Line(y) = Line(f)
      BY <2>9, <2>10 DEF Line, Track, Voice
    <3>2. y.tick < s
      BY <2>6, <2>10, <2>11
    <3> QED
      BY <1>4, <1>6, <2>1, <2>4, <2>10, <3>1, <3>2 DEF Alike
  <2>13. y # e
    BY <1>3, <2>6, <2>9, <2>10, <2>11
  <2> QED
    BY <2>4, <2>7, <2>8, <2>9, <2>10, <2>12, <2>13
<1>9. PICK h : h = [x \in A |-> CHOOSE y \in A : \E f \in C : Pairs(C, x, f) /\ ~f.on /\ y.note = f.note /\ y # e]
  OBVIOUS
<1>10. ASSUME NEW x \in A
       PROVE  h[x] \in A \ {e} /\ \E f \in C : Pairs(C, x, f) /\ ~f.on /\ h[x].note = f.note
  <2>1. h[x] = CHOOSE y \in A : \E f \in C : Pairs(C, x, f) /\ ~f.on /\ y.note = f.note /\ y # e
    BY <1>9
  <2>2. h[x] \in A /\ \E f \in C : Pairs(C, x, f) /\ ~f.on /\ h[x].note = f.note /\ h[x] # e
    BY <1>8, <2>1
  <2> QED
    BY <2>2
<1>11. ASSUME NEW x \in A, NEW y \in A, h[x] = h[y]
       PROVE  x = y
  <2>1. PICK f \in C : Pairs(C, x, f) /\ ~f.on /\ h[x].note = f.note
    BY <1>10
  <2>2. PICK i \in C : Pairs(C, y, i) /\ ~i.on /\ h[y].note = i.note
    BY <1>10
  <2>3. f = i
    <3>1. f \in X /\ i \in X /\ f.on \in BOOLEAN /\ i.on \in BOOLEAN
      BY <1>1, <1>4 DEF EventSet, IsEvent
    <3> QED
      BY <1>1, <1>11, <2>1, <2>2, <3>1 DEF EventSet
  <2> QED
    BY <1>5, <1>6, <2>1, <2>2, <2>3, ClosesOne
<1>12. PICK Y : Y = {h[x] : x \in A}
  OBVIOUS
<1>13. IsFiniteSet(Y) /\ Cardinality(Y) = Cardinality(A)
  <2>1. \A x \in A : x \in DOMAIN h
    BY <1>9
  <2>2. \A x, y \in A : h[x] = h[y] => x = y
    BY <1>11
  <2> QED
    BY <1>7, <1>12, <2>1, <2>2, ImageSize
<1>14. Y \subseteq A \ {e}
  BY <1>10, <1>12
<1>15. IsFiniteSet(A \ {e}) /\ Cardinality(A \ {e}) = Cardinality(A) - 1
  BY <1>7, FS_RemoveElement
<1>16. Cardinality(Y) <= Cardinality(A \ {e})
  BY <1>14, <1>15, FS_Subset
<1> QED
  BY <1>7, <1>13, <1>15, <1>16, FS_CardinalityType

\* Notes of a channel that sound together are of one component.
LEMMA SameStart ==
  ASSUME NEW M, Written(M), NEW X, X = EventsOf(M), NEW G, G = Groups(X), NEW n \in M, NEW m \in M,
         n.channel = m.channel, n.start <= m.start, m.start < n.end,
         NEW g \in G, g.channel = n.channel, g.start = n.start,
         NEW h \in G, h.channel = m.channel, h.start = m.start
  PROVE  StartOf(G, g) = StartOf(G, h)
<1>1. Spans(G)
  BY WrittenSound, SoundClosed, GroupsSpan
<1>2. n.start \in Nat /\ m.start \in Nat /\ n.end \in Nat
  BY DEF Written, IsNote
<1>3. PICK t : t = StartOf(G, h)
  OBVIOUS
<1>4. /\ t \in ComponentStarts(G, h.channel) /\ t \in Nat /\ t <= h.start
      /\ \A s \in ComponentStarts(G, h.channel) : s <= h.start => s <= t
  BY <1>1, <1>3, StartIs
<1>5. t <= g.start
  <2> SUFFICES ASSUME n.start < t
               PROVE  FALSE
    BY <1>2, <1>4
  <2>1. t < n.end
    BY <1>2, <1>4
  <2>2. PICK k \in G : k.channel = n.channel /\ k.start < t /\ t < k.end
    BY <1>4, <2>1, Straddled
  <2>3. SpanEnd(k) = k.end
    <3>1. k.start \in Nat /\ k.end \in Nat /\ k.start < k.end
      BY <1>1 DEF Spans
    <3> QED
      BY <3>1 DEF SpanEnd
  <2> QED
    BY <1>4, <2>2, <2>3 DEF ComponentStarts
<1>6. ASSUME NEW s \in ComponentStarts(G, g.channel), s <= g.start
      PROVE  s <= t
  <2>1. s \in Nat
    BY <1>1 DEF ComponentStarts, Spans
  <2>2. s <= h.start
    BY <1>2, <1>6, <2>1
  <2> QED
    BY <1>4, <1>6, <2>2
<1>7. t \in ComponentStarts(G, g.channel)
  BY <1>4
<1> QED
  BY <1>1, <1>3, <1>5, <1>6, <1>7, StartOnly

\* The notes of one cycle of a source.
CycleOf(M, n) == {m \in M : m.track = n.track /\ m.source = n.source /\ m.cycle = n.cycle}

\* Where the cycles of a track lie one after another, a note-on is closed
\* within its cycle.
LEMMA KeyedApart ==
  ASSUME NEW M, Written(M), NEW X, X = EventsOf(M), NEW e \in X, e.on, NEW n \in M, n = e.note,
         NEW C, C = CycleOf(M, n), NEW b \in Nat, NEW w \in Nat, b <= w,
         \A m \in C : b <= m.start /\ m.end <= w,
         \A m \in M : m.track = n.track => m \in C \/ m.end <= b \/ w <= m.start
  PROVE  GroupOf(X, e) = GroupOf(EventsOf(C), e)
<1>1. PICK A0, Z0 : /\ A0 = {m \in M : m.track = n.track /\ m \notin C /\ m.end <= b}
                    /\ Z0 = {m \in M : m.track = n.track /\ m \notin C /\ w <= m.start}
  OBVIOUS
<1>2. PICK T : T = {m \in M : m.track = n.track}
  OBVIOUS
<1>3. A0 \subseteq M /\ Z0 \subseteq M /\ C \subseteq T /\ T \subseteq M /\ T = (A0 \cup C) \cup Z0
  BY <1>1, <1>2 DEF CycleOf
<1>4. ASSUME NEW R, R \subseteq M
      PROVE  Written(R)
  <2>1. IsFiniteSet(R)
    BY <1>4, FS_Subset DEF Written
  <2> QED
    BY <1>4, <2>1 DEF Written
<1>5. PICK A, B, Z, Y : A = EventsOf(A0) /\ B = EventsOf(C) /\ Z = EventsOf(Z0) /\ Y = EventsOf(T)
  OBVIOUS
<1>6. Y = (A \cup B) \cup Z
  BY <1>3, <1>5 DEF EventsOf
<1>7. EventSet(Y) /\ EventSet(A \cup B) /\ EventSet(A) /\ EventSet(B) /\ EventSet(Z)
  <2>1. EventSet(Y)
    BY <1>3, <1>4, <1>5, WrittenSound
  <2> QED
    BY <1>6, <2>1, EventSubset
<1>8. Closed(B)
  <2>1. Written(C)
    BY <1>3, <1>4
  <2>2. Sound(B)
    BY <1>5, <2>1, WrittenSound
  <2> QED
    BY <1>7, <2>2, SoundClosed
<1>9. ASSUME NEW R, R \subseteq M, NEW W \in Nat
      PROVE  /\ (\A m \in R : m.end <= W) => EndedBy(EventsOf(R), W)
             /\ (\A m \in R : W <= m.start) => BeginsAt(EventsOf(R), W)
  <2>1. ASSUME NEW x \in EventsOf(R)
        PROVE  \E m \in R : /\ m.start \in Nat /\ m.end \in Nat /\ m.start < m.end
                            /\ (x.on /\ x.tick = m.start) \/ (~x.on /\ x.tick = m.end)
    BY <1>9 DEF EventsOf, Written, IsNote
  <2>2. ASSUME \A m \in R : m.end <= W, NEW x \in EventsOf(R)
        PROVE  x.tick <= W /\ (x.on => x.tick < W)
    BY <2>1, <2>2
  <2>3. ASSUME \A m \in R : W <= m.start, NEW x \in EventsOf(R)
        PROVE  x.tick >= W /\ (~x.on => x.tick > W)
    BY <2>1, <2>3
  <2> QED
    BY <2>2, <2>3 DEF EndedBy, BeginsAt
<1>10. EndedBy(A, b) /\ BeginsAt(B, b) /\ EndedBy(A \cup B, w) /\ BeginsAt(Z, w)
  <2>1. EndedBy(A, b)
    BY <1>1, <1>3, <1>5, <1>9
  <2>2. BeginsAt(B, b)
    BY <1>3, <1>5, <1>9
  <2>3. BeginsAt(Z, w)
    BY <1>1, <1>3, <1>5, <1>9
  <2>4. \A m \in A0 \cup C : m.end <= w
    <3>1. \A m \in M : m.end \in Nat
      BY DEF Written, IsNote
    <3> QED
      BY <1>1, <1>3, <3>1
  <2>5. A \cup B = EventsOf(A0 \cup C)
    BY <1>5 DEF EventsOf
  <2>6. EndedBy(A \cup B, w)
    BY <1>3, <1>9, <2>4, <2>5
  <2> QED
    BY <2>1, <2>2, <2>3, <2>6
<1>11. Precedes(A, B) /\ Precedes(A \cup B, Z)
  BY <1>7, <1>10, WindowPrecedes
<1>12. e \in B
  <2>1. n \in C
    BY DEF CycleOf
  <2>2. e = [note |-> n, on |-> TRUE, tick |-> n.start]
    BY DEF EventsOf
  <2> QED
    BY <1>5, <2>1, <2>2 DEF EventsOf
<1>13. \A f \in A \cup B : Closes(A \cup B, e, f) <=> f \in B /\ Closes(B, e, f)
  BY <1>7, <1>11, <1>12, ClosesLater
<1>14. \E f \in A \cup B : Closes(A \cup B, e, f)
  BY <1>8, <1>12, <1>13 DEF Closed
<1>15. \A f \in (A \cup B) \cup Z : Closes((A \cup B) \cup Z, e, f) <=> f \in A \cup B /\ Closes(A \cup B, e, f)
  <2>1. PICK D : D = A \cup B
    OBVIOUS
  <2>2. EventSet(D \cup Z) /\ Precedes(D, Z) /\ e \in D /\ \E f \in D : Closes(D, e, f)
    BY <1>6, <1>7, <1>11, <1>12, <1>14, <2>1
  <2>3. \A f \in D \cup Z : Closes(D \cup Z, e, f) <=> f \in D /\ Closes(D, e, f)
    BY <2>2, ClosesEarlier
  <2> QED
    BY <2>1, <2>3
<1>16. Y = {x \in X : x.note.track = n.track}
  BY <1>2, <1>5 DEF EventsOf
<1>17. \A f \in X : Closes(X, e, f) <=> f \in Y /\ Closes(Y, e, f)
  <2>1. \A g : Between(X, e, g) = Between(Y, e, g)
    BY <1>16 DEF Between, Track
  <2>2. ASSUME NEW f \in X
        PROVE  Closes(X, e, f) <=> f \in Y /\ Closes(Y, e, f)
    <3>1. PICK I : I = Between(X, e, f) /\ I = Between(Y, e, f)
      BY <2>1
    <3>2. Track(f) = Track(e) => f \in Y
      BY <1>16 DEF Track
    <3> QED
      BY <2>1, <3>1, <3>2 DEF Closes
  <2> QED
    BY <2>2
<1>18. {f \in X : Closes(X, e, f)} = {f \in B : Closes(B, e, f)}
  <2>1. Y \subseteq X
    BY <1>16
  <2>2. \A f \in Y : Closes(Y, e, f) <=> f \in B /\ Closes(B, e, f)
    BY <1>6, <1>13, <1>15
  <2>3. B \subseteq Y
    BY <1>6
  <2> QED
    BY <1>17, <2>1, <2>2, <2>3
<1> QED
  BY <1>5, <1>18 DEF GroupOf

\* A stretch of its own for the cycle of a note.
Framed(M, n) ==
  \E b, w \in Nat :
    /\ b <= w
    /\ \A m \in CycleOf(M, n) : b <= m.start /\ m.end <= w
    /\ \A m \in M : m.track = n.track => m \in CycleOf(M, n) \/ m.end <= b \/ w <= m.start

\* The cycles of a track lie one after another.
LEMMA CyclesApart ==
  ASSUME NEW p, ValidProject(p), AllLast(p), CyclesMeet(p), NEW rt, RuntimeOK(p, rt), AllWhole(p, rt),
         NEW events, NEW target \in Nat, target % p.cycle = 0, NEW fault \in Faults(p) \cup {None},
         NEW out, out = RealizeUntil(p, rt, events, target, fault), NEW n \in out.notes
  PROVE  Framed(out.notes, n)
<1>1. PICK t \in DOMAIN p.tracks : t = n.track
  BY RealizeKeeps DEF Kept
<1>2. PICK until, e : until = rt.tracks[t].until /\ e = Part(out, t)
  OBVIOUS
<1>3. PICK L : Laid(p, t, until, target, e, L)
  BY <1>2, RealizeLaid
<1>4. PICK c \in Nat \ {0} : c = CycleLength(p, t)
  BY MeetsWindow
<1>5. ASSUME NEW m \in out.notes, m.track = t
      PROVE  \E l \in L : /\ m.source = l.source /\ m.cycle = l.cursor.cycle
                          /\ l.base \in Nat /\ l.base % c = 0
                          /\ m.start \in Nat /\ m.end \in Nat
                          /\ l.base <= m.start /\ m.end <= l.base + c
  <2>1. m \in e.notes
    BY <1>2, <1>5 DEF Part
  <2>2. PICK l \in L : m \in Take(p, t, l.source, l.cursor, l.base)
    BY <1>3, <2>1 DEF Laid
  <2>3. PICK x, cursor, base :
          /\ x = l.source /\ cursor = l.cursor /\ base = l.base
          /\ x \in Members(p, t) /\ cursor \in Cursor /\ base \in Nat /\ base % CycleLength(p, t) = 0
    BY <1>3 DEF Laid
  <2>4. PICK k : \A y \in Take(p, t, x, cursor, base) : \E o : PlacedAs(p, y, base, k, o)
    BY <2>3, TakePlaced
  <2>5. PICK o : PlacedAs(p, m, base, k, o)
    BY <2>2, <2>3, <2>4
  <2>6. m.start = base + o.on /\ m.end = base + o.off /\ o.on \in Nat /\ o.off \in Nat /\ o.off <= c
    BY <1>4, <1>5, <2>5 DEF PlacedAs
  <2>7. m.source = x /\ m.cycle = cursor.cycle
    BY <2>2, <2>3, TakeIs
  <2> QED
    BY <1>4, <2>3, <2>6, <2>7
<1>6. PICK l \in L : n.source = l.source /\ n.cycle = l.cursor.cycle /\ l.base \in Nat /\ l.base % c = 0
  BY <1>1, <1>5
<1>7. PICK b \in Nat, w \in Nat : b = l.base /\ w = b + c
  BY <1>6
<1>8. ASSUME NEW m \in CycleOf(out.notes, n)
      PROVE  b <= m.start /\ m.end <= w
  <2>1. m \in out.notes /\ m.track = t /\ m.source = n.source /\ m.cycle = n.cycle
    BY <1>1 DEF CycleOf
  <2>2. PICK j \in L : /\ m.source = j.source /\ m.cycle = j.cursor.cycle
                       /\ j.base <= m.start /\ m.end <= j.base + c
    BY <1>5, <2>1
  <2>3. l = j
    BY <1>3, <1>6, <2>1, <2>2 DEF Laid
  <2> QED
    BY <1>7, <2>2, <2>3
<1>9. ASSUME NEW m \in out.notes, m.track = n.track
      PROVE  m \in CycleOf(out.notes, n) \/ m.end <= b \/ w <= m.start
  <2>1. PICK j \in L : /\ m.source = j.source /\ m.cycle = j.cursor.cycle
                       /\ j.base \in Nat /\ j.base % c = 0
                       /\ m.start \in Nat /\ m.end \in Nat
                       /\ j.base <= m.start /\ m.end <= j.base + c
    BY <1>1, <1>5, <1>9
  <2>2. CASE j.base = b
    <3>1. j = l
      BY <1>3, <1>7, <2>2 DEF Laid
    <3> QED
      BY <1>6, <1>9, <2>1, <3>1 DEF CycleOf
  <2>3. CASE j.base < b
    <3>1. j.base + c <= b
      BY <1>4, <1>6, <1>7, <2>1, <2>3, WholeLater
    <3> QED
      BY <2>1, <3>1
  <2>4. CASE b < j.base
    <3>1. b + c <= j.base
      BY <1>4, <1>6, <1>7, <2>1, <2>4, WholeLater
    <3> QED
      BY <1>7, <2>1, <3>1
  <2> QED
    BY <2>1, <2>2, <2>3, <2>4
<1> QED
  BY <1>7, <1>8, <1>9 DEF Framed

\* The groups of a batch, all of which BatchKeys names.
Keyed(M) == \A g \in Groups(EventsOf(M)) : GroupKey(g) \in BatchKeys(M)

LEMMA RealizeKeyed ==
  ASSUME NEW p, ValidProject(p), AllLast(p), CyclesMeet(p), NEW rt, RuntimeOK(p, rt), AllWhole(p, rt),
         NEW events, NEW target \in Nat, target % p.cycle = 0, NEW fault \in Faults(p) \cup {None},
         NEW out, out = RealizeUntil(p, rt, events, target, fault), Written(out.notes)
  PROVE  Keyed(out.notes)
<1>1. PICK M : M = out.notes /\ Written(M)
  OBVIOUS
<1>2. PICK X : X = EventsOf(M) /\ \A x \in X : x.note \in M
  BY <1>1, WrittenSound
<1>3. ASSUME NEW g \in Groups(X)
      PROVE  GroupKey(g) \in BatchKeys(M)
  <2>1. PICK e \in X : e.on /\ g = GroupOf(X, e)
    BY DEF Groups
  <2>2. PICK n \in M : n = e.note
    BY <1>2
  <2>3. PICK C : C = CycleOf(M, n)
    OBVIOUS
  <2>4. PICK b, w : /\ b \in Nat /\ w \in Nat /\ b <= w
                    /\ \A m \in C : b <= m.start /\ m.end <= w
                    /\ \A m \in M : m.track = n.track => m \in C \/ m.end <= b \/ w <= m.start
    <3>1. n \in out.notes
      BY <1>1, <2>2
    <3>2. Framed(out.notes, n)
      BY <3>1, CyclesApart
    <3> QED
      BY <1>1, <2>3, <3>2 DEF Framed
  <2>5. GroupOf(X, e) = GroupOf(EventsOf(C), e)
    BY <1>1, <1>2, <2>1, <2>2, <2>3, <2>4, KeyedApart
  <2>6. e \in EventsOf(C)
    <3>1. n \in C
      BY <2>3 DEF CycleOf
    <3>2. e = [note |-> n, on |-> TRUE, tick |-> n.start]
      BY <1>2, <2>1, <2>2 DEF EventsOf
    <3> QED
      BY <3>1, <3>2 DEF EventsOf
  <2>7. g \in Groups(EventsOf(C))
    BY <2>1, <2>5, <2>6 DEF Groups
  <2> QED
    BY <2>3, <2>7 DEF BatchKeys, CycleOf
<1> QED
  BY <1>1, <1>2, <1>3 DEF Keyed

\* The policies that elect at most one track.
Electing == {"xor", "oneHigh", "randomOne", "alternate", "priorityOrder"}

LEMMA ElectsOne ==
  ASSUME NEW c, IsFiniteSet(TracksOf(c)), NEW ordinal, NEW config,
         config.policy \in Electing, config.matrix = {},
         NEW t \in PassedTracks(c, ordinal, config), NEW u \in PassedTracks(c, ordinal, config)
  PROVE  t = u
<1>1. PICK K : K = TracksOf(c) /\ IsFiniteSet(K)
  OBVIOUS
<1>2. PICK B : B = Allowed(config.policy, c.start, c.channel, K, config.active, config.rank, ordinal)
  OBVIOUS
<1>3. t \in B /\ u \in B
  <2> DEFINE Passes2(q) == UNION {Allowed(r.policy, c.start, c.channel, q, 2, config.rank, ordinal) :
                                    r \in RuleFor(config.matrix, q, c.channel)}
             pairs == {q \in kSubset(2, K) : RuleFor(config.matrix, q, c.channel) # {}}
  <2>1. PassedTracks(c, ordinal, config) =
          (B \cup UNION {Passes2(q) : q \in pairs}) \ UNION {q \ Passes2(q) : q \in pairs}
    BY <1>1, <1>2 DEF PassedTracks, MatrixAllowed
  <2>2. pairs = {}
    <3>1. \A q : RuleFor(config.matrix, q, c.channel) = {}
      BY DEF RuleFor
    <3> QED
      BY <3>1
  <2> HIDE DEF Passes2, pairs
  <2> QED
    BY <2>1, <2>2
<1>4. \A x, y \in K : Cardinality(K) = 1 => x = y
  BY <1>1, FS_Singleton
<1>5. CASE config.policy \in {"xor", "oneHigh"}
  <2>1. B = IF Cardinality(K) = 1 THEN K ELSE {}
    BY <1>2, <1>5 DEF Allowed
  <2> QED
    BY <1>3, <1>4, <2>1
<1>6. CASE config.policy = "randomOne"
  <2>1. PICK n : B = IF Cardinality(K) = 1 THEN K ELSE {NthTrack(K, n)}
    BY <1>2, <1>6 DEF Allowed
  <2> QED
    BY <1>3, <1>4, <2>1
<1>7. CASE config.policy = "alternate"
  <2>1. PICK n : B = IF Cardinality(K) = 1 THEN K ELSE {NthTrack(K, n)}
    BY <1>2, <1>7 DEF Allowed
  <2> QED
    BY <1>3, <1>4, <2>1
<1>8. CASE config.policy = "priorityOrder"
  <2>1. \E n : B = {n}
    BY <1>2, <1>8 DEF Allowed
  <2> QED
    BY <1>3, <2>1
<1> QED
  BY <1>5, <1>6, <1>7, <1>8 DEF Electing

\* Where two tracks sound, the pass is not skipped.
LEMMA TwoActive ==
  ASSUME NEW p, ValidProject(p), NEW t \in DOMAIN p.tracks, NEW u \in DOMAIN p.tracks, t # u,
         ~p.tracks[t].silent, ~p.tracks[u].silent
  PROVE  ConflictConfig(p).active > 1
<1>1. PICK A : A = {x \in DOMAIN p.tracks : ~p.tracks[x].silent}
  OBVIOUS
<1>2. IsFiniteSet(A)
  <2>1. IsFiniteSet(DOMAIN p.tracks) /\ A \subseteq DOMAIN p.tracks
    BY <1>1 DEF ValidProject
  <2> QED
    BY <2>1, FS_Subset
<1>3. Cardinality({t, u}) = 2 /\ {t, u} \subseteq A
  <2>1. IsFiniteSet({t}) /\ Cardinality({t}) = 1
    BY FS_Singleton
  <2>2. Cardinality({t} \cup {u}) = Cardinality({t}) + 1
    BY <2>1, FS_AddElement
  <2>3. {t} \cup {u} = {t, u}
    OBVIOUS
  <2> QED
    BY <1>1, <2>1, <2>2, <2>3
<1>4. Cardinality(A) >= 2 /\ Cardinality(A) \in Nat
  <2>1. Cardinality({t, u}) <= Cardinality(A)
    BY <1>2, <1>3, FS_Subset
  <2> QED
    BY <1>2, <1>3, <2>1, FS_CardinalityType
<1>5. ConflictConfig(p).active = Cardinality(A)
  BY <1>1 DEF ConflictConfig
<1> QED
  BY <1>4, <1>5

\* The group of a note, and where its note-on is.
LEMMA NoteGroup ==
  ASSUME NEW M, Written(M), NEW X, X = EventsOf(M), NEW n \in M
  PROVE  \E g \in Groups(X) : /\ g.on \in X /\ g.on.on /\ g.on.note = n
                              /\ g.track = n.track /\ g.channel = n.channel /\ g.start = n.start
                              /\ \A x \in X : x.on /\ x.note = n => x = g.on
<1>1. EventSet(X) /\ Closed(X)
  BY WrittenSound, SoundClosed
<1>2. PICK e : e = [note |-> n, on |-> TRUE, tick |-> n.start]
  OBVIOUS
<1>3. e \in X /\ e.on /\ e.note = n /\ e.tick = n.start
  BY <1>2 DEF EventsOf
<1>4. PICK g : g = GroupOf(X, e)
  OBVIOUS
<1>5. PICK f \in X : Closes(X, e, f)
  BY <1>1, <1>3 DEF Closed
<1>6. g = [track |-> Track(e), channel |-> Channel(e), voice |-> Voice(e),
           start |-> e.tick, end |-> f.tick, on |-> e, offs |-> {f}]
  BY <1>1, <1>3, <1>4, <1>5, GroupIs
<1>7. g \in Groups(X)
  BY <1>3, <1>4 DEF Groups
<1>8. g.on = e /\ g.track = n.track /\ g.channel = n.channel /\ g.start = n.start
  BY <1>3, <1>6 DEF Track, Channel
<1>9. \A x \in X : x.on /\ x.note = n => x = e
  BY <1>1, <1>3 DEF EventSet
<1> QED
  BY <1>3, <1>7, <1>8, <1>9

\* Notes of different tracks do not sound together on a channel.
Alone(N) ==
  \A n, m \in N : n.channel = m.channel /\ n.track # m.track => n.end <= m.start \/ m.end <= n.start

\* Of a window no two tracks sound together.
LEMMA WindowAlone ==
  ASSUME NEW M, Written(M), Keyed(M), NEW W \in Nat, \A n \in M : W <= n.start,
         NEW horizon \in Nat, horizon <= W, NEW resolved, NEW config,
         config.policy \in Electing, config.matrix = {},
         NEW T, IsFiniteSet(T), \A n \in M : n.track \in T,
         \A n, m \in M : n.track # m.track => config.active > 1,
         NEW r, r = ResolveConflicts(EventsOf(M), BatchKeys(M), horizon, resolved, config)
  PROVE  Alone(NotesIn(r.queue))
<1>1. PICK X, keys : X = EventsOf(M) /\ keys = BatchKeys(M)
  OBVIOUS
<1>2. EventSet(X) /\ Sound(X) /\ Closed(X) /\ \A x \in X : x.note \in M
  BY <1>1, WrittenSound, SoundClosed
<1>3. PICK decided, counted, silenced :
        /\ decided = Decided(X, keys, horizon, config)
        /\ counted = Counted(decided, resolved, config.cycle)
        /\ silenced = SilencedIn(decided, counted, config)
  OBVIOUS
<1>4. Ons(r.queue) = {x \in X : x.on /\ x \notin {g.on : g \in silenced}}
  <2>1. r = ResolveConflicts(X, keys, horizon, resolved, config)
    BY <1>1
  <2> QED
    BY <1>2, <1>3, <2>1, WindowHears
<1>5. PICK G : G = Groups(X) /\ Spans(G)
  BY <1>2, GroupsSpan
<1>6. ASSUME NEW n \in NotesIn(r.queue)
      PROVE  n \in M /\ \E g \in G : /\ g.track = n.track /\ g.channel = n.channel /\ g.start = n.start
                                     /\ g \notin silenced
  <2>1. PICK x \in X : x.on /\ x.note = n /\ x \notin {g.on : g \in silenced}
    BY <1>4 DEF NotesIn
  <2>2. n \in M
    BY <1>2, <2>1
  <2>3. PICK g \in G : /\ g.track = n.track /\ g.channel = n.channel /\ g.start = n.start
                       /\ \A y \in X : y.on /\ y.note = n => y = g.on
    BY <1>1, <1>5, <2>2, NoteGroup
  <2>4. x = g.on
    BY <2>1, <2>3
  <2> QED
    BY <2>1, <2>2, <2>3, <2>4
<1>7. ASSUME NEW g \in G
      PROVE  g.track \in T /\ W <= g.start
  <2>1. PICK e, f \in X :
           g = [track |-> Track(e), channel |-> Channel(e), voice |-> Voice(e),
                start |-> e.tick, end |-> f.tick, on |-> e, offs |-> {f}] /\ e.on
    BY <1>2, <1>5, GroupsClosed
  <2>2. PICK n \in M : n = e.note
    BY <1>2
  <2>3. g.track = n.track /\ g.start = e.tick
    BY <2>1, <2>2 DEF Track
  <2>4. e.tick = n.start
    <3>1. PICK k \in G : k.start = n.start /\ k.on.note = n /\ k.on.on /\ k.on \in X
                         /\ \A x \in X : x.on /\ x.note = n => x = k.on
      BY <1>1, <1>5, NoteGroup
    <3>2. e = k.on
      BY <2>1, <2>2, <3>1
    <3>3. PICK y, f2 \in X :
             k = [track |-> Track(y), channel |-> Channel(y), voice |-> Voice(y),
                  start |-> y.tick, end |-> f2.tick, on |-> y, offs |-> {f2}]
      BY <1>2, <1>5, GroupsClosed
    <3>4. k.start = y.tick /\ k.on = y
      BY <3>3
    <3> QED
      BY <3>1, <3>2, <3>4
  <2> QED
    BY <2>2, <2>3, <2>4
<1>8. ASSUME NEW n \in NotesIn(r.queue), NEW m \in NotesIn(r.queue),
             n.channel = m.channel, n.track # m.track, n.start <= m.start, m.start < n.end
      PROVE  FALSE
  <2>1. n \in M /\ m \in M
    BY <1>6
  <2>2. PICK g \in G : g.track = n.track /\ g.channel = n.channel /\ g.start = n.start /\ g \notin silenced
    BY <1>6
  <2>3. PICK h \in G : h.track = m.track /\ h.channel = m.channel /\ h.start = m.start /\ h \notin silenced
    BY <1>6
  <2>4. StartOf(G, g) = StartOf(G, h)
    BY <1>1, <1>5, <1>8, <2>1, <2>2, <2>3, SameStart
  <2>5. PICK c : c = ComponentOf(G, g) /\ c \in Components(G)
    BY <1>5, ComponentsAll
  <2>6. g \in c.groups /\ h \in c.groups /\ c.start = StartOf(G, g) /\ c.groups \subseteq G
    BY <1>8, <2>2, <2>3, <2>4, <2>5 DEF ComponentOf
  <2>7. c.start >= horizon
    <3>1. PICK k \in G : c.start = k.start
      <4>1. c.start \in ComponentStarts(G, g.channel)
        BY <1>5, <2>6, StartIs
      <4> QED
        BY <4>1 DEF ComponentStarts
    <3>2. W <= k.start /\ k.start \in Nat
      BY <1>5, <1>7 DEF Spans
    <3> QED
      BY <3>1, <3>2
  <2>8. c \in decided
    <3>1. GroupKey(g) \in keys
      BY <1>1, <1>5 DEF Keyed
    <3>2. c \in Resolvable(Components(G), keys, horizon)
      BY <2>5, <2>6, <2>7, <3>1 DEF Resolvable
    <3>3. config.active > 1
      BY <1>8, <2>1
    <3> QED
      BY <1>3, <1>5, <3>2, <3>3 DEF Decided
  <2>9. PICK ordinal : ordinal = OrdinalOf(c, counted, config.cycle)
    OBVIOUS
  <2>10. g.track \in PassedTracks(c, ordinal, config) /\ h.track \in PassedTracks(c, ordinal, config)
    BY <1>3, <2>2, <2>3, <2>6, <2>8, <2>9 DEF SilencedIn
  <2>11. IsFiniteSet(TracksOf(c))
    <3>1. TracksOf(c) \subseteq T
      BY <1>7, <2>6 DEF TracksOf
    <3> QED
      BY <3>1, FS_Subset
  <2>12. g.track = h.track
    BY <2>10, <2>11, ElectsOne
  <2> QED
    BY <1>8, <2>2, <2>3, <2>12
<1>9. \A n \in M : n.start \in Nat /\ n.end \in Nat
  BY DEF Written, IsNote
<1>10. ASSUME NEW n \in NotesIn(r.queue), NEW m \in NotesIn(r.queue), n.channel = m.channel, n.track # m.track
       PROVE  n.end <= m.start \/ m.end <= n.start
  <2>1. n \in M /\ m \in M
    BY <1>6
  <2>2. n.start \in Nat /\ n.end \in Nat /\ m.start \in Nat /\ m.end \in Nat
    BY <1>9, <2>1
  <2>3. CASE n.start <= m.start
    <3>1. ~(m.start < n.end)
      BY <1>8, <1>10, <2>3
    <3> QED
      BY <2>2, <3>1
  <2>4. CASE m.start <= n.start
    <3>1. ~(n.start < m.end)
      BY <1>8, <1>10, <2>4
    <3> QED
      BY <2>2, <3>1
  <2> QED
    BY <2>2, <2>3, <2>4
<1> QED
  BY <1>10 DEF Alone

\* What a realization adds to what is heard: notes of its own, which on a
\* channel with a policy that elects one track do not sound together.
Hears(p, S, Q, out) ==
  \E N : /\ N \subseteq out.notes
         /\ NotesIn(S \cup out.queue) = NotesIn(S \cup Q) \cup N
         /\ p.policy \in Electing /\ p.matrix = {} => Alone(N)

\* Every note is of a track that sounds.
Audible(p, M) == \A n \in M : n.track \in DOMAIN p.tracks /\ ~p.tracks[n.track].silent

LEMMA RealizeAudible ==
  ASSUME NEW p, ValidProject(p), CyclesMeet(p), NEW rt, RuntimeOK(p, rt), AllWhole(p, rt),
         NEW events, NEW target \in Nat, target % p.cycle = 0, NEW fault \in Faults(p) \cup {None},
         NEW out, out = RealizeUntil(p, rt, events, target, fault)
  PROVE  Audible(p, out.notes)
<1>1. ASSUME NEW n \in out.notes
      PROVE  n.track \in DOMAIN p.tracks /\ ~p.tracks[n.track].silent
  <2>1. PICK t \in DOMAIN p.tracks : t = n.track
    BY RealizeKeeps DEF Kept
  <2>2. PICK b, s : b = rt.tracks[t].until /\ s = Part(out, t)
    OBVIOUS
  <2>3. PICK L : Laid(p, t, b, target, s, L)
    BY <2>2, RealizeLaid
  <2>4. n \in s.notes
    BY <2>1, <2>2 DEF Part
  <2> QED
    BY <2>1, <2>3, <2>4 DEF Laid
<1> QED
  BY <1>1 DEF Audible

LEMMA RealizeHears ==
  ASSUME NEW S, NEW Q, InFlight(S, Q), Settled(S \cup Q), NEW W \in Nat, EndedBy(S \cup Q, W),
         NEW p, ValidProject(p), NEW rt, rt.horizon \in Nat, rt.horizon <= W,
         NEW target \in Nat, W <= target,
         NEW out, out = RealizeUntil(p, rt, Q, target, None),
         Written(out.notes), New(S \cup Q, out.notes), Within(out.notes, W, target),
         Keyed(out.notes), Audible(p, out.notes)
  PROVE  Hears(p, S, Q, out)
<1>1. PICK passed : passed = Passes(p, rt, target, None)
  OBVIOUS
<1>2. PICK M : M = UNION {passed[t].notes : t \in DOMAIN passed}
  OBVIOUS
<1>3. out.notes = M
  BY <1>1, <1>2 DEF RealizeUntil
<1>4. PICK horizon, resolved, config :
        horizon = rt.horizon /\ resolved = rt.resolved /\ config = ConflictConfig(p)
  OBVIOUS
<1>5. PICK r : r = ResolveConflicts(Q \cup EventsOf(M), BatchKeys(M), horizon, resolved, config)
  OBVIOUS
<1>6. out.queue = IF M = {} THEN Q ELSE r.queue
  BY <1>1, <1>2, <1>4, <1>5 DEF RealizeUntil
<1>7. CASE M = {}
  <2>1. PICK N : N = {}
    OBVIOUS
  <2>2. N \subseteq out.notes /\ NotesIn(S \cup out.queue) = NotesIn(S \cup Q) \cup N /\ Alone(N)
    BY <1>6, <1>7, <2>1 DEF Alone
  <2> QED
    BY <2>2 DEF Hears
<1>8. CASE M # {}
  <2>1. Written(M) /\ Within(M, W, target) /\ New(S \cup Q, M) /\ Keyed(M) /\ Audible(p, M)
    BY <1>3
  <2>2. PICK s : s = ResolveConflicts(EventsOf(M), BatchKeys(M), horizon, resolved, config)
    OBVIOUS
  <2>3. Beside(Q, s, r)
    BY <1>5, <2>1, <2>2, WindowJoins
  <2>4. out.queue = Q \cup s.queue
    BY <1>6, <1>8, <2>3 DEF Beside
  <2>5. PICK N : N = NotesIn(s.queue)
    OBVIOUS
  <2>6. NotesIn(S \cup (Q \cup s.queue)) = NotesIn(S \cup Q) \cup N
    BY <2>5 DEF NotesIn, Ons
  <2>7. N \subseteq M
    <3>1. PICK X, D, keys : X = EventsOf(M) /\ D = s.queue /\ keys = BatchKeys(M)
      OBVIOUS
    <3>2. EventSet(X) /\ Sound(X) /\ \A x \in X : x.note \in M
      BY <2>1, <3>1, WrittenSound
    <3>3. D = ResolveConflicts(X, keys, horizon, resolved, config).queue
      BY <2>2, <3>1
    <3>4. \A d \in D : \E x \in X : d.note = x.note
      BY <3>2, <3>3, WindowIs
    <3> QED
      BY <2>5, <3>1, <3>2, <3>4 DEF NotesIn, Ons
  <2>8. ASSUME p.policy \in Electing, p.matrix = {}
        PROVE  Alone(N)
    <3>1. config.policy \in Electing /\ config.matrix = {}
      <4>1. config.policy = p.policy
        BY <1>4 DEF ConflictConfig
      <4>2. config.matrix = {[pair |-> {IndexOf(p, id) : id \in x.pair}, channel |-> x.channel,
                              policy |-> x.policy] :
                             x \in {x \in p.matrix : x.pair \subseteq Ids(p) /\ Cardinality(x.pair) = 2}}
        BY <1>4 DEF ConflictConfig
      <4>3. {x \in p.matrix : x.pair \subseteq Ids(p) /\ Cardinality(x.pair) = 2} = {}
        BY <2>8
      <4> QED
        BY <2>8, <4>1, <4>2, <4>3
    <3>2. ASSUME NEW n \in M, NEW m \in M, n.track # m.track
          PROVE  config.active > 1
      <4>1. PICK t \in DOMAIN p.tracks, u \in DOMAIN p.tracks :
              t = n.track /\ u = m.track /\ t # u /\ ~p.tracks[t].silent /\ ~p.tracks[u].silent
        BY <2>1, <3>2 DEF Audible
      <4> QED
        BY <1>4, <4>1, TwoActive
    <3>3. PICK T : T = DOMAIN p.tracks /\ IsFiniteSet(T) /\ \A n \in M : n.track \in T
      BY <2>1 DEF Audible, ValidProject
    <3>4. \A n \in M : W <= n.start
      BY <2>1 DEF Within
    <3>5. horizon \in Nat /\ horizon <= W
      BY <1>4
    <3> QED
      BY <2>1, <2>2, <2>5, <3>1, <3>2, <3>3, <3>4, <3>5, WindowAlone
  <2> QED
    BY <1>3, <2>4, <2>6, <2>7, <2>8 DEF Hears
<1> QED
  BY <1>7, <1>8

\* Notes that have ended by a tick.
Over(N, W) == \A n \in N : n.end \in Nat /\ n.end <= W

LEMMA JoinAlone ==
  ASSUME NEW A, NEW B, NEW W \in Nat, Over(A, W), NEW target \in Nat, W <= target,
         NEW M, Written(M), Within(M, W, target), B \subseteq M
  PROVE  Over(A \cup B, target) /\ (Alone(A) /\ Alone(B) => Alone(A \cup B))
<1>1. \A n \in B : n.start \in Nat /\ n.end \in Nat /\ W <= n.start /\ n.end <= target
  BY DEF Written, IsNote, Within
<1>2. \A n \in A : n.end \in Nat /\ n.end <= W
  BY DEF Over
<1>3. ASSUME NEW n \in A \cup B
      PROVE  n.end \in Nat /\ n.end <= target
  BY <1>1, <1>2
<1>4. ASSUME NEW n \in A, NEW m \in B
      PROVE  n.end <= m.start
  BY <1>1, <1>2
<1>5. ASSUME Alone(A), Alone(B), NEW n \in A \cup B, NEW m \in A \cup B,
             n.channel = m.channel, n.track # m.track
      PROVE  n.end <= m.start \/ m.end <= n.start
  BY <1>4, <1>5 DEF Alone
<1> QED
  BY <1>3, <1>5 DEF Over, Alone

\* A playback that began by Play, was never edited and has lost no window.
Undisturbed == pristine /\ ~edited /\ failures = 0

\* The watermark is a reference cycle ahead of the playhead, so that the next
\* window is decided before it is reached, and all that is heard ends by it.
AloneInv ==
  /\ MeetInv
  /\ \A d \in Steps : d <= project.cycle
  /\ Undisturbed =>
       /\ tick + project.cycle <= watermark
       /\ Over(NotesIn(Events), watermark)
       /\ project.policy \in Electing /\ project.matrix = {} => Alone(NotesIn(Events))

LEMMA AloneInvImplies ==
  ASSUME AloneInv
  PROVE  ExclusiveChannel
<1> SUFFICES ASSUME Undisturbed, project.policy \in Electing, project.matrix = {},
                    NEW e \in Ons(Events), NEW f \in Ons(Events),
                    e.note.channel = f.note.channel, Track(e) # Track(f)
             PROVE  e.note.end <= f.note.start \/ f.note.end <= e.note.start
  BY DEF ExclusiveChannel, Undisturbed, Electing
<1>1. Alone(NotesIn(Events))
  BY DEF AloneInv
<1>2. PICK n, m \in NotesIn(Events) : n = e.note /\ m = f.note
  BY DEF NotesIn
<1>3. n.channel = m.channel /\ n.track # m.track
  BY <1>2 DEF Track
<1> QED
  BY <1>1, <1>2, <1>3 DEF Alone

\* The window realized while the playhead is at now.
LEMMA Lookahead ==
  ASSUME NEW c \in Nat \ {0}, NEW now \in Nat
  PROVE  now + c <= (now \div c + 2) * c
<1>1. PICK k \in Nat, m \in Nat : k = now \div c /\ m = now % c /\ m < c
  OBVIOUS
<1>2. now = k * c + m
  BY <1>1
<1>3. (k + 2) * c = k * c + 2 * c
  OBVIOUS
<1>4. k * c \in Nat
  OBVIOUS
<1>5. now + c <= k * c + 2 * c
  BY <1>1, <1>2, <1>4
<1> QED
  BY <1>1, <1>3, <1>5

\* A window joins what is heard.
LEMMA HearsAlone ==
  ASSUME NEW p, NEW S, NEW Q, NEW out, Hears(p, S, Q, out), NEW W \in Nat, NEW target \in Nat, W <= target,
         Written(out.notes), Within(out.notes, W, target),
         Over(NotesIn(S \cup Q), W), p.policy \in Electing /\ p.matrix = {} => Alone(NotesIn(S \cup Q))
  PROVE  /\ Over(NotesIn(S \cup out.queue), target)
         /\ p.policy \in Electing /\ p.matrix = {} => Alone(NotesIn(S \cup out.queue))
<1>1. PICK N : /\ N \subseteq out.notes
               /\ NotesIn(S \cup out.queue) = NotesIn(S \cup Q) \cup N
               /\ p.policy \in Electing /\ p.matrix = {} => Alone(N)
  BY DEF Hears
<1>2. PICK A, M : A = NotesIn(S \cup Q) /\ M = out.notes
  OBVIOUS
<1>3. Over(A \cup N, target) /\ (Alone(A) /\ Alone(N) => Alone(A \cup N))
  BY <1>1, <1>2, JoinAlone
<1> QED
  BY <1>1, <1>2, <1>3

LEMMA AlonePlay ==
  ASSUME AloneInv, NEW fault \in Faults(project) \cup {None}, Play(fault)
  PROVE  AloneInv'
<1>1. MeetInv /\ MeetInv'
  BY MeetPlay DEF AloneInv
<1>2. /\ ValidProject(project) /\ RuntimeOK(project, runtime) /\ AllLast(project) /\ CyclesMeet(project)
      /\ failures \in Nat
  <2>1. failures \in Nat
    BY <1>1, ParallelAssumption DEF MeetInv, BalanceInv, CyclesInv, TypeOK
  <2> QED
    BY <1>1, <2>1 DEF MeetInv, BalanceInv, CyclesInv
<1>3. PICK target \in Nat \ {0} : target = project.cycle /\ target % project.cycle = 0
  BY <1>2, OneCycle DEF ValidProject
<1>4. PICK rt : rt = FreshRuntime(project) /\ rt = [Reset(runtime) EXCEPT !.horizon = 0]
  BY <1>2, ResetIs
<1>5. /\ RuntimeOK(project, rt) /\ AllTimed(project, rt) /\ AllWhole(project, rt)
      /\ \A t \in DOMAIN project.tracks : 0 <= rt.tracks[t].until
  <2>1. RuntimeOK(project, rt) /\ AllTimed(project, rt) /\ AllWhole(project, rt)
    BY <1>2, <1>4, FreshRuntimeIs, FreshTimed, FreshWhole
  <2>2. ASSUME NEW t \in DOMAIN project.tracks
        PROVE  0 <= rt.tracks[t].until
    <3>1. rt.tracks[t].until \in Nat
      BY <2>1 DEF RuntimeOK, TrackOK
    <3> QED
      BY <3>1
  <2> QED
    BY <2>1, <2>2
<1>6. PICK out : /\ out = RealizeUntil(project, rt, {}, target, fault)
                 /\ fault # None => out.fails
                 /\ queue' = out.queue
                 /\ watermark' = IF out.fails THEN 0 ELSE target
                 /\ failures' = failures + (IF out.fails THEN 1 ELSE 0)
  BY <1>3, <1>4 DEF Play, Record
<1>7. project' = project /\ sent' = {} /\ tick' = 0
  BY DEF Play
<1>8. PICK S, Q, W : S = {} /\ Q = {} /\ W = 0 /\ W \in Nat /\ W <= target
  <2>1. 0 <= target
    BY <1>3
  <2> QED
    BY <2>1
<1>9. out = RealizeUntil(project, rt, Q, target, fault)
  BY <1>6, <1>8
<1>10. out.fails <=> fault # None
  <2>1. Kept(project, rt, target, fault, out)
    BY <1>2, <1>5, <1>9, RealizeKeeps
  <2> QED
    BY <1>6, <2>1 DEF Kept
<1>11. /\ Written(out.notes) /\ Within(out.notes, W, target) /\ Audible(project, out.notes)
       /\ Keyed(out.notes)
  <2>1. Written(out.notes)
    BY <1>2, <1>5, <1>9, RealizeTyped
  <2>2. \A t \in DOMAIN project.tracks : W <= rt.tracks[t].until
    BY <1>5, <1>8
  <2>3. Within(out.notes, W, target)
    BY <1>2, <1>3, <1>5, <1>8, <1>9, <2>2, RealizeWithin
  <2>4. Audible(project, out.notes)
    BY <1>2, <1>3, <1>5, <1>9, RealizeAudible
  <2>5. Keyed(out.notes)
    BY <1>2, <1>3, <1>5, <1>9, <2>1, RealizeKeyed
  <2> QED
    BY <2>1, <2>3, <2>4, <2>5
<1>12. S \cup Q = {} /\ S \cup out.queue = out.queue /\ NotesIn(S \cup Q) = {}
  BY <1>8 DEF NotesIn, Ons
<1>13. ASSUME fault = None
       PROVE  /\ Over(NotesIn(out.queue), target)
              /\ project.policy \in Electing /\ project.matrix = {} => Alone(NotesIn(out.queue))
  <2>1. InFlight(S, Q) /\ New(S \cup Q, out.notes)
    BY <1>8, <1>12, NothingInFlight DEF New
  <2>2. Settled(S \cup Q) /\ EndedBy(S \cup Q, W)
    BY <1>12, NothingSettled
  <2>3. rt.horizon \in Nat /\ rt.horizon <= W
    <3>1. rt.horizon = 0
      BY <1>4 DEF FreshRuntime
    <3> QED
      BY <1>8, <3>1
  <2>4. out = RealizeUntil(project, rt, Q, target, None)
    BY <1>9, <1>13
  <2>5. Hears(project, S, Q, out)
    BY <1>2, <1>3, <1>8, <1>11, <2>1, <2>2, <2>3, <2>4, RealizeHears
  <2>6. Over(NotesIn(S \cup Q), W) /\ Alone(NotesIn(S \cup Q))
    BY <1>12 DEF Over, Alone
  <2>7. /\ Over(NotesIn(S \cup out.queue), target)
        /\ project.policy \in Electing /\ project.matrix = {} => Alone(NotesIn(S \cup out.queue))
    BY <1>3, <1>8, <1>11, <2>5, <2>6, HearsAlone
  <2> QED
    BY <1>12, <2>7
<1>14. Events' = out.queue
  BY <1>6, <1>7 DEF Events
<1>15. NotesIn(Events)' = NotesIn(Events')
  BY DEF NotesIn, Ons
<1>16. ASSUME Undisturbed'
       PROVE  fault = None /\ watermark' = target /\ tick' + project.cycle <= watermark'
  <2>1. failures' = 0
    BY <1>16 DEF Undisturbed
  <2>2. ~out.fails
    BY <1>2, <1>6, <2>1
  <2> QED
    BY <1>3, <1>6, <1>7, <1>10, <2>2
<1>17. Over(NotesIn(Events), watermark)' <=> Over(NotesIn(Events'), watermark')
  BY <1>15 DEF Over
<1>18. Alone(NotesIn(Events))' <=> Alone(NotesIn(Events'))
  BY <1>15 DEF Alone
<1> QED
  BY <1>1, <1>7, <1>13, <1>14, <1>16, <1>17, <1>18 DEF AloneInv

LEMMA AloneTick ==
  ASSUME AloneInv, NEW fault \in Faults(project) \cup {None}, NEW d \in Steps, Tick(d, fault)
  PROVE  AloneInv'
<1>1. MeetInv /\ MeetInv' /\ BalanceInv
  BY MeetTick DEF AloneInv, MeetInv
<1>2. /\ ValidProject(project) /\ RuntimeOK(project, runtime) /\ AllLast(project) /\ CyclesMeet(project)
      /\ AllTimed(project, runtime) /\ AllWhole(project, runtime) /\ TypeOK
  BY DEF AloneInv, MeetInv, BalanceInv, CyclesInv
<1>3. project.cycle \in Nat \ {0}
  BY <1>2 DEF ValidProject
<1>4. PICK now \in Nat : now = tick + d /\ tick \in Nat /\ d \in Nat /\ d <= project.cycle
  BY <1>2, ParallelAssumption DEF TypeOK, AloneInv
<1>5. PICK target \in Nat : /\ target = (now \div project.cycle + 2) * project.cycle
                            /\ target % project.cycle = 0
                            /\ now + project.cycle <= target
  BY <1>3, WholeCycles, Lookahead
<1>6. PICK rt : rt = [runtime EXCEPT !.horizon = now]
  OBVIOUS
<1>7. /\ rt.tracks = runtime.tracks /\ RuntimeOK(project, rt) /\ AllTimed(project, rt)
      /\ AllWhole(project, rt) /\ rt.horizon = now
  <2>1. rt.tracks = runtime.tracks /\ DOMAIN rt = DOMAIN runtime /\ rt.horizon = now
    BY <1>2, <1>6 DEF RuntimeOK, RuntimeNames
  <2> QED
    BY <1>2, <2>1 DEF RuntimeOK, AllTimed, AllWhole
<1>8. /\ project' = project /\ pristine' = pristine /\ edited' = edited /\ tick' = now
      /\ failures' = failures + (IF fault # None THEN 1 ELSE 0) /\ failures \in Nat
  BY <1>2, <1>4, ParallelAssumption DEF Tick, TypeOK
<1>9. NotesIn(Events)' = NotesIn(Events')
  BY DEF NotesIn, Ons
<1>10. Over(NotesIn(Events), watermark)' <=> Over(NotesIn(Events'), watermark')
  BY <1>9 DEF Over
<1>11. Alone(NotesIn(Events))' <=> Alone(NotesIn(Events'))
  BY <1>9 DEF Alone
<1>12. SUFFICES ASSUME Undisturbed'
                PROVE  /\ now + project.cycle <= watermark'
                       /\ Over(NotesIn(Events'), watermark')
                       /\ project.policy \in Electing /\ project.matrix = {} => Alone(NotesIn(Events'))
  <2>1. \A e \in Steps : e <= project'.cycle
    BY <1>8 DEF AloneInv
  <2> QED
    BY <1>1, <1>8, <1>10, <1>11, <2>1 DEF AloneInv
<1>13. Undisturbed /\ fault = None
  BY <1>8, <1>12 DEF Undisturbed
<1>14. /\ cutoff = None /\ InFlight(sent, queue) /\ sent \cup queue = Events
       /\ Settled(sent \cup queue) /\ EndedBy(sent \cup queue, watermark)
       /\ tick + project.cycle <= watermark
       /\ Over(NotesIn(sent \cup queue), watermark)
       /\ project.policy \in Electing /\ project.matrix = {} => Alone(NotesIn(sent \cup queue))
  <2>1. sent \cup queue = Events
    BY DEF Events
  <2> QED
    BY <1>1, <1>13, <2>1 DEF AloneInv, MeetInv, BalanceInv, Sounding, Undisturbed
<1>15. CASE watermark < target
  <2>1. PICK out : /\ out = RealizeUntil(project, rt, queue, target, fault)
                   /\ fault # None => out.fails
                   /\ watermark' = IF out.fails THEN watermark ELSE target
                   /\ Dispatch(out.queue, now)
    BY <1>4, <1>5, <1>6, <1>15 DEF Tick
  <2>2. ~out.fails
    <3>1. Kept(project, rt, target, fault, out)
      BY <1>2, <1>7, <2>1, RealizeKeeps
    <3> QED
      BY <1>13, <3>1 DEF Kept
  <2>3. Written(out.notes) /\ Audible(project, out.notes) /\ Keyed(out.notes)
    <3>1. Written(out.notes)
      BY <1>2, <1>7, <2>1, RealizeTyped
    <3>2. Audible(project, out.notes)
      BY <1>2, <1>5, <1>7, <2>1, RealizeAudible
    <3>3. Keyed(out.notes)
      BY <1>2, <1>5, <1>7, <2>1, <3>1, RealizeKeyed
    <3> QED
      BY <3>1, <3>2, <3>3
  <2>4. PICK W \in Nat : W = watermark /\ W <= target
    BY <1>2, <1>15 DEF TypeOK
  <2>5. \A t \in DOMAIN project.tracks : W <= rt.tracks[t].until
    <3>1. ASSUME NEW t \in DOMAIN project.tracks
          PROVE  W <= rt.tracks[t].until
      <4>1. Kind(project, t) # "triggered"
        BY <1>2, MeetsAll
      <4>2. runtime.tracks[t].until >= watermark /\ runtime.tracks[t].until \in Nat
        BY <1>2, <4>1 DEF TypeOK, RuntimeOK, TrackOK
      <4> QED
        BY <1>7, <2>4, <4>2
    <3> QED
      BY <3>1
  <2>6. Within(out.notes, W, target)
    BY <1>2, <1>5, <1>7, <2>1, <2>5, RealizeWithin
  <2>7. PICK S, Q : S = sent /\ Q = queue
    OBVIOUS
  <2>8. /\ InFlight(S, Q) /\ Settled(S \cup Q) /\ EndedBy(S \cup Q, W)
        /\ Over(NotesIn(S \cup Q), W)
        /\ project.policy \in Electing /\ project.matrix = {} => Alone(NotesIn(S \cup Q))
        /\ out = RealizeUntil(project, rt, Q, target, None)
    BY <1>13, <1>14, <2>1, <2>4, <2>7
  <2>9. New(S \cup Q, out.notes)
    <3>1. Kept(project, rt, target, fault, out)
      BY <1>2, <1>7, <2>1, RealizeKeeps
    <3>2. PICK old : old = earlier \cup batch
      OBVIOUS
    <3>3. Behind(project, rt, old)
      BY <1>1, <1>7, <3>2 DEF BalanceInv, CyclesInv, Behind, Upcoming
    <3>4. Apart(out.notes, old)
      BY <1>2, <1>7, <3>1, <3>3, BehindGrows
    <3>5. \A e \in S \cup Q : e.note \in old
      BY <1>1, <1>13, <2>7, <3>2 DEF BalanceInv, Sounding, Undisturbed
    <3> QED
      BY <3>4, <3>5 DEF New, Apart
  <2>10. rt.horizon \in Nat /\ rt.horizon <= W
    <3>1. now <= W
      BY <1>3, <1>4, <1>14, <2>4
    <3> QED
      BY <1>7, <3>1
  <2>11. Hears(project, S, Q, out)
    BY <1>2, <2>3, <2>4, <2>6, <2>8, <2>9, <2>10, RealizeHears
  <2>12. /\ Over(NotesIn(S \cup out.queue), target)
         /\ project.policy \in Electing /\ project.matrix = {} => Alone(NotesIn(S \cup out.queue))
    BY <2>3, <2>4, <2>6, <2>8, <2>11, HearsAlone
  <2>13. Events' = S \cup out.queue
    <3>1. \A e \in out.queue : e.tick \in Nat
      <4>1. Joins(S, Q, out.notes, out.queue)
        BY <2>3, <2>8, <2>9, RealizeSound
      <4> QED
        BY <4>1 DEF Joins, EventSet, IsEvent
    <3>2. sent' \cup queue' = sent \cup out.queue
      BY <1>14, <2>1, <3>1, DispatchKeeps
    <3> QED
      BY <2>7, <3>2 DEF Events
  <2> QED
    BY <1>5, <2>1, <2>2, <2>12, <2>13
<1>16. CASE ~(watermark < target)
  <2>1. watermark' = watermark /\ Dispatch(queue, now)
    BY <1>4, <1>5, <1>16 DEF Tick
  <2>2. \A e \in queue : e.tick \in Nat
    BY <1>14 DEF InFlight, EventSet, IsEvent
  <2>3. sent' \cup queue' = sent \cup queue
    BY <1>14, <2>1, <2>2, DispatchKeeps
  <2>4. Events' = sent \cup queue
    BY <2>3 DEF Events
  <2>5. now + project.cycle <= watermark
    <3>1. watermark \in Nat
      BY <1>2 DEF TypeOK
    <3> QED
      BY <1>3, <1>5, <1>16, <3>1
  <2> QED
    BY <1>14, <2>1, <2>4, <2>5
<1> QED
  BY <1>15, <1>16

LEMMA AloneStep ==
  ASSUME NotesLast, StepsShort, \A p \in Projects : CyclesMeet(p), AloneInv, [Next]_vars
  PROVE  AloneInv'
<1>1. MeetInv'
  BY MeetStep DEF AloneInv
<1>2. ASSUME NEW fault \in Faults(project) \cup {None}, Play(fault)
      PROVE  AloneInv'
  BY <1>2, AlonePlay
<1>3. ASSUME NEW fault \in Faults(project) \cup {None}, NEW d \in Steps, Tick(d, fault)
      PROVE  AloneInv'
  BY <1>3, AloneTick
<1>4. CASE Stop
  <2>1. project' = project /\ ~Undisturbed'
    BY <1>4 DEF Stop, Undisturbed
  <2>2. \A d \in Steps : d <= project'.cycle
    BY <2>1 DEF AloneInv
  <2> QED
    BY <1>1, <2>1, <2>2 DEF AloneInv
<1>5. ASSUME NEW q \in Projects, ApplyInPlace(q)
      PROVE  AloneInv'
  <2>1. ~Undisturbed'
    BY <1>5 DEF ApplyInPlace, Undisturbed
  <2>2. project'.cycle = project.cycle
    <3>1. PICK p, w : p = project /\ w = InRunningOrder(project, q)
      OBVIOUS
    <3>2. ValidProject(p) /\ ValidProject(q) /\ AppliesForward(p, q) /\ project' = w /\ w = InRunningOrder(p, q)
      BY <1>5, <3>1, ParallelAssumption DEF ApplyInPlace, AloneInv, MeetInv, BalanceInv, CyclesInv
    <3>3. w.cycle = p.cycle
      BY <3>1, <3>2, AppliedIs
    <3> QED
      BY <3>1, <3>2, <3>3
  <2>3. \A d \in Steps : d <= project'.cycle
    BY <2>2 DEF AloneInv
  <2> QED
    BY <1>1, <2>1, <2>3 DEF AloneInv
<1>6. ASSUME NEW q \in Projects, Rebuild(q)
      PROVE  AloneInv'
  <2>1. project' = q /\ ~Undisturbed'
    BY <1>6 DEF Rebuild, Undisturbed
  <2>2. \A d \in Steps : d <= project'.cycle
    BY <2>1 DEF StepsShort
  <2> QED
    BY <1>1, <2>1, <2>2 DEF AloneInv
<1>7. CASE UNCHANGED vars
  <2>1. /\ project' = project /\ pristine' = pristine /\ edited' = edited /\ failures' = failures
        /\ sent' = sent /\ queue' = queue /\ watermark' = watermark /\ tick' = tick
    BY <1>7 DEF vars
  <2>2. Events' = Events /\ NotesIn(Events)' = NotesIn(Events)
    BY <2>1 DEF NotesIn, Ons, Events
  <2>3. Undisturbed' <=> Undisturbed
    BY <2>1 DEF Undisturbed
  <2>4. (Over(NotesIn(Events), watermark)' <=> Over(NotesIn(Events), watermark))
        /\ (Alone(NotesIn(Events))' <=> Alone(NotesIn(Events)))
    BY <2>1, <2>2 DEF Over, Alone
  <2> QED
    BY <1>1, <2>1, <2>3, <2>4 DEF AloneInv
<1> QED
  BY <1>2, <1>3, <1>4, <1>5, <1>6, <1>7 DEF Next

\* Under a policy that elects at most one track, no two tracks sound on a channel
\* at once, also across windows that were decided one after the other
\* (apply_parallel_channel_conflicts_for_keys).
THEOREM ChannelExclusive ==
  ASSUME NotesLast, StepsShort, \A p \in Projects : CyclesMeet(p)
  PROVE  Spec => []ExclusiveChannel
<1>1. AloneInv /\ [Next]_vars => AloneInv'
  BY AloneStep
<1>2. AloneInv => ExclusiveChannel
  BY AloneInvImplies
<1>3. Init => AloneInv
  <2>1. Init => MeetInv
    BY MeetInit
  <2>2. Init => project \in Projects /\ ~Undisturbed
    BY DEF Init, Undisturbed
  <2> QED
    BY <2>1, <2>2 DEF AloneInv, StepsShort
<1> QED
  BY <1>1, <1>2, <1>3, PTL DEF Spec

-----------------------------------------------------------------------------
(************************************************************************** *)
(* Window after window, or all at once                                     *)
(************************************************************************** *)

\* A turn more is an iteration more.
LEMMA TurnsNext ==
  ASSUME NEW p, NEW t, NEW begin, NEW target, NEW n \in Nat
  PROVE  TakeTurns(p, t, begin, target, n + 1) =
           Iterate(p, t, begin.until, target, TakeTurns(p, t, begin, target, n))
<1>1. PICK f : /\ f[0] = Unplayed(begin)
               /\ \A k \in 1 .. n : f[k] = Iterate(p, t, begin.until, target, f[k - 1])
               /\ f[n] = TakeTurns(p, t, begin, target, n)
  BY TurnsAre
<1>2. PICK g : /\ g[0] = Unplayed(begin)
               /\ \A k \in 1 .. n + 1 : g[k] = Iterate(p, t, begin.until, target, g[k - 1])
               /\ g[n + 1] = TakeTurns(p, t, begin, target, n + 1)
  <2>1. n + 1 \in Nat
    OBVIOUS
  <2> QED
    BY <2>1, TurnsAre
<1> DEFINE S == {k \in Nat : k <= n => f[k] = g[k]}
<1>3. 0 \in S
  BY <1>1, <1>2
<1>4. ASSUME NEW k \in Nat, k \in S
      PROVE  k + 1 \in S
  <2> SUFFICES ASSUME k + 1 <= n
               PROVE  f[k + 1] = g[k + 1]
    OBVIOUS
  <2>1. k + 1 \in 1 .. n /\ k + 1 \in 1 .. n + 1 /\ (k + 1) - 1 = k
    OBVIOUS
  <2>2. f[k] = g[k]
    BY <1>4
  <2>3. f[k + 1] = Iterate(p, t, begin.until, target, f[k])
    BY <1>1, <2>1
  <2>4. g[k + 1] = Iterate(p, t, begin.until, target, g[k])
    BY <1>2, <2>1
  <2> QED
    BY <2>2, <2>3, <2>4
<1>5. n \in S
  <2> HIDE DEF S
  <2> QED
    BY <1>3, <1>4, Inductive
<1>6. f[n] = g[n]
  BY <1>5
<1>7. n + 1 \in 1 .. n + 1 /\ (n + 1) - 1 = n
  OBVIOUS
<1>8. g[n + 1] = Iterate(p, t, begin.until, target, g[n])
  BY <1>2, <1>7
<1> QED
  BY <1>1, <1>2, <1>6, <1>8

LEMMA TurnsNone ==
  ASSUME NEW p, NEW t, NEW begin, NEW target
  PROVE  TakeTurns(p, t, begin, target, 0) = Unplayed(begin)
<1>1. PICK f : /\ f[0] = Unplayed(begin)
               /\ f[0] = TakeTurns(p, t, begin, target, 0)
  BY TurnsAre
<1> QED
  BY <1>1

\* A track that stands at the target takes no turn.
LEMMA IterateStops ==
  ASSUME NEW p, NEW t, Kind(p, t) # "triggered", NEW until, NEW target \in Nat, NEW s, s.r.until \in Nat,
         s.r.until >= target
  PROVE  Iterate(p, t, until, target, s) = s
BY DEF Iterate, HasTurn

\* What a turn makes of a state, whatever is asked of the track.
Played(p, t, s) ==
  [r |-> Turn(p, t, s.r).r, notes |-> s.notes \cup Turn(p, t, s.r).notes]

LEMMA IterateGoes ==
  ASSUME NEW p, NEW t, Kind(p, t) # "triggered", NEW until, NEW target, NEW s, s.r.until < target
  PROVE  Iterate(p, t, until, target, s) = Played(p, t, s)
BY DEF Iterate, HasTurn, Played

\* More turns than it takes change nothing.
LEMMA TurnsStop ==
  ASSUME NEW p, NEW t, Kind(p, t) # "triggered", NEW begin, NEW target \in Nat, NEW n \in Nat,
         NEW s, s = TakeTurns(p, t, begin, target, n), s.r.until \in Nat, s.r.until >= target,
         NEW m \in Nat, n <= m
  PROVE  TakeTurns(p, t, begin, target, m) = s
<1> DEFINE S == {k \in Nat : TakeTurns(p, t, begin, target, n + k) = s}
<1>1. 0 \in S
  <2>1. n + 0 = n
    OBVIOUS
  <2> QED
    BY <2>1
<1>2. ASSUME NEW k \in Nat, k \in S
      PROVE  k + 1 \in S
  <2>1. PICK j \in Nat : j = n + k /\ j + 1 = n + (k + 1)
    OBVIOUS
  <2>2. TakeTurns(p, t, begin, target, j) = s
    BY <1>2, <2>1
  <2>3. TakeTurns(p, t, begin, target, j + 1) = Iterate(p, t, begin.until, target, s)
    BY <2>2, TurnsNext
  <2>4. TakeTurns(p, t, begin, target, j + 1) = s
    BY <2>3, IterateStops
  <2> QED
    BY <2>1, <2>4
<1>3. PICK k \in Nat : k = m - n
  OBVIOUS
<1>4. k \in S
  <2> HIDE DEF S
  <2> QED
    BY <1>1, <1>2, Inductive
<1>5. n + k = m
  BY <1>3
<1> QED
  BY <1>4, <1>5

\* The turns on the way to a window's end are turns on the way beyond it.
LEMMA TurnsWithin ==
  ASSUME NEW p, NEW t, Kind(p, t) # "triggered", NEW begin, NEW W \in Nat, NEW target \in Nat, W <= target,
         \A n \in Nat : TakeTurns(p, t, begin, W, n).r.until \in Nat, NEW n \in Nat
  PROVE  \E m \in Nat : TakeTurns(p, t, begin, W, n) = TakeTurns(p, t, begin, target, m)
<1> DEFINE S == {k \in Nat : \E m \in Nat : TakeTurns(p, t, begin, W, k) = TakeTurns(p, t, begin, target, m)}
<1>1. 0 \in S
  BY TurnsNone
<1>2. ASSUME NEW k \in Nat, k \in S
      PROVE  k + 1 \in S
  <2>1. PICK m \in Nat : TakeTurns(p, t, begin, W, k) = TakeTurns(p, t, begin, target, m)
    BY <1>2
  <2>2. PICK s : s = TakeTurns(p, t, begin, W, k) /\ s = TakeTurns(p, t, begin, target, m) /\ s.r.until \in Nat
    BY <2>1
  <2>3. TakeTurns(p, t, begin, W, k + 1) = Iterate(p, t, begin.until, W, s)
    <3>1. TakeTurns(p, t, begin, W, k + 1) =
            Iterate(p, t, begin.until, W, TakeTurns(p, t, begin, W, k))
      BY TurnsNext
    <3> QED
      BY <2>2, <3>1
  <2>4. TakeTurns(p, t, begin, target, m + 1) = Iterate(p, t, begin.until, target, s)
    <3>1. TakeTurns(p, t, begin, target, m + 1) =
            Iterate(p, t, begin.until, target, TakeTurns(p, t, begin, target, m))
      BY TurnsNext
    <3> QED
      BY <2>2, <3>1
  <2>5. CASE s.r.until >= W
    <3>1. TakeTurns(p, t, begin, W, k + 1) = s
      BY <2>2, <2>3, <2>5, IterateStops
    <3> QED
      BY <2>2, <3>1
  <2>6. CASE s.r.until < W
    <3>1. s.r.until < target
      BY <2>2, <2>6
    <3>2. TakeTurns(p, t, begin, W, k + 1) = Played(p, t, s)
      BY <2>3, <2>6, IterateGoes
    <3>3. TakeTurns(p, t, begin, target, m + 1) = Played(p, t, s)
      BY <2>4, <3>1, IterateGoes
    <3>4. m + 1 \in Nat
      OBVIOUS
    <3> QED
      BY <3>2, <3>3, <3>4
  <2> QED
    BY <2>2, <2>5, <2>6
<1> HIDE DEF S
<1>3. n \in S
  BY <1>1, <1>2, Inductive
<1> QED
  BY <1>3 DEF S

\* What turns brought, and those after them.
Extends(s, u, v) == v.r = u.r /\ v.notes = s.notes \cup u.notes

\* Turns that go on where others ended.
LEMMA TurnsOn ==
  ASSUME NEW p, NEW t, Kind(p, t) # "triggered", NEW begin, NEW target \in Nat, NEW m \in Nat,
         NEW s, s = TakeTurns(p, t, begin, target, m), NEW n \in Nat,
         \A k \in Nat : TakeTurns(p, t, s.r, target, k).r.until \in Nat,
         NEW u, u = TakeTurns(p, t, s.r, target, n),
         NEW j, j = m + n, NEW v, v = TakeTurns(p, t, begin, target, j)
  PROVE  Extends(s, u, v)
<1> DEFINE A(k) == TakeTurns(p, t, s.r, target, k)
           B(k) == TakeTurns(p, t, begin, target, m + k)
           S == {k \in Nat : B(k).r = A(k).r /\ B(k).notes = s.notes \cup A(k).notes}
<1>1. 0 \in S
  <2>1. m + 0 = m
    OBVIOUS
  <2>2. A(0) = Unplayed(s.r) /\ B(0) = s
    BY <2>1, TurnsNone
  <2>3. A(0).r = s.r /\ A(0).notes = {}
    BY <2>2 DEF Unplayed
  <2> HIDE DEF A, B
  <2> QED
    BY <2>2, <2>3
<1>2. ASSUME NEW k \in Nat, k \in S
      PROVE  k + 1 \in S
  <2>1. PICK i \in Nat : i = m + k /\ i + 1 = m + (k + 1)
    OBVIOUS
  <2>2. PICK a, b : a = A(k) /\ b = B(k) /\ b.r = a.r /\ b.notes = s.notes \cup a.notes /\ a.r.until \in Nat
    BY <1>2
  <2>3. A(k + 1) = Iterate(p, t, s.r.until, target, a)
    BY <2>2, TurnsNext
  <2>4. B(k + 1) = Iterate(p, t, begin.until, target, b)
    <3>1. TakeTurns(p, t, begin, target, i + 1) =
            Iterate(p, t, begin.until, target, TakeTurns(p, t, begin, target, i))
      BY TurnsNext
    <3> QED
      BY <2>1, <2>2, <3>1
  <2> HIDE DEF A, B
  <2>5. CASE a.r.until >= target
    <3>1. A(k + 1) = a /\ B(k + 1) = b
      BY <2>2, <2>3, <2>4, <2>5, IterateStops
    <3> QED
      BY <2>2, <3>1
  <2>6. CASE a.r.until < target
    <3>1. A(k + 1) = Played(p, t, a) /\ B(k + 1) = Played(p, t, b)
      BY <2>2, <2>3, <2>4, <2>6, IterateGoes
    <3> QED
      BY <2>2, <3>1 DEF Played
  <2> QED
    BY <2>2, <2>5, <2>6
<1> HIDE DEF S
<1>3. n \in S
  BY <1>1, <1>2, Inductive
<1> QED
  BY <1>3 DEF S, Extends

\* As many turns as a pass may take bring a track to the target.
LEMMA TurnsArrive ==
  ASSUME NEW p, ValidProject(p), NEW t \in DOMAIN p.tracks, Kind(p, t) # "triggered",
         NEW begin, TrackOK(p.tracks[t], begin), NEW target \in Nat,
         NEW s, s = TakeTurns(p, t, begin, target, Enough(Kind(p, t), begin, target))
  PROVE  TrackOK(p.tracks[t], s.r) /\ s.r.until >= target
<1>1. PICK n \in Nat : n = Enough(Kind(p, t), begin, target) /\ begin.until + n >= target
  BY EnoughType
<1>2. Brought(p, t, begin, target, n, s)
  BY <1>1, TurnsKeep
<1>3. TrackOK(p.tracks[t], s.r) /\ (s.r.until >= target \/ s.r.until >= begin.until + n)
  BY <1>2 DEF Brought, Follows
<1>4. s.r.until \in Nat /\ begin.until \in Nat
  BY <1>3 DEF TrackOK
<1> QED
  BY <1>1, <1>3, <1>4

LEMMA TurnsTimes ==
  ASSUME NEW p, ValidProject(p), NEW t \in DOMAIN p.tracks,
         NEW begin, TrackOK(p.tracks[t], begin), NEW target \in Nat, NEW n \in Nat
  PROVE  TakeTurns(p, t, begin, target, n).r.until \in Nat
<1>1. PICK s : s = TakeTurns(p, t, begin, target, n)
  OBVIOUS
<1>2. Brought(p, t, begin, target, n, s)
  BY <1>1, TurnsKeep
<1>3. TrackOK(p.tracks[t], s.r)
  BY <1>2 DEF Brought, Follows
<1> QED
  BY <1>1, <1>3 DEF TrackOK

\* A track realized to a target by way of a window's end.
LEMMA TurnsMeet ==
  ASSUME NEW p, ValidProject(p), NEW t \in DOMAIN p.tracks, Kind(p, t) # "triggered",
         NEW begin, TrackOK(p.tracks[t], begin), NEW W \in Nat, NEW target \in Nat, W <= target,
         NEW kind, kind = Kind(p, t),
         NEW s, s = TakeTurns(p, t, begin, W, Enough(kind, begin, W)),
         NEW u, u = TakeTurns(p, t, s.r, target, Enough(kind, s.r, target)),
         NEW v, v = TakeTurns(p, t, begin, target, Enough(kind, begin, target))
  PROVE  Extends(s, u, v)
<1>1. TrackOK(p.tracks[t], s.r)
  BY TurnsArrive
<1>2. /\ TrackOK(p.tracks[t], u.r) /\ u.r.until >= target
      /\ TrackOK(p.tracks[t], v.r) /\ v.r.until >= target
  BY <1>1, TurnsArrive
<1>3. u.r.until \in Nat /\ v.r.until \in Nat
  BY <1>2 DEF TrackOK
<1>4. PICK a \in Nat, b \in Nat, c \in Nat :
        a = Enough(kind, begin, W) /\ b = Enough(kind, s.r, target) /\ c = Enough(kind, begin, target)
  BY <1>1, EnoughType
<1>5. \A n \in Nat : TakeTurns(p, t, begin, W, n).r.until \in Nat
  BY TurnsTimes
<1>6. PICK m \in Nat : s = TakeTurns(p, t, begin, target, m)
  <2>1. \E m \in Nat : TakeTurns(p, t, begin, W, a) = TakeTurns(p, t, begin, target, m)
    BY <1>5, TurnsWithin
  <2> QED
    BY <1>4, <2>1
<1>10. PICK d \in Nat : d = m + b
  OBVIOUS
<1>7. PICK w : w = TakeTurns(p, t, begin, target, d)
  OBVIOUS
<1>8. Extends(s, u, w)
  <2>1. \A k \in Nat : TakeTurns(p, t, s.r, target, k).r.until \in Nat
    BY <1>1, TurnsTimes
  <2>2. u = TakeTurns(p, t, s.r, target, b)
    BY <1>4
  <2> QED
    BY <1>6, <1>7, <1>10, <2>1, <2>2, TurnsOn
<1>9. w = v
  <2>1. v = TakeTurns(p, t, begin, target, c)
    BY <1>4
  <2>3. w = TakeTurns(p, t, begin, target, d)
    BY <1>7
  <2>4. CASE c <= d
    <3>1. TakeTurns(p, t, begin, target, d) = v
      BY <1>2, <1>3, <2>1, <2>4, TurnsStop
    <3> QED
      BY <2>3, <3>1
  <2>5. CASE d <= c
    <3>1. w.r.until \in Nat /\ w.r.until >= target
      BY <1>2, <1>3, <1>8 DEF Extends
    <3>2. TakeTurns(p, t, begin, target, c) = w
      BY <2>3, <2>5, <3>1, TurnsStop
    <3> QED
      BY <2>1, <3>2
  <2> QED
    BY <2>4, <2>5
<1> QED
  BY <1>8, <1>9

\* Nothing follows the track, and nothing is kept for followers.
LEMMA AdvanceIs ==
  ASSUME NEW p, NEW t, Kind(p, t) # "triggered", NEW r, NEW target, NEW cycles,
         NEW s, s = Advance(p, t, r, cycles, target, None),
         NEW e, e = TakeTurns(p, t, r, target, Enough(Kind(p, t), r, target))
  PROVE  s.r = e.r /\ s.notes = e.notes
<1>1. PICK fails :
        s = [notes |-> e.notes, short |-> fails,
             r |-> CASE Kind(p, t) = "triggered" -> [e.r EXCEPT !.until = Max({@, target})]
                     [] Kind(p, t) = "lane" /\ None # None /\ fails ->
                          [e.r EXCEPT !.walk = Choose(p.tracks[t].lane, @).walk]
                     [] OTHER -> e.r]
  BY DEF Advance
<1> QED
  BY <1>1

LEMMA PassesFree ==
  ASSUME NEW p, NEW rt, NEW target, \A t \in DOMAIN p.tracks : Kind(p, t) # "triggered",
         NEW passed, passed = Passes(p, rt, target, None)
  PROVE  /\ DOMAIN passed = DOMAIN p.tracks
         /\ \A t \in DOMAIN p.tracks : passed[t] = Advance(p, t, rt.tracks[t], {}, target, None)
BY DEF Passes

\* A turn of a track with no followers keeps none of its cycles for them.
LEMMA TurnBare ==
  ASSUME NEW p, NEW t, Kind(p, t) # "triggered", Followers(p, t) = {},
         NEW r, DOMAIN r = TrackNames, NEW s, s = Turn(p, t, r)
  PROVE  s.r.recent = r.recent
<1>1. CASE Kind(p, t) = "lane"
  <2>1. s = LaneCycle(p, t, r)
    BY <1>1 DEF Turn
  <2>2. PICK choice : choice = Choose(p.tracks[t].lane, r.walk)
    OBVIOUS
  <2>3. PICK n, source : n = Minimum(choice.state + 1, Len(r.cursors)) /\ source = p.tracks[t].sources[n]
    OBVIOUS
  <2>4. PICK e : e = [r EXCEPT !.until = @ + Ticks(source, r.cursors[n].cycle), !.cycle = @ + 1,
                               !.cursors[n] = Realized(@), !.walk = choice.walk]
    OBVIOUS
  <2>5. s.r = e
    <3>1. s = LaneTurn(p, t, r, choice)
      BY <2>1, <2>2 DEF LaneCycle
    <3>2. s.r = [r EXCEPT !.until = @ + Ticks(source, r.cursors[n].cycle), !.cycle = @ + 1,
                          !.cursors[n] = Realized(@), !.walk = choice.walk]
      BY <2>3, <3>1 DEF LaneTurn
    <3> QED
      BY <2>4, <3>2
  <2>6. e.recent = r.recent
    BY <2>4 DEF TrackNames
  <2> QED
    BY <2>5, <2>6
<1>2. CASE Kind(p, t) = "continuous"
  <2>1. s = ContinuousCycle(p, t, r)
    BY <1>2 DEF Turn
  <2>2. PICK source, notes : source = p.tracks[t].sources[1] /\ notes = Take(p, t, 1, r.cursors[1], r.until)
    OBVIOUS
  <2>3. PICK recent : recent = IF Followers(p, t) = {} THEN r.recent
                               ELSE r.recent \cup {Resolved(source, r.cursors[1], r.until, notes)}
    OBVIOUS
  <2>4. PICK e : e = [r EXCEPT !.until = @ + Ticks(source, r.cursors[1].cycle), !.cycle = @ + 1,
                               !.cursors[1] = Realized(@), !.recent = recent]
    OBVIOUS
  <2>5. s.r = e
    BY <2>1, <2>2, <2>3, <2>4 DEF ContinuousCycle
  <2>6. e.recent = r.recent
    BY <2>3, <2>4 DEF TrackNames
  <2> QED
    BY <2>5, <2>6
<1> QED
  BY <1>1, <1>2, KindIs

LEMMA TurnsBare ==
  ASSUME NEW p, ValidProject(p), NEW t \in DOMAIN p.tracks, Kind(p, t) # "triggered", Followers(p, t) = {},
         NEW begin, TrackOK(p.tracks[t], begin), begin.recent = {}, NEW target \in Nat, NEW count \in Nat
  PROVE  TakeTurns(p, t, begin, target, count).r.recent = {}
<1> DEFINE S == {n \in Nat : TakeTurns(p, t, begin, target, n).r.recent = {}}
<1>1. 0 \in S
  BY TurnsNone DEF Unplayed
<1>2. ASSUME NEW n \in Nat, n \in S
      PROVE  n + 1 \in S
  <2>1. PICK s : s = TakeTurns(p, t, begin, target, n) /\ s.r.recent = {}
    BY <1>2
  <2>2. Brought(p, t, begin, target, n, s)
    BY <2>1, TurnsKeep
  <2>3. DOMAIN s.r = TrackNames
    BY <2>2 DEF Brought, Follows, TrackOK
  <2>4. PICK e : e = TakeTurns(p, t, begin, target, n + 1) /\ e = Iterate(p, t, begin.until, target, s)
    BY <2>1, TurnsNext
  <2>5. CASE s.r.until < target
    <3>1. e = Played(p, t, s)
      BY <2>4, <2>5, IterateGoes
    <3>2. e.r = Turn(p, t, s.r).r
      BY <3>1 DEF Played
    <3>3. e.r.recent = s.r.recent
      BY <2>3, <3>2, TurnBare
    <3> QED
      BY <2>1, <2>4, <3>3
  <2>6. CASE ~(s.r.until < target)
    <3>1. e = s
      BY <2>4, <2>6 DEF Iterate, HasTurn
    <3> QED
      BY <2>1, <2>4, <3>1
  <2> QED
    BY <2>5, <2>6
<1> HIDE DEF S
<1>3. count \in S
  BY <1>1, <1>2, Inductive
<1> QED
  BY <1>3 DEF S

\* Runtimes in which no cycle is kept for followers.
Bare(p, rt) == \A t \in DOMAIN p.tracks : rt.tracks[t].recent = {}

\* Where the loops of the passes end, track by track.
EndsOf(p, tracks, target) ==
  [t \in DOMAIN p.tracks |-> TakeTurns(p, t, tracks[t], target, Enough(Kind(p, t), tracks[t], target))]

\* What a realization is of them.
Gathers(p, out, ends) ==
  /\ out.rt.tracks = [t \in DOMAIN p.tracks |-> ends[t].r]
  /\ out.notes = UNION {ends[t].notes : t \in DOMAIN p.tracks}
  /\ Bare(p, out.rt)

\* A realization that does not fail, of tracks nothing follows.
LEMMA RealizeFree ==
  ASSUME NEW p, ValidProject(p), CyclesMeet(p), NEW rt, RuntimeOK(p, rt), Bare(p, rt),
         NEW target \in Nat, NEW events, NEW out, out = RealizeUntil(p, rt, events, target, None),
         NEW ends, ends = EndsOf(p, rt.tracks, target)
  PROVE  Gathers(p, out, ends)
<1>1. PICK passed : passed = Passes(p, rt, target, None)
  OBVIOUS
<1>2. \A t \in DOMAIN p.tracks : Kind(p, t) # "triggered"
  BY MeetsAll
<1>3. /\ DOMAIN passed = DOMAIN p.tracks
      /\ \A t \in DOMAIN p.tracks : passed[t] = Advance(p, t, rt.tracks[t], {}, target, None)
  BY <1>1, <1>2, PassesFree
<1>4. ASSUME NEW t \in DOMAIN p.tracks
      PROVE  /\ passed[t].r = ends[t].r /\ passed[t].notes = ends[t].notes
             /\ TrackOK(p.tracks[t], ends[t].r) /\ ends[t].r.recent = {}
  <2>1. PICK r, e : /\ r = rt.tracks[t] /\ e = ends[t]
                    /\ e = TakeTurns(p, t, r, target, Enough(Kind(p, t), r, target))
    BY DEF EndsOf
  <2>2. passed[t] = Advance(p, t, r, {}, target, None)
    BY <1>3, <2>1
  <2>3. passed[t].r = e.r /\ passed[t].notes = e.notes
    BY <1>2, <2>1, <2>2, AdvanceIs
  <2>4. TrackOK(p.tracks[t], r) /\ r.recent = {}
    BY <2>1 DEF RuntimeOK, Bare
  <2>5. TrackOK(p.tracks[t], e.r)
    BY <1>2, <2>1, <2>4, TurnsArrive
  <2>6. Followers(p, t) = {}
    BY <1>2 DEF Followers
  <2>7. e.r.recent = {}
    <3>1. PICK n \in Nat : n = Enough(Kind(p, t), r, target)
      BY <2>4, EnoughType
    <3>2. TakeTurns(p, t, r, target, n).r.recent = {}
      BY <1>2, <2>4, <2>6, TurnsBare
    <3> QED
      BY <2>1, <3>1, <3>2
  <2> QED
    BY <2>1, <2>3, <2>5, <2>7
<1>5. PICK notes : notes = UNION {passed[t].notes : t \in DOMAIN passed}
  OBVIOUS
<1>6. PICK tracks : tracks = [t \in DOMAIN passed |-> Prune(p, passed[t].r, target)]
  OBVIOUS
<1>7. PICK resolved : out.rt = [rt EXCEPT !.tracks = tracks, !.resolved = resolved] /\ out.notes = notes
  BY <1>1, <1>5, <1>6 DEF RealizeUntil
<1>8. out.rt.tracks = tracks
  <2>1. DOMAIN rt = RuntimeNames
    BY DEF RuntimeOK
  <2> QED
    BY <1>7, <2>1 DEF RuntimeNames
<1>9. ASSUME NEW t \in DOMAIN p.tracks
      PROVE  Prune(p, passed[t].r, target) = ends[t].r
  <2>1. PICK r : r = ends[t].r /\ r.recent = {} /\ r = [n \in TrackNames |-> r[n]] /\ r = passed[t].r
    BY <1>4 DEF TrackOK
  <2>2. Prune(p, r, target) = [r EXCEPT !.recent = {}]
    <3>1. {c \in r.recent : c.end >= Monus(target, p.cycle + MaxAfterEvent(p))} = {}
      BY <2>1
    <3> QED
      BY <3>1 DEF Prune
  <2>3. [r EXCEPT !.recent = {}] = r
    BY <2>1 DEF TrackNames
  <2> QED
    BY <2>1, <2>2, <2>3
<1>10. tracks = [t \in DOMAIN p.tracks |-> ends[t].r]
  BY <1>3, <1>6, <1>9
<1>11. notes = UNION {ends[t].notes : t \in DOMAIN p.tracks}
  BY <1>3, <1>4, <1>5
<1>12. out.rt.tracks = [t \in DOMAIN p.tracks |-> ends[t].r]
  BY <1>8, <1>10
<1>13. ASSUME NEW t \in DOMAIN p.tracks
       PROVE  out.rt.tracks[t].recent = {}
  BY <1>4, <1>12
<1> QED
  BY <1>7, <1>11, <1>12, <1>13 DEF Gathers, Bare

\* A realization by way of a window's end.
LEMMA RealizeMeets ==
  ASSUME NEW p, ValidProject(p), CyclesMeet(p), NEW rt, RuntimeOK(p, rt), Bare(p, rt),
         NEW W \in Nat, NEW target \in Nat, W <= target,
         NEW A, NEW one, one = RealizeUntil(p, rt, A, W, None),
         NEW mid, RuntimeOK(p, mid), mid.tracks = one.rt.tracks,
         NEW B, NEW two, two = RealizeUntil(p, mid, B, target, None),
         NEW C, NEW all, all = RealizeUntil(p, rt, C, target, None)
  PROVE  all.rt.tracks = two.rt.tracks /\ all.notes = one.notes \cup two.notes
<1>1. PICK f, g, h : /\ f = EndsOf(p, rt.tracks, W)
                     /\ g = EndsOf(p, mid.tracks, target)
                     /\ h = EndsOf(p, rt.tracks, target)
  OBVIOUS
<1>2. Gathers(p, one, f)
  BY <1>1, RealizeFree
<1>3. Bare(p, mid)
  BY <1>2 DEF Gathers, Bare
<1>5. Gathers(p, two, g)
  BY <1>1, <1>3, RealizeFree
<1>7. Gathers(p, all, h)
  BY <1>1, RealizeFree
<1>8. ASSUME NEW t \in DOMAIN p.tracks
      PROVE  Extends(f[t], g[t], h[t])
  <2>1. PICK begin, kind, s, u, v : begin = rt.tracks[t] /\ kind = Kind(p, t) /\ s = f[t] /\ u = g[t] /\ v = h[t]
    OBVIOUS
  <2>2. TrackOK(p.tracks[t], begin)
    BY <2>1 DEF RuntimeOK
  <2>3. mid.tracks[t] = s.r
    BY <1>2, <2>1 DEF Gathers
  <2>4. s = TakeTurns(p, t, begin, W, Enough(kind, begin, W))
    BY <1>1, <2>1 DEF EndsOf
  <2>5. u = TakeTurns(p, t, s.r, target, Enough(kind, s.r, target))
    BY <1>1, <2>1, <2>3 DEF EndsOf
  <2>6. v = TakeTurns(p, t, begin, target, Enough(kind, begin, target))
    BY <1>1, <2>1 DEF EndsOf
  <2>7. Kind(p, t) # "triggered"
    BY MeetsAll
  <2>8. Extends(s, u, v)
    BY <2>1, <2>2, <2>4, <2>5, <2>6, <2>7, TurnsMeet
  <2> QED
    BY <2>1, <2>8
<1>9. all.rt.tracks = two.rt.tracks
  <2>1. \A t \in DOMAIN p.tracks : h[t].r = g[t].r
    BY <1>8 DEF Extends
  <2>2. [t \in DOMAIN p.tracks |-> h[t].r] = [t \in DOMAIN p.tracks |-> g[t].r]
    BY <2>1
  <2> QED
    BY <1>5, <1>7, <2>2 DEF Gathers
<1>10. PICK F, G, H : /\ F = UNION {f[t].notes : t \in DOMAIN p.tracks}
                      /\ G = UNION {g[t].notes : t \in DOMAIN p.tracks}
                      /\ H = UNION {h[t].notes : t \in DOMAIN p.tracks}
  OBVIOUS
<1>11. H = F \cup G
  <2>1. \A n : n \in F <=> \E t \in DOMAIN p.tracks : n \in f[t].notes
    BY <1>10
  <2>2. \A n : n \in G <=> \E t \in DOMAIN p.tracks : n \in g[t].notes
    BY <1>10
  <2>3. \A n : n \in H <=> \E t \in DOMAIN p.tracks : n \in h[t].notes
    BY <1>10
  <2>4. \A t \in DOMAIN p.tracks : h[t].notes = f[t].notes \cup g[t].notes
    BY <1>8 DEF Extends
  <2> QED
    BY <2>1, <2>2, <2>3, <2>4
<1> QED
  BY <1>2, <1>5, <1>7, <1>9, <1>10, <1>11 DEF Gathers

-----------------------------------------------------------------------------
(************************************************************************** *)
(* Windows decided one by one, or together                                 *)
(************************************************************************** *)

\* A tick before a whole cycle is in an earlier one.
LEMMA EarlierCycle ==
  ASSUME NEW c \in Nat \ {0}, NEW W \in Nat, W % c = 0, NEW s \in Nat, NEW x \in Nat, s < W, W <= x
  PROVE  s \div c < x \div c
<1>1. PICK j \in Nat : W = j * c
  BY Multiple
<1>2. PICK a \in Nat, m \in Nat : a = s \div c /\ m = s % c /\ m < c /\ s = a * c + m
  OBVIOUS
<1>3. PICK b \in Nat, n \in Nat : b = x \div c /\ n = x % c /\ n < c /\ x = b * c + n
  OBVIOUS
<1>4. a < j
  <2> SUFFICES ASSUME j <= a
               PROVE  FALSE
    BY <1>2
  <2>1. j * c <= a * c
    BY <1>2
  <2> QED
    BY <1>1, <1>2, <2>1
<1>5. j <= b
  <2> SUFFICES ASSUME b + 1 <= j
               PROVE  FALSE
    BY <1>3
  <2>1. (b + 1) * c <= j * c
    BY <1>3
  <2>2. (b + 1) * c = b * c + c
    BY <1>3
  <2> QED
    BY <1>1, <1>3, <2>1, <2>2
<1> QED
  BY <1>2, <1>3, <1>4, <1>5

\* Every component is decided whose groups are all of the batch and ahead.
LEMMA DecidesAll ==
  ASSUME NEW X, NEW G, G = Groups(X), Spans(G), NEW keys, \A g \in G : GroupKey(g) \in keys,
         NEW horizon \in Nat, \A g \in G : horizon <= g.start, NEW config
  PROVE  Decided(X, keys, horizon, config) = IF config.active > 1 THEN Components(G) ELSE {}
<1>1. ASSUME NEW c \in Components(G)
      PROVE  (\E g \in c.groups : GroupKey(g) \in keys) /\ c.start >= horizon
  <2>1. PICK g \in G : c = ComponentOf(G, g)
    BY <1>1, ComponentsAll
  <2>2. g \in c.groups /\ c.start = StartOf(G, g)
    BY <2>1 DEF ComponentOf
  <2>3. PICK h \in G : c.start = h.start
    <3>1. c.start \in ComponentStarts(G, g.channel)
      BY <2>2, StartIs
    <3> QED
      BY <3>1 DEF ComponentStarts
  <2>4. h.start \in Nat /\ horizon <= h.start
    BY <2>3 DEF Spans
  <2> QED
    BY <2>2, <2>3, <2>4
<1>2. Resolvable(Components(G), keys, horizon) = Components(G)
  BY <1>1 DEF Resolvable
<1> QED
  BY <1>2 DEF Decided

\* A component starts with one of its groups.
LEMMA ComponentBegins ==
  ASSUME NEW G, Spans(G), NEW c \in Components(G)
  PROVE  \E g \in G : c.start = g.start /\ g.start \in Nat
<1>1. PICK g \in G : c = ComponentOf(G, g)
  BY ComponentsAll
<1>2. c.start = StartOf(G, g)
  BY <1>1 DEF ComponentOf
<1>3. c.start \in ComponentStarts(G, g.channel)
  BY <1>2, StartIs
<1> QED
  BY <1>3 DEF ComponentStarts, Spans

\* Collisions counted in the cycles before a tick.
Before(resolved, W, cycle) == \A p \in resolved : \E s \in Nat : s < W /\ p[2] = s \div cycle

\* What was counted before the window does not number its collisions, and what
\* is counted in it does not number those before.
LEMMA OrdinalsApart ==
  ASSUME NEW cycle \in Nat \ {0}, NEW W \in Nat, W % cycle = 0,
         NEW K, \A c \in K : c.start \in Nat /\ c.start < W,
         NEW L, \A c \in L : c.start \in Nat /\ W <= c.start,
         NEW resolved, Before(resolved, W, cycle),
         NEW k, k = Counted(K, {}, cycle), NEW l, l = Counted(L, resolved, cycle),
         NEW n, n = Counted(K \cup L, {}, cycle)
  PROVE  /\ \A c \in K : OrdinalOf(c, n, cycle) = OrdinalOf(c, k, cycle)
         /\ \A c \in L : OrdinalOf(c, n, cycle) = OrdinalOf(c, l, cycle)
<1>1. PICK A, B : /\ A = {PlaceOf(c, cycle) : c \in {c \in K : Collided(c)}}
                  /\ B = {PlaceOf(c, cycle) : c \in {c \in L : Collided(c)}}
  OBVIOUS
<1>2. k = A /\ l = resolved \cup B /\ n = A \cup B
  BY <1>1 DEF Counted
<1>3. \A p \in A : \E s \in Nat : s < W /\ p[2] = s \div cycle
  BY <1>1 DEF PlaceOf
<1>4. \A p \in B : \E s \in Nat : W <= s /\ p[3] = s
  BY <1>1 DEF PlaceOf
<1> DEFINE Precedent(c, p) == p = <<c.channel, c.start \div cycle, p[3]>> /\ p[3] < c.start
<1>5. ASSUME NEW c, NEW N
      PROVE  OrdinalOf(c, N, cycle) = Cardinality({p \in N : Precedent(c, p)})
  BY DEF OrdinalOf
<1>6. ASSUME NEW c \in K, NEW p \in B
      PROVE  ~Precedent(c, p)
  <2>1. PICK s \in Nat, x \in Nat : W <= s /\ p[3] = s /\ x = c.start /\ x < W
    BY <1>4
  <2> QED
    BY <2>1
<1>7. ASSUME NEW c \in L, NEW p, NEW s \in Nat, s < W, p[2] = s \div cycle
      PROVE  ~Precedent(c, p)
  <2>1. PICK x \in Nat : x = c.start /\ W <= x
    OBVIOUS
  <2>2. s \div cycle < x \div cycle /\ s \div cycle \in Nat /\ x \div cycle \in Nat
    <3>1. s \div cycle < x \div cycle
      BY <1>7, <2>1, EarlierCycle
    <3>2. s \div cycle \in Nat /\ x \div cycle \in Nat
      OBVIOUS
    <3> QED
      BY <3>1, <3>2
  <2>3. p[2] # c.start \div cycle
    BY <1>7, <2>1, <2>2
  <2> QED
    BY <2>3
<1>8. ASSUME NEW c \in L, NEW p \in A \cup resolved
      PROVE  ~Precedent(c, p)
  <2>1. PICK s \in Nat : s < W /\ p[2] = s \div cycle
    BY <1>3 DEF Before
  <2> QED
    BY <1>7, <2>1
<1> HIDE DEF Precedent
<1>9. ASSUME NEW c \in K
      PROVE  OrdinalOf(c, n, cycle) = OrdinalOf(c, k, cycle)
  <2>1. {p \in n : Precedent(c, p)} = {p \in k : Precedent(c, p)}
    BY <1>2, <1>6
  <2> QED
    BY <1>5, <2>1
<1>10. ASSUME NEW c \in L
       PROVE  OrdinalOf(c, n, cycle) = OrdinalOf(c, l, cycle)
  <2>1. {p \in n : Precedent(c, p)} = {p \in l : Precedent(c, p)}
    BY <1>2, <1>8
  <2> QED
    BY <1>5, <2>1
<1> QED
  BY <1>9, <1>10

LEMMA SilencedApart ==
  ASSUME NEW config, NEW K, NEW L, NEW k, NEW l, NEW n,
         \A c \in K : OrdinalOf(c, n, config.cycle) = OrdinalOf(c, k, config.cycle),
         \A c \in L : OrdinalOf(c, n, config.cycle) = OrdinalOf(c, l, config.cycle)
  PROVE  SilencedIn(K \cup L, n, config) = SilencedIn(K, k, config) \cup SilencedIn(L, l, config)
<1> DEFINE Hushed(c, m) == {g \in c.groups : g.track \notin PassedTracks(c, OrdinalOf(c, m, config.cycle), config)}
<1>1. ASSUME NEW M, NEW m
      PROVE  SilencedIn(M, m, config) = UNION {Hushed(c, m) : c \in M}
  BY DEF SilencedIn
<1>2. \A c \in K : Hushed(c, n) = Hushed(c, k)
  OBVIOUS
<1>3. \A c \in L : Hushed(c, n) = Hushed(c, l)
  OBVIOUS
<1> HIDE DEF Hushed
<1>4. PICK P, Q, R : /\ P = SilencedIn(K, k, config) /\ Q = SilencedIn(L, l, config)
                     /\ R = SilencedIn(K \cup L, n, config)
  OBVIOUS
<1>5. \A g : g \in P <=> \E c \in K : g \in Hushed(c, k)
  BY <1>1, <1>4
<1>6. \A g : g \in Q <=> \E c \in L : g \in Hushed(c, l)
  BY <1>1, <1>4
<1>7. \A g : g \in R <=> \E c \in K \cup L : g \in Hushed(c, n)
  BY <1>1, <1>4
<1>8. R = P \cup Q
  BY <1>2, <1>3, <1>5, <1>6, <1>7
<1> QED
  BY <1>4, <1>8

LEMMA EventsOfBoth ==
  ASSUME NEW S, NEW T
  PROVE  EventsIn(S \cup T) = EventsIn(S) \cup EventsIn(T)
BY DEF EventsIn

\* Components of what has ended by a tick, and of what begins at it.
LEMMA ComponentsEnded ==
  ASSUME NEW X, EventSet(X), Closed(X), NEW G, G = Groups(X), NEW W \in Nat
  PROVE  /\ EndedBy(X, W) => /\ \A g \in G : g.end <= W
                             /\ \A c \in Components(G) : c.start \in Nat /\ c.start < W
         /\ BeginsAt(X, W) => /\ \A g \in G : W <= g.start
                              /\ \A c \in Components(G) : c.start \in Nat /\ W <= c.start
<1>1. Spans(G) /\ \A g \in G : (\E e \in X : e.on /\ g.start = e.tick) /\ (\E f \in X : ~f.on /\ g.end = f.tick)
  BY GroupsSpan
<1>2. \A e \in X : e.tick \in Nat
  BY DEF EventSet, IsEvent
<1>3. \A c \in Components(G) : \E g \in G : c.start = g.start /\ g.start \in Nat
  BY <1>1, ComponentBegins
<1>4. ASSUME EndedBy(X, W)
      PROVE  \A g \in G : g.end <= W /\ g.start < W
  BY <1>1, <1>2, <1>4 DEF EndedBy
<1>5. ASSUME BeginsAt(X, W)
      PROVE  \A g \in G : W <= g.start
  BY <1>1, <1>2, <1>5 DEF BeginsAt
<1> QED
  BY <1>3, <1>4, <1>5

\* A queue that two queues make.
Joint(a, b, c) == c.queue = a.queue \cup b.queue

\* Two windows, the second of which begins where all of the first has ended,
\* are decided one after the other as they are together.
LEMMA PassSplits ==
  ASSUME NEW A, NEW B, EventSet(A \cup B), Sound(A), Sound(B),
         NEW W \in Nat, EndedBy(A, W), BeginsAt(B, W),
         NEW config, config.cycle \in Nat \ {0}, W % config.cycle = 0,
         NEW keysA, \A g \in Groups(A) : GroupKey(g) \in keysA,
         NEW keysB, \A g \in Groups(B) : GroupKey(g) \in keysB,
         NEW keys, \A g \in Groups(A \cup B) : GroupKey(g) \in keys,
         NEW horizon \in Nat, horizon <= W, NEW resolved, Before(resolved, W, config.cycle),
         NEW a, a = ResolveConflicts(A, keysA, 0, {}, config),
         NEW b, b = ResolveConflicts(B, keysB, horizon, resolved, config),
         NEW c, c = ResolveConflicts(A \cup B, keys, 0, {}, config)
  PROVE  Joint(a, b, c)
<1>1. EventSet(A) /\ EventSet(B) /\ Closed(A) /\ Closed(B) /\ Precedes(A, B)
  BY EventSubset, SoundClosed, WindowPrecedes
<1>2. PICK X : X = A \cup B /\ EventSet(X)
  OBVIOUS
<1>3. PICK G, H : G = Groups(A) /\ H = Groups(B)
  OBVIOUS
<1>4. Groups(X) = G \cup H
  BY <1>1, <1>2, <1>3, GroupsSplit
<1>5. Spans(G) /\ Spans(H) /\ Spans(G \cup H)
  <2>1. Spans(G) /\ Spans(H)
    BY <1>1, <1>3, GroupsSpan
  <2> QED
    BY <2>1 DEF Spans
<1>6. /\ \A g \in G : g.end <= W
      /\ \A d \in Components(G) : d.start \in Nat /\ d.start < W
  BY <1>1, <1>3, ComponentsEnded
<1>7. /\ \A h \in H : W <= h.start
      /\ \A d \in Components(H) : d.start \in Nat /\ W <= d.start
  BY <1>1, <1>3, ComponentsEnded
<1>8. Components(G \cup H) = Components(G) \cup Components(H)
  BY <1>5, <1>6, <1>7, ComponentsUnion
<1>9. PICK K, L : /\ K = Decided(A, keysA, 0, config)
                  /\ L = Decided(B, keysB, horizon, config)
  OBVIOUS
<1>10. PICK D : D = Decided(X, keys, 0, config)
  OBVIOUS
<1>11. K = IF config.active > 1 THEN Components(G) ELSE {}
  <2>1. PICK zero \in Nat : zero = 0
    OBVIOUS
  <2>2. \A g \in G : zero <= g.start
    BY <1>5, <2>1 DEF Spans
  <2>3. K = Decided(A, keysA, zero, config)
    BY <1>9, <2>1
  <2> QED
    BY <1>3, <1>5, <2>2, <2>3, DecidesAll
<1>12. L = IF config.active > 1 THEN Components(H) ELSE {}
  <2>1. \A h \in H : horizon <= h.start
    BY <1>5, <1>7 DEF Spans
  <2> QED
    BY <1>3, <1>5, <1>9, <2>1, DecidesAll
<1>13. D = IF config.active > 1 THEN Components(G \cup H) ELSE {}
  <2>1. PICK J : J = G \cup H /\ J = Groups(X) /\ Spans(J)
    BY <1>4, <1>5
  <2>2. PICK zero \in Nat : zero = 0
    OBVIOUS
  <2>3. \A g \in J : zero <= g.start
    BY <2>1, <2>2 DEF Spans
  <2>4. \A g \in J : GroupKey(g) \in keys
    BY <1>2, <2>1
  <2>5. D = Decided(X, keys, zero, config)
    BY <1>10, <2>2
  <2>6. D = IF config.active > 1 THEN Components(J) ELSE {}
    BY <2>1, <2>3, <2>4, <2>5, DecidesAll, ZenonT(60)
  <2> QED
    BY <2>1, <2>6
<1>14. D = K \cup L
  BY <1>8, <1>11, <1>12, <1>13
<1>15. PICK cycle \in Nat \ {0} : cycle = config.cycle /\ W % cycle = 0
  OBVIOUS
<1>16. PICK k, l, n : /\ k = Counted(K, {}, cycle)
                      /\ l = Counted(L, resolved, cycle)
                      /\ n = Counted(K \cup L, {}, cycle)
  OBVIOUS
<1>17. /\ \A d \in K : OrdinalOf(d, n, cycle) = OrdinalOf(d, k, cycle)
       /\ \A d \in L : OrdinalOf(d, n, cycle) = OrdinalOf(d, l, cycle)
  <2>1. \A d \in K : d.start \in Nat /\ d.start < W
    BY <1>6, <1>11
  <2>2. \A d \in L : d.start \in Nat /\ W <= d.start
    BY <1>7, <1>12
  <2>3. Before(resolved, W, cycle) /\ W % cycle = 0 /\ cycle \in Nat \ {0}
    BY <1>15
  <2> QED
    BY <1>16, <2>1, <2>2, <2>3, OrdinalsApart
<1>18. PICK P, Q, R : /\ P = SilencedIn(K, k, config) /\ Q = SilencedIn(L, l, config)
                      /\ R = SilencedIn(K \cup L, n, config)
  OBVIOUS
<1>19. R = P \cup Q
  <2>1. /\ \A d \in K : OrdinalOf(d, n, config.cycle) = OrdinalOf(d, k, config.cycle)
        /\ \A d \in L : OrdinalOf(d, n, config.cycle) = OrdinalOf(d, l, config.cycle)
    BY <1>15, <1>17
  <2> QED
    BY <1>18, <2>1, SilencedApart
<1>20. a.queue = Defer(A \ EventsIn(P)) /\ P \subseteq G
  <2>1. P = SilencedIn(Decided(A, keysA, 0, config), k, config)
    BY <1>9, <1>18
  <2>2. P \subseteq Groups(A)
    BY <2>1, SilencedGroups
  <2> QED
    BY <1>3, <1>9, <1>15, <1>16, <1>18, <2>2, ResolvePass
<1>21. b.queue = Defer(B \ EventsIn(Q)) /\ Q \subseteq H
  <2>1. Q = SilencedIn(Decided(B, keysB, horizon, config), l, config)
    BY <1>9, <1>18
  <2>2. Q \subseteq Groups(B)
    BY <2>1, SilencedGroups
  <2> QED
    BY <1>3, <1>9, <1>15, <1>16, <1>18, <2>2, ResolvePass
<1>22. c.queue = Defer(X \ EventsIn(R))
  <2>1. n = Counted(D, {}, config.cycle) /\ R = SilencedIn(D, n, config)
    BY <1>14, <1>15, <1>16, <1>18
  <2>2. c = ResolveConflicts(X, keys, 0, {}, config)
    BY <1>2
  <2> QED
    BY <1>10, <2>1, <2>2, ResolvePass
<1>23. PICK M, N : M = A \ EventsIn(P) /\ N = B \ EventsIn(Q)
  OBVIOUS
<1>24. EventsIn(P) \subseteq A /\ EventsIn(Q) \subseteq B
  BY <1>1, <1>3, <1>20, <1>21, EventsInGroups
<1>25. Closed(M) /\ Closed(N)
  <2>1. EventSet(M) /\ Sound(M)
    BY <1>1, <1>3, <1>20, <1>23, RestSound
  <2>2. EventSet(N) /\ Sound(N)
    BY <1>1, <1>3, <1>21, <1>23, RestSound
  <2> QED
    BY <2>1, <2>2, SoundClosed
<1>26. X \ EventsIn(R) = M \cup N
  <2>1. EventsIn(R) = EventsIn(P) \cup EventsIn(Q)
    BY <1>19, EventsOfBoth
  <2>2. A \cap B = {}
    BY <1>1, EventOrder DEF EventSet, Precedes
  <2> QED
    BY <1>2, <1>23, <1>24, <2>1, <2>2
<1>27. Defer(M \cup N) = Defer(M) \cup Defer(N)
  <2>1. EventSet(M \cup N)
    <3>1. M \cup N \subseteq A \cup B
      BY <1>23
    <3> QED
      BY <3>1, EventSubset
  <2>2. Precedes(M, N)
    BY <1>1, <1>23 DEF Precedes
  <2> QED
    BY <1>25, <2>1, <2>2, DeferSplit
<1>28. c.queue = a.queue \cup b.queue
  BY <1>20, <1>21, <1>22, <1>23, <1>26, <1>27
<1> QED
  BY <1>28 DEF Joint

\* Nothing is made of nothing.
LEMMA PassEmpty ==
  ASSUME NEW keys, NEW horizon, NEW resolved, NEW config
  PROVE  ResolveConflicts({}, keys, horizon, resolved, config).queue = {}
<1>1. PICK q, K, counted, silenced :
        /\ q = {} /\ K = Decided(q, keys, horizon, config)
        /\ counted = Counted(K, resolved, config.cycle)
        /\ silenced = SilencedIn(K, counted, config)
  OBVIOUS
<1>2. PICK r : r = ResolveConflicts(q, keys, horizon, resolved, config)
  OBVIOUS
<1>3. r.queue = Defer(q \ EventsIn(silenced))
  BY <1>1, <1>2, ResolvePass
<1>4. q \ EventsIn(silenced) = {}
  BY <1>1
<1>5. Defer({}) = {}
  <2>1. ClosingOf({}) = {}
    BY DEF ClosingOf, Groups
  <2> QED
    BY <2>1, DeferMoves
<1> QED
  BY <1>1, <1>2, <1>3, <1>4, <1>5

\* What a pass has counted lies in its window and those before it.
LEMMA PassBefore ==
  ASSUME NEW X, EventSet(X), Sound(X), NEW W \in Nat, NEW target \in Nat, W <= target, EndedBy(X, target),
         NEW keys, NEW horizon, NEW config, NEW resolved, Before(resolved, W, config.cycle),
         NEW r, r = ResolveConflicts(X, keys, horizon, resolved, config)
  PROVE  Before(r.resolved, target, config.cycle)
<1>1. PICK K, counted, silenced, cycle :
        /\ K = Decided(X, keys, horizon, config)
        /\ counted = Counted(K, resolved, config.cycle)
        /\ silenced = SilencedIn(K, counted, config)
        /\ cycle = config.cycle
  OBVIOUS
<1>2. r.resolved = Remembered(counted)
  <2>1. /\ K = Decided(X, keys, horizon, config)
        /\ counted = Counted(K, resolved, config.cycle)
        /\ silenced = SilencedIn(K, counted, config)
    BY <1>1
  <2>2. /\ r.queue = Defer(X \ EventsIn(silenced))
        /\ r.suppressed = NotesOf(silenced)
        /\ r.resolved = Remembered(counted)
    BY <2>1, ResolvePass
  <2> QED
    BY <2>2
<1>3. K \subseteq Components(Groups(X))
  BY <1>1 DEF Decided, Resolvable
<1>4. \A c \in K : c.start \in Nat /\ c.start < target
  <2>1. Closed(X)
    BY SoundClosed
  <2> QED
    BY <1>3, <2>1, ComponentsEnded
<1>5. ASSUME NEW p \in r.resolved
      PROVE  \E s \in Nat : s < target /\ p[2] = s \div cycle
  <2>1. p \in counted
    BY <1>2 DEF Remembered
  <2>2. CASE p \in resolved
    <3>1. PICK s \in Nat : s < W /\ p[2] = s \div cycle
      BY <1>1, <2>2 DEF Before
    <3> QED
      BY <3>1
  <2>3. CASE \E c \in K : p = PlaceOf(c, cycle)
    BY <1>4, <2>3 DEF PlaceOf
  <2> QED
    BY <1>1, <2>1, <2>2, <2>3 DEF Counted
<1> QED
  BY <1>1, <1>5 DEF Before

LEMMA WithinEnded ==
  ASSUME NEW M, Written(M), NEW W, NEW target \in Nat, Within(M, W, target)
  PROVE  EndedBy(EventsOf(M), target)
<1>1. ASSUME NEW e \in EventsOf(M)
      PROVE  e.tick <= target /\ (e.on => e.tick < target)
  <2>1. PICK n \in M : \/ e = [note |-> n, on |-> TRUE, tick |-> n.start]
                       \/ e = [note |-> n, on |-> FALSE, tick |-> n.end]
    BY DEF EventsOf
  <2>2. n.start \in Nat /\ n.end \in Nat /\ n.start < n.end /\ n.end <= target
    BY DEF Written, IsNote, Within
  <2> QED
    BY <2>1, <2>2
<1> QED
  BY <1>1 DEF EndedBy

\* A window by itself, as the conflict pass leaves it.
WindowOf(p, rt, M) == ResolveConflicts(EventsOf(M), BatchKeys(M), rt.horizon, rt.resolved, ConflictConfig(p))

\* A realization adds its window to the queue, and has counted in it and before.
AddsWindow(p, rt, Q, target, out) ==
  /\ out.queue = Q \cup WindowOf(p, rt, out.notes).queue
  /\ Before(out.rt.resolved, target, p.cycle)

LEMMA RealizeJoins ==
  ASSUME NEW S, NEW Q, InFlight(S, Q), Settled(S \cup Q), NEW W \in Nat, EndedBy(S \cup Q, W),
         NEW p, ValidProject(p), NEW rt, RuntimeOK(p, rt), Before(rt.resolved, W, p.cycle),
         NEW target \in Nat, W <= target,
         NEW out, out = RealizeUntil(p, rt, Q, target, None),
         Written(out.notes), New(S \cup Q, out.notes), Within(out.notes, W, target)
  PROVE  AddsWindow(p, rt, Q, target, out)
<1>0. PICK s : s = WindowOf(p, rt, out.notes)
  OBVIOUS
<1>1. PICK passed : passed = Passes(p, rt, target, None)
  OBVIOUS
<1>2. PICK M : M = UNION {passed[t].notes : t \in DOMAIN passed}
  OBVIOUS
<1>3. out.notes = M
  BY <1>1, <1>2 DEF RealizeUntil
<1>4. PICK horizon, resolved, config :
        horizon = rt.horizon /\ resolved = rt.resolved /\ config = ConflictConfig(p)
  OBVIOUS
<1>5. PICK r : r = ResolveConflicts(Q \cup EventsOf(M), BatchKeys(M), horizon, resolved, config)
  OBVIOUS
<1>6. out.queue = IF M = {} THEN Q ELSE r.queue
  BY <1>1, <1>2, <1>4, <1>5 DEF RealizeUntil
<1>7. out.rt.resolved = IF M = {} THEN resolved ELSE r.resolved
  <2>1. PICK tracks : tracks = [t \in DOMAIN passed |-> Prune(p, passed[t].r, target)]
    OBVIOUS
  <2>3. PICK result : result = IF M = {}
                               THEN [queue |-> Q, suppressed |-> {}, resolved |-> rt.resolved]
                               ELSE r
    OBVIOUS
  <2>4. out.rt = [rt EXCEPT !.tracks = tracks, !.resolved = result.resolved]
    BY <1>1, <1>2, <1>4, <1>5, <2>1, <2>3 DEF RealizeUntil
  <2>5. result.resolved = IF M = {} THEN resolved ELSE r.resolved
    BY <1>4, <2>3
  <2>2. DOMAIN rt = RuntimeNames
    BY DEF RuntimeOK
  <2> QED
    BY <2>2, <2>4, <2>5 DEF RuntimeNames
<1>8. s = ResolveConflicts(EventsOf(M), BatchKeys(M), horizon, resolved, config)
  BY <1>0, <1>3, <1>4 DEF WindowOf
<1>9. config.cycle = p.cycle
  BY <1>4 DEF ConflictConfig
<1>12. SUFFICES out.queue = Q \cup s.queue /\ Before(out.rt.resolved, target, p.cycle)
  BY <1>0 DEF AddsWindow
<1>10. CASE M = {}
  <2>1. s.queue = {}
    <3>1. EventsOf(M) = {}
      BY <1>10 DEF EventsOf
    <3>2. PICK keys : keys = BatchKeys(M)
      OBVIOUS
    <3>3. s = ResolveConflicts({}, keys, horizon, resolved, config)
      BY <1>8, <3>1, <3>2
    <3> QED
      BY <3>3, PassEmpty
  <2>2. Before(resolved, target, p.cycle)
    <3>1. \A x \in Nat : x < W => x < target
      OBVIOUS
    <3> QED
      BY <1>4, <3>1 DEF Before
  <2> QED
    BY <1>6, <1>7, <1>10, <2>1, <2>2
<1>11. CASE M # {}
  <2>1. Written(M) /\ Within(M, W, target) /\ New(S \cup Q, M)
    BY <1>3
  <2>2. Beside(Q, s, r)
    BY <1>5, <1>8, <2>1, WindowJoins
  <2>3. PICK X, keys : X = EventsOf(M) /\ keys = BatchKeys(M)
    OBVIOUS
  <2>4. EventSet(X) /\ Sound(X) /\ EndedBy(X, target)
    BY <2>1, <2>3, WrittenSound, WithinEnded
  <2>5. Before(resolved, W, config.cycle) /\ s = ResolveConflicts(X, keys, horizon, resolved, config)
    BY <1>4, <1>8, <1>9, <2>3
  <2>6. Before(s.resolved, target, config.cycle)
    BY <2>4, <2>5, PassBefore
  <2> QED
    BY <1>6, <1>7, <1>9, <1>11, <2>2, <2>6 DEF Beside
<1> QED
  BY <1>10, <1>11

\* All of it in one realization.
OnePass(p, W) == RealizeUntil(p, FreshRuntime(p), {}, W, None)

LEMMA OnePassIs ==
  ASSUME NEW p, ValidProject(p), AllLast(p), CyclesMeet(p), NEW W \in Nat, W % p.cycle = 0,
         NEW rt, rt = FreshRuntime(p), NEW one, one = OnePass(p, W), NEW s, s = WindowOf(p, rt, one.notes)
  PROVE  /\ Written(one.notes) /\ Within(one.notes, 0, W) /\ Keyed(one.notes)
         /\ one.queue = s.queue /\ Before(one.rt.resolved, W, p.cycle)
<1>1. RuntimeOK(p, rt) /\ AllTimed(p, rt) /\ AllWhole(p, rt)
  BY FreshRuntimeIs, FreshTimed, FreshWhole
<1>2. PICK zero \in Nat, S \in {{}}, Q \in {{}} : S = {} /\ Q = {} /\ zero = 0 /\ zero <= W
  OBVIOUS
<1>3. one = RealizeUntil(p, rt, Q, W, None)
  BY <1>2 DEF OnePass
<1>4. Written(one.notes)
  BY <1>1, <1>3, RealizeTyped
<1>5. Within(one.notes, zero, W)
  <2>1. ASSUME NEW t \in DOMAIN p.tracks
        PROVE  zero <= rt.tracks[t].until
    <3>1. rt.tracks[t].until \in Nat
      BY <1>1 DEF RuntimeOK, TrackOK
    <3> QED
      BY <1>2, <3>1
  <2> QED
    BY <1>1, <1>2, <1>3, <2>1, RealizeWithin
<1>6. Keyed(one.notes)
  BY <1>1, <1>3, <1>4, RealizeKeyed
<1>7. InFlight(S, Q) /\ Settled(S \cup Q) /\ EndedBy(S \cup Q, zero) /\ New(S \cup Q, one.notes)
  <2>1. S \cup Q = {}
    BY <1>2
  <2> QED
    BY <1>2, <2>1, NothingInFlight, NothingSettled DEF New
<1>8. Before(rt.resolved, zero, p.cycle)
  <2>1. rt.resolved = {}
    BY DEF FreshRuntime
  <2> QED
    BY <2>1 DEF Before
<1>9. AddsWindow(p, rt, Q, W, one)
  <2>1. RuntimeOK(p, rt) /\ zero <= W
    BY <1>1, <1>2
  <2> QED
    BY <1>3, <1>4, <1>5, <1>7, <1>8, <2>1, RealizeJoins
<1>10. one.queue = s.queue /\ Before(one.rt.resolved, W, p.cycle)
  BY <1>2, <1>9 DEF AddsWindow
<1> QED
  BY <1>2, <1>4, <1>5, <1>6, <1>10

\* What one realization up to a tick gives.
SteppedTo(p, rt, events, W) ==
  /\ events = OnePass(p, W).queue
  /\ rt.tracks = OnePass(p, W).rt.tracks
  /\ Before(rt.resolved, W, p.cycle)

\* One window further.
LEMMA StepsOn ==
  ASSUME NEW p, ValidProject(p), AllLast(p), CyclesMeet(p),
         NEW W \in Nat, W % p.cycle = 0, NEW target \in Nat, target % p.cycle = 0, W <= target,
         NEW S, NEW Q, InFlight(S, Q), Settled(S \cup Q), EndedBy(S \cup Q, W),
         NEW mid, RuntimeOK(p, mid), AllWhole(p, mid), mid.horizon \in Nat, mid.horizon <= W,
         SteppedTo(p, mid, S \cup Q, W),
         NEW two, two = RealizeUntil(p, mid, Q, target, None),
         Written(two.notes), New(S \cup Q, two.notes), Within(two.notes, W, target)
  PROVE  SteppedTo(p, two.rt, S \cup two.queue, target)
<1>1. PICK rt, one, all, a, b, c :
        /\ rt = FreshRuntime(p) /\ one = OnePass(p, W) /\ all = OnePass(p, target)
        /\ a = WindowOf(p, rt, one.notes)
        /\ b = WindowOf(p, mid, two.notes)
        /\ c = WindowOf(p, rt, all.notes)
  OBVIOUS
<1>2. /\ Written(one.notes) /\ Within(one.notes, 0, W) /\ Keyed(one.notes)
      /\ one.queue = a.queue
  BY <1>1, OnePassIs
<1>3. Written(all.notes) /\ Keyed(all.notes) /\ all.queue = c.queue
  BY <1>1, OnePassIs
<1>4. /\ S \cup Q = one.queue /\ mid.tracks = one.rt.tracks
      /\ Before(mid.resolved, W, p.cycle)
  BY <1>1 DEF SteppedTo
<1>5. two.queue = Q \cup b.queue /\ Before(two.rt.resolved, target, p.cycle)
  <2>1. Before(mid.resolved, W, p.cycle)
    BY <1>4
  <2>2. AddsWindow(p, mid, Q, target, two)
    BY <2>1, RealizeJoins
  <2> QED
    BY <1>1, <2>2 DEF AddsWindow
<1>6. all.rt.tracks = two.rt.tracks /\ all.notes = one.notes \cup two.notes
  <2>1. PICK Z : Z = {}
    OBVIOUS
  <2>2. one = RealizeUntil(p, rt, Z, W, None) /\ all = RealizeUntil(p, rt, Z, target, None)
    BY <1>1, <2>1 DEF OnePass
  <2>3. RuntimeOK(p, rt)
    BY <1>1, FreshRuntimeIs
  <2>4. Bare(p, rt)
    BY <1>1 DEF Bare, FreshRuntime, FreshTrack
  <2> QED
    BY <1>4, <2>2, <2>3, <2>4, RealizeMeets
<1>7. Keyed(two.notes)
  BY RealizeKeyed
<1>8. PICK A, B, X, config :
        /\ A = EventsOf(one.notes) /\ B = EventsOf(two.notes) /\ X = EventsOf(all.notes)
        /\ config = ConflictConfig(p)
  OBVIOUS
<1>9. X = A \cup B
  BY <1>6, <1>8 DEF EventsOf
<1>10. EventSet(A \cup B) /\ Sound(A) /\ Sound(B)
  BY <1>2, <1>3, <1>8, <1>9, WrittenSound
<1>11. EndedBy(A, W) /\ BeginsAt(B, W)
  BY <1>2, <1>8, WithinEnded, WithinBegins
<1>12. config.cycle = p.cycle /\ p.cycle \in Nat \ {0}
  BY <1>8 DEF ConflictConfig, ValidProject
<1>13. PICK keysA, keysB, keys, resolved :
         /\ keysA = BatchKeys(one.notes) /\ keysB = BatchKeys(two.notes) /\ keys = BatchKeys(all.notes)
         /\ resolved = mid.resolved
  OBVIOUS
<1>19. PICK horizon \in Nat : horizon = mid.horizon /\ horizon <= W
  OBVIOUS
<1>14. /\ \A g \in Groups(A) : GroupKey(g) \in keysA
       /\ \A g \in Groups(B) : GroupKey(g) \in keysB
       /\ \A g \in Groups(A \cup B) : GroupKey(g) \in keys
  BY <1>2, <1>3, <1>7, <1>8, <1>9, <1>13 DEF Keyed
<1>15. rt.horizon = 0 /\ rt.resolved = {}
  BY <1>1 DEF FreshRuntime
<1>16. /\ a = ResolveConflicts(A, keysA, 0, {}, config)
       /\ b = ResolveConflicts(B, keysB, horizon, resolved, config)
       /\ c = ResolveConflicts(A \cup B, keys, 0, {}, config)
  BY <1>1, <1>8, <1>9, <1>13, <1>15, <1>19 DEF WindowOf
<1>17. c.queue = a.queue \cup b.queue
  <2>1. /\ config.cycle \in Nat \ {0} /\ W % config.cycle = 0
        /\ horizon <= W /\ Before(resolved, W, config.cycle)
    BY <1>4, <1>12, <1>13, <1>19
  <2>2. Joint(a, b, c)
    BY <1>10, <1>11, <1>14, <1>16, <2>1, PassSplits
  <2> QED
    BY <2>2 DEF Joint
<1>18. S \cup two.queue = all.queue
  BY <1>2, <1>3, <1>4, <1>5, <1>17
<1> QED
  BY <1>1, <1>5, <1>6, <1>18 DEF SteppedTo

\* All that was played and queued, and where the tracks stand, is what one
\* realization up to the watermark gives.
SteppedInv ==
  /\ AloneInv
  /\ Undisturbed => SteppedTo(project, runtime, Events, watermark)

LEMMA SteppedPlay ==
  ASSUME SteppedInv, NEW fault \in Faults(project) \cup {None}, Play(fault)
  PROVE  SteppedInv'
<1>1. AloneInv /\ AloneInv'
  BY AlonePlay DEF SteppedInv
<1>2. /\ ValidProject(project) /\ RuntimeOK(project, runtime) /\ AllLast(project) /\ CyclesMeet(project)
      /\ failures \in Nat
  <2>1. failures \in Nat
    BY <1>1, ParallelAssumption DEF AloneInv, MeetInv, BalanceInv, CyclesInv, TypeOK
  <2> QED
    BY <1>1, <2>1 DEF AloneInv, MeetInv, BalanceInv, CyclesInv
<1>3. PICK target \in Nat \ {0} : target = project.cycle /\ target % project.cycle = 0
  BY <1>2, OneCycle DEF ValidProject
<1>4. PICK rt : rt = FreshRuntime(project) /\ rt = [Reset(runtime) EXCEPT !.horizon = 0]
  BY <1>2, ResetIs
<1>5. PICK out : /\ out = RealizeUntil(project, rt, {}, target, fault)
                 /\ fault # None => out.fails
                 /\ runtime' = out.rt /\ queue' = out.queue
                 /\ watermark' = IF out.fails THEN 0 ELSE target
                 /\ failures' = failures + (IF out.fails THEN 1 ELSE 0)
  BY <1>3, <1>4 DEF Play, Record
<1>6. project' = project /\ sent' = {}
  BY DEF Play
<1>7. ASSUME Undisturbed'
      PROVE  SteppedTo(project', runtime', Events', watermark')
  <2>1. ~out.fails
    BY <1>2, <1>5, <1>7 DEF Undisturbed
  <2>2. out = OnePass(project, target)
    BY <1>4, <1>5, <2>1 DEF OnePass
  <2>3. Before(out.rt.resolved, target, project.cycle)
    <3>1. PICK s : s = WindowOf(project, rt, out.notes)
      OBVIOUS
    <3> QED
      BY <1>2, <1>3, <1>4, <2>2, <3>1, OnePassIs
  <2>4. SteppedTo(project, out.rt, out.queue, target)
    BY <2>2, <2>3 DEF SteppedTo
  <2>5. Events' = out.queue
    BY <1>5, <1>6 DEF Events
  <2> QED
    BY <1>5, <1>6, <2>1, <2>4, <2>5
<1> QED
  BY <1>1, <1>7 DEF SteppedInv

LEMMA SteppedTick ==
  ASSUME SteppedInv, NEW fault \in Faults(project) \cup {None}, NEW d \in Steps, Tick(d, fault)
  PROVE  SteppedInv'
<1>1. AloneInv /\ AloneInv' /\ MeetInv /\ BalanceInv
  BY AloneTick DEF SteppedInv, AloneInv, MeetInv
<1>2. /\ ValidProject(project) /\ RuntimeOK(project, runtime) /\ AllLast(project) /\ CyclesMeet(project)
      /\ AllTimed(project, runtime) /\ AllWhole(project, runtime) /\ TypeOK
  BY <1>1 DEF AloneInv, MeetInv, BalanceInv, CyclesInv
<1>3. project.cycle \in Nat \ {0} /\ watermark \in Nat /\ watermark % project.cycle = 0
  BY <1>2 DEF ValidProject, TypeOK
<1>4. PICK now \in Nat : now = tick + d /\ tick \in Nat /\ d \in Nat /\ d <= project.cycle
  BY <1>1, <1>2, ParallelAssumption DEF TypeOK, AloneInv
<1>5. PICK target \in Nat : /\ target = (now \div project.cycle + 2) * project.cycle
                            /\ target % project.cycle = 0
  BY <1>3, WholeCycles
<1>6. PICK rt : rt = [runtime EXCEPT !.horizon = now]
  OBVIOUS
<1>7. /\ rt.tracks = runtime.tracks /\ rt.resolved = runtime.resolved /\ rt.horizon = now
      /\ RuntimeOK(project, rt) /\ AllTimed(project, rt) /\ AllWhole(project, rt)
  <2>1. /\ rt.tracks = runtime.tracks /\ rt.resolved = runtime.resolved /\ rt.horizon = now
        /\ DOMAIN rt = DOMAIN runtime
    BY <1>2, <1>6 DEF RuntimeOK, RuntimeNames
  <2> QED
    BY <1>2, <2>1 DEF RuntimeOK, AllTimed, AllWhole
<1>8. /\ project' = project /\ pristine' = pristine /\ edited' = edited
      /\ failures' = failures + (IF fault # None THEN 1 ELSE 0) /\ failures \in Nat
  BY <1>2, ParallelAssumption DEF Tick, TypeOK
<1>9. SUFFICES ASSUME Undisturbed'
               PROVE  SteppedTo(project, runtime', Events', watermark')
  BY <1>1, <1>8 DEF SteppedInv
<1>10. Undisturbed /\ fault = None
  BY <1>8, <1>9 DEF Undisturbed
<1>11. /\ cutoff = None /\ InFlight(sent, queue) /\ sent \cup queue = Events
       /\ Settled(sent \cup queue) /\ EndedBy(sent \cup queue, watermark)
       /\ tick + project.cycle <= watermark
       /\ SteppedTo(project, rt, sent \cup queue, watermark)
  <2>1. sent \cup queue = Events
    BY DEF Events
  <2>2. SteppedTo(project, rt, Events, watermark)
    BY <1>7, <1>10 DEF SteppedInv, SteppedTo
  <2> QED
    BY <1>1, <1>10, <2>1, <2>2 DEF AloneInv, MeetInv, BalanceInv, Sounding, Undisturbed
<1>12. CASE watermark < target
  <2>1. PICK out : /\ out = RealizeUntil(project, rt, queue, target, fault)
                   /\ fault # None => out.fails
                   /\ runtime' = out.rt
                   /\ watermark' = IF out.fails THEN watermark ELSE target
                   /\ Dispatch(out.queue, now)
    BY <1>4, <1>5, <1>6, <1>12 DEF Tick, Record
  <2>2. PICK S, Q : S = sent /\ Q = queue
    OBVIOUS
  <2>3. out = RealizeUntil(project, rt, Q, target, None)
    BY <1>10, <2>1, <2>2
  <2>4. Kept(project, rt, target, None, out)
    BY <1>2, <1>7, <2>3, RealizeKeeps
  <2>5. ~out.fails
    BY <2>4 DEF Kept
  <2>6. Written(out.notes)
    BY <1>2, <1>7, <2>3, RealizeTyped
  <2>7. PICK W \in Nat : W = watermark /\ W <= target /\ W % project.cycle = 0
    BY <1>3, <1>12
  <2>8. \A t \in DOMAIN project.tracks : W <= rt.tracks[t].until
    <3>1. ASSUME NEW t \in DOMAIN project.tracks
          PROVE  W <= rt.tracks[t].until
      <4>1. Kind(project, t) # "triggered"
        BY <1>2, MeetsAll
      <4>2. runtime.tracks[t].until >= watermark /\ runtime.tracks[t].until \in Nat
        BY <1>2, <4>1 DEF TypeOK, RuntimeOK, TrackOK
      <4> QED
        BY <1>7, <2>7, <4>2
    <3> QED
      BY <3>1
  <2>9. Within(out.notes, W, target)
    BY <1>2, <1>5, <1>7, <2>3, <2>8, RealizeWithin
  <2>10. New(S \cup Q, out.notes)
    <3>1. PICK old : old = earlier \cup batch
      OBVIOUS
    <3>2. Behind(project, rt, old)
      BY <1>1, <1>7, <3>1 DEF BalanceInv, CyclesInv, Behind, Upcoming
    <3>3. Apart(out.notes, old)
      BY <1>2, <1>7, <2>4, <3>2, BehindGrows
    <3>4. \A e \in S \cup Q : e.note \in old
      BY <1>1, <1>10, <2>2, <3>1 DEF BalanceInv, Sounding, Undisturbed
    <3> QED
      BY <3>3, <3>4 DEF New, Apart
  <2>11. /\ InFlight(S, Q) /\ Settled(S \cup Q) /\ EndedBy(S \cup Q, W)
         /\ SteppedTo(project, rt, S \cup Q, W)
    BY <1>11, <2>2, <2>7
  <2>12. rt.horizon \in Nat /\ rt.horizon <= W
    <3>1. now <= W
      BY <1>3, <1>4, <1>11, <2>7
    <3> QED
      BY <1>7, <3>1
  <2>13. SteppedTo(project, out.rt, S \cup out.queue, target)
    BY <1>2, <1>5, <1>7, <2>3, <2>6, <2>7, <2>9, <2>10, <2>11, <2>12, StepsOn
  <2>14. Events' = S \cup out.queue
    <3>1. \A e \in out.queue : e.tick \in Nat
      <4>1. Joins(S, Q, out.notes, out.queue)
        BY <2>3, <2>6, <2>10, <2>11, RealizeSound
      <4> QED
        BY <4>1 DEF Joins, EventSet, IsEvent
    <3>2. sent' \cup queue' = sent \cup out.queue
      BY <1>11, <2>1, <3>1, DispatchKeeps
    <3> QED
      BY <2>2, <3>2 DEF Events
  <2> QED
    BY <2>1, <2>5, <2>13, <2>14
<1>13. CASE ~(watermark < target)
  <2>1. runtime' = rt /\ watermark' = watermark /\ Dispatch(queue, now)
    BY <1>4, <1>5, <1>6, <1>13 DEF Tick
  <2>2. \A e \in queue : e.tick \in Nat
    BY <1>11 DEF InFlight, EventSet, IsEvent
  <2>3. sent' \cup queue' = sent \cup queue
    BY <1>11, <2>1, <2>2, DispatchKeeps
  <2>4. Events' = sent \cup queue
    BY <2>3 DEF Events
  <2> QED
    BY <1>11, <2>1, <2>4
<1> QED
  BY <1>12, <1>13

LEMMA SteppedStep ==
  ASSUME NotesLast, StepsShort, \A p \in Projects : CyclesMeet(p), SteppedInv, [Next]_vars
  PROVE  SteppedInv'
<1>1. AloneInv'
  BY AloneStep DEF SteppedInv
<1>2. ASSUME NEW fault \in Faults(project) \cup {None}, Play(fault)
      PROVE  SteppedInv'
  BY <1>2, SteppedPlay
<1>3. ASSUME NEW fault \in Faults(project) \cup {None}, NEW d \in Steps, Tick(d, fault)
      PROVE  SteppedInv'
  BY <1>3, SteppedTick
<1>4. CASE Stop
  BY <1>1, <1>4 DEF Stop, Undisturbed, SteppedInv
<1>5. ASSUME NEW q \in Projects, ApplyInPlace(q)
      PROVE  SteppedInv'
  BY <1>1, <1>5 DEF ApplyInPlace, Undisturbed, SteppedInv
<1>6. ASSUME NEW q \in Projects, Rebuild(q)
      PROVE  SteppedInv'
  BY <1>1, <1>6 DEF Rebuild, Undisturbed, SteppedInv
<1>7. CASE UNCHANGED vars
  <2>1. /\ project' = project /\ pristine' = pristine /\ edited' = edited /\ failures' = failures
        /\ sent' = sent /\ queue' = queue /\ watermark' = watermark /\ runtime' = runtime
    BY <1>7 DEF vars
  <2>2. Events' = Events /\ (Undisturbed' <=> Undisturbed)
    BY <2>1 DEF Events, Undisturbed
  <2>3. Undisturbed' => SteppedTo(project', runtime', Events', watermark')
    BY <2>1, <2>2 DEF SteppedInv
  <2> QED
    BY <1>1, <2>3 DEF SteppedInv
<1> QED
  BY <1>2, <1>3, <1>4, <1>5, <1>6, <1>7 DEF Next

\* A playback realized window by window as the clock goes on has the notes that
\* one pass up to the same watermark gives, silenced and deferred alike, and
\* leaves every cursor, pool and walk where it does (realize_parallel_until).
THEOREM SteppedIsSinglePass ==
  ASSUME NotesLast, StepsShort, \A p \in Projects : CyclesMeet(p)
  PROVE  Spec => []SteppedMatchesSinglePass
<1>1. SteppedInv /\ [Next]_vars => SteppedInv'
  BY SteppedStep
<1>2. SteppedInv => SteppedMatchesSinglePass
  BY DEF SteppedInv, SteppedMatchesSinglePass, SteppedTo, OnePass, Undisturbed
<1>3. Init => SteppedInv
  <2>1. Init => AloneInv
    <3>1. Init => MeetInv
      BY MeetInit
    <3>2. Init => project \in Projects /\ ~Undisturbed
      BY DEF Init, Undisturbed
    <3> QED
      BY <3>1, <3>2 DEF AloneInv, StepsShort
  <2>2. Init => ~Undisturbed
    BY DEF Init, Undisturbed
  <2> QED
    BY <2>1, <2>2 DEF SteppedInv
<1> QED
  BY <1>1, <1>2, <1>3, PTL DEF Spec

=============================================================================
