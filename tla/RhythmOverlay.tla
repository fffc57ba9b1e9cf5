--------------------------- MODULE RhythmOverlay ---------------------------
(***************************************************************************)
(* The rhythm a generator lays over a realized cycle: a Dum-Ka pattern or  *)
(* the example generator fills the accent spans of the tree with cells     *)
(* (cseq-rhythm generators), and the transport silences the notes under    *)
(* them and plays the cells instead (cseq-transport overlay.rs).           *)
(*                                                                         *)
(* A span that a generator resolved is [len, cells]; a cell [start, len,   *)
(* rest, from, to, vel]: its place in matras of the span, whether it is    *)
(* silent, tied from the cell before and to the cell after, and a velocity *)
(* of its own, if any.                                                     *)
(***************************************************************************)
EXTENDS ChannelRouting, DumkaNotation

Cell(start, len, rest, from, to) ==
  [start |-> start, len |-> len, rest |-> rest, from |-> from, to |-> to, vel |-> <<>>]

----------------------------------------------------------------------------
(* What a generator sees of an accent span (GeneratorSpanInput).           *)

\* pulse_span_subdivision: whole matras to the beat, or nothing.
Subdivision(span) ==
  LET Rate(r) == IF r[2] = 1 /\ r[1] > 0 THEN <<r[1]>> ELSE <<>>
  IN IF AtMost(span.dur, Zero) THEN <<>> ELSE Rate(Over(Whole(span.matras), span.dur))

\* validate_generated_spans: the cells of each span tile it, and the ties of
\* the flattened stream join two cells that sound.
ValidCells(inputs, resolved) ==
  LET Tiled(r) == LET Ends(i) == r.cells[i].start + r.cells[i].len
                  IN /\ \A i \in DOMAIN r.cells : /\ r.cells[i].len > 0
                                                  /\ r.cells[i].start = IF i = 1 THEN 0 ELSE Ends(i - 1)
                     /\ r.len = IF r.cells = <<>> THEN 0 ELSE Ends(Len(r.cells))
      stream == FlattenSeq([i \in DOMAIN resolved |-> resolved[i].cells])
  IN /\ Len(inputs) = Len(resolved)
     /\ \A i \in DOMAIN resolved : resolved[i].len = inputs[i].matras /\ Tiled(resolved[i])
     /\ \A i \in 0..Len(stream) :
          LET left == i > 0 /\ stream[i].to
              right == i < Len(stream) /\ stream[i + 1].from
          IN left = right /\ (left => ~stream[i].rest /\ ~stream[i + 1].rest)

----------------------------------------------------------------------------
(* The generators.                                                         *)

\* dumka/tree.rs compile: the nodes [kind, weight, kids] of a notation; a
\* group shares its time out by weight, and a hold lengthens what stands
\* before it.  Elements that start with a hold are an error.
RECURSIVE Elements(_, _, _, _)
Elements(nodes, start, dur, before) ==
  LET sum == FoldLeft(LAMBDA a, n : a + n.weight, 0, nodes)
      Long(n) == Times(dur, Rat(n.weight, sum))
      Extended(s, by) == IF s = <<>> THEN <<[kind |-> "error"]>>
                         ELSE [s EXCEPT ![Len(s)].dur = Plus(@, by)]
      Add(s, n, at) ==
        CASE n.kind = "hold" -> Extended(s, Long(n))
          [] n.kind = "group" -> Elements(n.kids, at, Long(n), s)
          [] OTHER -> Append(s, [kind |-> n.kind, start |-> at, dur |-> Long(n)])
      Step(state, n) == [all |-> Add(state.all, n, state.at), at |-> Plus(state.at, Long(n))]
  IN FoldLeft(Step, [all |-> before, at |-> start], nodes).all

\* The compiled pattern of a text; its length is limited, and the denominators
\* of the starts must fit a grid.
MaxSubdivision == 64
MaxTotalBeats == 128
Compiled(text) ==
  LET Lcm(a, b) == (a \div Gcd(a, b)) * b
      Made(elements, beats) ==
        [beats |-> beats, events |-> SelectSeq(elements, LAMBDA e : e.kind = "onset"),
         grid |-> FoldLeft(LAMBDA g, e : Lcm(g, e.start[2]), 1, elements)]
      Checked(made) == IF made.grid > MaxSubdivision THEN Failed ELSE <<made>>
      Sound(elements, beats) ==
        IF beats > MaxTotalBeats \/ \E i \in DOMAIN elements : elements[i].kind = "error" THEN Failed
        ELSE Checked(Made(elements, beats))
      Of(nodes, beats) == Sound(Elements(nodes, Zero, Whole(beats), <<>>), beats)
      Read(trees) == IF trees = <<>> THEN Failed
                     ELSE Of(trees[1].nodes, FoldLeft(LAMBDA a, n : a + n.weight, 0, trees[1].nodes))
  IN Read(Parse(text))

\* resolve_seed_cells: the events on the matras of spans that tile the cycle
\* on one grid, cut where a span ends.
Ascending(numbers) == SortSeq(FoldSet(LAMBDA n, s : Append(s, n), <<>>, numbers), LAMBDA a, b : a < b)

SeedCells(seed, beats, spans) ==
  LET grids == {Subdivision(spans[i]) : i \in DOMAIN spans}
      total == FoldLeft(LAMBDA a, s : a + s.matras, 0, spans)
      Base(i) == FoldLeft(LAMBDA a, s : a + s.matras, 0, SubSeq(spans, 1, i - 1))
      Matra(t, rate) == Floored(Times(t, Whole(rate)))
      Between(intervals, base, from, to) ==
        LET here == {i \in intervals : i[1] =< from /\ from < i[2]}
        IN Cell(from - base, to - from, here = {}, \E i \in here : i[1] < from, \E i \in here : i[2] > to)
      CutAt(intervals, cuts) == [i \in 1..(Len(cuts) - 1) |-> Between(intervals, cuts[1], cuts[i], cuts[i + 1])]
      SpanCells(intervals, from, to) ==
        [len |-> to - from,
         cells |-> CutAt(intervals, Ascending({from, to} \cup {t \in UNION {{i[1], i[2]} : i \in intervals} :
                                                                  from < t /\ t < to}))]
      OnGrid(intervals) == [i \in DOMAIN spans |-> SpanCells(intervals, Base(i), Base(i) + spans[i].matras)]
      Uniform(grid) ==
        IF grid = <<>> \/ total # beats * grid[1] \/ grid[1] % seed.grid # 0 THEN Failed
        ELSE <<OnGrid({<<Matra(e.start, grid[1]), Matra(Plus(e.start, e.dur), grid[1])>> : e \in ToSet(seed.events)})>>
  IN IF seed.beats # beats \/ Cardinality(grids) # 1 THEN Failed ELSE Uniform(CHOOSE g \in grids : TRUE)

\* ExampleGeneratorParams: a cell for each matra; sounding is the set of
\* matras, counted through the cycle, that the seed lets sound.
ExampleDensity(density, heard) ==
  LET Read(s) == IF s = <<>> THEN density ELSE Rounded(Limited(s[1], Zero, Whole(100)))
  IN Read(Sampled(heard, <<"density">>, Whole(density), "float", Whole(-1000), Whole(1000)))
ExampleSets(density, total) ==
  CASE density = 100 -> {1..total}
    [] density = 0 -> {{}}
    [] OTHER -> SUBSET (1..total)
ExampleCells(spans, sounding) ==
  LET Base(i) == FoldLeft(LAMBDA a, s : a + s.matras, 0, SubSeq(spans, 1, i - 1))
      Of(base, n) == [len |-> n, cells |-> [m \in 1..n |-> Cell(m - 1, 1, base + m \notin sounding, FALSE, FALSE)]]
  IN [i \in DOMAIN spans |-> Of(Base(i), spans[i].matras)]

----------------------------------------------------------------------------
(* The overlay.                                                            *)

\* collect_note_leaves: the notes of the tree with where they start.
RECURSIVE Leaves(_, _, _, _)
Leaves(node, path, offset, dur) ==
  LET Join(parts) == IF \E i \in DOMAIN parts : parts[i] = Failed THEN Failed
                     ELSE <<FlattenSeq([i \in DOMAIN parts |-> parts[i][1]])>>
      Children(laid) == Join([i \in DOMAIN laid |->
                          Leaves(node.kids[i], Append(path, i), laid[i][1], laid[i][2])])
      Shared(shares) == IF shares = Failed THEN Failed ELSE Children(Laid(node, shares[1], offset, dur))
  IN CASE node.kind = "note" -> <<<<[path |-> path, at |-> offset, pitch |-> node.pitch, vel |-> node.vel]>>>>
       [] node.kind = "rest" -> <<<<>>>>
       [] node.kind = "tied" -> Shared(ExplicitShares(node.kids))
       [] OTHER -> Shared(Shares(node.kids, node.policy))

LeavesWithin(leaves, span) ==
  SelectSeq(leaves, LAMBDA l : AtMost(span.start, l.at) /\ Less(l.at, Plus(span.start, span.dur)))

\* silence_pulse, for each of some leaves.
Silenced(tree, leaves) ==
  FoldLeft(LAMBDA t, l : Put(t, l.path, Rest(At(t, l.path).dur, At(t, l.path).tag)), tree, leaves)

\* note_leaf_for_offset: the last leaf that has started, or the first.
LeafAt(leaves, at) ==
  LET started == {i \in DOMAIN leaves : AtMost(leaves[i].at, at)}
  IN leaves[IF started = {} THEN 1 ELSE Max(started)]

\* rhythm_cell_boundary_time and span_native_matra_boundary_time: a boundary
\* on the span's own matras stands where the section's gati spans put it.
BoundaryTime(span, spans, boundary, len) ==
  LET matra == span.first + boundary
      Holds(g) == /\ g.section = span.section /\ g.kind = "gati" /\ g.matras > 0
                  /\ g.first =< matra /\ matra =< g.first + g.matras
      Mapped(g) == Plus(g.start, Times(g.dur, Rat(matra - g.first, g.matras)))
      Within(t) == AtMost(span.start, t) /\ AtMost(t, Plus(span.start, span.dur))
      holding == {i \in DOMAIN spans : Holds(spans[i]) /\ Within(Mapped(spans[i]))}
  IN IF len = span.matras /\ holding # {} THEN Mapped(spans[FirstOf(holding)])
     ELSE Plus(span.start, Times(span.dur, Rat(boundary, len)))

\* append_rhythm_cells: the cells of a span, timed, with the pitch and, unless
\* they have their own, the velocity of the leaf they start on.
TimedCells(span, resolved, leaves, spans) ==
  LET Timed(cell) ==
        LET end == Min({cell.start + cell.len, resolved.len})
            Made(from, to, leaf) ==
              [start |-> from, end |-> to, pitch |-> leaf.pitch, vel |-> IF cell.vel = <<>> THEN leaf.vel ELSE cell.vel[1],
               rest |-> cell.rest, from |-> cell.from, to |-> cell.to]
            Standing(from, to) == Made(from, to, LeafAt(leaves, from))
        IN Standing(BoundaryTime(span, spans, cell.start, resolved.len), BoundaryTime(span, spans, end, resolved.len))
      kept == SelectSeq(resolved.cells, LAMBDA c : c.len > 0 /\ c.start < resolved.len)
  IN SelectSeq([i \in DOMAIN kept |-> Timed(kept[i])], LAMBDA c : Less(c.start, c.end))

\* Mutant of OverlayEvents: every cell is a note of its own.
OverlayEventsCut(cells) ==
  FlattenSeq([i \in DOMAIN cells |->
    IF cells[i].rest THEN <<>>
    ELSE <<[at |-> cells[i].start, on |-> TRUE, pitch |-> cells[i].pitch, vel |-> cells[i].vel],
           Off(cells[i].end, cells[i].pitch)>>])

\* emit_rhythm_overlay_events and push_rhythm_group: a chain of ties is one
\* note with the pitch and velocity of its first cell.
OverlayEvents(cells) ==
  LET Push(out, open, end) ==
        IF open = <<>> \/ AtMost(end, open[1].start) THEN out
        ELSE out \o <<[at |-> open[1].start, on |-> TRUE, pitch |-> open[1].pitch, vel |-> open[1].vel],
                      Off(end, open[1].pitch)>>
      Step(state, c) ==
        LET fresh == state.open = <<>> \/ ~c.from
            out == IF c.rest \/ fresh THEN Push(state.out, state.open, c.start) ELSE state.out
            open == IF c.rest THEN <<>> ELSE IF fresh THEN <<c>> ELSE state.open
        IN IF c.rest \/ c.to THEN [out |-> out, open |-> open]
           ELSE [out |-> Push(out, open, c.end), open |-> <<>>]
      Closed(state) == IF cells = <<>> THEN <<>> ELSE Push(state.out, state.open, Last(cells).end)
  IN Closed(FoldLeft(Step, [out |-> <<>>, open |-> <<>>], cells))

\* apply_generator_to_tree, from the cells on: spans without a note stay silent
\* and as they are.
Overlaid(tree, cycleLength, spans, accents, resolved) ==
  LET Played(leaves) ==
        LET own == [i \in DOMAIN accents |-> LeavesWithin(leaves, accents[i])]
            cells == FlattenSeq([i \in DOMAIN accents |->
                       IF own[i] = <<>> THEN <<>> ELSE TimedCells(accents[i], resolved[i], own[i], spans)])
        IN [tree |-> Silenced(tree, FlattenSeq(own)), events |-> OverlayEvents(cells)]
      Result(found) == IF found = Failed THEN Failed ELSE <<Played(found[1])>>
  IN Result(Leaves(tree, <<>>, Zero, Times(cycleLength, tree.dur)))
=============================================================================
