----------------------------- MODULE ScoreTree -----------------------------
(***************************************************************************)
(* The duration tree of a score (cseq-model), the transforms that edit it  *)
(* (cseq-transforms) and its realization as notes (cseq-realize).          *)
(*                                                                         *)
(* A tree is nested here: a node holds its children, and a selector picks  *)
(* nodes by the path of child positions that leads to them, which stands   *)
(* for the ids of the code.  A result that may fail is a sequence of       *)
(* length one, and the empty sequence when the code returns Err.           *)
(***************************************************************************)
EXTENDS Rationals

Failed == <<>>
Untagged == <<>>
Equal == <<"equal">>
Explicit == <<"explicit">>
Weighted(weights) == <<"weighted", weights>>

Note(dur, pitch, frac, vel, tag) ==
  [kind |-> "note", dur |-> dur, pitch |-> pitch, frac |-> frac, vel |-> vel, tag |-> tag]
Rest(dur, tag) == [kind |-> "rest", dur |-> dur, tag |-> tag]
Subdivided(dur, kids, policy, tag) ==
  [kind |-> "subdivided", dur |-> dur, kids |-> kids, policy |-> policy, tag |-> tag]
Tied(dur, kids, tag) == [kind |-> "tied", dur |-> dur, kids |-> kids, tag |-> tag]

Kids(node) == IF node.kind \in {"subdivided", "tied"} THEN node.kids ELSE <<>>

\* The paths of the nodes of a tree, the root's is <<>>.
RECURSIVE Paths(_)
Paths(node) == {<<>>} \cup UNION {{<<i>> \o p : p \in Paths(Kids(node)[i])} :
                                    i \in DOMAIN Kids(node)}

RECURSIVE At(_, _)
At(node, path) == IF path = <<>> THEN node ELSE At(Kids(node)[Head(path)], Tail(path))

RECURSIVE Put(_, _, _)
Put(node, path, new) ==
  IF path = <<>> THEN new
  ELSE [node EXCEPT !.kids[Head(path)] = Put(@, Tail(path), new)]

\* resolve_selector: the root, one node, or every node with a tag.
Selected(tree, target) ==
  CASE target[1] = "root" -> {<<>>}
    [] target[1] = "path" -> {target[2]} \cap Paths(tree)
    [] target[1] = "tag" -> {p \in Paths(tree) : At(tree, p).tag = target[2]}

----------------------------------------------------------------------------
(* The shares of the parent's duration that children get.                  *)

\* subdivision_child_fractions: explicit shares that do not exist yet start
\* out equal.
FreshShares(count, policy) ==
  CASE count = 0 -> Failed
    [] policy[1] # "weighted" -> <<[i \in 1..count |-> Rat(1, count)]>>
    [] OTHER ->
         LET weights == policy[2]
             Of(sum) == [i \in 1..count |-> Rat(weights[i], sum)]
         IN IF Len(weights) # count \/ \E i \in DOMAIN weights : weights[i] = 0 THEN Failed
            ELSE <<Of(FoldLeft(LAMBDA a, b : a + b, 0, weights))>>

ExplicitShares(kids) ==
  LET shares == [i \in DOMAIN kids |-> kids[i].dur]
  IN IF kids = <<>> \/ (\E i \in DOMAIN kids : AtMost(shares[i], Zero)) \/ Total(shares) # One
     THEN Failed ELSE <<shares>>

\* compute_child_durations and effective_child_fractions agree on this.
Shares(kids, policy) ==
  IF policy = Explicit THEN ExplicitShares(kids) ELSE FreshShares(Len(kids), policy)

----------------------------------------------------------------------------
(* The transforms.  Each takes a node to the node it becomes.              *)

\* apply_subdivide: only a pulse can be divided; the parts inherit its event.
Subdivide(node, count, policy) ==
  LET shares == FreshShares(count, policy)
  IN IF shares = Failed \/ node.kind \notin {"note", "rest"} THEN Failed
     ELSE <<Subdivided(node.dur, [i \in 1..count |-> [node EXCEPT !.dur = shares[1][i], !.tag = Untagged]],
                       policy, node.tag)>>

RECURSIVE SetVelocity(_, _)
SetVelocity(node, vel) ==
  CASE node.kind = "note" -> [node EXCEPT !.vel = vel]
    [] node.kind = "rest" -> node
    [] OTHER -> [node EXCEPT !.kids = [i \in DOMAIN @ |-> SetVelocity(@[i], vel)]]

\* apply_tie, TiePattern::All: the children keep the time the policy gave them.
TieAll(node) ==
  LET Tie(shares) == Tied(node.dur, [i \in DOMAIN node.kids |-> [node.kids[i] EXCEPT !.dur = shares[i]]], node.tag)
      shares == Shares(node.kids, node.policy)
  IN IF node.kind # "subdivided" \/ shares = Failed THEN Failed ELSE <<Tie(shares[1])>>

\* TiePattern::Pairs: children two by two under a tie of their joint share, an
\* odd last one stays.
TiePairs(node) ==
  LET Group(shares, i) ==
        LET a == 2 * i - 1
            both == Plus(shares[a], shares[a + 1])
            Within(j) == [node.kids[j] EXCEPT !.dur = Over(shares[j], both)]
        IN IF a = Len(shares) THEN [node.kids[a] EXCEPT !.dur = shares[a]]
           ELSE Tied(both, <<Within(a), Within(a + 1)>>, Untagged)
      Tie(shares) == Subdivided(node.dur, [i \in 1..((Len(shares) + 1) \div 2) |-> Group(shares, i)],
                                Explicit, node.tag)
      shares == Shares(node.kids, node.policy)
  IN IF node.kind # "subdivided" \/ shares = Failed THEN Failed ELSE <<Tie(shares[1])>>

\* apply_remove: a rest takes the node's place and time.
RemoveNode(node) == Rest(node.dur, node.tag)

\* The arms of apply_one but for the subdivision switch.
Edited(node, edit) ==
  CASE edit.op = "subdivide" -> Subdivide(node, edit.count, edit.policy)
    [] edit.op = "velocity" -> <<SetVelocity(node, edit.vel)>>
    [] edit.op = "tieAll" -> TieAll(node)
    [] edit.op = "tiePairs" -> TiePairs(node)
    [] edit.op = "remove" -> <<RemoveNode(node)>>

\* apply_one: all selected nodes, and an error ends the pipeline.  A node above
\* another is edited after it, which the code's order of ids need not respect:
\* the edits of a node and of its descendants do not disturb each other.
ApplyOne(tree, edit) ==
  LET Deepest(set) == SortSeq(FoldSet(LAMBDA p, s : Append(s, p), <<>>, set), LAMBDA p, q : Len(p) > Len(q))
      Step(found, path) ==
        LET Result(new) == IF new = Failed THEN Failed ELSE <<Put(found[1], path, new[1])>>
        IN IF found = Failed THEN Failed ELSE Result(Edited(At(found[1], path), edit))
      paths == Selected(tree, edit.target)
  IN IF paths = {} THEN Failed ELSE FoldLeft(Step, <<tree>>, Deepest(paths))

----------------------------------------------------------------------------
(* Realization.                                                            *)

On(at, node) == [at |-> at, on |-> TRUE, pitch |-> node.pitch, vel |-> node.vel]
Off(at, pitch) == [at |-> at, on |-> FALSE, pitch |-> pitch, vel |-> <<0, 0>>]

\* Where the children of a node lie: <<offset, duration>> of each.
Laid(node, shares, offset, dur) ==
  [i \in DOMAIN shares |->
     <<Plus(offset, Times(dur, Total(SubSeq(shares, 1, i - 1)))), Times(dur, shares[i])>>]

RECURSIVE RealizeNode(_, _, _)

\* A tied span sounds its first child only; that child's own note-offs at the
\* pitch are taken out and one is put at the end of the span.
RealizeTied(node, offset, dur) ==
  LET shares == ExplicitShares(node.kids)
      Span(first) ==
        LET ons == SelectSeq(first, LAMBDA e : e.on)
            pitch == ons[1].pitch
        IN IF ons = <<>> THEN first
           ELSE Append(SelectSeq(first, LAMBDA e : e.on \/ e.pitch # pitch), Off(Plus(offset, dur), pitch))
      Sounded(first) == IF first = Failed THEN Failed ELSE <<Span(first[1])>>
  IN IF node.kids = <<>> THEN <<<<>>>>
     ELSE IF AtMost(dur, Zero) \/ shares = Failed THEN Failed
     ELSE Sounded(RealizeNode(node.kids[1], offset, Times(dur, shares[1][1])))

RealizeNode(node, offset, dur) ==
  LET Join(parts) == IF \E i \in DOMAIN parts : parts[i] = Failed THEN Failed
                     ELSE <<FlattenSeq([i \in DOMAIN parts |-> parts[i][1]])>>
      Children(laid) == Join([i \in DOMAIN laid |-> RealizeNode(node.kids[i], laid[i][1], laid[i][2])])
  IN CASE node.kind = "note" ->
            <<<<On(offset, node), Off(Plus(offset, Times(dur, node.frac)), node.pitch)>>>>
       [] node.kind = "rest" -> <<<<>>>>
       [] node.kind = "tied" -> RealizeTied(node, offset, dur)
       [] OTHER -> LET shares == Shares(node.kids, node.policy)
                   IN IF shares = Failed THEN Failed ELSE Children(Laid(node, shares[1], offset, dur))

\* realize: sorted by time, note-offs first among equals.
Realize(tree, cycleLength) ==
  LET Before(e, f) == Less(e.at, f.at) \/ (e.at = f.at /\ ~e.on /\ f.on)
      Result(found) == IF found = Failed THEN Failed ELSE <<Stably(found[1], Before)>>
  IN Result(RealizeNode(tree, Zero, Times(cycleLength, tree.dur)))

----------------------------------------------------------------------------
(* The scores a session starts from (Score::single_pulse, Score::subdivided,*)
(* DurationTree::empty_cycle).                                             *)

SinglePulse(pitch, vel) == Note(One, pitch, One, vel, Untagged)
=============================================================================
