------------------------------- MODULE MCDumka -------------------------------
(***************************************************************************)
(* A cycle of two beats of two slots, four seeds, and the plans that      *)
(* bring every family, pace and scope to a short fold.                     *)
(***************************************************************************)
EXTENDS DumkaEvolution

On(slot, dur) == [slot |-> slot, dur |-> dur]
Full == {On(0, 1), On(1, 1), On(2, 1), On(3, 1)}
Pair == {On(0, 1), On(2, 2)}
Single == {On(0, 1)}

Plain == [temperature |-> 50, fill |-> 100, maxRun |-> 1,
          inversions |-> {FALSE}, tied |-> TRUE]
Wild == [temperature |-> 100, fill |-> 100, maxRun |-> 2,
         inversions |-> {TRUE, FALSE}, tied |-> FALSE]

RemoveRow == [id |-> 1, from |-> 1, to |-> 1, family |-> "remove",
           pacing |-> "perCycle", perceptual |-> FALSE, intensity |-> 100,
           scope |-> NoScope, prime |-> 1, direction |-> "earlier", rails |-> Open]
Beat(b) == [start |-> b, len |-> 1]
Pinned(f) == [RemoveRow EXCEPT !.family = f, !.intensity = 50]
Scoped(f) == [Pinned(f) EXCEPT !.scope = Beat(1)]

Eased == {<<[RemoveRow EXCEPT !.family = "add", !.to = 3, !.pacing = p]>> :
            p \in {"linear", "easeInOut"}}
Plans ==
  {<<>>} \union Eased
  \union {<<Pinned(f)>> : f \in Families}
  \union {<<[Scoped(f) EXCEPT !.from = 2, !.to = 2]>> : f \in Families}
  \union {<<[RemoveRow EXCEPT !.family = "rotate", !.to = 3, !.intensity = 70]>>,
          <<[RemoveRow EXCEPT !.family = "fragment", !.perceptual = TRUE,
                           !.rails = [floor |-> 50, ceiling |-> 75]],
            [RemoveRow EXCEPT !.id = 2, !.family = "desyncopate", !.prime = 2]>>,
          <<[RemoveRow EXCEPT !.scope = Beat(2)]>>,
          <<[Pinned("add") EXCEPT !.rails = [floor |-> 0, ceiling |-> 20]]>>,
          <<[Pinned("stochastic") EXCEPT !.to = 2]>>,
          <<[Scoped("stochastic") EXCEPT !.intensity = 100]>>}

Project(seed, plan, curve, style) ==
  [seed |-> seed, plan |-> plan, curve |-> curve, style |-> style]
MCProjects ==
  {Project(Full, p, c, Plain) : p \in Plans, c \in BOOLEAN}
  \union {Project(Pair, p, FALSE, Wild) : p \in Plans}
  \union {Project(Single, p, FALSE, Wild) : p \in Eased}
MCLeashSamples == {25, 50}
MCRailSamples == {Open, [floor |-> 50, ceiling |-> 75]}
MCBands == {[floor |-> 50, ceiling |-> 100]}

\* The tables of every small grid: the ranks are a permutation of the slots
\* with the downbeat on top (barlow.rs), and k onsets on n slots are spread
\* so that any two stretches of the same length differ by at most one
\* (euclid.rs).
SmallGrids == {<<b, s>> \in (1..4) \X (1..4) : Supported(Strata(b, s))}
Even(mask) ==
  LET n == Len(mask)
      heard(i, len) == Cardinality({j \in i..i + len - 1 : mask[(j % n) + 1]})
  IN \A i, j \in 0..n - 1, len \in 1..n - 1 : heard(i, len) <= heard(j, len) + 1
ASSUME TablesSoundAssumption ==
    /\ \A g \in SmallGrids :
         LET rank == Indispensability(Strata(g[1], g[2]))
         IN /\ {rank[x] : x \in DOMAIN rank} = 0..g[1] * g[2] - 1
            /\ DOMAIN rank = 0..g[1] * g[2] - 1
            /\ rank[0] = g[1] * g[2] - 1
    /\ \A n \in 1..8 : \A k \in 0..n :
         /\ Cardinality(SoundingOf(Bjorklund(k, n))) = k
         /\ Even(Bjorklund(k, n))
=============================================================================
