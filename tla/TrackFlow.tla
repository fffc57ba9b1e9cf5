------------------------------ MODULE TrackFlow ------------------------------
(************************************************************************** *)
(* The pure Track Flow resolver of crates/cseq-transport/src/trackflow.rs: *)
(* a weighted Markov walk over the member tracks of one box.  The splitmix  *)
(* generator is abstracted to a stream read by the number of draws so far:  *)
(* what matters is when the walk draws, and that a reset reads it again.    *)
(************************************************************************** *)
EXTENDS Integers, Sequences, SequencesExt, FiniteSets, FiniteSetsExt

\* validate_track_flow_spec: the states are those of the members, a context is
\* as long as the order.
ValidSpec(spec, members) ==
  LET States == 0 .. members - 1
      Contexts == [1 .. spec.order -> States]
  IN /\ spec.order \in 1 .. 2 /\ spec.seed \in Nat
     /\ spec.fallback \in States
     /\ spec.fallbacks \in Seq([value : States, weight : Nat])
     /\ spec.entries \in Seq([value : Contexts, weight : Nat])
     /\ spec.transitions \in Seq([from : Contexts, value : States, weight : Nat])

\* A weighted choice draws even when one candidate has all the weight; with
\* no weight at all it draws nothing and gives the alternative.
WeightedChoice(options, seed, draws, otherwise) ==
  LET upTo[n \in 0 .. Len(options)] ==
        IF n = 0 THEN 0 ELSE upTo[n - 1] + options[n].weight
      total == upTo[Len(options)]
      pick == (seed + ((draws + 1) * (draws + 2)) \div 2) % total
  IN IF total = 0 THEN [value |-> otherwise, draws |-> draws, drawn |-> FALSE]
     ELSE [value |-> options[Min({n \in DOMAIN options : pick < upTo[n]})].value,
           draws |-> draws + 1, drawn |-> TRUE]

\* TrackFlowResolver::new, and reset: the seed again, no history.
FreshWalk == [draws |-> 0, history |-> <<>>, pending |-> <<>>]

\* choose_entry: the states a walk begins with, as many as the context.
EntryStates(spec, walk) ==
  WeightedChoice(spec.entries, spec.seed, walk.draws,
                 [n \in 1 .. spec.order |-> spec.fallback])

\* choose_transition, and choose_fallback where the context leads nowhere.  The
\* fallback is the argument of unwrap_or: it is drawn on every step, used or not.
NextState(spec, walk) ==
  LET context == SubSeq(walk.history, Len(walk.history) - spec.order + 1, Len(walk.history))
      Weighted(t) == [t EXCEPT !.weight = IF t.from = context THEN @ ELSE 0]
      onward == [n \in DOMAIN spec.transitions |-> Weighted(spec.transitions[n])]
      step == WeightedChoice(onward, spec.seed, walk.draws, spec.fallback)
      last == WeightedChoice(spec.fallbacks, spec.seed, step.draws, spec.fallback)
  IN [value |-> IF step.drawn THEN step.value ELSE last.value, draws |-> last.draws]

\* next_choice: while the history is shorter than the context the entry is
\* played out, one state per call; then the chain decides.
Choose(spec, walk) ==
  LET entering == Len(walk.history) < spec.order
      entry == IF walk.pending # <<>> THEN [value |-> walk.pending, draws |-> walk.draws]
               ELSE EntryStates(spec, walk)
      step == IF entering THEN [value |-> Head(entry.value), draws |-> entry.draws]
              ELSE NextState(spec, walk)
  IN [state |-> step.value,
      walk |-> [draws |-> step.draws, history |-> Append(walk.history, step.value),
                pending |-> IF entering THEN Tail(entry.value) ELSE <<>>]]

\* resolve_track_flow: a walk after its first count choices.
Walk(spec, count) ==
  LET walk[n \in 0 .. count] == IF n = 0 THEN FreshWalk ELSE Choose(spec, walk[n - 1]).walk
  IN walk[count]

\* TrackFlowSpec::uniform, over members 0 .. n - 1.
Uniform(n, seed) ==
  LET Member(k) == [value |-> <<k - 1>>, weight |-> 1] IN
  [order |-> 1, seed |-> seed, fallback |-> 0, fallbacks |-> <<>>,
   entries |-> [k \in 1 .. n |-> Member(k)],
   transitions |-> [k \in 1 .. n * n |->
                      [from |-> <<(k - 1) \div n>>, value |-> (k - 1) % n, weight |-> 1]]]
=============================================================================
