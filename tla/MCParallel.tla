----------------------------- MODULE MCParallel -----------------------------
(* Projects of two or three tracks, two beats of four ticks to the cycle.   *)
(* Every source but a follower's and Fast, of two cycles to the window, is  *)
(* as long as the cycle, and its notes end within it.                       *)
EXTENDS ParallelRuntime

CONSTANTS t1, t2, t3

\* A note, in half beats.
note(channel, pitch, on, off) ==
  [channel |-> channel, pitch |-> pitch, on |-> 2 * on, off |-> 2 * off]

source(id, takes) ==
  [id |-> id, evolves |-> FALSE, takes |-> takes, ticks |-> <<8>>]
track(id, takes) ==
  [id |-> id, silent |-> FALSE, trigger |-> None, lane |-> None, sources |-> <<source(id, takes)>>]

project1(policy, tracks) ==
  [cycle |-> 8, policy |-> policy, matrix |-> {}, priority |-> <<>>, tracks |-> tracks]

\* The same voice nested, then alone, then apart; a second voice meets it.
Nested == <<{note(1, 5, 0, 4)}, {note(1, 5, 1, 2), note(1, 5, 3, 4)}>>
Inner == <<{note(1, 5, 1, 3)}, {note(1, 5, 0, 2), note(1, 5, 2, 3)}, {}>>
Third == <<{note(1, 5, 0, 1), note(1, 5, 0, 2), note(1, 6, 2, 4), note(1, 6, 3, 4)}>>

\* Cycles of half the length.
Fast == [track(t3, <<{note(1, 5, 0, 1)}, {note(1, 5, 1, 2), note(1, 6, 0, 2)}, {}>>)
           EXCEPT !.sources[1].ticks = <<4>>]

\* A silent source and what follows its rests.
Lead == [track(t1, <<{note(1, 5, 0, 2)}, {note(1, 5, 0, 1), note(1, 5, 2, 3)}>>)
           EXCEPT !.silent = TRUE]
Follow(reTrigger) ==
  [source |-> t1, when |-> [beat |-> None, tree |-> <<[op |-> "leaf", predicate |-> [type |-> "isRest"]]>>],
   alignment |-> [type |-> "atEvent"], starts |-> None, quantize |-> None,
   gate |-> None, passes |-> 2, phrase |-> <<>>, reTrigger |-> reTrigger]
Follower(r) ==
  [track(t2, <<{note(2, 7, 0, 1)}>>) EXCEPT !.trigger = Follow(r),
                                           !.sources[1].ticks = <<4>>]

\* A second-order lane over two members, one of which evolves.  Its fallbacks
\* have weights: every step past the entry draws one of them too.
Chain ==
  [order |-> 2, seed |-> 2, fallback |-> 1,
   fallbacks |-> <<[value |-> 0, weight |-> 1], [value |-> 1, weight |-> 2]>>,
   entries |-> <<[value |-> <<0, 1>>, weight |-> 1]>>,
   transitions |-> <<[from |-> <<0, 1>>, value |-> 0, weight |-> 2],
                     [from |-> <<0, 1>>, value |-> 1, weight |-> 1],
                     [from |-> <<1, 0>>, value |-> 0, weight |-> 1]>>]
Box == [track(t3, <<>>) EXCEPT
          !.lane = Chain,
          !.sources = <<source(t1, Inner), [source(t2, Nested) EXCEPT !.evolves = TRUE]>>]

MCProjects ==
  {project1(p, <<track(t1, Nested), track(t2, Inner)>>) :
     p \in {"allowAll", "xor", "alternate", "majority"}}
  \cup {[project1("priorityOrder", <<track(t1, Nested), track(t2, Inner), track(t3, Third)>>)
           EXCEPT !.priority = <<t3, t1>>],
        [project1("oneHigh", <<track(t1, Nested), track(t2, Inner), track(t3, Third)>>)
           EXCEPT !.matrix = {[pair |-> {t1, t3}, channel |-> 0, policy |-> "or"]}],
        project1("randomOne", <<track(t2, Third), Box>>),
        project1("xor", <<track(t2, Inner), [Box EXCEPT !.lane = Uniform(2, 3)]>>)}
  \cup {project1("xor", <<track(t1, Nested), Fast>>)}
  \cup {project1("allowAll", <<Lead, Follower(r)>>) : r \in {"queue", "restart"}}
  \cup {project1("or", <<Lead, [Follower("ignore") EXCEPT
                                 !.trigger.alignment = [type |-> "afterEventTicks", ticks |-> 14]]>>),
        project1("allowAll", <<track(t1, <<{note(1, 5, 0, 2)}>>), track(t2, Inner),
                               track(t3, <<{note(1, 5, 2, 4)}>>)>>)}

\* What EveryNoteEnds takes of the notes holds of these.
ASSUME NotesLastAssumption == NotesLast

\* What OffsWait, TimelineTrue, ChannelExclusive and SteppedIsSinglePass take of
\* the tracks holds of the projects without a follower.
ASSUME LayoutAssumption ==
  /\ StepsShort
  /\ \A p \in MCProjects : (\A t \in DOMAIN p.tracks : Kind(p, t) # "triggered") =>
       CyclesMeet(p) /\ StartsApart(p)
=============================================================================
