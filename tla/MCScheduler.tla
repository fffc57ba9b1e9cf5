----------------------------- MODULE MCScheduler -----------------------------
(* Small instances of Scheduler: scores and runtimes whose cycles are two  *)
(* and three ticks, two keys, and notes that end within their cycle, at its *)
(* end or in the next one; other readings of them for the runs about one   *)
(* question.                                                               *)
EXTENDS Scheduler

CONSTANTS k1, k2, score1, rhythm1, project1, project2

MCKeys == {k1, k2}
N(on, off) == [key |-> k1, on |-> on, off |-> off]
M(on, off) == [key |-> k2, on |-> on, off |-> off]

MCTpc == [x \in Scores \cup Runtimes |-> IF x = score1 THEN 2 ELSE 3]

\* Notes of one source never sound together; a short and a legato reading.
MCTakes ==
  [x \in Sources |->
     CASE x = project1 -> {{N(0, 2), M(1, 4)}}
       [] x = project2 -> {{N(1, 3)}}
       [] x = <<score1, Absent>> -> {{N(0, 2)}, {N(1, 2), M(0, 1)}}
       [] OTHER -> {{N(0, 1)}, {}}]

MCForward == {<<project1, project2>>}
MCFailing == {<<score1, rhythm1>>}

\* What the theorems take of the notes holds of these.
ASSUME NotesAssumption == NotesLast /\ NotesStartInTime
=============================================================================
