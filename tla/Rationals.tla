----------------------------- MODULE Rationals -----------------------------
(***************************************************************************)
(* Exact fractions, for cseq_model::Rational (num_rational::Rational64):   *)
(* pairs <<n, d>> in lowest terms with d > 0.  Durations, offsets and      *)
(* positions of a score are such fractions and are compared exactly; the   *)
(* instances are small enough for the 64 bits never to matter.             *)
(***************************************************************************)
EXTENDS Integers, SequencesExt

RECURSIVE Gcd(_, _)
Gcd(a, b) == IF b = 0 THEN a ELSE Gcd(b, a % b)

Magnitude(n) == IF n < 0 THEN -n ELSE n

Rat(n, d) == LET Reduce(g) == <<n \div g, d \div g>>
             IN Reduce(IF n = 0 THEN d ELSE Gcd(Magnitude(n), d))
Whole(n) == <<n, 1>>
Zero == Whole(0)
One == Whole(1)

Plus(a, b) == Rat(a[1] * b[2] + b[1] * a[2], a[2] * b[2])
Minus(a, b) == Rat(a[1] * b[2] - b[1] * a[2], a[2] * b[2])
Times(a, b) == Rat(a[1] * b[1], a[2] * b[2])
Over(a, b) == Rat(a[1] * b[2], a[2] * b[1])  \* b > 0 wherever the code divides

Less(a, b) == a[1] * b[2] < b[1] * a[2]
AtMost(a, b) == a[1] * b[2] =< b[1] * a[2]
Floored(a) == a[1] \div a[2]
Rounded(a) == (2 * a[1] + a[2]) \div (2 * a[2])  \* a half goes up

Total(s) == FoldLeft(Plus, Zero, s)

\* A stable sort.
Stably(s, Before(_, _)) ==
  LET Earlier(i, j) == Before(s[i], s[j]) \/ (~Before(s[j], s[i]) /\ i < j)
      order == SortSeq([i \in DOMAIN s |-> i], Earlier)
  IN [i \in DOMAIN s |-> s[order[i]]]
=============================================================================
