----------------------------- MODULE DumkaGrid -----------------------------
(***************************************************************************)
(* The tables the Dum-Ka evolution engine orders its choices by, for a     *)
(* cycle of a number of beats with the same number of slots in each:       *)
(* Barlow's indispensability (which pulse matters most), the metrical      *)
(* levels of the syncopation operators, and the Euclidean masks of the     *)
(* figures and of Reshape.  All are pure functions of small integers.      *)
(***************************************************************************)
EXTENDS Integers, Sequences, FiniteSets, SequencesExt

-----------------------------------------------------------------------------
(* Stratified meters. *)

\* Barlow's order of the pulses of a prime stratum, strongest highest.
PrimePsi == (2 :> <<1, 0>>) @@ (3 :> <<2, 0, 1>>)
            @@ (5 :> <<4, 0, 3, 1, 2>>) @@ (7 :> <<6, 0, 4, 2, 5, 1, 3>>)

\* The prime factors of value, largest first.
FactorDescending(value) ==
  LET Divisors(n) == {p \in 2..n : n % p = 0}
      f[n \in 1..value] ==
        IF n = 1 THEN <<>>
        ELSE LET p == CHOOSE p \in Divisors(n) : \A q \in Divisors(n) : p <= q
             IN f[n \div p] \o <<p>>
  IN f[value]

\* Beats divide the cycle before the subdivision divides the beat.
Strata(beats, subdivision) ==
  FactorDescending(beats) \o FactorDescending(subdivision)

\* A grid with a prime factor beyond the published tables has no ranks.
Supported(strata) == ToSet(strata) \subseteq DOMAIN PrimePsi

\* The rank of every pulse, a function on 0 .. n-1: the starts of the outer
\* groups take the top ranks, the pulses inside a group are banded by their
\* own rank and ordered by the strength of the group that follows (pickups).
Indispensability(strata) ==
  LET r[i \in 1..Len(strata) + 1] ==
        IF i > Len(strata) THEN (0 :> 0)
        ELSE LET q == strata[i]
                 m == Cardinality(DOMAIN r[i + 1])
                 psi == PrimePsi[q]
             IN [x \in 0..q * m - 1 |->
                   IF x % m = 0
                   THEN q * m - q + psi[x \div m + 1]
                   ELSE r[i + 1][x % m] * q + psi[((x \div m + 1) % q) + 1]]
  IN r[1]

\* The level of every slot: 0 at the cycle start, i on the pulses the i-th
\* stratum creates, the deepest level everywhere else.
MetricalLevels(strata) ==
  LET n == FoldLeft(LAMBDA a, q : a * q, 1, strata)
      period == [i \in 0..Len(strata) |->
                   n \div FoldLeft(LAMBDA a, q : a * q, 1, SubSeq(strata, 1, i))]
  IN [slot \in 0..n - 1 |->
        IF slot = 0 THEN 0
        ELSE CHOOSE i \in 1..Len(strata) :
               /\ slot % period[i] = 0
               /\ \A j \in 1..i - 1 : slot % period[j] # 0]

\* The level whose period is one beat.
BeatLevel(beats) == Len(FactorDescending(beats))

-----------------------------------------------------------------------------
(* Euclidean masks: sequences of BOOLEAN. *)

\* A bucket folding: a groups of one kind, then b of another.  As long as
\* more than one trailing group is left, each is paired with a leading one
\* and whichever kind is left over trails the pairs.
Fold(bucket) ==
  LET pairs == IF bucket.a < bucket.b THEN bucket.a ELSE bucket.b
  IN IF bucket.b <= 1 THEN bucket
     ELSE [lead |-> bucket.lead \o bucket.tail, a |-> pairs,
           tail |-> IF bucket.a > pairs THEN bucket.lead ELSE bucket.tail,
           b |-> bucket.a + bucket.b - 2 * pairs]

Copies(s, n) == FlattenSeq([i \in 1..n |-> s])

\* The maximally even placement of k onsets on n slots.
Bjorklund(k, n) ==
  LET f[i \in 0..n] ==
        IF i = 0 THEN [lead |-> <<TRUE>>, a |-> k, tail |-> <<FALSE>>, b |-> n - k]
        ELSE Fold(f[i - 1])
  IN IF k \in {0, n} THEN [i \in 1..n |-> k = n]
     ELSE Copies(f[n].lead, f[n].a) \o Copies(f[n].tail, f[n].b)

\* Onsets clustered into bursts of at most run, the shorter burst last, and
\* the bursts spread among the rests.
BurstMask(k, n, run) ==
  LET len == IF run < n THEN run ELSE n
      full == k \div len
      bursts == full + (IF k % len > 0 THEN 1 ELSE 0)
      scaffold == Bjorklund(bursts, bursts + n - k)
      nth(i) == Cardinality({j \in 1..i : scaffold[j]})
  IN IF k = 0 \/ len = 1 THEN Bjorklund(k, n)
     ELSE FlattenSeq([i \in 1..Len(scaffold) |->
            IF ~scaffold[i] THEN <<FALSE>>
            ELSE IF nth(i) <= full THEN Copies(<<TRUE>>, len)
                                   ELSE Copies(<<TRUE>>, k % len)])

\* The places a mask sounds, counted from 0.
SoundingOf(mask) == {i - 1 : i \in {j \in DOMAIN mask : mask[j]}}

\* The sizes a figure of len slots may have.
MaxFigureK == 64
KCandidates(len) == 2..(IF len < MaxFigureK THEN len ELSE MaxFigureK)

\* True equal tuplets come first, then the maximally even sizes.
SimplerSize(len, j, k) ==
  \/ (len % j = 0) /\ (len % k # 0)
  \/ ((len % j = 0) <=> (len % k = 0)) /\ j < k
=============================================================================
