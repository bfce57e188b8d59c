-------------------------- MODULE ReproductionProofs ---------------------------
(***************************************************************************)
(* What module Reproduction guarantees for any number of events, whatever  *)
(* they say.                                                               *)
(***************************************************************************)
EXTENDS Reproduction, FiniteSetTheorems, SequenceTheorems, WellFoundedInduction, TLAPS

-----------------------------------------------------------------------------
(* Smallest and greatest numbers.                                          *)

\* Among naturals there is a smallest.
LEMMA Smallest ==
  ASSUME NEW S \in SUBSET Nat, S # {}
  PROVE  Min(S) \in S /\ \A m \in S : Min(S) <= m
<1> DEFINE Less == OpToRel(<, Nat)
<1>1. \A m, n \in Nat : m < n => <<m, n>> \in Less
  BY DEF OpToRel
<1>2. IsWellFoundedOn(Less, Nat)
  BY NatLessThanWellFounded
<1> HIDE DEF Less
<1>3. PICK n \in S : \A m \in S : ~(<<m, n>> \in Less)
  BY <1>2, WFMin
<1>4. \A m \in S : ~(m < n)
  BY <1>1, <1>3
<1>5. n \in Nat /\ \A m \in S : m \in Nat
  OBVIOUS
<1>6. \A m \in S : n <= m
  BY <1>4, <1>5
<1> QED
  BY <1>6 DEF Min

\* Among naturals up to a bound there is a greatest.
LEMMA Greatest ==
  ASSUME NEW N \in Nat, NEW S \in SUBSET (0 .. N), S # {}
  PROVE  Max(S) \in S /\ \A m \in S : m <= Max(S)
<1> DEFINE R == {k \in 0 .. N : N - k \in S}
<1>1. PICK x \in S : TRUE
  OBVIOUS
<1>2. N - x \in 0 .. N /\ N - (N - x) = x
  OBVIOUS
<1>3. N - x \in R
  BY <1>2
<1>4. R \in SUBSET Nat /\ R # {}
  <2>1. \A k \in R : k \in Nat
    OBVIOUS
  <2> HIDE DEF R
  <2> QED
    BY <1>3, <2>1
<1> DEFINE k == Min(R)
<1>5. k \in R /\ \A m \in R : k <= m
  BY <1>4, Smallest
<1> HIDE DEF k
<1>6. k \in 0 .. N /\ N - k \in S
  BY <1>5
<1>7. ASSUME NEW m \in S PROVE m <= N - k
  <2>1. N - m \in 0 .. N /\ N - (N - m) = m
    OBVIOUS
  <2>2. N - m \in R
    BY <2>1
  <2>3. k <= N - m
    BY <1>5, <2>2
  <2> QED
    BY <1>6, <2>3
<1>8. \A m \in S : N - k >= m
  BY <1>6, <1>7
<1>9. Max(S) \in S /\ \A m \in S : Max(S) >= m
  BY <1>6, <1>8 DEF Max
<1> QED
  BY <1>9

-----------------------------------------------------------------------------
(* The common suffix.                                                      *)

\* Do all of T have the same n-th last step?
Alike(T, n) == \A s, t \in T : s[Len(s) - n] = t[Len(t) - n]

\* The loop stops at the first step from the end that not all share.
LEMMA CommonSuffixFacts ==
  ASSUME NEW A, NEW T \in SUBSET Seq(A), T # {}
  PROVE  /\ CommonSuffix(T) \in Nat
         /\ \A t \in T : CommonSuffix(T) <= Len(t)
         /\ \A n \in Nat : n < CommonSuffix(T) => Alike(T, n)
         /\ (\A t \in T : Len(t) > CommonSuffix(T)) => ~Alike(T, CommonSuffix(T))
<1> DEFINE lengths == {Len(t) : t \in T}
           length == Min(lengths)
           Goes(n) == n < length /\ Alike(T, n)
           Rule(g) == g = [n \in 0 .. length |-> IF Goes(n) THEN g[n + 1] ELSE n]
           stops == {n \in 0 .. length : ~Goes(n)}
           stop(n) == Min({m \in stops : n <= m})
           f == [n \in 0 .. length |-> stop(n)]
<1>1. lengths \in SUBSET Nat /\ lengths # {}
  <2>1. \A t \in T : Len(t) \in Nat
    OBVIOUS
  <2> QED
    BY <2>1
<1>2. length \in lengths /\ \A m \in lengths : length <= m
  BY <1>1, Smallest
<1>3. length \in Nat /\ (\A t \in T : length <= Len(t)) /\ \E t \in T : length = Len(t)
  BY <1>1, <1>2
<1> HIDE DEF lengths, length
<1>4. length \in stops /\ stops \in SUBSET (0 .. length)
  BY <1>3
<1> HIDE DEF Goes
<1>5. \A n \in 0 .. length : n \in stops <=> ~Goes(n)
  OBVIOUS
<1> HIDE DEF stops
<1>6. ASSUME NEW n \in 0 .. length
      PROVE  /\ stop(n) \in stops /\ stop(n) \in 0 .. length /\ n <= stop(n)
             /\ \A m \in stops : n <= m => stop(n) <= m
  <2> DEFINE U == {m \in stops : n <= m}
  <2>1. U \in SUBSET Nat /\ U # {}
    <3>1. \A k \in U : k \in Nat
      BY <1>3, <1>4
    <3>2. length \in U
      BY <1>3, <1>4
    <3> HIDE DEF U
    <3> QED
      BY <3>1, <3>2
  <2>2. Min(U) \in U /\ \A m \in U : Min(U) <= m
    BY <2>1, Smallest
  <2>3. \A m : m \in U <=> m \in stops /\ n <= m
    OBVIOUS
  <2>4. stop(n) = Min(U)
    OBVIOUS
  <2> HIDE DEF U, stop
  <2> QED
    BY <1>4, <2>2, <2>3, <2>4
<1> HIDE DEF stop
<1>7. ASSUME NEW n \in 0 .. length
      PROVE  stop(n) = IF Goes(n) THEN stop(n + 1) ELSE n
  <2>1. stop(n) \in Nat /\ n \in Nat
    BY <1>3, <1>6
  <2>2. CASE ~Goes(n)
    <3>1. n \in stops
      BY <1>5, <2>2
    <3>2. stop(n) <= n /\ n <= stop(n)
      BY <1>6, <3>1
    <3>3. stop(n) = n
      BY <2>1, <3>2
    <3> QED
      BY <2>2, <3>3
  <2>3. CASE Goes(n)
    <3>1. n \notin stops /\ n < length
      BY <1>5, <2>3 DEF Goes
    <3>2. n + 1 \in 0 .. length
      BY <1>3, <3>1
    <3>3. \A m \in stops : n <= m <=> n + 1 <= m
      BY <1>3, <1>4, <3>1
    <3>4. stop(n) = stop(n + 1)
      <4>1. {m \in stops : n <= m} = {m \in stops : n + 1 <= m}
        BY <3>3
      <4> QED
        BY <4>1 DEF stop
    <3> QED
      BY <2>3, <3>4
  <2> QED
    BY <2>2, <2>3
<1>8. Rule(f)
  <2>1. ASSUME NEW n \in 0 .. length PROVE f[n] = IF Goes(n) THEN f[n + 1] ELSE n
    <3>1. CASE Goes(n)
      <4>1. n + 1 \in 0 .. length
        BY <1>3, <3>1 DEF Goes
      <4> QED
        BY <1>7, <3>1, <4>1
    <3>2. CASE ~Goes(n)
      BY <1>7, <3>2
    <3> QED
      BY <3>1, <3>2
  <2> QED
    BY <2>1
<1>9. ASSUME NEW g, Rule(g) PROVE g[0] = f[0]
  <2> DEFINE bad == {k \in 0 .. length : g[k] # f[k]}
             last == Max(bad)
  <2>1. \A n \in 0 .. length : g[n] = IF Goes(n) THEN g[n + 1] ELSE n
    BY <1>9
  <2>2. \A n \in 0 .. length : f[n] = IF Goes(n) THEN f[n + 1] ELSE n
    BY <1>8
  <2> HIDE DEF f
  <2>3. CASE bad # {}
    <3>1. last \in bad /\ \A m \in bad : m <= last
      BY <1>3, <2>3, Greatest
    <3> HIDE DEF last
    <3>2. last \in 0 .. length /\ g[last] # f[last]
      BY <3>1
    <3>3. CASE Goes(last)
      <4>1. last + 1 \in 0 .. length
        BY <1>3, <3>2, <3>3 DEF Goes
      <4>2. last + 1 \notin bad
        BY <1>3, <3>1, <3>2
      <4>3. g[last + 1] = f[last + 1]
        BY <4>1, <4>2
      <4> QED
        BY <2>1, <2>2, <3>2, <3>3, <4>3
    <3>4. CASE ~Goes(last)
      BY <2>1, <2>2, <3>2, <3>4
    <3> QED
      BY <3>3, <3>4
  <2>4. CASE bad = {}
    BY <1>3, <2>4
  <2> QED
    BY <2>3, <2>4
<1>10. CommonSuffix(T) = (CHOOSE g : Rule(g))[0]
  BY DEF CommonSuffix, Goes, Alike, length, lengths
<1> DEFINE c == CommonSuffix(T)
<1>11. c = stop(0)
  <2>1. Rule(CHOOSE g : Rule(g))
    <3> HIDE DEF Rule, f
    <3> QED
      BY <1>8
  <2>2. (CHOOSE g : Rule(g))[0] = f[0]
    <3> HIDE DEF Rule, f
    <3> QED
      BY <1>9, <2>1
  <2>3. f[0] = stop(0)
    BY <1>3
  <2> QED
    BY <1>10, <2>2, <2>3
<1>12. c \in stops /\ c \in 0 .. length /\ \A m \in stops : c <= m
  BY <1>3, <1>4, <1>6, <1>11
<1> HIDE DEF c
<1>13. ASSUME NEW n \in Nat, n < c PROVE Alike(T, n)
  <2>1. n \in 0 .. length /\ ~(c <= n)
    BY <1>3, <1>12, <1>13
  <2>2. n \notin stops
    BY <1>12, <2>1
  <2> QED
    BY <1>5, <2>1, <2>2 DEF Goes
<1>14. ASSUME \A t \in T : Len(t) > c PROVE ~Alike(T, c)
  <2>1. c < length
    BY <1>3, <1>14
  <2>2. ~Goes(c)
    BY <1>5, <1>12
  <2> QED
    BY <2>1, <2>2 DEF Goes
<1>15. c \in Nat /\ \A t \in T : c <= Len(t)
  <2>1. c \in Nat /\ c <= length
    BY <1>3, <1>12
  <2>2. \A t \in T : Len(t) \in Nat /\ length <= Len(t)
    BY <1>3
  <2> QED
    BY <1>3, <2>1, <2>2
<1> QED
  BY <1>13, <1>14, <1>15 DEF c
-----------------------------------------------------------------------------
(* Steps and variants.                                                     *)

StepKeys == UNION {Range(k.trail) : k \in Kinds}

LEMMA TrailType ==
  ASSUME kind \in [Events -> Kinds], NEW e \in Events
  PROVE  Trail(e) \in Seq(StepKeys)
<1>1. kind[e] \in Kinds
  OBVIOUS
<1>2. Trail(e) \in Seq(Range(Trail(e)))
  BY <1>1, ReproductionAssumption DEF Trail
<1>3. Range(Trail(e)) \in {Range(k.trail) : k \in Kinds}
  BY <1>1 DEF Trail
<1>4. Range(Trail(e)) \subseteq StepKeys
  BY <1>3 DEF StepKeys
<1> QED
  BY <1>2, <1>4

LEMMA EventsAreNumbers == Events \in SUBSET Nat /\ IsFiniteSet(Events)
<1>1. MaxEvents \in Nat
  BY ReproductionAssumption
<1> QED
  BY <1>1, FS_Interval DEF Events

LEMMA SubSeqFacts ==
  ASSUME NEW A, NEW s \in Seq(A), NEW a \in 1 .. Len(s) + 1, NEW b \in 0 .. Len(s), a <= b + 1
  PROVE  /\ SubSeq(s, a, b) \in Seq(A) /\ Len(SubSeq(s, a, b)) = b - a + 1
         /\ \A i \in 1 .. b - a + 1 : SubSeq(s, a, b)[i] = s[a + i - 1]
  OBVIOUS

\* One sequence ends another.
LEMMA SuffixFacts ==
  ASSUME NEW A, NEW s \in Seq(A), NEW t \in Seq(A)
  PROVE  IsSuffix(s, t) <=> /\ Len(s) <= Len(t)
                            /\ \A n \in Nat : n < Len(s) => s[Len(s) - n] = t[Len(t) - n]
<1> DEFINE r == Reverse(s)
           q == Reverse(t)
<1>1. Len(s) \in Nat /\ Len(t) \in Nat
  OBVIOUS
<1>2. /\ Len(r) = Len(s) /\ Len(q) = Len(t)
      /\ r \in Seq(A) /\ q \in Seq(A)
      /\ \A i \in 1 .. Len(s) : r[i] = s[Len(s) - i + 1]
      /\ \A i \in 1 .. Len(t) : q[i] = t[Len(t) - i + 1]
  BY DEF Reverse
<1> HIDE DEF r, q
<1>3. CASE Len(s) <= Len(t)
  <2> DEFINE x == SubSeq(r, 1, Len(r))
             y == SubSeq(q, 1, Len(r))
  <2>1. /\ x \in Seq(A) /\ y \in Seq(A) /\ Len(x) = Len(s) /\ Len(y) = Len(s)
        /\ \A i \in 1 .. Len(s) : x[i] = r[i] /\ y[i] = q[i]
    BY <1>1, <1>2, <1>3
  <2>2. IsSuffix(s, t) <=> x = y
    BY <1>2, <1>3 DEF IsSuffix, IsPrefix, r, q
  <2> HIDE DEF x, y
  <2>3. x = y <=> \A i \in 1 .. Len(s) : x[i] = y[i]
    BY <2>1
  <2>4. ASSUME NEW i \in 1 .. Len(s)
        PROVE  x[i] = s[Len(s) - i + 1] /\ y[i] = t[Len(t) - i + 1]
    BY <1>1, <1>2, <1>3, <2>1
  <2>5. ASSUME NEW n \in Nat, n < Len(s)
        PROVE  x[n + 1] = s[Len(s) - n] /\ y[n + 1] = t[Len(t) - n] /\ n + 1 \in 1 .. Len(s)
    <3>1. n + 1 \in 1 .. Len(s) /\ Len(s) - (n + 1) + 1 = Len(s) - n /\ Len(t) - (n + 1) + 1 = Len(t) - n
      BY <1>1, <2>5
    <3>2. x[n + 1] = s[Len(s) - (n + 1) + 1] /\ y[n + 1] = t[Len(t) - (n + 1) + 1]
      BY <2>4, <3>1
    <3> QED
      BY <3>1, <3>2
  <2>6. ASSUME \A i \in 1 .. Len(s) : x[i] = y[i], NEW n \in Nat, n < Len(s)
        PROVE  s[Len(s) - n] = t[Len(t) - n]
    BY <2>5, <2>6
  <2>7. ASSUME \A n \in Nat : n < Len(s) => s[Len(s) - n] = t[Len(t) - n], NEW i \in 1 .. Len(s)
        PROVE  x[i] = y[i]
    <3>1. i - 1 \in Nat /\ i - 1 < Len(s) /\ Len(s) - (i - 1) = Len(s) - i + 1
          /\ Len(t) - (i - 1) = Len(t) - i + 1
      BY <1>1
    <3>2. s[Len(s) - (i - 1)] = t[Len(t) - (i - 1)]
      BY <2>7, <3>1
    <3> QED
      BY <2>4, <3>1, <3>2
  <2> QED
    BY <1>3, <2>2, <2>3, <2>6, <2>7
<1>4. CASE ~(Len(s) <= Len(t))
  BY <1>2, <1>4 DEF IsSuffix, IsPrefix, r, q
<1> QED
  BY <1>3, <1>4

\* All trails end with the steps, and not all with a longer sequence.
LEMMA StepsFacts ==
  ASSUME kind \in [Events -> Kinds], NEW evs \in SUBSET Events, WithSteps(evs) # {}
  PROVE  /\ Core(evs) \in Nat
         /\ Steps(evs) \in Seq(StepKeys) /\ Len(Steps(evs)) = Core(evs)
         /\ \A e \in WithSteps(evs) :
              /\ Trail(e) \in Seq(StepKeys) /\ Core(evs) <= Len(Trail(e))
              /\ \A n \in Nat : n < Core(evs) =>
                   Steps(evs)[Core(evs) - n] = Trail(e)[Len(Trail(e)) - n]
         /\ (\A e \in WithSteps(evs) : Len(Trail(e)) > Core(evs)) =>
              \E e, f \in WithSteps(evs) :
                Trail(e)[Len(Trail(e)) - Core(evs)] # Trail(f)[Len(Trail(f)) - Core(evs)]
<1> DEFINE T == {Trail(e) : e \in WithSteps(evs)}
           c == Core(evs)
           ref == Trail(Min(WithSteps(evs)))
<1>1. \A e \in WithSteps(evs) : e \in Events /\ Trail(e) \in Seq(StepKeys) /\ Trail(e) \in T
  BY TrailType DEF WithSteps
<1>2. T \in SUBSET Seq(StepKeys) /\ T # {}
  BY <1>1
<1>3. c = CommonSuffix(T)
  BY DEF Core
<1>4. \A t \in T : \E e \in WithSteps(evs) : t = Trail(e)
  OBVIOUS
<1> HIDE DEF T, c
<1>5. /\ c \in Nat
      /\ \A t \in T : c <= Len(t)
      /\ \A n \in Nat : n < c => Alike(T, n)
      /\ (\A t \in T : Len(t) > c) => ~Alike(T, c)
  BY <1>2, <1>3, CommonSuffixFacts
<1>6. Min(WithSteps(evs)) \in WithSteps(evs)
  <2>1. WithSteps(evs) \in SUBSET Nat
    BY EventsAreNumbers DEF WithSteps
  <2> QED
    BY <2>1, Smallest
<1>7. ref \in Seq(StepKeys) /\ ref \in T /\ c <= Len(ref)
  BY <1>1, <1>5, <1>6
<1>8. Steps(evs) = SubSeq(ref, Len(ref) - c + 1, Len(ref))
  BY DEF Steps, c
<1> HIDE DEF ref
<1>9. /\ Steps(evs) \in Seq(StepKeys) /\ Len(Steps(evs)) = c
      /\ \A i \in 1 .. c : Steps(evs)[i] = ref[Len(ref) - c + i]
  <2>1. Len(ref) \in Nat
    BY <1>7
  <2>2. /\ Len(ref) - c + 1 \in 1 .. Len(ref) + 1 /\ Len(ref) \in 0 .. Len(ref)
        /\ Len(ref) - c + 1 <= Len(ref) + 1 /\ Len(ref) - (Len(ref) - c + 1) + 1 = c
        /\ \A i \in 1 .. c : Len(ref) - c + 1 + i - 1 = Len(ref) - c + i
    BY <1>5, <1>7, <2>1
  <2>3. /\ Steps(evs) \in Seq(StepKeys)
        /\ Len(Steps(evs)) = Len(ref) - (Len(ref) - c + 1) + 1
        /\ \A i \in 1 .. Len(ref) - (Len(ref) - c + 1) + 1 : Steps(evs)[i] = ref[Len(ref) - c + 1 + i - 1]
    BY <1>7, <1>8, <2>2, SubSeqFacts
  <2> QED
    BY <2>2, <2>3
<1>10. ASSUME NEW e \in WithSteps(evs), NEW n \in Nat, n < c
       PROVE  Steps(evs)[c - n] = Trail(e)[Len(Trail(e)) - n]
  <2>1. c - n \in 1 .. c /\ Len(ref) - c + (c - n) = Len(ref) - n
    BY <1>5, <1>7, <1>10
  <2>2. Steps(evs)[c - n] = ref[Len(ref) - c + (c - n)]
    BY <1>9, <2>1
  <2>3. ref[Len(ref) - n] = Trail(e)[Len(Trail(e)) - n]
    BY <1>1, <1>5, <1>7, <1>10 DEF Alike
  <2> QED
    BY <2>1, <2>2, <2>3
<1>11. ASSUME \A e \in WithSteps(evs) : Len(Trail(e)) > c
       PROVE  \E e, f \in WithSteps(evs) : Trail(e)[Len(Trail(e)) - c] # Trail(f)[Len(Trail(f)) - c]
  <2>1. \A t \in T : Len(t) > c
    BY <1>4, <1>11
  <2>2. PICK s \in T, t \in T : s[Len(s) - c] # t[Len(t) - c]
    BY <1>5, <2>1 DEF Alike
  <2> QED
    BY <1>4, <2>2
<1>12. \A e \in WithSteps(evs) : Trail(e) \in Seq(StepKeys) /\ c <= Len(Trail(e))
  BY <1>1, <1>5
<1> QED
  BY <1>5, <1>9, <1>10, <1>11, <1>12 DEF c

\* What an event did before the steps, and the steps, are its trail.
LEMMA BeforeFacts ==
  ASSUME kind \in [Events -> Kinds], NEW evs \in SUBSET Events, NEW e \in WithSteps(evs)
  PROVE  /\ Before(evs)[e] \o Steps(evs) = Trail(e)
         /\ Before(evs)[e] = <<>> => Trail(e) = Steps(evs)
<1> DEFINE c == Core(evs)
           t == Trail(e)
           u == Steps(evs)
           b == SubSeq(t, 1, Len(t) - c)
<1>1. /\ c \in Nat /\ t \in Seq(StepKeys) /\ c <= Len(t)
      /\ u \in Seq(StepKeys) /\ Len(u) = c
      /\ \A n \in Nat : n < c => u[c - n] = t[Len(t) - n]
  BY StepsFacts
<1>2. Before(evs)[e] = b
  BY DEF Before
<1> HIDE DEF c, t, u
<1>3. Len(t) \in Nat
  BY <1>1
<1>4. b \in Seq(StepKeys) /\ Len(b) = Len(t) - c /\ \A i \in 1 .. Len(t) - c : b[i] = t[i]
  BY <1>1, <1>3
<1> HIDE DEF b
<1>5. \A i \in 1 .. c : u[i] = t[Len(t) - c + i]
  <2> SUFFICES ASSUME NEW i \in 1 .. c PROVE u[i] = t[Len(t) - c + i]
    OBVIOUS
  <2>1. c - i \in Nat /\ c - i < c /\ c - (c - i) = i /\ Len(t) - (c - i) = Len(t) - c + i
    BY <1>1, <1>3
  <2>2. u[c - (c - i)] = t[Len(t) - (c - i)]
    BY <1>1, <2>1
  <2> QED
    BY <2>1, <2>2
<1>6. b \o u = t
  <2>1. /\ b \o u \in Seq(StepKeys) /\ Len(b \o u) = Len(t)
        /\ \A i \in 1 .. Len(t) : (b \o u)[i] = IF i <= Len(t) - c THEN b[i] ELSE u[i - (Len(t) - c)]
    <3>1. Len(b) + Len(u) = Len(t)
      BY <1>1, <1>3, <1>4
    <3>2. /\ b \o u \in Seq(StepKeys) /\ Len(b \o u) = Len(b) + Len(u)
          /\ \A i \in 1 .. Len(b) + Len(u) : (b \o u)[i] = IF i <= Len(b) THEN b[i] ELSE u[i - Len(b)]
      BY <1>1, <1>4, ConcatProperties
    <3> QED
      BY <1>4, <3>1, <3>2
  <2>2. \A i \in 1 .. Len(t) : (b \o u)[i] = t[i]
    <3> SUFFICES ASSUME NEW i \in 1 .. Len(t) PROVE (b \o u)[i] = t[i]
      OBVIOUS
    <3>1. CASE i <= Len(t) - c
      <4>1. i \in 1 .. Len(t) - c
        BY <1>1, <1>3, <3>1
      <4> QED
        BY <1>4, <2>1, <3>1, <4>1
    <3>2. CASE ~(i <= Len(t) - c)
      <4>1. i - (Len(t) - c) \in 1 .. c /\ Len(t) - c + (i - (Len(t) - c)) = i
        BY <1>1, <1>3, <3>2
      <4>2. u[i - (Len(t) - c)] = t[Len(t) - c + (i - (Len(t) - c))]
        BY <1>5, <4>1
      <4>3. (b \o u)[i] = u[i - (Len(t) - c)]
        BY <2>1, <3>2
      <4> QED
        BY <4>1, <4>2, <4>3
    <3> QED
      BY <3>1, <3>2
  <2> DEFINE w == b \o u
  <2>3. w \in Seq(StepKeys) /\ Len(w) = Len(t) /\ \A i \in 1 .. Len(t) : w[i] = t[i]
    BY <2>1, <2>2
  <2> HIDE DEF w
  <2>4. w = t
    BY <1>1, <2>3
  <2> QED
    BY <2>4 DEF w
<1>7. ASSUME b = <<>> PROVE t = u
  BY <1>1, <1>6, <1>7
<1> QED
  BY <1>2, <1>6, <1>7 DEF t, u

LEMMA StepsAreShared ==
  ASSUME kind \in [Events -> Kinds], events \in SUBSET Events
  PROVE  StepsShared
<1> DEFINE trails == {Trail(e) : e \in events} \ {<<>>}
           steps == Steps(events)
           c == Core(events)
           longer(t) == SubSeq(t, Len(t) - Len(steps), Len(t))
<1>1. \A t \in trails : \E e \in WithSteps(events) : t = Trail(e)
  BY DEF WithSteps
<1>2. \A e \in WithSteps(events) : Trail(e) \in trails
  BY DEF WithSteps
<1>3. StepsShared <=> (at = "answer" =>
        /\ \A t \in trails : IsSuffix(steps, t)
        /\ \A t \in trails : t # steps => \E s \in trails : ~IsSuffix(longer(t), s))
  BY DEF StepsShared
<1>4. CASE WithSteps(events) = {}
  <2>1. \A t \in trails : FALSE
    BY <1>1, <1>4
  <2> HIDE DEF trails, steps, longer
  <2> QED
    BY <1>3, <2>1
<1>5. CASE WithSteps(events) # {}
  <2>1. /\ c \in Nat /\ steps \in Seq(StepKeys) /\ Len(steps) = c
        /\ \A e \in WithSteps(events) :
             /\ Trail(e) \in Seq(StepKeys) /\ c <= Len(Trail(e))
             /\ \A n \in Nat : n < c => steps[c - n] = Trail(e)[Len(Trail(e)) - n]
        /\ (\A e \in WithSteps(events) : Len(Trail(e)) > c) =>
             \E e, f \in WithSteps(events) :
               Trail(e)[Len(Trail(e)) - c] # Trail(f)[Len(Trail(f)) - c]
    BY <1>5, StepsFacts
  <2> HIDE DEF trails, steps, c
  <2>2. \A t \in trails : /\ t \in Seq(StepKeys) /\ c <= Len(t)
                          /\ \A n \in Nat : n < c => steps[c - n] = t[Len(t) - n]
    BY <1>1, <2>1
  <2>3. ASSUME NEW t \in trails PROVE IsSuffix(steps, t)
    BY <2>1, <2>2, SuffixFacts
  <2>4. ASSUME NEW t \in trails, t # steps
        PROVE  \E s \in trails : ~IsSuffix(longer(t), s)
    <3> DEFINE l == longer(t)
    <3>1. t \in Seq(StepKeys) /\ c <= Len(t) /\ Len(t) \in Nat
      BY <2>2
    <3>2. Len(t) # c
      <4> SUFFICES ASSUME Len(t) = c PROVE t = steps
        BY <2>4
      <4>1. ASSUME NEW i \in 1 .. c PROVE t[i] = steps[i]
        <5>1. c - i \in Nat /\ c - i < c /\ c - (c - i) = i
          BY <2>1
        <5>2. steps[c - (c - i)] = t[c - (c - i)]
          BY <2>2, <5>1
        <5> QED
          BY <5>1, <5>2
      <4> QED
        BY <2>1, <3>1, <4>1
    <3>3. /\ l \in Seq(StepKeys) /\ Len(l) = c + 1
          /\ \A i \in 1 .. c + 1 : l[i] = t[Len(t) - c + i - 1]
      BY <2>1, <3>1, <3>2, SubSeqFacts
    <3>4. l[1] = t[Len(t) - c]
      <4>1. 1 \in 1 .. c + 1 /\ Len(t) - c + 1 - 1 = Len(t) - c
        BY <2>1, <3>1
      <4>2. l[1] = t[Len(t) - c + 1 - 1]
        BY <3>3, <4>1
      <4> QED
        BY <4>1, <4>2
    <3> HIDE DEF l
    <3>5. ASSUME NEW s \in trails, IsSuffix(l, s)
          PROVE  c < Len(s) /\ s[Len(s) - c] = t[Len(t) - c]
      <4>1. s \in Seq(StepKeys) /\ Len(s) \in Nat
        BY <2>2
      <4>2. Len(l) <= Len(s) /\ \A n \in Nat : n < Len(l) => l[Len(l) - n] = s[Len(s) - n]
        BY <3>3, <3>5, <4>1, SuffixFacts
      <4>3. c < Len(l) /\ Len(l) - c = 1
        BY <2>1, <3>3
      <4>4. l[Len(l) - c] = s[Len(s) - c]
        BY <2>1, <4>2, <4>3
      <4>5. c < Len(s)
        BY <2>1, <4>1, <4>2, <4>3, <3>3
      <4> QED
        BY <3>4, <4>3, <4>4, <4>5
    <3> SUFFICES ASSUME \A s \in trails : IsSuffix(l, s) PROVE FALSE
      BY DEF l
    <3>6. \A e \in WithSteps(events) :
            c < Len(Trail(e)) /\ Trail(e)[Len(Trail(e)) - c] = t[Len(t) - c]
      BY <1>2, <3>5
    <3>7. \A e \in WithSteps(events) : Len(Trail(e)) \in Nat
      BY <2>1
    <3>8. \A e \in WithSteps(events) : Len(Trail(e)) > c
      BY <2>1, <3>6, <3>7
    <3> QED
      BY <2>1, <3>6, <3>8
  <2> HIDE DEF longer
  <2> QED
    BY <1>3, <2>3, <2>4
<1> QED
  BY <1>4, <1>5

LEMMA VariantsTellAll ==
  ASSUME kind \in [Events -> Kinds], events \in SUBSET Events
  PROVE  VariantsTell
<1> DEFINE steps == Steps(events)
           variants == Variants(events)
           before == Before(events)
           group(p) == [prefix |-> p, events |-> {e \in DOMAIN before : before[e] = p}]
<1> SUFFICES ASSUME NEW e \in events, Trail(e) # <<>>
             PROVE  IF variants = {} THEN Trail(e) = steps
                    ELSE /\ Cardinality({v \in variants : e \in v.events}) = 1
                         /\ \A v \in variants : e \in v.events => v.prefix \o steps = Trail(e)
  BY DEF VariantsTell
<1>1. e \in WithSteps(events) /\ WithSteps(events) # {} /\ DOMAIN before = WithSteps(events)
  BY DEF WithSteps, Before
<1>2. before[e] \o steps = Trail(e) /\ (before[e] = <<>> => Trail(e) = steps)
  BY <1>1, BeforeFacts
<1>3. before[e] \in Range(before)
  BY <1>1 DEF Range
<1>4. variants = IF Range(before) \subseteq {<<>>} THEN {} ELSE {group(p) : p \in Range(before)}
  BY <1>1 DEF Variants
<1> HIDE DEF steps, variants, before
<1>5. CASE Range(before) \subseteq {<<>>}
  BY <1>2, <1>3, <1>4, <1>5
<1>6. CASE ~(Range(before) \subseteq {<<>>})
  <2>1. variants = {group(p) : p \in Range(before)}
    BY <1>4, <1>6
  <2>2. \A p : group(p).prefix = p /\ (e \in group(p).events <=> p = before[e])
    BY <1>1
  <2> HIDE DEF group
  <2>3. group(before[e]) \in variants
    BY <1>3, <2>1
  <2>4. \A v \in variants : e \in v.events => v = group(before[e]) /\ v.prefix = before[e]
    BY <2>1, <2>2
  <2>5. e \in group(before[e]).events
    BY <2>2
  <2>6. {v \in variants : e \in v.events} = {group(before[e])}
    BY <2>3, <2>4, <2>5
  <2>7. Cardinality({group(before[e])}) = 1
    BY FS_Singleton
  <2>8. variants # {}
    BY <2>3
  <2> QED
    BY <1>2, <2>4, <2>6, <2>7, <2>8
<1> QED
  BY <1>5, <1>6

-----------------------------------------------------------------------------
(* What the events say.                                                    *)

\* The top value is said, and counts as often as there are events if nothing
\* else is said.
LEMMA TopFacts ==
  ASSUME NEW D \in SUBSET Nat, IsFiniteSet(D), D # {}, NEW said, DOMAIN said = D
  PROVE  /\ Top(said) \in Range(said)
         /\ Count(said, Top(said)) \in Nat /\ Cardinality(D) \in Nat
         /\ Count(said, Top(said)) <= Cardinality(D)
         /\ Count(said, Top(said)) = Cardinality(D) <=> Range(said) = {Top(said)}
<1> DEFINE those(v) == {e \in D : said[e] = v}
           counts == {Count(said, v) : v \in Range(said)}
           most == Max(counts)
           firsts == {e \in D : Count(said, said[e]) = most}
<1>1. Cardinality(D) \in Nat
  BY FS_CardinalityType
<1>2. \A v : /\ Count(said, v) = Cardinality(those(v)) /\ Count(said, v) \in 0 .. Cardinality(D)
             /\ Count(said, v) = Cardinality(D) => those(v) = D
  <2> SUFFICES ASSUME NEW v
               PROVE  /\ Count(said, v) = Cardinality(those(v)) /\ Count(said, v) \in 0 .. Cardinality(D)
                      /\ Count(said, v) = Cardinality(D) => those(v) = D
    OBVIOUS
  <2>1. those(v) \in SUBSET D
    OBVIOUS
  <2>2. Count(said, v) = Cardinality(those(v))
    BY DEF Count
  <2> HIDE DEF those
  <2>3. /\ IsFiniteSet(those(v)) /\ Cardinality(those(v)) <= Cardinality(D)
        /\ Cardinality(D) = Cardinality(those(v)) => those(v) = D
    BY <2>1, FS_Subset
  <2>4. Cardinality(those(v)) \in Nat
    BY <2>3, FS_CardinalityType
  <2> QED
    BY <1>1, <2>2, <2>3, <2>4
<1>3. PICK d \in D : TRUE
  OBVIOUS
<1>4. \A x : x \in Range(said) <=> \E e \in D : said[e] = x
  BY DEF Range
<1>5. counts \in SUBSET (0 .. Cardinality(D)) /\ counts # {}
  BY <1>2, <1>3, <1>4
<1>6. most \in counts
  BY <1>1, <1>5, Greatest
<1>7. firsts \in SUBSET Nat /\ firsts # {}
  BY <1>4, <1>6
<1>8. Min(firsts) \in firsts
  BY <1>7, Smallest
<1>9. Top(said) = said[Min(firsts)]
  BY DEF Top
<1>10. Top(said) \in Range(said)
  BY <1>4, <1>8, <1>9
<1> HIDE DEF counts, most, firsts
<1>11. ASSUME Count(said, Top(said)) = Cardinality(D)
       PROVE  Range(said) = {Top(said)}
  <2>1. those(Top(said)) = D
    BY <1>2, <1>11
  <2>2. \A e \in D : said[e] = Top(said)
    BY <2>1
  <2> QED
    BY <1>4, <1>10, <2>2
<1>12. ASSUME Range(said) = {Top(said)}
       PROVE  Count(said, Top(said)) = Cardinality(D)
  <2>1. \A e \in D : said[e] = Top(said)
    BY <1>4, <1>12
  <2>2. those(Top(said)) = D
    BY <2>1
  <2> QED
    BY <1>2, <2>2
<1>13. Count(said, Top(said)) \in Nat /\ Count(said, Top(said)) <= Cardinality(D)
  BY <1>1, <1>2
<1> QED
  BY <1>1, <1>10, <1>11, <1>12, <1>13

\* Where every event must agree, and only there, one value is a precondition;
\* if all events agree, it always is.
LEMMA AgreedFacts ==
  ASSUME NEW D \in SUBSET Nat, IsFiniteSet(D), D # {}, NEW said, DOMAIN said = D
  PROVE  /\ MinSupport = 100 /\ Agreed(said) => \E v : v # "UNKNOWN" /\ Range(said) = {v}
         /\ \A v : v # "UNKNOWN" /\ Range(said) = {v} => Agreed(said)
<1> DEFINE top == Top(said)
           n == Count(said, top)
           m == Cardinality(D)
<1>1. /\ top \in Range(said) /\ n \in Nat /\ m \in Nat /\ n <= m
      /\ n = m <=> Range(said) = {top}
  BY TopFacts
<1>2. Agreed(said) <=> top # "UNKNOWN" /\ 100 * n >= MinSupport * m
  BY DEF Agreed
<1>3. MinSupport \in Nat /\ MinSupport <= 100
  BY ReproductionAssumption
<1> HIDE DEF top, n, m
<1>4. ASSUME MinSupport = 100, Agreed(said) PROVE top # "UNKNOWN" /\ Range(said) = {top}
  <2>1. top # "UNKNOWN" /\ 100 * n >= MinSupport * m
    BY <1>2, <1>4
  <2>2. 100 * n >= 100 * m
    BY <1>4, <2>1
  <2>3. n = m
    BY <1>1, <2>2
  <2> QED
    BY <1>1, <2>1, <2>3
<1>5. ASSUME NEW v, v # "UNKNOWN", Range(said) = {v} PROVE Agreed(said)
  <2>1. top = v /\ n = m
    BY <1>1, <1>5
  <2>2. MinSupport * m <= 100 * m
    BY <1>1, <1>3
  <2>3. 100 * n >= MinSupport * m
    BY <1>1, <1>3, <2>1, <2>2
  <2> QED
    BY <1>2, <1>5, <2>1, <2>3
<1> QED
  BY <1>4, <1>5

\* One value is a precondition, several vary, and all events' UNKNOWN is neither.
LEMMA SaidFacts ==
  ASSUME kind \in [Events -> Kinds], NEW evs \in SUBSET Events, NEW k \in {"os", "flag", "push"}
  PROVE  LET said == Range(Said(evs, k)) IN
         /\ MinSupport = 100 =>
              (k \in Preconditions(evs) <=> Cardinality(said) = 1 /\ said # {"UNKNOWN"})
         /\ MinSupport = 100 => (k \in Varies(evs) <=> Cardinality(said) > 1)
         /\ k \in Varies(evs) => ~(\E v : said = {v})
         /\ k = "push" /\ said = {"UNKNOWN"} => evs # {} /\ AllUnknown(Said(evs, "push"))
<1> DEFINE f == Said(evs, k)
           said == Range(f)
<1>1. DOMAIN f = evs /\ evs \in SUBSET Nat /\ IsFiniteSet(evs)
  BY EventsAreNumbers, FS_Subset DEF Said
<1>2. \A x : x \in said <=> \E e \in evs : f[e] = x
  BY <1>1 DEF Range
<1>3. AllUnknown(f) <=> said \subseteq {"UNKNOWN"}
  BY DEF AllUnknown
<1>4. k \in Preconditions(evs) <=> k \in KeysOf(evs) /\ Agreed(f)
  BY DEF Preconditions
<1>5. k \in Varies(evs) <=> k \in KeysOf(evs) /\ ~AllUnknown(f) /\ ~(k \in Preconditions(evs))
  BY DEF Varies
<1>6. k \in KeysOf(evs) => evs # {}
  BY DEF KeysOf
<1>7. evs # {} /\ ~(said \subseteq {"UNKNOWN"}) => k \in KeysOf(evs)
  <2> SUFFICES ASSUME evs # {}, ~(said \subseteq {"UNKNOWN"}), k = "flag"
               PROVE  \E e \in evs : kind[e].flag # None
    BY DEF KeysOf
  <2>1. PICK e \in evs : f[e] # "UNKNOWN"
    BY <1>2
  <2>2. f[e] = IF kind[e]["flag"] = None THEN "UNKNOWN" ELSE kind[e]["flag"]
    BY DEF Said
  <2>3. kind[e]["flag"] # None
    BY <2>1, <2>2
  <2>4. kind[e]["flag"] = kind[e].flag
    OBVIOUS
  <2> QED
    BY <2>3, <2>4
<1>8. evs # {} =>
        /\ MinSupport = 100 /\ Agreed(f) => \E v : v # "UNKNOWN" /\ said = {v}
        /\ \A v : v # "UNKNOWN" /\ said = {v} => Agreed(f)
  BY <1>1, AgreedFacts
<1> HIDE DEF f
<1>9. IsFiniteSet(said) /\ Cardinality(said) \in Nat
  <2>1. f \in [evs -> said]
    <3>1. f = [e \in evs |-> f[e]]
      BY DEF f, Said
    <3> QED
      BY <1>2, <3>1
  <2>2. f \in Surjection(evs, said)
    BY <1>2, <2>1 DEF Surjection
  <2>3. IsFiniteSet(said)
    BY <1>1, <2>2, FS_Surjection
  <2> QED
    BY <2>3, FS_CardinalityType
<1> HIDE DEF said
<1>10. Cardinality(said) = 1 <=> \E v : said = {v}
  BY <1>9, FS_Singleton
<1>11. evs = {} <=> said = {}
  BY <1>2
<1>12. Cardinality(said) = 0 <=> said = {}
  BY <1>9, FS_EmptySet
<1>13. Cardinality(said) > 1 <=> said # {} /\ ~(\E v : said = {v})
  BY <1>9, <1>10, <1>12
<1>14. \A v : said = {v} => (v = "UNKNOWN" <=> said \subseteq {"UNKNOWN"})
  OBVIOUS
<1>15. ASSUME MinSupport = 100
       PROVE  k \in Preconditions(evs) <=> (\E v : said = {v}) /\ said # {"UNKNOWN"}
  <2>1. ASSUME k \in Preconditions(evs) PROVE (\E v : said = {v}) /\ said # {"UNKNOWN"}
    BY <1>4, <1>6, <1>8, <1>15, <2>1
  <2>2. ASSUME NEW v, said = {v}, said # {"UNKNOWN"} PROVE k \in Preconditions(evs)
    BY <1>4, <1>7, <1>8, <1>11, <1>14, <2>2
  <2> QED
    BY <2>1, <2>2
<1>16. ASSUME k \in Varies(evs) PROVE ~(\E v : said = {v})
  BY <1>3, <1>4, <1>5, <1>6, <1>8, <1>14, <1>16
<1>17. ASSUME MinSupport = 100
       PROVE  k \in Varies(evs) <=> said # {} /\ ~(\E v : said = {v})
  <2>1. ASSUME said # {}, ~(\E v : said = {v}) PROVE k \in Varies(evs)
    <3>1. ~(said \subseteq {"UNKNOWN"})
      BY <2>1
    <3>2. k \in KeysOf(evs)
      BY <1>7, <1>11, <2>1, <3>1
    <3> QED
      BY <1>3, <1>5, <1>15, <1>17, <2>1, <3>1, <3>2
  <2> QED
    BY <1>5, <1>6, <1>11, <1>16, <2>1
<1>18. ASSUME k = "push", said = {"UNKNOWN"}
       PROVE  evs # {} /\ AllUnknown(Said(evs, "push"))
  <2>1. AllUnknown(f) /\ f = Said(evs, "push")
    BY <1>3, <1>18 DEF f
  <2> QED
    BY <1>11, <1>18, <2>1
<1> QED
  <2>1. LET r == said IN
         /\ MinSupport = 100 =>
              (k \in Preconditions(evs) <=> Cardinality(r) = 1 /\ r # {"UNKNOWN"})
         /\ MinSupport = 100 => (k \in Varies(evs) <=> Cardinality(r) > 1)
         /\ k \in Varies(evs) => ~(\E v : r = {v})
         /\ k = "push" /\ r = {"UNKNOWN"} => evs # {} /\ AllUnknown(Said(evs, "push"))
    BY <1>10, <1>13, <1>15, <1>16, <1>17, <1>18
  <2> QED
    BY <2>1 DEF said, f

-----------------------------------------------------------------------------
(* The loaded frames and the packet.                                       *)

Places == UNION {{e} \X DOMAIN kind[e].stack : e \in Events}

\* Among places that are not none there is a last.
LEMMA LastFacts ==
  ASSUME kind \in [Events -> Kinds], NEW ps \in SUBSET Places, ps # {}
  PROVE  LastOf(ps) \in ps
<1> DEFINE firsts == {p[1] : p \in ps}
           m == Max(firsts)
           seconds == {p[2] : p \in {q \in ps : q[1] = m}}
           n == Max(seconds)
<1>1. \A p \in ps : p[1] \in Events /\ p[2] \in DOMAIN kind[p[1]].stack /\ p = <<p[1], p[2]>>
  BY DEF Places
<1>2. \A p \in ps : p[1] \in 0 .. MaxEvents
  BY <1>1 DEF Events
<1>3. firsts \in SUBSET (0 .. MaxEvents) /\ firsts # {}
  BY <1>2
<1>4. m \in firsts /\ \A x \in firsts : x <= m
  BY <1>3, Greatest, ReproductionAssumption
<1>5. m \in Events /\ m \in Nat
  BY <1>1, <1>4, EventsAreNumbers
<1>6. kind[m].stack \in Seq(Range(kind[m].stack))
  <2>1. kind[m] \in Kinds
    BY <1>5
  <2> QED
    BY <2>1, ReproductionAssumption
<1> DEFINE l == Len(kind[m].stack)
<1>7. l \in Nat /\ DOMAIN kind[m].stack = 1 .. l
  BY <1>6
<1> HIDE DEF m
<1>8. \A p \in ps : p[1] = m => p[2] \in 0 .. l
  BY <1>1, <1>7
<1>9. PICK p \in ps : p[1] = m
  BY <1>4
<1>10. seconds \in SUBSET (0 .. l) /\ seconds # {}
  BY <1>8, <1>9
<1>11. n \in seconds /\ \A x \in seconds : x <= n
  BY <1>7, <1>10, Greatest
<1> HIDE DEF l, n
<1>12. PICK last \in ps : last[1] = m /\ last[2] = n
  BY <1>11
<1>13. ASSUME NEW q \in ps \ {last} PROVE Precedes(q, last)
  <2>1. q[1] <= m /\ q[1] \in Nat
    BY <1>1, <1>4, EventsAreNumbers
  <2>2. q[1] = m => q[2] <= n /\ q[2] \in Nat /\ n \in Nat
    BY <1>7, <1>8, <1>10, <1>11
  <2>3. CASE q[1] = m
    <3>1. q[2] # n
      BY <1>1, <1>12, <2>3
    <3>2. q[2] < n
      BY <2>2, <2>3, <3>1
    <3> QED
      BY <1>12, <2>3, <3>2 DEF Precedes
  <2>4. CASE q[1] # m
    <3>1. q[1] < m
      BY <1>5, <2>1, <2>4
    <3> QED
      BY <1>12, <3>1 DEF Precedes
  <2> QED
    BY <2>3, <2>4
<1> QED
  BY <1>13 DEF LastOf

\* The culprit is a loaded frame, if one is mapped; so is every suspect's, if one
\* is changed.
LEMMA CulpritFacts ==
  ASSUME kind \in [Events -> Kinds], NEW ps \in SUBSET Places
  PROVE  /\ Culprit(ps) = "UNKNOWN" \/ Culprit(ps) \in Frames(ps)
         /\ Suspects(ps) \subseteq Frames(ps) \cup {"UNKNOWN"}
         /\ Suspects(ps) \in {{}, {"UNKNOWN"}} <=> Frames(ps) \cap Changed = {}
<1> DEFINE mapped == {p \in ps : Frame(p) \in Mapped}
<1>1. Changed \subseteq Mapped /\ "UNKNOWN" \notin Mapped
  BY ReproductionAssumption
<1>2. \A f : f \in Frames(ps) <=> \E p \in ps : f = Frame(p)
  BY DEF Frames
<1>3. Culprit(ps) = IF mapped = {} THEN "UNKNOWN" ELSE Frame(LastOf(mapped))
  BY DEF Culprit
<1>4. mapped # {} => LastOf(mapped) \in mapped
  <2>1. mapped \in SUBSET Places
    OBVIOUS
  <2> HIDE DEF mapped
  <2> QED
    BY <2>1, LastFacts
<1>5. \A p : p \in mapped <=> p \in ps /\ Frame(p) \in Mapped
  OBVIOUS
<1> HIDE DEF mapped
<1>6. CASE mapped = {}
  <2>1. Culprit(ps) = "UNKNOWN" /\ Suspects(ps) = {"UNKNOWN"}
    BY <1>3, <1>6 DEF Suspects
  <2>2. Frames(ps) \cap Changed = {}
    BY <1>1, <1>2, <1>5, <1>6
  <2> QED
    BY <2>1, <2>2
<1>7. CASE mapped # {}
  <2>1. Culprit(ps) \in Mapped /\ Culprit(ps) \in Frames(ps)
    BY <1>2, <1>3, <1>4, <1>5, <1>7
  <2>2. Suspects(ps) = Changed \cap Frames(ps)
    BY <1>1, <2>1 DEF Suspects
  <2> QED
    BY <1>1, <2>1, <2>2
<1> QED
  BY <1>6, <1>7

\* What reaches the packet, and what of it a narrative must tell.
LEMMA PacketFacts ==
  ASSUME NEW evs, NEW ps
  PROVE  LET packet == repro_packet(evs, ps)
             critical == critical_ids(packet)
         IN  /\ \A k : <<"precondition", k>> \in critical <=> k \in Preconditions(evs)
             /\ \A k : <<"varies", k>> \in packet \ critical <=> k \in Varies(evs)
             /\ \A g \in Gaps(evs, ps) : <<"gap", g.code>> \in critical
             /\ <<"suspects">> \in critical <=> Suspects(ps) \in {{}, {"UNKNOWN"}}
             /\ <<"failure">> \in critical
<1> DEFINE packet == repro_packet(evs, ps)
           critical == critical_ids(packet)
<1>1. \A id : id \in packet <=>
        \/ id \in {<<"incident">>, <<"failure">>}
        \/ \E n \in DOMAIN Steps(evs) : id = <<"step", n>>
        \/ \E v \in Variants(evs) : id = <<"variant", v.prefix>>
        \/ \E k \in Preconditions(evs) : id = <<"precondition", k>>
        \/ \E k \in Varies(evs) : id = <<"varies", k>>
        \/ \E g \in Gaps(evs, ps) : id = <<"gap", g.code>>
        \/ \E f \in Suspects(ps) \ {"UNKNOWN"} : id = <<"suspect", f>>
        \/ Suspects(ps) \in {{}, {"UNKNOWN"}} /\ id = <<"suspects">>
  BY DEF repro_packet
<1>2. \A id : id \in critical <=>
        id \in packet /\ id[1] \in {"precondition", "gap", "suspect", "failure", "suspects"}
  BY DEF critical_ids
<1> HIDE DEF packet, critical
<1>3. \A k : <<"precondition", k>> \in packet <=> k \in Preconditions(evs)
  BY <1>1
<1>4. \A k : <<"varies", k>> \in packet <=> k \in Varies(evs)
  BY <1>1
<1>5. \A g \in Gaps(evs, ps) : <<"gap", g.code>> \in packet
  BY <1>1
<1>6. <<"suspects">> \in packet <=> Suspects(ps) \in {{}, {"UNKNOWN"}}
  BY <1>1
<1>7. <<"failure">> \in packet
  BY <1>1
<1>8. \A k : <<"precondition", k>> \in critical <=> k \in Preconditions(evs)
  BY <1>2, <1>3
<1>9. \A k : <<"varies", k>> \in packet \ critical <=> k \in Varies(evs)
  <2>1. ASSUME NEW k PROVE <<"varies", k>> \notin critical
    <3>1. <<"varies", k>>[1] = "varies"
      OBVIOUS
    <3>2. ~("varies" \in {"precondition", "gap", "suspect", "failure", "suspects"})
      OBVIOUS
    <3> QED
      BY <1>2, <3>1, <3>2
  <2> QED
    BY <1>4, <2>1
<1>10. \A g \in Gaps(evs, ps) : <<"gap", g.code>> \in critical
  BY <1>2, <1>5
<1>11. <<"suspects">> \in critical <=> Suspects(ps) \in {{}, {"UNKNOWN"}}
  BY <1>2, <1>6
<1>12. <<"failure">> \in critical
  BY <1>2, <1>7
<1> QED
  BY <1>8, <1>9, <1>10, <1>11, <1>12 DEF packet, critical

\* In a packet of loaded frames and events with their states nothing is guessed.
LEMMA NothingIsGuessedIn ==
  ASSUME kind \in [Events -> Kinds], events \in SUBSET Events, frames \in SUBSET Places
  PROVE  NothingGuessed
<1> DEFINE packet == repro_packet(events, frames)
           critical == critical_ids(packet)
<1> SUFFICES ASSUME MinSupport = 100
             PROVE
        /\ \A k \in {"os", "flag", "push"} :
             LET said == Range(Said(events, k)) IN
             /\ <<"precondition", k>> \in critical <=> Cardinality(said) = 1 /\ said # {"UNKNOWN"}
             /\ <<"varies", k>> \in packet \ critical <=> Cardinality(said) > 1
             /\ k = "push" /\ said = {"UNKNOWN"} => <<"gap", "ACCOUNT_STATE_UNKNOWN">> \in critical
        /\ <<"suspects">> \in critical <=> Frames(frames) \cap Changed = {}
        /\ <<"failure">> \in critical
  BY DEF NothingGuessed
<1>1. /\ \A k : <<"precondition", k>> \in critical <=> k \in Preconditions(events)
      /\ \A k : <<"varies", k>> \in packet \ critical <=> k \in Varies(events)
      /\ \A g \in Gaps(events, frames) : <<"gap", g.code>> \in critical
      /\ <<"suspects">> \in critical <=> Suspects(frames) \in {{}, {"UNKNOWN"}}
      /\ <<"failure">> \in critical
  BY PacketFacts
<1> HIDE DEF packet, critical
<1>2. ASSUME NEW k \in {"os", "flag", "push"}
      PROVE  LET said == Range(Said(events, k)) IN
             /\ <<"precondition", k>> \in critical <=> Cardinality(said) = 1 /\ said # {"UNKNOWN"}
             /\ <<"varies", k>> \in packet \ critical <=> Cardinality(said) > 1
             /\ k = "push" /\ said = {"UNKNOWN"} => <<"gap", "ACCOUNT_STATE_UNKNOWN">> \in critical
  <2> DEFINE said == Range(Said(events, k))
  <2>1. /\ k \in Preconditions(events) <=> Cardinality(said) = 1 /\ said # {"UNKNOWN"}
        /\ k \in Varies(events) <=> Cardinality(said) > 1
        /\ k = "push" /\ said = {"UNKNOWN"} => events # {} /\ AllUnknown(Said(events, "push"))
    BY SaidFacts
  <2> HIDE DEF said
  <2>2. ASSUME k = "push", said = {"UNKNOWN"}
        PROVE  <<"gap", "ACCOUNT_STATE_UNKNOWN">> \in critical
    <3> DEFINE gap == [code |-> "ACCOUNT_STATE_UNKNOWN", events |-> events]
    <3>1. events # {} /\ AllUnknown(Said(events, "push"))
      BY <2>1, <2>2
    <3>2. gap \in Gaps(events, frames)
      BY <3>1 DEF Gaps
    <3>3. gap.code = "ACCOUNT_STATE_UNKNOWN"
      OBVIOUS
    <3> HIDE DEF gap
    <3> QED
      BY <1>1, <3>2, <3>3
  <2> QED
    BY <1>1, <2>1, <2>2 DEF said
<1>3. Suspects(frames) \in {{}, {"UNKNOWN"}} <=> Frames(frames) \cap Changed = {}
  BY CulpritFacts
<1> QED
  BY <1>1, <1>2, <1>3

-----------------------------------------------------------------------------
(* The request.                                                            *)

Types ==
  /\ kind \in [Events -> Kinds]
  /\ stored \in SUBSET Events
  /\ state \in [Installations -> States]
  /\ incident \in BOOLEAN /\ purged \in BOOLEAN
  /\ at \in {"idle", "events", "lookup", "answer"}
  /\ events \in SUBSET Events
  /\ frames \in SUBSET Places

(* The frames are of events that the tables still have, or that the request *)
(* has loaded, unless retention came between.                              *)
Loaded ==
  ~purged /\ at # "idle" =>
    \A p \in frames : p[1] \in IF at = "events" THEN stored ELSE events

(* The states are looked up event by event, an installation's only once.   *)
LookedUp ==
  /\ DOMAIN found \subseteq events
  /\ at \in {"idle", "events"} => DOMAIN found = {}
  /\ at = "lookup" => DOMAIN found # events
  /\ at = "answer" => DOMAIN found = events
  /\ \A e \in DOMAIN found : kind[e].inst = None => found[e] = None
  /\ \A e, f \in DOMAIN found : kind[e].inst = kind[f].inst => found[e] = found[f]

IInv == Types /\ Loaded /\ LookedUp

\* Events of one installation say one state.
LEMMA StateVaries ==
  ASSUME IInv
  PROVE  StateVariesBySubject
<1> SUFFICES ASSUME at = "answer", "push" \in Varies(events),
                    \A e, f \in events : kind[e].inst = kind[f].inst
             PROVE  FALSE
  BY DEF StateVariesBySubject
<1> DEFINE said == Said(events, "push")
<1>1. kind \in [Events -> Kinds] /\ events \in SUBSET Events
  BY DEF IInv, Types
<1>2. ~(\E v : Range(said) = {v})
  BY <1>1, SaidFacts
<1>3. DOMAIN said = events /\ \A e \in events : said[e] = IF found[e] = None THEN "UNKNOWN" ELSE found[e]
  BY DEF Said
<1>4. \A e, f \in events : found[e] = found[f]
  BY DEF IInv, LookedUp
<1> HIDE DEF said
<1>5. \A e, f \in events : said[e] = said[f]
  BY <1>3, <1>4
<1>6. events # {}
  BY DEF Varies, KeysOf
<1>7. PICK e \in events : TRUE
  BY <1>6
<1>8. Range(said) = {said[e]}
  BY <1>3, <1>5 DEF Range
<1> QED
  BY <1>2, <1>8

LEMMA CulpritIsConsidered ==
  ASSUME IInv
  PROVE  CulpritConsidered
<1> SUFFICES ASSUME at = "answer", ~purged,
                    NEW f \in {Culprit(frames)} \cup Suspects(frames), f # "UNKNOWN"
             PROVE  \E e \in events : f \in ToSet(kind[e].stack)
  BY DEF CulpritConsidered
<1>1. kind \in [Events -> Kinds] /\ frames \in SUBSET Places
  BY DEF IInv, Types
<1>2. f \in Frames(frames)
  BY <1>1, CulpritFacts
<1>3. PICK p \in frames : f = Frame(p)
  BY <1>2 DEF Frames
<1>4. p[1] \in events
  BY DEF IInv, Loaded
<1>5. p[2] \in DOMAIN kind[p[1]].stack
  BY <1>1 DEF Places
<1>6. f \in ToSet(kind[p[1]].stack)
  BY <1>3, <1>5 DEF Frame, ToSet
<1> QED
  BY <1>4, <1>6

LEMMA IInit == Init => IInv
<1> SUFFICES ASSUME Init PROVE IInv
  OBVIOUS
<1>1. Types
  BY ReproductionAssumption DEF Init, Types, States
<1>2. Loaded
  BY DEF Init, Loaded
<1>3. LookedUp
  BY DEF Init, LookedUp
<1> QED
  BY <1>1, <1>2, <1>3 DEF IInv

\* The end of a request leaves nothing of it.
LEMMA OverStep ==
  ASSUME IInv, Over, UNCHANGED <<tables, purged>>
  PROVE  IInv'
<1>1. Types'
  BY DEF IInv, Types, Over, tables, Places, Events, States
<1>2. Loaded'
  BY DEF Over, Loaded
<1>3. LookedUp'
  BY DEF Over, LookedUp
<1> QED
  BY <1>1, <1>2, <1>3 DEF IInv

LEMMA LoadIncidentStep ==
  ASSUME IInv, load_incident
  PROVE  IInv'
<1> USE DEF IInv, load_incident, tables
<1>1. frames' \subseteq UNION {{e} \X DOMAIN kind[e].stack : e \in stored}
  BY DEF FramesOf
<1>2. \A p \in frames' : p[1] \in stored /\ p \in Places
  BY <1>1 DEF Types, Places
<1>3. Types'
  <2>1. Places' = Places
    BY DEF Places
  <2>2. frames' \in SUBSET Places
    BY <1>2
  <2> QED
    BY <2>1, <2>2 DEF Types
<1>4. Loaded'
  BY <1>2 DEF Loaded
<1>5. LookedUp'
  BY DEF LookedUp
<1> QED
  BY <1>3, <1>4, <1>5

LEMMA LoadEventsStep ==
  ASSUME IInv, load_events
  PROVE  IInv'
<1> USE DEF IInv, load_events, tables
<1>1. Types'
  BY DEF Types, Places, Events, States
<1>2. Loaded'
  BY DEF Loaded
<1>3. LookedUp'
  BY DEF LookedUp, Types
<1> QED
  BY <1>1, <1>2, <1>3

LEMMA LookupStep ==
  ASSUME IInv, lookup
  PROVE  IInv'
<1> DEFINE next == Min(events \ DOMAIN found)
           inst == kind[next].inst
           cached == {e \in DOMAIN found : kind[e].inst = inst}
           v == IF inst = None THEN None
                ELSE IF cached # {} THEN found[CHOOSE e \in cached : TRUE]
                ELSE state[inst]
           looked == DOMAIN found \cup {next}
<1>1. at = "lookup" /\ UNCHANGED <<tables, purged>> /\ Found(v)
  BY DEF lookup
<1>2. Types /\ Loaded /\ LookedUp
  BY DEF IInv
<1>3. next \in events /\ next \notin DOMAIN found
  <2>1. events \ DOMAIN found \in SUBSET Nat /\ events \ DOMAIN found # {}
    BY <1>1, <1>2, EventsAreNumbers DEF Types, LookedUp
  <2>2. next \in events \ DOMAIN found
    BY <2>1, Smallest
  <2> HIDE DEF next
  <2> QED
    BY <2>2
<1> HIDE DEF next
<1>4. cached # {} => (CHOOSE e \in cached : TRUE) \in cached
  OBVIOUS
<1>5. \A e : e \in cached <=> e \in DOMAIN found /\ kind[e].inst = inst
  OBVIOUS
<1>6. inst = None => v = None
  OBVIOUS
<1>7. \A e \in DOMAIN found : kind[e].inst = inst => v = found[e]
  <2> SUFFICES ASSUME NEW e \in DOMAIN found, kind[e].inst = inst PROVE v = found[e]
    OBVIOUS
  <2>1. CASE inst = None
    BY <1>2, <1>6, <2>1 DEF LookedUp
  <2>2. CASE inst # None
    <3>1. e \in cached
      BY <1>5
    <3> DEFINE x == CHOOSE y \in cached : TRUE
    <3>2. x \in cached
      BY <3>1
    <3>3. v = found[x]
      BY <2>2, <3>1
    <3> HIDE DEF x, v, cached, inst
    <3> QED
      BY <1>2, <1>5, <3>1, <3>2, <3>3 DEF LookedUp
  <2> QED
    BY <2>1, <2>2
<1> HIDE DEF cached, inst, v
<1>8. CASE v = Bad
  <2>1. Over
    BY <1>1, <1>8 DEF Found
  <2> QED
    BY <1>1, <2>1, OverStep
<1>9. CASE v # Bad
  <2>1. /\ found' = [e \in looked |-> IF e = next THEN v ELSE found[e]]
        /\ at' = IF looked = events THEN "answer" ELSE "lookup"
        /\ UNCHANGED <<frames, events>>
    BY <1>1, <1>9 DEF Found, next
  <2>2. Types'
    BY <1>1, <1>2, <2>1 DEF Types, tables, Places, Events, States
  <2>3. Loaded'
    BY <1>1, <1>2, <2>1 DEF Loaded, tables
  <2>4. DOMAIN found' = looked /\ looked \subseteq events
    BY <1>2, <1>3, <2>1 DEF LookedUp
  <2>5. \A e \in looked : /\ found'[e] = IF e = next THEN v ELSE found[e]
                          /\ e # next => e \in DOMAIN found
    BY <2>1
  <2>6. UNCHANGED kind
    BY <1>1 DEF tables
  <2> HIDE DEF looked
  <2>7. \A e \in looked : kind[e].inst = None => found'[e] = None
    BY <1>2, <1>6, <2>5 DEF LookedUp, inst
  <2>8. \A e, f \in looked : kind[e].inst = kind[f].inst => found'[e] = found'[f]
    BY <1>2, <1>7, <2>5 DEF LookedUp, inst
  <2>9. LookedUp'
    BY <2>1, <2>4, <2>6, <2>7, <2>8 DEF LookedUp
  <2> QED
    BY <2>2, <2>3, <2>9 DEF IInv
<1> QED
  BY <1>8, <1>9

LEMMA TablesStep ==
  ASSUME IInv, Store \/ Purge \/ Observed
  PROVE  IInv'
<1> USE DEF IInv, request
<1>1. UNCHANGED <<kind, at, frames, events, found>> /\ stored' \in SUBSET Events
      /\ (~purged' => ~purged /\ stored \subseteq stored')
  BY DEF Store, Purge, Observed, Types
<1>2. Types'
  <2>1. state' \in [Installations -> States]
    BY DEF Store, Purge, Observed, Types
  <2>2. incident' \in BOOLEAN /\ purged' \in BOOLEAN
    BY DEF Store, Purge, Observed, Types
  <2> QED
    BY <1>1, <2>1, <2>2 DEF Types, Places
<1>3. Loaded'
  BY <1>1 DEF Loaded
<1>4. LookedUp'
  BY <1>1 DEF LookedUp
<1> QED
  BY <1>2, <1>3, <1>4

LEMMA Invariance == Spec => []IInv
<1>1. IInv /\ [Next]_vars => IInv'
  <2> SUFFICES ASSUME IInv, [Next]_vars PROVE IInv'
    OBVIOUS
  <2>1. CASE Answer
    BY <2>1, OverStep DEF Answer
  <2>2. CASE UNCHANGED vars
    <3> USE <2>2 DEF vars, tables, request, IInv
    <3>1. Types'
      BY DEF Types, Places
    <3>2. Loaded'
      BY DEF Loaded
    <3>3. LookedUp'
      BY DEF LookedUp
    <3> QED
      BY <3>1, <3>2, <3>3
  <2> QED
    BY <2>1, <2>2, LoadIncidentStep, LoadEventsStep, LookupStep, TablesStep DEF Next
<1> QED
  BY IInit, <1>1, PTL DEF Spec

-----------------------------------------------------------------------------
\* reproduce.py: however many events there are and however long their trails,
\* the steps are what all trails end with, and no longer sequence is.
THEOREM StepsAreAlwaysShared == Spec => []StepsShared
<1>1. IInv => StepsShared
  BY StepsAreShared DEF IInv, Types
<1> QED
  BY Invariance, <1>1, PTL

\* reproduce.py: every event that has a trail is in one variant, which tells how
\* it came to the shared steps, or all did nothing before them.
THEOREM VariantsTellOfEveryEvent == Spec => []VariantsTell
<1>1. IInv => VariantsTell
  BY VariantsTellAll DEF IInv, Types
<1> QED
  BY Invariance, <1>1, PTL

\* reproduce.py, packet.py and grade.py: with min_support 1.0 a value is a
\* condition to set up only where every event says it, what differs is reported
\* as varying, what no event knows is a gap, and all of it reaches the packet.
THEOREM NothingIsGuessed == Spec => []NothingGuessed
<1>1. IInv => NothingGuessed
  BY NothingIsGuessedIn DEF IInv, Types
<1> QED
  BY Invariance, <1>1, PTL

\* repository.py's state_lookup: whatever is reported during a request, no
\* installation disagrees with itself in its answer.
THEOREM StatesVaryBySubject == Spec => []StateVariesBySubject
  BY Invariance, StateVaries, PTL

\* incidents.py: load_incident and load_events read the events separately, and
\* still the culprit and the suspects' frames are of events that the scenario
\* considers, unless retention deletes some in between.
THEOREM CulpritsAreConsidered == Spec => []CulpritConsidered
  BY Invariance, CulpritIsConsidered, PTL
=============================================================================
