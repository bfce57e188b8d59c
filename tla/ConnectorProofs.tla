--------------------------- MODULE ConnectorProofs ---------------------------
(***************************************************************************)
(* What module Connectors guarantees for any pages, attempts and numbers   *)
(* of changes during a call.                                               *)
(***************************************************************************)
EXTENDS Connectors, SequenceTheorems, FiniteSetTheorems, TLAPS

Kinds == {"created", "deleted", "moved"}
Statuses == {"none", "ok", "busy", "refused", "broken", "404"}

Changes == [kind : Kinds, row : Items]

Types ==
  /\ rows \in Seq(Items) /\ IsInjective(rows)
  /\ pc \in {"idle", "first", "retry"}
  /\ key \in Items \cup {NoKey}
  /\ page \in Nat /\ (pc # "idle" => page \in 1 .. LastPage)
  /\ attempt \in Nat
  /\ found \in Seq(Items)
  /\ outcome \in {"none", "returned", "missing", "raised"}
  /\ answers \in [first : Statuses, last : Statuses, busy : Nat]
  /\ before \in Seq(Items)
  /\ changes \in Seq(Changes)

\* The rows that changes of a kind were about.
Changed(ch, kind) == {c.row : c \in {d \in ToSet(ch) : d.kind = kind}}

\* How many rows lie before page n.
Before(n) == (n - 1) * PageSize

(* The vendor's rows are those at the beginning and the created ones, all  *)
(* of them unless one was deleted.                                         *)
RowsKnown ==
  /\ ToSet(rows) \subseteq ToSet(before) \cup Changed(changes, "created")
  /\ Changed(changes, "deleted") = {} =>
       ToSet(before) \cup Changed(changes, "created") \subseteq ToSet(rows)

(* While nothing is deleted, a row that was not moved never goes forward,  *)
(* so every one that lies before the next page has been collected.         *)
Reached(n) ==
  Changed(changes, "deleted") = {} =>
    \A i \in 1 .. Len(rows) :
      i <= n /\ rows[i] \in ToSet(before) \ Changed(changes, "moved") => rows[i] \in ToSet(found)

(* While nothing is created or moved, no row goes back, so none of those   *)
(* from the next page on has been collected.                               *)
Fresh(n) ==
  Changed(changes, "created") = {} /\ Changed(changes, "moved") = {} =>
    /\ IsInjective(found)
    /\ \A i \in 1 .. Len(rows) : i > n => rows[i] \notin ToSet(found)

Collecting ==
  pc # "idle" /\ key = NoKey =>
    /\ pc = "retry"
    /\ ToSet(found) \subseteq ToSet(before) \cup Changed(changes, "created")
    /\ Reached(Before(page)) /\ Fresh(Before(page))

(* A lookup's answers so far: none before its own GET; get_with_retry is   *)
(* entered with a busy answer and has had one for each further attempt.    *)
Asking ==
  /\ pc = "first" => answers = NoAnswers /\ attempt = 0
  /\ pc = "retry" => attempt <= answers.busy /\ attempt < Attempts
  /\ pc = "retry" /\ key # NoKey => answers.first = "busy"

IInv ==
  /\ Types /\ RowsKnown /\ Collecting /\ Asking
  /\ pc # "idle" => outcome = "none"
  /\ ListingAccurate /\ LookupAnswered

-----------------------------------------------------------------------------
(* Lemmas about sequences.                                                 *)

LEMMA SeqFacts ==
  ASSUME NEW S, NEW s \in Seq(S)
  PROVE  /\ Len(s) \in Nat /\ DOMAIN s = 1 .. Len(s)
         /\ \A i \in 1 .. Len(s) : s[i] \in S
         /\ \A x : x \in ToSet(s) <=> \E i \in 1 .. Len(s) : s[i] = x
         /\ ToSet(s) \subseteq S
  BY LenProperties, ElementOfSeq DEF ToSet

LEMMA Inserted ==
  ASSUME NEW S, NEW s \in Seq(S), NEW n \in 1 .. Len(s) + 1, NEW e \in S
  PROVE  /\ InsertAt(s, n, e) \in Seq(S) /\ Len(InsertAt(s, n, e)) = Len(s) + 1
         /\ \A i \in 1 .. Len(s) + 1 : InsertAt(s, n, e)[i] =
              IF i < n THEN s[i] ELSE IF i = n THEN e ELSE s[i - 1]
<1> DEFINE a == SubSeq(s, 1, n - 1)
           b == SubSeq(s, n, Len(s))
           c == <<e>>
           ac == a \o c
<1>1. Len(s) \in Nat /\ n \in Int /\ \A i \in 1 .. Len(s) : s[i] \in S
  BY SeqFacts
<1>2. a \in Seq(S) /\ Len(a) = n - 1 /\ \A i \in 1 .. n - 1 : a[i] = s[i]
  <2>1. \A i \in 1 .. n - 1 : s[i] \in S
    BY <1>1
  <2>2. n - 1 \in Int /\ 1 \in Int
    BY <1>1
  <2>3. /\ a \in Seq(S) /\ Len(a) = IF 1 <= n - 1 THEN n - 1 - 1 + 1 ELSE 0
        /\ \A i \in 1 .. n - 1 - 1 + 1 : a[i] = s[1 + i - 1]
    BY <2>1, <2>2, SubSeqProperties
  <2> HIDE DEF a
  <2> QED
    BY <1>1, <2>3
<1>3. b \in Seq(S) /\ Len(b) = Len(s) - n + 1 /\ \A i \in 1 .. Len(s) - n + 1 : b[i] = s[n + i - 1]
  <2>1. \A i \in n .. Len(s) : s[i] \in S
    BY <1>1
  <2>2. /\ b \in Seq(S) /\ Len(b) = IF n <= Len(s) THEN Len(s) - n + 1 ELSE 0
        /\ \A i \in 1 .. Len(s) - n + 1 : b[i] = s[n + i - 1]
    BY <1>1, <2>1, SubSeqProperties
  <2> HIDE DEF b
  <2> QED
    BY <1>1, <2>2
<1>4. c \in Seq(S) /\ Len(c) = 1 /\ c[1] = e
  OBVIOUS
<1> HIDE DEF a, b, c
<1>5. /\ ac \in Seq(S) /\ Len(ac) = n
      /\ \A i \in 1 .. n : ac[i] = IF i < n THEN s[i] ELSE e
  <2>1. /\ ac \in Seq(S) /\ Len(ac) = Len(a) + Len(c)
        /\ \A i \in 1 .. Len(a) + Len(c) : ac[i] = IF i <= Len(a) THEN a[i] ELSE c[i - Len(a)]
    BY <1>2, <1>4, ConcatProperties
  <2> HIDE DEF ac
  <2> QED
    BY <1>1, <1>2, <1>4, <2>1
<1> HIDE DEF ac
<1>6. /\ ac \o b \in Seq(S) /\ Len(ac \o b) = Len(ac) + Len(b)
      /\ \A i \in 1 .. Len(ac) + Len(b) : (ac \o b)[i] = IF i <= Len(ac) THEN ac[i] ELSE b[i - Len(ac)]
  BY <1>3, <1>5, ConcatProperties
<1>7. InsertAt(s, n, e) = ac \o b
  BY DEF InsertAt, ac, a, b, c
<1> QED
  BY <1>1, <1>3, <1>5, <1>6, <1>7

LEMMA Removed ==
  ASSUME NEW S, NEW s \in Seq(S), NEW n \in 1 .. Len(s)
  PROVE  /\ RemoveAt(s, n) \in Seq(S) /\ Len(RemoveAt(s, n)) = Len(s) - 1
         /\ \A i \in 1 .. Len(s) - 1 : RemoveAt(s, n)[i] = IF i < n THEN s[i] ELSE s[i + 1]
<1> DEFINE a == SubSeq(s, 1, n - 1)
           b == SubSeq(s, n + 1, Len(s))
<1>1. Len(s) \in Nat /\ n \in Int /\ \A i \in 1 .. Len(s) : s[i] \in S
  BY SeqFacts
<1>2. a \in Seq(S) /\ Len(a) = n - 1 /\ \A i \in 1 .. n - 1 : a[i] = s[i]
  <2>1. \A i \in 1 .. n - 1 : s[i] \in S
    BY <1>1
  <2>2. n - 1 \in Int /\ 1 \in Int
    BY <1>1
  <2>3. /\ a \in Seq(S) /\ Len(a) = IF 1 <= n - 1 THEN n - 1 - 1 + 1 ELSE 0
        /\ \A i \in 1 .. n - 1 - 1 + 1 : a[i] = s[1 + i - 1]
    BY <2>1, <2>2, SubSeqProperties
  <2> HIDE DEF a
  <2> QED
    BY <1>1, <2>3
<1>3. b \in Seq(S) /\ Len(b) = Len(s) - n /\ \A i \in 1 .. Len(s) - n : b[i] = s[n + i]
  <2>1. \A i \in n + 1 .. Len(s) : s[i] \in S
    BY <1>1
  <2>2. n + 1 \in Int
    BY <1>1
  <2>3. /\ b \in Seq(S) /\ Len(b) = IF n + 1 <= Len(s) THEN Len(s) - (n + 1) + 1 ELSE 0
        /\ \A i \in 1 .. Len(s) - (n + 1) + 1 : b[i] = s[n + 1 + i - 1]
    BY <1>1, <2>1, <2>2, SubSeqProperties
  <2> HIDE DEF b
  <2> QED
    BY <1>1, <2>3
<1> HIDE DEF a, b
<1>4. /\ a \o b \in Seq(S) /\ Len(a \o b) = Len(a) + Len(b)
      /\ \A i \in 1 .. Len(a) + Len(b) : (a \o b)[i] = IF i <= Len(a) THEN a[i] ELSE b[i - Len(a)]
  BY <1>2, <1>3, ConcatProperties
<1>5. RemoveAt(s, n) = a \o b
  BY DEF RemoveAt, a, b
<1>6. ASSUME NEW i \in 1 .. Len(s) - 1
      PROVE  (a \o b)[i] = IF i < n THEN s[i] ELSE s[i + 1]
  <2>1. CASE i < n
    BY <1>1, <1>2, <1>3, <1>4, <2>1
  <2>2. CASE ~(i < n)
    <3>1. i - (n - 1) \in 1 .. Len(s) - n /\ n + (i - (n - 1)) = i + 1 /\ ~(i <= Len(a))
      BY <1>1, <1>2, <2>2
    <3>2. (a \o b)[i] = b[i - (n - 1)]
      BY <1>1, <1>2, <1>3, <1>4, <3>1
    <3>3. b[i - (n - 1)] = s[n + (i - (n - 1))]
      BY <1>3, <3>1
    <3> QED
      BY <2>2, <3>1, <3>2, <3>3
  <2> QED
    BY <2>1, <2>2
<1>7. a \o b \in Seq(S) /\ Len(a \o b) = Len(s) - 1
  BY <1>1, <1>2, <1>3, <1>4
<1> QED
  BY <1>5, <1>6, <1>7

LEMMA MovedToFront ==
  ASSUME NEW S, NEW s \in Seq(S), NEW n \in 1 .. Len(s)
  PROVE  LET t == <<s[n]>> \o RemoveAt(s, n) IN
         /\ t \in Seq(S) /\ Len(t) = Len(s)
         /\ \A i \in 1 .. Len(s) : t[i] =
              IF i = 1 THEN s[n] ELSE IF i <= n THEN s[i - 1] ELSE s[i]
<1> DEFINE a == <<s[n]>>
           b == RemoveAt(s, n)
<1>1. Len(s) \in Nat /\ n \in Int /\ s[n] \in S
  BY SeqFacts
<1>2. a \in Seq(S) /\ Len(a) = 1 /\ a[1] = s[n]
  BY <1>1
<1>3. /\ b \in Seq(S) /\ Len(b) = Len(s) - 1
      /\ \A i \in 1 .. Len(s) - 1 : b[i] = IF i < n THEN s[i] ELSE s[i + 1]
  BY Removed
<1> HIDE DEF a, b
<1>4. /\ a \o b \in Seq(S) /\ Len(a \o b) = Len(a) + Len(b)
      /\ \A i \in 1 .. Len(a) + Len(b) : (a \o b)[i] = IF i <= Len(a) THEN a[i] ELSE b[i - Len(a)]
  BY <1>2, <1>3, ConcatProperties
<1> QED
  BY <1>1, <1>2, <1>3, <1>4 DEF a, b

LEMMA ConcatFacts ==
  ASSUME NEW S, NEW s \in Seq(S), NEW t \in Seq(S)
  PROVE  /\ s \o t \in Seq(S)
         /\ ToSet(s \o t) = ToSet(s) \cup ToSet(t)
         /\ IsInjective(s) /\ IsInjective(t) /\ ToSet(s) \cap ToSet(t) = {} => IsInjective(s \o t)
<1> DEFINE u == s \o t
           m == Len(s)
           n == Len(t)
<1>1. /\ u \in Seq(S) /\ Len(u) = m + n
      /\ \A i \in 1 .. m + n : u[i] = IF i <= m THEN s[i] ELSE t[i - m]
  BY ConcatProperties
<1>2. m \in Nat /\ n \in Nat
  BY SeqFacts
<1>3. DOMAIN u = 1 .. m + n /\ DOMAIN s = 1 .. m /\ DOMAIN t = 1 .. n
  BY <1>1, SeqFacts
<1>4. /\ \A x : x \in ToSet(s) <=> \E i \in 1 .. m : s[i] = x
      /\ \A x : x \in ToSet(t) <=> \E i \in 1 .. n : t[i] = x
      /\ \A x : x \in ToSet(u) <=> \E i \in 1 .. m + n : u[i] = x
  BY <1>1, SeqFacts
<1> HIDE DEF u, m, n
<1>5. ASSUME NEW i \in 1 .. m + n
      PROVE  \/ i \in 1 .. m /\ u[i] = s[i]
             \/ i - m \in 1 .. n /\ u[i] = t[i - m]
  BY <1>1, <1>2
<1>6. ASSUME NEW i \in 1 .. m PROVE i \in 1 .. m + n /\ u[i] = s[i]
  BY <1>1, <1>2
<1>7. ASSUME NEW i \in 1 .. n PROVE m + i \in 1 .. m + n /\ u[m + i] = t[i]
  <2>1. m + i \in 1 .. m + n /\ ~(m + i <= m) /\ m + i - m = i
    BY <1>2
  <2>2. \A k \in 1 .. m + n : ~(k <= m) => u[k] = t[k - m]
    BY <1>1
  <2>3. u[m + i] = t[(m + i) - m]
    BY <2>1, <2>2
  <2>4. (m + i) - m = i
    BY <1>2
  <2> QED
    BY <2>1, <2>3, <2>4
<1>8. ToSet(u) = ToSet(s) \cup ToSet(t)
  <2>1. \A x \in ToSet(u) : x \in ToSet(s) \cup ToSet(t)
    BY <1>4, <1>5
  <2>2. \A x \in ToSet(s) : x \in ToSet(u)
    BY <1>4, <1>6
  <2>3. \A x \in ToSet(t) : x \in ToSet(u)
    BY <1>4, <1>7
  <2> QED
    BY <2>1, <2>2, <2>3
<1>9. ASSUME IsInjective(s), IsInjective(t), ToSet(s) \cap ToSet(t) = {}
      PROVE  IsInjective(u)
  <2> SUFFICES ASSUME NEW i \in 1 .. m + n, NEW j \in 1 .. m + n, u[i] = u[j]
               PROVE  i = j
    BY <1>3 DEF IsInjective
  <2>1. CASE i \in 1 .. m /\ u[i] = s[i]
    <3>1. u[i] \in ToSet(s)
      BY <1>4, <2>1
    <3>2. ~(j - m \in 1 .. n /\ u[j] = t[j - m])
      BY <1>4, <1>9, <3>1
    <3>3. j \in 1 .. m /\ u[j] = s[j]
      BY <1>5, <3>2
    <3> QED
      BY <1>3, <1>9, <2>1, <3>3 DEF IsInjective
  <2>2. CASE i - m \in 1 .. n /\ u[i] = t[i - m]
    <3>1. u[i] \in ToSet(t)
      BY <1>4, <2>2
    <3>2. ~(j \in 1 .. m /\ u[j] = s[j])
      BY <1>4, <1>9, <3>1
    <3>3. j - m \in 1 .. n /\ u[j] = t[j - m]
      BY <1>5, <3>2
    <3>4. i - m = j - m
      BY <1>3, <1>9, <2>2, <3>3 DEF IsInjective
    <3> QED
      BY <1>2, <3>4
  <2> QED
    BY <1>5, <2>1, <2>2
<1> QED
  BY <1>1, <1>8, <1>9 DEF u

\* A list without repetitions has no more rows than there are items.
LEMMA NoMoreThanItems ==
  ASSUME NEW s \in Seq(Items), IsInjective(s)
  PROVE  Cardinality(Items) \in Nat /\ Len(s) <= Cardinality(Items)
<1>1. IsFiniteSet(Items)
  BY ConnectorsAssumption
<1>2. s \in [1 .. Len(s) -> Items] /\ Len(s) \in Nat
  BY LenProperties
<1>3. s \in Injection(1 .. Len(s), Items)
  BY <1>2 DEF Injection
<1>4. Cardinality(1 .. Len(s)) <= Cardinality(Items)
  BY <1>1, <1>3, FS_Injection
<1>5. Cardinality(1 .. Len(s)) = Len(s)
  <2>1. Len(s) \in Int /\ 1 \in Int
    BY <1>2
  <2>2. Cardinality(1 .. Len(s)) = IF 1 > Len(s) THEN 0 ELSE Len(s) - 1 + 1
    BY <2>1, FS_Interval
  <2> QED
    BY <1>2, <2>2
<1> QED
  BY <1>1, <1>4, <1>5, FS_CardinalityType

-----------------------------------------------------------------------------
(* Lemmas about pages and changes.                                         *)

LEMMA Pages ==
  ASSUME NEW n \in Nat \ {0}
  PROVE  /\ Before(n) \in Nat /\ Before(n + 1) \in Nat
         /\ Before(n + 1) = Before(n) + PageSize
         /\ n * PageSize = Before(n + 1)
         /\ n <= Before(n + 1)
         /\ Before(1) = 0
<1>1. PageSize \in Nat /\ PageSize >= 1
  BY ConnectorsAssumption
<1>2. (n - 1) * PageSize \in Nat /\ n * PageSize = (n - 1) * PageSize + PageSize
  BY <1>1
<1>3. n * PageSize >= n
  BY <1>1
<1>4. n + 1 - 1 = n /\ 1 - 1 = 0 /\ 0 * PageSize = 0
  BY <1>1
<1> QED
  BY <1>1, <1>2, <1>3, <1>4 DEF Before

LEMMA PageAsked ==
  ASSUME Types, pc # "idle"
  PROVE  page \in Nat \ {0} /\ Before(page) \in Nat
<1>1. LastPage \in Nat
  BY NoMoreThanItems DEF Types, LastPage
<1>2. page \in Nat \ {0}
  BY <1>1 DEF Types
<1> QED
  BY <1>2, Pages

LEMMA MinOfTwo ==
  ASSUME NEW a \in Nat, NEW b \in Nat
  PROVE  Min({a, b}) = IF a <= b THEN a ELSE b
<1> DEFINE m == IF a <= b THEN a ELSE b
<1>1. m \in {a, b} /\ \A y \in {a, b} : m <= y
  OBVIOUS
<1>2. \A x \in {a, b} : (\A y \in {a, b} : x <= y) => x = m
  OBVIOUS
<1> QED
  BY <1>1, <1>2 DEF Min

LEMMA ChangedAppend ==
  ASSUME NEW ch \in Seq(Changes), NEW k \in Kinds, NEW r \in Items
  PROVE  /\ Append(ch, [kind |-> k, row |-> r]) \in Seq(Changes)
         /\ \A q : Changed(Append(ch, [kind |-> k, row |-> r]), q) =
              Changed(ch, q) \cup (IF q = k THEN {r} ELSE {})
<1> DEFINE e == [kind |-> k, row |-> r]
           t == Append(ch, e)
<1>1. e \in Changes /\ e.kind = k /\ e.row = r
  BY DEF Changes
<1> HIDE DEF e
<1>2. t \in Seq(Changes) /\ Len(t) = Len(ch) + 1 /\ Len(ch) \in Nat
      /\ \A i \in 1 .. Len(ch) + 1 : t[i] = IF i = Len(ch) + 1 THEN e ELSE ch[i]
  BY <1>1
<1>3. ToSet(t) = ToSet(ch) \cup {e}
  <2>1. DOMAIN t = 1 .. Len(ch) + 1 /\ DOMAIN ch = 1 .. Len(ch)
    BY <1>2, SeqFacts
  <2> HIDE DEF t
  <2>2. \A i \in 1 .. Len(ch) : i \in 1 .. Len(ch) + 1 /\ t[i] = ch[i]
    BY <1>2
  <2>3. Len(ch) + 1 \in 1 .. Len(ch) + 1 /\ t[Len(ch) + 1] = e
    BY <1>2
  <2>4. \A i \in 1 .. Len(ch) + 1 : i = Len(ch) + 1 \/ i \in 1 .. Len(ch)
    BY <1>2
  <2>5. \A x : (\E i \in 1 .. Len(ch) + 1 : t[i] = x) <=> (x = e \/ \E i \in 1 .. Len(ch) : ch[i] = x)
    BY <2>2, <2>3, <2>4
  <2> QED
    BY <2>1, <2>5 DEF ToSet
<1>4. ASSUME NEW q
      PROVE  Changed(t, q) = Changed(ch, q) \cup (IF q = k THEN {r} ELSE {})
  <2> HIDE DEF t
  <2>1. \A x : x \in Changed(t, q) <=> \E d \in ToSet(t) : d.kind = q /\ d.row = x
    BY DEF Changed
  <2>2. \A x : x \in Changed(ch, q) <=> \E d \in ToSet(ch) : d.kind = q /\ d.row = x
    BY DEF Changed
  <2>3. \A x : x \in Changed(t, q) <=> (x \in Changed(ch, q) \/ (q = k /\ x = r))
    BY <1>1, <1>3, <2>1, <2>2
  <2> QED
    BY <2>3
<1> QED
  BY <1>2, <1>4 DEF e

LEMMA NoneChanged == \A kind : Changed(<<>>, kind) = {}
<1>1. ToSet(<<>>) = {}
  BY DEF ToSet
<1> QED
  BY <1>1 DEF Changed

-----------------------------------------------------------------------------
(* Calls begin, and the vendor's rows change.                              *)

LEMMA IInit == Init => IInv
<1> SUFFICES ASSUME Init PROVE IInv
  OBVIOUS
<1>1. Types
  <2>1. <<>> \in Seq(Items) /\ <<>> \in Seq(Changes)
    BY EmptySeq
  <2> QED
    BY <2>1, ConnectorsAssumption DEF Init, Types, NoAnswers, Statuses
<1>2. RowsKnown
  BY NoneChanged DEF Init, RowsKnown
<1>3. Collecting /\ Asking /\ ListingAccurate /\ LookupAnswered
  BY DEF Init, Collecting, Asking, ListingAccurate, Listed, LookupAnswered
<1> QED
  BY <1>1, <1>2, <1>3 DEF IInv, Init

LEMMA CallStep ==
  ASSUME IInv, List \/ Lookup
  PROVE  IInv'
<1> USE DEF IInv
<1>1. PICK k \in Items \cup {NoKey}, l \in {"first", "retry"} :
        Call(k, l) /\ (l = "first" <=> k # NoKey)
  BY ConnectorsAssumption DEF List, Lookup
<1>2. /\ pc' = l /\ key' = k /\ page' = 1 /\ attempt' = 0 /\ found' = <<>> /\ outcome' = "none"
      /\ answers' = NoAnswers /\ before' = rows /\ changes' = <<>> /\ rows' = rows
  BY <1>1 DEF Call
<1>3. Types'
  <2>1. <<>> \in Seq(Items) /\ <<>> \in Seq(Changes)
    BY EmptySeq
  <2>2. 1 \in 1 .. LastPage
    BY NoMoreThanItems DEF Types, LastPage
  <2> QED
    BY <1>2, <2>1, <2>2 DEF Types, NoAnswers, Statuses
<1>4. RowsKnown'
  BY <1>2, NoneChanged DEF RowsKnown
<1>5. Collecting'
  <2>1. ToSet(<<>>) = {} /\ IsInjective(<<>>)
    BY DEF ToSet, IsInjective
  <2>2. rows \in Seq(Items)
    BY DEF Types
  <2>3. \A i \in 1 .. Len(rows) : ~(i <= 0)
    BY <2>2, SeqFacts
  <2>4. Before(1) = 0
    BY Pages
  <2>5. Reached(Before(page))'
    BY <1>2, <2>3, <2>4 DEF Reached
  <2>6. Fresh(Before(page))'
    BY <1>2, <2>1 DEF Fresh
  <2> QED
    BY <1>1, <1>2, <2>1, <2>5, <2>6 DEF Collecting
<1>6. Asking'
  BY <1>1, <1>2, ConnectorsAssumption DEF Asking, NoAnswers
<1>7. ListingAccurate' /\ LookupAnswered'
  BY <1>2 DEF ListingAccurate, Listed, LookupAnswered
<1> QED
  BY <1>2, <1>3, <1>4, <1>5, <1>6, <1>7

\* What a change needs to show: that the new list holds no row twice, which
\* rows it has, and that it keeps what a listing in progress relies on.
LEMMA ChangeStep ==
  ASSUME IInv, NEW k \in Kinds, NEW r \in Items, NEW new \in Seq(Items), Change(k, r, new),
         IsInjective(new), RowsKnown', Collecting'
  PROVE  IInv'
<1> USE DEF IInv
<1>1. pc # "idle" /\ rows' = new /\ UNCHANGED call
      /\ changes' = Append(changes, [kind |-> k, row |-> r])
  BY DEF Change
<1>2. Types'
  BY <1>1, ChangedAppend DEF Types, call
<1>3. Asking' /\ (pc' # "idle" => outcome' = "none")
  BY <1>1 DEF Asking, call
<1>4. outcome' = "none"
  BY <1>1 DEF call
<1>5. ListingAccurate' /\ LookupAnswered'
  BY <1>4 DEF ListingAccurate, Listed, LookupAnswered
<1> QED
  BY <1>2, <1>3, <1>5

LEMMA CreateStep ==
  ASSUME IInv, Create
  PROVE  IInv'
<1> USE DEF IInv
<1>1. PICK e \in Items \ ToSet(rows), n \in 1 .. Len(rows) + 1 :
        Change("created", e, InsertAt(rows, n, e))
  BY DEF Create
<1> DEFINE new == InsertAt(rows, n, e)
<1>2. rows \in Seq(Items) /\ IsInjective(rows) /\ Len(rows) \in Nat /\ n \in Nat
      /\ e \in Items /\ DOMAIN rows = 1 .. Len(rows) /\ \A i \in 1 .. Len(rows) : rows[i] # e
  BY SeqFacts DEF Types
<1>3. /\ new \in Seq(Items) /\ Len(new) = Len(rows) + 1
      /\ \A i \in 1 .. Len(rows) + 1 :
           new[i] = IF i < n THEN rows[i] ELSE IF i = n THEN e ELSE rows[i - 1]
  <2>1. rows \in Seq(Items) /\ n \in 1 .. Len(rows) + 1 /\ e \in Items
    BY <1>2
  <2> DEFINE P(s, m, x) ==
        /\ InsertAt(s, m, x) \in Seq(Items) /\ Len(InsertAt(s, m, x)) = Len(s) + 1
        /\ \A i \in 1 .. Len(s) + 1 : InsertAt(s, m, x)[i] =
             IF i < m THEN s[i] ELSE IF i = m THEN x ELSE s[i - 1]
  <2>2. \A s \in Seq(Items) : \A m \in 1 .. Len(s) + 1 : \A x \in Items : P(s, m, x)
    BY Inserted
  <2> HIDE DEF P, IInv
  <2>3. P(rows, n, e)
    BY <2>1, <2>2
  <2> QED
    BY <2>3 DEF P, new
<1>4. rows' = new /\ UNCHANGED call /\ changes' = Append(changes, [kind |-> "created", row |-> e])
  BY <1>1 DEF Change
<1> HIDE DEF new
<1>5. DOMAIN new = 1 .. Len(rows) + 1
  BY <1>3, SeqFacts
\* No row comes forward.
<1>6. \A i \in 1 .. Len(rows) + 1 : new[i] = e \/ \E m \in 1 .. Len(rows) : m <= i /\ new[i] = rows[m]
  <2> SUFFICES ASSUME NEW i \in 1 .. Len(rows) + 1, new[i] # e
               PROVE  \E m \in 1 .. Len(rows) : m <= i /\ new[i] = rows[m]
    OBVIOUS
  <2>1. CASE i < n
    BY <1>2, <1>3, <2>1
  <2>2. CASE i > n
    <3>1. i - 1 \in 1 .. Len(rows) /\ i - 1 <= i
      BY <1>2, <2>2
    <3> QED
      BY <1>2, <1>3, <2>2, <3>1
  <2> QED
    BY <1>2, <1>3, <2>1, <2>2
<1>7. IsInjective(new)
  <2> SUFFICES ASSUME NEW i \in 1 .. Len(rows) + 1, NEW m \in 1 .. Len(rows) + 1, new[i] = new[m], i < m
               PROVE  FALSE
    BY <1>2, <1>5 DEF IsInjective
  <2> DEFINE old(x) == IF x < n THEN x ELSE x - 1
  <2>1. \A x \in 1 .. Len(rows) + 1 : x # n => old(x) \in 1 .. Len(rows) /\ new[x] = rows[old(x)]
    BY <1>2, <1>3
  <2>2. new[n] = e
    BY <1>2, <1>3
  <2>3. i # n /\ m # n
    BY <1>2, <2>1, <2>2
  <2>4. old(i) = old(m)
    BY <1>2, <2>1, <2>3 DEF IsInjective
  <2> QED
    BY <1>2, <2>3, <2>4
<1>8. ToSet(new) = ToSet(rows) \cup {e}
  <2>1. \A x : x \in ToSet(new) => x \in ToSet(rows) \cup {e}
    BY <1>2, <1>3, <1>6, SeqFacts
  <2>2. e \in ToSet(new)
    <3>1. n \in 1 .. Len(new) /\ new[n] = e
      BY <1>2, <1>3
    <3> QED
      BY <1>3, <3>1, SeqFacts
  <2>3. ASSUME NEW i \in 1 .. Len(rows) PROVE rows[i] \in ToSet(new)
    <3>1. CASE i < n
      <4>1. i \in 1 .. Len(new) /\ new[i] = rows[i]
        BY <1>2, <1>3, <3>1
      <4> QED
        BY <1>3, <4>1, SeqFacts
    <3>2. CASE i >= n
      <4>1. i + 1 \in 1 .. Len(rows) + 1 /\ ~(i + 1 < n) /\ i + 1 # n /\ i + 1 - 1 = i
        BY <1>2, <3>2
      <4>2. i + 1 \in 1 .. Len(new) /\ new[i + 1] = rows[i]
        BY <1>3, <4>1
      <4> QED
        BY <1>3, <4>2, SeqFacts
    <3> QED
      BY <1>2, <3>1, <3>2
  <2> QED
    BY <1>2, <2>1, <2>2, <2>3, SeqFacts
<1>9. \A q : Changed(changes', q) = Changed(changes, q) \cup (IF q = "created" THEN {e} ELSE {})
  <2>1. changes \in Seq(Changes) /\ "created" \in Kinds /\ e \in Items
    BY <1>2 DEF Types, Kinds
  <2> QED
    BY <1>4, <2>1, ChangedAppend
<1>10. /\ Changed(changes', "created") = Changed(changes, "created") \cup {e}
       /\ Changed(changes', "deleted") = Changed(changes, "deleted")
       /\ Changed(changes', "moved") = Changed(changes, "moved")
  BY <1>9
<1>11. RowsKnown'
  BY <1>4, <1>8, <1>10 DEF RowsKnown, call
<1>12. Collecting'
  <2> SUFFICES ASSUME pc # "idle", key = NoKey PROVE
        /\ ToSet(found) \subseteq ToSet(before) \cup Changed(changes', "created")
        /\ Reached(Before(page))' /\ Fresh(Before(page))'
    BY <1>4 DEF Collecting, call
  <2>1. Reached(Before(page))'
    <3> SUFFICES ASSUME Changed(changes, "deleted") = {},
                        NEW i \in 1 .. Len(rows) + 1, i <= Before(page),
                        new[i] \in ToSet(before) \ Changed(changes, "moved")
                 PROVE  new[i] \in ToSet(found)
      BY <1>3, <1>4, <1>10 DEF Reached, call
    <3>1. new[i] # e
      BY DEF RowsKnown
    <3>2. PICK m \in 1 .. Len(rows) : m <= i /\ new[i] = rows[m]
      BY <1>6, <3>1
    <3>3. m <= Before(page)
      <4>1. Before(page) \in Nat
        BY PageAsked
      <4> QED
        BY <1>2, <3>2, <4>1
    <3> QED
      BY <3>2, <3>3 DEF Collecting, Reached
  <2>2. Fresh(Before(page))'
    BY <1>10 DEF Fresh
  <2> QED
    BY <1>10, <2>1, <2>2 DEF Collecting
<1> QED
  BY <1>1, <1>3, <1>7, <1>11, <1>12, ChangeStep DEF Kinds, new

LEMMA DeleteStep ==
  ASSUME IInv, Delete
  PROVE  IInv'
<1> USE DEF IInv
<1>1. PICK n \in DOMAIN rows : Change("deleted", rows[n], RemoveAt(rows, n))
  BY DEF Delete
<1> DEFINE new == RemoveAt(rows, n)
<1>2. rows \in Seq(Items) /\ IsInjective(rows) /\ Len(rows) \in Nat /\ n \in 1 .. Len(rows)
      /\ DOMAIN rows = 1 .. Len(rows) /\ rows[n] \in Items
  BY SeqFacts DEF Types
<1>3. /\ new \in Seq(Items) /\ Len(new) = Len(rows) - 1
      /\ \A i \in 1 .. Len(rows) - 1 : new[i] = IF i < n THEN rows[i] ELSE rows[i + 1]
  BY <1>2, Removed
<1>4. rows' = new /\ UNCHANGED call
      /\ changes' = Append(changes, [kind |-> "deleted", row |-> rows[n]])
  BY <1>1 DEF Change
<1> HIDE DEF new
<1>5. DOMAIN new = 1 .. Len(rows) - 1
  BY <1>3, SeqFacts
\* No row goes back.
<1> DEFINE old(x) == IF x < n THEN x ELSE x + 1
<1>6. \A i \in 1 .. Len(rows) - 1 : /\ old(i) \in 1 .. Len(rows) /\ new[i] = rows[old(i)]
                                    /\ i <= old(i)
  BY <1>2, <1>3
<1>7. IsInjective(new)
  <2> SUFFICES ASSUME NEW i \in 1 .. Len(rows) - 1, NEW m \in 1 .. Len(rows) - 1, new[i] = new[m]
               PROVE  i = m
    BY <1>5 DEF IsInjective
  <2>1. old(i) = old(m)
    BY <1>2, <1>6 DEF IsInjective
  <2> QED
    BY <1>2, <2>1
<1>8. ToSet(new) \subseteq ToSet(rows)
  BY <1>2, <1>3, <1>6, SeqFacts
<1>9. \A q : Changed(changes', q) = Changed(changes, q) \cup (IF q = "deleted" THEN {rows[n]} ELSE {})
  <2>1. changes \in Seq(Changes) /\ "deleted" \in Kinds /\ rows[n] \in Items
    BY <1>2 DEF Types, Kinds
  <2> QED
    BY <1>4, <2>1, ChangedAppend
<1>10. /\ Changed(changes', "deleted") # {}
       /\ Changed(changes', "created") = Changed(changes, "created")
       /\ Changed(changes', "moved") = Changed(changes, "moved")
  BY <1>9
<1>11. RowsKnown'
  BY <1>4, <1>8, <1>10 DEF RowsKnown, call
<1>12. Collecting'
  <2> SUFFICES ASSUME pc # "idle", key = NoKey PROVE
        /\ ToSet(found) \subseteq ToSet(before) \cup Changed(changes', "created")
        /\ Reached(Before(page))' /\ Fresh(Before(page))'
    BY <1>4 DEF Collecting, call
  <2>1. Reached(Before(page))'
    BY <1>10 DEF Reached
  <2>2. Fresh(Before(page))'
    <3> SUFFICES ASSUME Changed(changes, "created") = {} /\ Changed(changes, "moved") = {}
                 PROVE  /\ IsInjective(found)
                        /\ \A i \in 1 .. Len(rows) - 1 : i > Before(page) => new[i] \notin ToSet(found)
      BY <1>3, <1>4, <1>10 DEF Fresh, call
    <3>1. Before(page) \in Nat
      BY PageAsked
    <3>2. IsInjective(found)
          /\ \A i \in 1 .. Len(rows) : i > Before(page) => rows[i] \notin ToSet(found)
      BY DEF Collecting, Fresh
    <3>3. ASSUME NEW i \in 1 .. Len(rows) - 1, i > Before(page) PROVE new[i] \notin ToSet(found)
      <4>1. old(i) \in 1 .. Len(rows) /\ old(i) > Before(page)
        BY <1>2, <3>1, <3>3
      <4> QED
        BY <1>6, <3>2, <4>1
    <3> QED
      BY <3>2, <3>3
  <2> QED
    BY <1>10, <2>1, <2>2 DEF Collecting
<1> QED
  BY <1>1, <1>2, <1>3, <1>7, <1>11, <1>12, ChangeStep DEF Kinds, new

LEMMA MoveStep ==
  ASSUME IInv, Move
  PROVE  IInv'
<1> USE DEF IInv
<1>1. PICK n \in DOMAIN rows \ {1} : Change("moved", rows[n], <<rows[n]>> \o RemoveAt(rows, n))
  BY DEF Move
<1> DEFINE new == <<rows[n]>> \o RemoveAt(rows, n)
<1>2. rows \in Seq(Items) /\ IsInjective(rows) /\ Len(rows) \in Nat /\ n \in 1 .. Len(rows)
      /\ DOMAIN rows = 1 .. Len(rows) /\ rows[n] \in Items
  BY SeqFacts DEF Types
<1>3. /\ new \in Seq(Items) /\ Len(new) = Len(rows)
      /\ \A i \in 1 .. Len(rows) :
           new[i] = IF i = 1 THEN rows[n] ELSE IF i <= n THEN rows[i - 1] ELSE rows[i]
  BY <1>2, MovedToFront
<1>4. rows' = new /\ UNCHANGED call
      /\ changes' = Append(changes, [kind |-> "moved", row |-> rows[n]])
  BY <1>1 DEF Change
<1> HIDE DEF new
<1>5. DOMAIN new = 1 .. Len(rows)
  BY <1>3, SeqFacts
\* Only the row moved comes forward.
<1> DEFINE old(x) == IF x = 1 THEN n ELSE IF x <= n THEN x - 1 ELSE x
<1>6. \A i \in 1 .. Len(rows) : /\ old(i) \in 1 .. Len(rows) /\ new[i] = rows[old(i)]
                                /\ i = 1 \/ old(i) <= i
  BY <1>2, <1>3
<1>7. IsInjective(new)
  <2> SUFFICES ASSUME NEW i \in 1 .. Len(rows), NEW m \in 1 .. Len(rows), new[i] = new[m]
               PROVE  i = m
    BY <1>5 DEF IsInjective
  <2>1. old(i) = old(m)
    BY <1>2, <1>6 DEF IsInjective
  <2> QED
    BY <1>2, <2>1
<1>8. ToSet(new) = ToSet(rows)
  <2>1. ToSet(new) \subseteq ToSet(rows)
    BY <1>2, <1>3, <1>6, SeqFacts
  <2>2. ASSUME NEW i \in 1 .. Len(rows) PROVE rows[i] \in ToSet(new)
    <3> DEFINE m == IF i = n THEN 1 ELSE IF i < n THEN i + 1 ELSE i
    <3>1. m \in 1 .. Len(rows) /\ old(m) = i
      BY <1>2
    <3> HIDE DEF m
    <3>2. new[m] = rows[i] /\ m \in 1 .. Len(new)
      BY <1>3, <1>6, <3>1
    <3> QED
      BY <1>3, <3>2, SeqFacts
  <2>3. ToSet(rows) \subseteq ToSet(new)
    BY <1>2, <2>2, SeqFacts
  <2> QED
    BY <2>1, <2>3
<1>9. \A q : Changed(changes', q) = Changed(changes, q) \cup (IF q = "moved" THEN {rows[n]} ELSE {})
  <2>1. changes \in Seq(Changes) /\ "moved" \in Kinds /\ rows[n] \in Items
    BY <1>2 DEF Types, Kinds
  <2> QED
    BY <1>4, <2>1, ChangedAppend
<1>10. /\ Changed(changes', "moved") = Changed(changes, "moved") \cup {rows[n]}
       /\ Changed(changes', "created") = Changed(changes, "created")
       /\ Changed(changes', "deleted") = Changed(changes, "deleted")
  BY <1>9
<1>11. RowsKnown'
  BY <1>4, <1>8, <1>10 DEF RowsKnown, call
<1>12. Collecting'
  <2> SUFFICES ASSUME pc # "idle", key = NoKey PROVE
        /\ ToSet(found) \subseteq ToSet(before) \cup Changed(changes', "created")
        /\ Reached(Before(page))' /\ Fresh(Before(page))'
    BY <1>4 DEF Collecting, call
  <2>1. Reached(Before(page))'
    <3> SUFFICES ASSUME Changed(changes, "deleted") = {},
                        NEW i \in 1 .. Len(rows), i <= Before(page),
                        new[i] \in ToSet(before) \ Changed(changes', "moved")
                 PROVE  new[i] \in ToSet(found)
      BY <1>3, <1>4, <1>10 DEF Reached, call
    <3>1. i # 1
      BY <1>2, <1>3, <1>10
    <3>2. old(i) \in 1 .. Len(rows) /\ new[i] = rows[old(i)] /\ old(i) <= i
      BY <1>6, <3>1
    <3>3. old(i) <= Before(page)
      <4>1. Before(page) \in Nat
        BY PageAsked
      <4> HIDE DEF old
      <4> QED
        BY <1>2, <3>2, <4>1
    <3> HIDE DEF old
    <3> QED
      BY <1>10, <3>2, <3>3 DEF Collecting, Reached
  <2>2. Fresh(Before(page))'
    BY <1>10 DEF Fresh
  <2> QED
    BY <1>10, <2>1, <2>2 DEF Collecting
<1> QED
  BY <1>1, <1>2, <1>3, <1>7, <1>11, <1>12, ChangeStep DEF Kinds, new

-----------------------------------------------------------------------------
(* The vendor answers.                                                     *)

LEMMA AnsweredEffect ==
  ASSUME Types, NEW a \in Answers, Answered(a)
  PROVE  /\ a \in Statuses
         /\ answers' \in [first : Statuses, last : Statuses, busy : Nat]
         /\ answers'.first = IF answers = NoAnswers THEN a ELSE answers.first
         /\ answers'.last = a
         /\ answers'.busy = IF a = "busy" THEN answers.busy + 1 ELSE 0
         /\ UNCHANGED <<rows, key, before, changes>>
<1>1. a \in Statuses
  BY DEF Answers, Statuses
<1>2. answers' = [first |-> IF answers = NoAnswers THEN a ELSE answers.first,
                  last |-> a,
                  busy |-> IF a = "busy" THEN answers.busy + 1 ELSE 0]
      /\ UNCHANGED <<rows, key, before, changes>>
  BY DEF Answered
<1> QED
  BY <1>1, <1>2 DEF Types

\* The end of a call.
LEMMA EndStep ==
  ASSUME IInv, NEW a \in Answers, Answered(a), NEW f \in Seq(Items),
         NEW o \in {"returned", "missing", "raised"}, End(o, f),
         ListingAccurate', LookupAnswered'
  PROVE  IInv'
<1> USE DEF IInv
<1>1. pc' = "idle" /\ outcome' = o /\ found' = f /\ UNCHANGED <<page, attempt>>
  BY DEF End
<1>2. Types'
  BY <1>1, AnsweredEffect DEF Types
<1>3. RowsKnown'
  BY AnsweredEffect DEF RowsKnown
<1>4. Collecting' /\ Asking'
  BY <1>1 DEF Collecting, Asking
<1> QED
  BY <1>1, <1>2, <1>3, <1>4

LEMMA FirstStep ==
  ASSUME IInv, FirstGet
  PROVE  IInv'
<1> USE DEF IInv
<1>1. PICK a \in Answers :
        /\ pc = "first" /\ Answered(a)
        /\ \/ a = "ok" /\ End("returned", <<key>>)
           \/ a = "404" /\ End("missing", <<>>)
           \/ a \in {"refused", "broken"} /\ End("raised", <<>>)
           \/ a = "busy" /\ pc' = "retry" /\ UNCHANGED <<page, attempt, found, outcome>>
  BY DEF FirstGet
<1>2. key \in Items /\ key # NoKey
  BY <1>1 DEF Collecting, Types
<1>3. answers = NoAnswers /\ attempt = 0
  BY <1>1 DEF Asking
<1>4. /\ answers'.first = a /\ answers'.last = a /\ key' = key
      /\ a = "busy" => answers'.busy = 1
  BY <1>1, <1>3, AnsweredEffect DEF NoAnswers
<1>5. <<>> \in Seq(Items) /\ <<key>> \in Seq(Items)
  BY <1>2
<1>6. CASE a # "busy"
  <2>1. PICK o \in {"returned", "missing", "raised"}, f \in {<<>>, <<key>>} :
          /\ End(o, f)
          /\ o = "missing" => a = "404"
          /\ o = "raised" => a \in {"refused", "broken"}
    BY <1>1, <1>6
  <2>2. outcome' = o /\ key' # NoKey
    BY <1>2, <1>4, <2>1 DEF End
  <2>3. ListingAccurate' /\ LookupAnswered'
    BY <1>4, <2>1, <2>2 DEF ListingAccurate, Listed, LookupAnswered
  <2> QED
    BY <1>1, <1>5, <2>1, <2>3, EndStep
<1>7. CASE a = "busy"
  <2>1. pc' = "retry" /\ UNCHANGED <<page, attempt, found, outcome>>
    BY <1>1, <1>7
  <2>2. Types'
    BY <1>1, <2>1, AnsweredEffect DEF Types
  <2>3. RowsKnown'
    BY <1>1, AnsweredEffect DEF RowsKnown
  <2>4. Collecting' /\ Asking'
    BY <1>2, <1>3, <1>4, <1>7, <2>1, ConnectorsAssumption DEF Collecting, Asking
  <2>5. outcome' = "none"
    BY <1>1, <2>1
  <2>6. ListingAccurate' /\ LookupAnswered'
    BY <2>5 DEF ListingAccurate, Listed, LookupAnswered
  <2> QED
    BY <2>2, <2>3, <2>4, <2>5, <2>6
<1> QED
  BY <1>6, <1>7

\* What is collected once the page asked for is delivered.
LEMMA PageDelivered ==
  ASSUME IInv, pc = "retry", key = NoKey
  PROVE  LET f == found \o PageRows(page) IN
         /\ f \in Seq(Items)
         /\ ToSet(f) \subseteq ToSet(before) \cup Changed(changes, "created")
         /\ Changed(changes, "deleted") = {} =>
              \A i \in 1 .. Len(rows) :
                i <= Before(page + 1) /\ rows[i] \in ToSet(before) \ Changed(changes, "moved") =>
                  rows[i] \in ToSet(f)
         /\ Changed(changes, "created") = {} /\ Changed(changes, "moved") = {} =>
              /\ IsInjective(f)
              /\ \A i \in 1 .. Len(rows) : i > Before(page + 1) => rows[i] \notin ToSet(f)
<1> USE DEF IInv
<1> DEFINE p == PageRows(page)
           o == Before(page)
           next == Before(page + 1)
           last == IF Follow(page) THEN page * PageSize ELSE Len(rows)
<1>1. rows \in Seq(Items) /\ found \in Seq(Items) /\ IsInjective(rows) /\ Len(rows) \in Nat
      /\ DOMAIN rows = 1 .. Len(rows)
      /\ \A i \in 1 .. Len(rows) : rows[i] \in Items
  BY SeqFacts DEF Types
<1>2. o \in Nat /\ next \in Nat /\ o <= next /\ page * PageSize = next
  <2>1. page \in Nat \ {0}
    BY PageAsked
  <2>2. Before(page) \in Nat /\ Before(page + 1) \in Nat
        /\ Before(page + 1) = Before(page) + PageSize /\ page * PageSize = Before(page + 1)
    BY <2>1, Pages
  <2> HIDE DEF o, next
  <2>3. o \in Nat /\ next \in Nat /\ next = o + PageSize /\ page * PageSize = next
    BY <2>2 DEF o, next
  <2> QED
    BY <2>3, ConnectorsAssumption
<1>3. last \in Nat /\ \A i \in 1 .. Len(rows) : i <= last <=> i <= next
  BY <1>1, <1>2 DEF Follow
<1>4. p = SubSeq(rows, o + 1, last)
  BY DEF PageRows, Before
<1> HIDE DEF o, next
<1>5. last <= Len(rows)
  BY <1>1, <1>2 DEF Follow
<1> HIDE DEF last, p
<1>6. /\ p \in Seq(Items)
      /\ Len(p) = IF o + 1 <= last THEN last - o ELSE 0
      /\ \A i \in 1 .. last - o : p[i] = rows[o + i]
  <2>1. o + 1 \in Int /\ last \in Int /\ \A i \in o + 1 .. last : rows[i] \in Items
    BY <1>1, <1>2, <1>3, <1>5
  <2>2. /\ p \in Seq(Items)
        /\ Len(p) = IF o + 1 <= last THEN last - (o + 1) + 1 ELSE 0
        /\ \A i \in 1 .. last - (o + 1) + 1 : p[i] = rows[o + 1 + i - 1]
    BY <1>4, <2>1, SubSeqProperties
  <2> QED
    BY <1>2, <1>3, <2>2
<1>7. \A i \in 1 .. Len(p) : o + i \in 1 .. Len(rows) /\ o + i > o /\ o + i <= last /\ p[i] = rows[o + i]
  BY <1>1, <1>2, <1>3, <1>5, <1>6
<1>8. \A i \in 1 .. Len(rows) : i > o /\ i <= last => i - o \in 1 .. Len(p) /\ rows[i] = p[i - o]
  <2> SUFFICES ASSUME NEW i \in 1 .. Len(rows), i > o, i <= last
               PROVE  i - o \in 1 .. Len(p) /\ rows[i] = p[i - o]
    OBVIOUS
  <2>1. i - o \in 1 .. last - o /\ o + (i - o) = i /\ i - o \in 1 .. Len(p)
    BY <1>1, <1>2, <1>3, <1>6
  <2> QED
    BY <1>6, <2>1
<1>9. \A x : x \in ToSet(p) <=> \E i \in 1 .. Len(rows) : i > o /\ i <= last /\ rows[i] = x
  <2>1. \A x : x \in ToSet(p) <=> \E i \in 1 .. Len(p) : p[i] = x
    BY <1>6, SeqFacts
  <2> QED
    BY <1>7, <1>8, <2>1
<1>10. found \o p \in Seq(Items) /\ ToSet(found \o p) = ToSet(found) \cup ToSet(p)
  BY <1>1, <1>6, ConcatFacts
<1>11. ToSet(found \o p) \subseteq ToSet(before) \cup Changed(changes, "created")
  <2>1. ToSet(p) \subseteq ToSet(rows)
    BY <1>1, <1>9, SeqFacts
  <2> QED
    BY <1>10, <2>1 DEF RowsKnown, Collecting
<1>12. ASSUME Changed(changes, "deleted") = {}, NEW i \in 1 .. Len(rows), i <= next,
              rows[i] \in ToSet(before) \ Changed(changes, "moved")
       PROVE  rows[i] \in ToSet(found \o p)
  <2>1. CASE i <= o
    BY <1>10, <1>12, <2>1 DEF Collecting, Reached, o
  <2>2. CASE i > o
    BY <1>3, <1>9, <1>10, <1>12, <2>2
  <2> QED
    BY <1>2, <2>1, <2>2
<1>13. ASSUME Changed(changes, "created") = {}, Changed(changes, "moved") = {}
       PROVE  /\ IsInjective(found \o p)
              /\ \A i \in 1 .. Len(rows) : i > next => rows[i] \notin ToSet(found \o p)
  <2>1. IsInjective(found) /\ \A i \in 1 .. Len(rows) : i > o => rows[i] \notin ToSet(found)
    BY <1>13 DEF Collecting, Fresh, o
  <2>2. IsInjective(p)
    <3>1. DOMAIN p = 1 .. Len(p)
      BY <1>6, SeqFacts
    <3> SUFFICES ASSUME NEW i \in 1 .. Len(p), NEW j \in 1 .. Len(p), p[i] = p[j]
                 PROVE  i = j
      BY <3>1 DEF IsInjective
    <3>2. o + i = o + j
      BY <1>1, <1>7 DEF IsInjective
    <3> QED
      BY <1>2, <3>2
  <2>3. ToSet(found) \cap ToSet(p) = {}
    BY <1>9, <2>1
  <2>4. IsInjective(found \o p)
    BY <1>1, <1>6, <2>1, <2>2, <2>3, ConcatFacts
  <2>5. ASSUME NEW i \in 1 .. Len(rows), i > next PROVE rows[i] \notin ToSet(found \o p)
    <3>1. i > o
      BY <1>2, <2>5
    <3>2. rows[i] \notin ToSet(p)
      <4> SUFFICES ASSUME NEW j \in 1 .. Len(rows), j <= last, rows[j] = rows[i] PROVE FALSE
        BY <1>9
      <4>1. j = i
        BY <1>1 DEF IsInjective
      <4> QED
        BY <1>2, <1>3, <2>5, <4>1
    <3> QED
      BY <1>10, <2>1, <3>1, <3>2
  <2> QED
    BY <2>4, <2>5
<1> QED
  BY <1>10, <1>11, <1>12, <1>13 DEF p, next

LEMMA LastPageIs == \A n : IsLast(n) <=> ~Follow(n)
  BY DEF IsLast, NextLink

\* A listing that is delivered to its end is accurate.
LEMMA ListingEnds ==
  ASSUME IInv, pc = "retry", key = NoKey, IsLast(page),
         key' = key, UNCHANGED <<rows, before, changes>>, found' = found \o PageRows(page)
  PROVE  ListingAccurate'
<1> USE DEF IInv
<1> DEFINE f == found \o PageRows(page)
           all == ToSet(f)
           created == Changed(changes, "created")
           deleted == Changed(changes, "deleted")
           moved == Changed(changes, "moved")
<1>1. /\ all \subseteq ToSet(before) \cup created
      /\ deleted = {} =>
           \A i \in 1 .. Len(rows) :
             i <= Before(page + 1) /\ rows[i] \in ToSet(before) \ moved => rows[i] \in all
      /\ created = {} /\ moved = {} => IsInjective(f)
  BY PageDelivered
<1>2. \A i \in 1 .. Len(rows) : i <= Before(page + 1)
  <2>1. ~Follow(page) /\ page \in Nat \ {0}
    BY LastPageIs, PageAsked
  <2>2. page * PageSize = Before(page + 1) /\ Before(page + 1) \in Nat
    BY <2>1, Pages
  <2>3. Len(rows) \in Nat
    BY SeqFacts DEF Types
  <2> QED
    BY <2>1, <2>2, <2>3 DEF Follow
<1> HIDE DEF f, all
<1>3. deleted = {} => ToSet(before) \ moved \subseteq all
  <2> SUFFICES ASSUME deleted = {}, NEW x \in ToSet(before) \ moved PROVE x \in all
    OBVIOUS
  <2>1. x \in ToSet(rows)
    BY DEF RowsKnown
  <2>2. PICK i \in 1 .. Len(rows) : rows[i] = x
    BY <2>1, SeqFacts DEF Types
  <2> QED
    BY <1>1, <1>2, <2>2
<1>4. ASSUME Len(changes) = 1, created # {} PROVE all = ToSet(before) \/ all = ToSet(rows)
  <2>1. ToSet(changes) = {changes[1]}
    <3>1. DOMAIN changes = 1 .. 1
      BY <1>4, SeqFacts DEF Types
    <3>2. \A x : x \in ToSet(changes) <=> \E i \in 1 .. 1 : changes[i] = x
      BY <3>1 DEF ToSet
    <3>3. \A i : i \in 1 .. 1 <=> i = 1
      OBVIOUS
    <3> QED
      BY <3>2, <3>3
  <2>2. \A q, x : x \in Changed(changes, q) <=> \E d \in ToSet(changes) : d.kind = q /\ d.row = x
    BY DEF Changed
  <2>3. \A q, x : x \in Changed(changes, q) <=> changes[1].kind = q /\ changes[1].row = x
    BY <2>1, <2>2
  <2>4. changes[1].kind = "created"
    BY <1>4, <2>3
  <2>5. deleted = {} /\ moved = {} /\ created = {changes[1].row}
    BY <2>3, <2>4
  <2>6. ToSet(before) \subseteq all /\ all \subseteq ToSet(before) \cup {changes[1].row}
    BY <1>1, <1>3, <2>5
  <2>7. ToSet(rows) = ToSet(before) \cup {changes[1].row}
    BY <2>5 DEF RowsKnown
  <2>8. CASE changes[1].row \in all
    BY <2>6, <2>7, <2>8
  <2>9. CASE changes[1].row \notin all
    BY <2>6, <2>9
  <2> QED
    BY <2>8, <2>9
<1>5. /\ deleted = {} => ToSet(before) \ moved \subseteq ToSet(found')
      /\ ToSet(found') \subseteq ToSet(before) \cup created
      /\ created = {} /\ moved = {} => IsInjective(found')
      /\ Len(changes) = 1 /\ created # {} => ToSet(found') \in {ToSet(before), ToSet(rows)}
  BY <1>1, <1>3, <1>4 DEF f, all
<1>6. /\ (deleted = {} => ToSet(before) \ moved \subseteq ToSet(found))'
      /\ (ToSet(found) \subseteq ToSet(before) \cup created)'
      /\ (created = {} /\ moved = {} => IsInjective(found))'
      /\ (Len(changes) = 1 /\ created # {} => ToSet(found) \in {ToSet(before), ToSet(rows)})'
  BY <1>5
<1> QED
  BY <1>6 DEF ListingAccurate, Changed

LEMMA GetStep ==
  ASSUME IInv, GetWithRetry
  PROVE  IInv'
<1> USE DEF IInv
<1>1. PICK a \in Answers :
        /\ pc = "retry" /\ Answered(a)
        /\ \/ a = "ok" /\ Deliver
           \/ /\ a = "busy" /\ attempt < Attempts - 1
              /\ attempt' = attempt + 1 /\ UNCHANGED <<pc, page, found, outcome>>
           \/ /\ a # "ok" /\ (a = "busy" => attempt >= Attempts - 1)
              /\ GiveUp
  BY DEF GetWithRetry
<1>2. /\ answers'.last = a /\ answers.busy \in Nat /\ attempt \in Nat
      /\ answers'.first = IF answers = NoAnswers THEN a ELSE answers.first
      /\ answers'.busy = IF a = "busy" THEN answers.busy + 1 ELSE 0
      /\ UNCHANGED <<rows, key, before, changes>>
  BY <1>1, AnsweredEffect DEF Types
<1>3. attempt <= answers.busy /\ attempt < Attempts /\ (key # NoKey => answers'.first = "busy")
  BY <1>1, <1>2 DEF Asking, NoAnswers
<1>4. outcome = "none"
  BY <1>1
<1>5. CASE a = "ok" /\ (key # NoKey \/ IsLast(page)) /\ Deliver
  <2> DEFINE f == IF key = NoKey THEN found \o PageRows(page) ELSE <<key>>
  <2>1. End("returned", f)
    BY <1>5 DEF Deliver
  <2>2. f \in Seq(Items)
    BY <1>1, PageDelivered DEF Types
  <2>3. outcome' = "returned" /\ found' = f
    BY <2>1 DEF End
  <2>4. LookupAnswered'
    BY <2>3 DEF LookupAnswered
  <2>5. ListingAccurate'
    <3>1. CASE key = NoKey
      BY <1>1, <1>2, <1>5, <2>3, <3>1, ListingEnds
    <3>2. CASE key # NoKey
      BY <1>2, <3>2 DEF ListingAccurate, Listed
    <3> QED
      BY <3>1, <3>2
  <2> HIDE DEF f
  <2> QED
    BY <1>1, <2>1, <2>2, <2>4, <2>5, EndStep
<1>6. CASE a = "ok" /\ key = NoKey /\ ~IsLast(page) /\ Deliver
  <2>1. /\ page' = Min({page + 1, LastPage}) /\ attempt' = 0 /\ found' = found \o PageRows(page)
        /\ UNCHANGED <<pc, outcome>>
    BY <1>6 DEF Deliver
  <2>2. page' = page + 1 /\ page + 1 \in 1 .. LastPage
    <3>1. page \in Nat \ {0} /\ page \in 1 .. LastPage
      BY <1>1, PageAsked DEF Types
    <3>2. Len(rows) \in Nat /\ LastPage \in Nat /\ Len(rows) < LastPage
      BY NoMoreThanItems, SeqFacts DEF Types, LastPage
    <3>3. Len(rows) > page * PageSize
      BY <1>6, LastPageIs DEF Follow
    <3>4. page * PageSize \in Nat /\ page <= page * PageSize
      BY <3>1, Pages
    <3>5. page + 1 <= LastPage
      BY <3>1, <3>2, <3>3, <3>4
    <3> QED
      BY <2>1, <3>1, <3>2, <3>5, MinOfTwo
  <2>3. Types'
    BY <1>1, <1>6, <2>1, <2>2, AnsweredEffect, PageDelivered DEF Types
  <2>4. RowsKnown'
    BY <1>2 DEF RowsKnown
  <2>5. Collecting'
    <3> DEFINE f == found \o PageRows(page)
    <3>1. /\ ToSet(f) \subseteq ToSet(before) \cup Changed(changes, "created")
          /\ Changed(changes, "deleted") = {} =>
               \A i \in 1 .. Len(rows) :
                 i <= Before(page + 1) /\ rows[i] \in ToSet(before) \ Changed(changes, "moved") =>
                   rows[i] \in ToSet(f)
          /\ Changed(changes, "created") = {} /\ Changed(changes, "moved") = {} =>
               /\ IsInjective(f)
               /\ \A i \in 1 .. Len(rows) : i > Before(page + 1) => rows[i] \notin ToSet(f)
      BY <1>1, <1>6, PageDelivered
    <3>2. found' = f /\ page' = page + 1 /\ pc' = "retry"
      BY <1>1, <2>1, <2>2
    <3> HIDE DEF f
    <3>3. Reached(Before(page))'
      BY <1>2, <3>1, <3>2 DEF Reached, Before
    <3>4. Fresh(Before(page))'
      BY <1>2, <3>1, <3>2 DEF Fresh, Before
    <3> QED
      BY <1>2, <3>1, <3>2, <3>3, <3>4 DEF Collecting
  <2>6. Asking'
    BY <1>1, <1>2, <1>6, <2>1, ConnectorsAssumption DEF Asking
  <2>7. outcome' = "none"
    BY <1>4, <2>1
  <2>8. ListingAccurate' /\ LookupAnswered'
    BY <2>7 DEF ListingAccurate, Listed, LookupAnswered
  <2> QED
    BY <2>3, <2>4, <2>5, <2>6, <2>7, <2>8
<1>7. CASE a = "busy" /\ attempt < Attempts - 1 /\ attempt' = attempt + 1
           /\ UNCHANGED <<pc, page, found, outcome>>
  <2>1. Types'
    BY <1>1, <1>7, AnsweredEffect DEF Types
  <2>2. RowsKnown'
    BY <1>2 DEF RowsKnown
  <2>3. Collecting'
    BY <1>2, <1>7 DEF Collecting, Reached, Fresh, Before
  <2>4. Asking'
    BY <1>1, <1>2, <1>3, <1>7, ConnectorsAssumption DEF Asking
  <2>5. ListingAccurate' /\ LookupAnswered'
    BY <1>4, <1>7 DEF ListingAccurate, Listed, LookupAnswered
  <2> QED
    BY <1>4, <1>7, <2>1, <2>2, <2>3, <2>4, <2>5
<1>8. CASE a # "ok" /\ (a = "busy" => attempt >= Attempts - 1) /\ GiveUp
  <2>1. End("raised", <<>>) /\ <<>> \in Seq(Items)
    BY <1>8 DEF GiveUp
  <2>2. outcome' = "raised"
    BY <2>1 DEF End
  <2>3. ListingAccurate'
    BY <2>2 DEF ListingAccurate, Listed
  <2>4. LookupAnswered'
    <3>1. CASE a = "busy"
      <4>1. answers'.busy >= Attempts
        BY <1>2, <1>3, <1>8, <3>1, ConnectorsAssumption
      <4> QED
        BY <2>2, <4>1 DEF LookupAnswered
    <3>2. CASE a = "404"
      <4>1. answers'.last = "404" /\ answers'.first = "busy"
        BY <1>2, <1>3, <3>2 DEF Answers
      <4> QED
        BY <2>2, <4>1 DEF LookupAnswered
    <3>3. CASE a \in {"refused", "broken"}
      BY <1>2, <2>2, <3>3 DEF LookupAnswered
    <3> QED
      BY <1>8, <3>1, <3>2, <3>3 DEF Answers
  <2> QED
    BY <1>1, <2>1, <2>3, <2>4, EndStep
<1> QED
  BY <1>1, <1>5, <1>6, <1>7, <1>8 DEF Deliver

LEMMA StutterStep ==
  ASSUME IInv, UNCHANGED vars
  PROVE  IInv'
<1> USE DEF vars
<1>1. Types'
  BY DEF IInv, Types
<1>2. RowsKnown'
  BY DEF IInv, RowsKnown
<1>3. Collecting'
  BY DEF IInv, Collecting, Reached, Fresh, Before
<1>4. Asking'
  BY DEF IInv, Asking
<1>5. ListingAccurate'
  BY DEF IInv, ListingAccurate, Listed
<1>6. LookupAnswered'
  BY DEF IInv, LookupAnswered
<1> QED
  BY <1>1, <1>2, <1>3, <1>4, <1>5, <1>6 DEF IInv

LEMMA Invariance == Spec => []IInv
<1>1. IInv /\ [Next]_vars => IInv'
  BY CallStep, CreateStep, DeleteStep, MoveStep, FirstStep, GetStep, StutterStep DEF Next
<1> QED
  BY IInit, <1>1, PTL DEF Spec

-----------------------------------------------------------------------------
\* iter_link_pages and the clients' listings: for any number of pages, of retries
\* and of changes meanwhile, a listing that is returned misses no row that was
\* there throughout and did not move, unless one was deleted, has none that was
\* not there, and none twice unless one was created or moved.
THEOREM ListingsAreAccurate == Spec => []ListingAccurate
  BY Invariance, PTL DEF IInv

\* get_issue and get_with_retry: a key is reported missing only because Jira
\* said so to the first request, and a busy vendor is an error only after
\* Attempts busy answers in a row.
THEOREM LookupsAreAnswered == Spec => []LookupAnswered
  BY Invariance, PTL DEF IInv
=============================================================================
