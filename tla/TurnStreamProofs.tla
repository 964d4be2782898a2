-------------------------- MODULE TurnStreamProofs --------------------------
(***************************************************************************)
(* What collect_stream makes of a stream, for turns of any length, calls   *)
(* with any number of fragments and any gateways: arguments stay with      *)
(* their call, what was shown is what is returned, and a stream that was   *)
(* delivered whole gives the model's turn.                                 *)
(***************************************************************************)
EXTENDS TurnStream, FiniteSetTheorems, WellFoundedInduction, TLAPS

\* Induction on the naturals, over a set instead of a predicate.
LEMMA SetInduction ==
    ASSUME NEW S \in SUBSET Nat, 0 \in S, \A n \in S : n + 1 \in S
    PROVE  S = Nat
<1> SUFFICES ASSUME Nat \ S # {} PROVE FALSE
  OBVIOUS
<1> DEFINE T == Nat \ S
<1>1. T \subseteq Nat /\ T # {}
  OBVIOUS
<1> HIDE DEF T
<1>2. PICK x \in T : \A y \in T : <<y, x>> \notin OpToRel(<, Nat)
  BY <1>1, NatLessThanWellFounded, WFMin
<1>3. x \in Nat /\ x \notin S
  BY <1>1 DEF T
<1>4. x - 1 \in Nat
  BY <1>3
<1>5. \A y \in Nat : <<y, x>> \notin OpToRel(<, Nat) => x <= y
  BY <1>3 DEF OpToRel
<1>6. \A y \in T : x <= y
  BY <1>1, <1>2, <1>5
<1>7. x - 1 \notin T
  BY <1>3, <1>4, <1>6
<1>8. QED
  BY <1>3, <1>4, <1>7 DEF T

-----------------------------------------------------------------------------
(* Loops.  The three loops of the collector are recursive functions.       *)

InOrderOne(S, list, k) == IF k - 1 \in S THEN Append(list, k - 1) ELSE list

\* f[n] lists the elements of S below n.
Counts(f, n, S) ==
    f = [k \in 0 .. n |-> IF k = 0 THEN <<>> ELSE InOrderOne(S, f[k - 1], k)]

\* The function that this loop is defined with exists.
LEMMA CountExists ==
    ASSUME NEW S, NEW n \in Nat
    PROVE  \E f : Counts(f, n, S)
<1> DEFINE N == {m \in Nat : \E f : Counts(f, m, S)}
<1>1. 0 \in N
  <2> DEFINE f == [k \in 0 .. 0 |-> <<>>]
  <2>1. f = [k \in 0 .. 0 |-> IF k = 0 THEN <<>> ELSE InOrderOne(S, f[k - 1], k)]
    OBVIOUS
  <2>2. Counts(f, 0, S)
    BY <2>1 DEF Counts
  <2>3. QED BY <2>2
<1>2. ASSUME NEW m \in N PROVE m + 1 \in N
  <2>1. PICK f : Counts(f, m, S)
    OBVIOUS
  <2> DEFINE g == [k \in 0 .. m + 1 |-> IF k <= m THEN f[k] ELSE InOrderOne(S, f[m], k)]
  <2>2. m \in Nat
    OBVIOUS
  <2>3. \A k \in 0 .. m :
           f[k] = IF k = 0 THEN <<>> ELSE InOrderOne(S, f[k - 1], k)
    BY <2>1, <2>2 DEF Counts
  <2>4. ASSUME NEW k \in 0 .. m + 1
        PROVE  g[k] = IF k = 0 THEN <<>> ELSE InOrderOne(S, g[k - 1], k)
    <3>1. CASE k = 0
      BY <2>2, <2>3, <3>1
    <3>2. CASE k \in 1 .. m
      <4>1. g[k] = f[k] /\ g[k - 1] = f[k - 1] /\ k \in 0 .. m /\ k # 0
        BY <2>2, <3>2
      <4> HIDE DEF g
      <4>2. QED BY <2>3, <4>1
    <3>3. CASE k = m + 1
      <4>1. g[k] = InOrderOne(S, f[m], k) /\ g[k - 1] = f[m] /\ k # 0
        BY <2>2, <3>3
      <4> HIDE DEF g
      <4>2. QED BY <4>1
    <3>4. QED BY <2>2, <3>1, <3>2, <3>3
  <2>5. Counts(g, m + 1, S)
    BY <2>4 DEF Counts
  <2>6. QED BY <2>2, <2>5
<1>3. N = Nat
  <2> HIDE DEF N
  <2>1. N \subseteq Nat
    BY DEF N
  <2>2. QED BY <1>1, <1>2, <2>1, SetInduction
<1>4. QED BY <1>3

\* f[n] is what the grafting of the first n fragments that are parked leaves.
Keeps(f, n, tc, entry, parked) ==
    f = [k \in 0 .. n |->
           IF k = 0 THEN [args |-> entry.args, parked |-> <<>>]
           ELSE GraftOne(tc, entry, f[k - 1], parked[k])]

\* The function that this loop is defined with exists.
LEMMA KeptExists ==
    ASSUME NEW tc, NEW entry, NEW parked, NEW n \in Nat
    PROVE  \E f : Keeps(f, n, tc, entry, parked)
<1> DEFINE N == {m \in Nat : \E f : Keeps(f, m, tc, entry, parked)}
<1>1. 0 \in N
  <2> DEFINE f == [k \in 0 .. 0 |-> [args |-> entry.args, parked |-> <<>>]]
  <2>1. f = [k \in 0 .. 0 |->
               IF k = 0 THEN [args |-> entry.args, parked |-> <<>>]
               ELSE GraftOne(tc, entry, f[k - 1], parked[k])]
    OBVIOUS
  <2>2. Keeps(f, 0, tc, entry, parked)
    BY <2>1 DEF Keeps
  <2>3. QED BY <2>2
<1>2. ASSUME NEW m \in N PROVE m + 1 \in N
  <2>1. PICK f : Keeps(f, m, tc, entry, parked)
    OBVIOUS
  <2> DEFINE g == [k \in 0 .. m + 1 |->
                    IF k <= m THEN f[k] ELSE GraftOne(tc, entry, f[m], parked[k])]
  <2>2. m \in Nat
    OBVIOUS
  <2>3. \A k \in 0 .. m :
           f[k] = IF k = 0 THEN [args |-> entry.args, parked |-> <<>>]
                  ELSE GraftOne(tc, entry, f[k - 1], parked[k])
    BY <2>1, <2>2 DEF Keeps
  <2>4. ASSUME NEW k \in 0 .. m + 1
        PROVE  g[k] = IF k = 0 THEN [args |-> entry.args, parked |-> <<>>]
                      ELSE GraftOne(tc, entry, g[k - 1], parked[k])
    <3>1. CASE k = 0
      BY <2>2, <2>3, <3>1
    <3>2. CASE k \in 1 .. m
      <4>1. g[k] = f[k] /\ g[k - 1] = f[k - 1] /\ k \in 0 .. m /\ k # 0
        BY <2>2, <3>2
      <4> HIDE DEF g
      <4>2. QED BY <2>3, <4>1
    <3>3. CASE k = m + 1
      <4>1. g[k] = GraftOne(tc, entry, f[m], parked[k]) /\ g[k - 1] = f[m] /\ k # 0
        BY <2>2, <3>3
      <4> HIDE DEF g
      <4>2. QED BY <4>1
    <3>4. QED BY <2>2, <3>1, <3>2, <3>3
  <2>5. Keeps(g, m + 1, tc, entry, parked)
    BY <2>4 DEF Keeps
  <2>6. QED BY <2>2, <2>5
<1>3. N = Nat
  <2> HIDE DEF N
  <2>1. N \subseteq Nat
    BY DEF N
  <2>2. QED BY <1>1, <1>2, <2>1, SetInduction
<1>4. QED BY <1>3

\* f[n] is the collector after the first n deltas of a chunk.
Takes(f, n, base, calls) ==
    f = [k \in 0 .. n |-> IF k = 0 THEN base ELSE TakeDelta(f[k - 1], calls[k])]

\* The function that this loop is defined with exists.
LEMMA TakenExists ==
    ASSUME NEW base, NEW calls, NEW n \in Nat
    PROVE  \E f : Takes(f, n, base, calls)
<1> DEFINE N == {m \in Nat : \E f : Takes(f, m, base, calls)}
<1>1. 0 \in N
  <2> DEFINE f == [k \in 0 .. 0 |-> base]
  <2>1. f = [k \in 0 .. 0 |-> IF k = 0 THEN base ELSE TakeDelta(f[k - 1], calls[k])]
    OBVIOUS
  <2>2. Takes(f, 0, base, calls)
    BY <2>1 DEF Takes
  <2>3. QED BY <2>2
<1>2. ASSUME NEW m \in N PROVE m + 1 \in N
  <2>1. PICK f : Takes(f, m, base, calls)
    OBVIOUS
  <2> DEFINE g == [k \in 0 .. m + 1 |-> IF k <= m THEN f[k] ELSE TakeDelta(f[m], calls[k])]
  <2>2. m \in Nat
    OBVIOUS
  <2>3. \A k \in 0 .. m :
           f[k] = IF k = 0 THEN base ELSE TakeDelta(f[k - 1], calls[k])
    BY <2>1, <2>2 DEF Takes
  <2>4. ASSUME NEW k \in 0 .. m + 1
        PROVE  g[k] = IF k = 0 THEN base ELSE TakeDelta(g[k - 1], calls[k])
    <3>1. CASE k = 0
      BY <2>2, <2>3, <3>1
    <3>2. CASE k \in 1 .. m
      <4>1. g[k] = f[k] /\ g[k - 1] = f[k - 1] /\ k \in 0 .. m /\ k # 0
        BY <2>2, <3>2
      <4> HIDE DEF g
      <4>2. QED BY <2>3, <4>1
    <3>3. CASE k = m + 1
      <4>1. g[k] = TakeDelta(f[m], calls[k]) /\ g[k - 1] = f[m] /\ k # 0
        BY <2>2, <3>3
      <4> HIDE DEF g
      <4>2. QED BY <4>1
    <3>4. QED BY <2>2, <3>1, <3>2, <3>3
  <2>5. Takes(g, m + 1, base, calls)
    BY <2>4 DEF Takes
  <2>6. QED BY <2>2, <2>5
<1>3. N = Nat
  <2> HIDE DEF N
  <2>1. N \subseteq Nat
    BY DEF N
  <2>2. QED BY <1>1, <1>2, <2>1, SetInduction
<1>4. QED BY <1>3

-----------------------------------------------------------------------------
(* Lists of naturals in order.                                             *)

\* A list over a set is one over every larger set.
LEMMA SeqWithin ==
    ASSUME NEW S, NEW T, S \subseteq T, NEW list \in Seq(S)
    PROVE  list \in Seq(T)
<1>1. Len(list) \in Nat /\ \A i \in 1 .. Len(list) : list[i] \in T
  OBVIOUS
<1>2. list = [i \in 1 .. Len(list) |-> list[i]]
  OBVIOUS
<1>3. [i \in 1 .. Len(list) |-> list[i]] \in Seq(T)
  BY <1>1
<1>4. QED BY <1>2, <1>3

\* A set of naturals has a least element.
LEMMA LeastNatural ==
    ASSUME NEW S \in SUBSET Nat, S # {}
    PROVE  \E x \in S : \A y \in S : x <= y
<1>1. \E x \in S : \A y \in S : <<y, x>> \notin OpToRel(<, Nat)
  BY NatLessThanWellFounded, WFMin
<1>2. \A x, y \in S : <<y, x>> \notin OpToRel(<, Nat) => x <= y
  BY DEF OpToRel
<1>3. QED BY <1>1, <1>2

\* A set of naturals with a bound has a greatest one.
LEMMA GreatestNatural ==
    ASSUME NEW b \in Nat, NEW S \in SUBSET (0 .. b), S # {}
    PROVE  Max(S) \in S /\ \A y \in S : Max(S) >= y
<1> DEFINE Gaps == {g \in Nat : b - g \in S}
<1>1. PICK x \in S : TRUE
  OBVIOUS
<1>2. b - x \in Gaps
  BY <1>1
<1>3. PICK g \in Gaps : \A h \in Gaps : g <= h
  <2> HIDE DEF Gaps
  <2>1. Gaps \in SUBSET Nat
    BY DEF Gaps
  <2>2. QED BY <1>2, <2>1, LeastNatural
<1>4. b - g \in S /\ g \in Nat
  OBVIOUS
<1>5. \A y \in S : b - y \in Gaps
  OBVIOUS
<1>6. \A y \in S : b - g >= y
  BY <1>3, <1>4, <1>5
<1>7. QED BY <1>4, <1>6 DEF Max

Ascending(list) == \A i, j \in 1 .. Len(list) : i < j => list[i] < list[j]

\* The next element of a list is no smaller than that of another one that
\* holds all its elements and begins in the same way.
LEMMA NextNoSmaller ==
    ASSUME NEW a \in Seq(Nat), NEW b \in Seq(Nat), Ascending(a), Ascending(b),
           Range(a) \subseteq Range(b), NEW n \in Nat, n + 1 <= Len(a), n <= Len(b),
           \A i \in 1 .. n : a[i] = b[i]
    PROVE  n + 1 <= Len(b) /\ b[n + 1] <= a[n + 1]
<1>1. /\ Len(a) \in Nat /\ Len(b) \in Nat /\ n + 1 \in 1 .. Len(a)
      /\ DOMAIN a = 1 .. Len(a) /\ DOMAIN b = 1 .. Len(b)
      /\ a[n + 1] \in Nat
  OBVIOUS
<1>2. a[n + 1] \in Range(b)
  BY <1>1 DEF Range
<1>3. PICK m \in 1 .. Len(b) : a[n + 1] = b[m]
  BY <1>1, <1>2 DEF Range
<1>4. m \in Nat /\ m >= 1 /\ m <= Len(b)
  BY <1>1
<1>5. m > n
  <2> SUFFICES ASSUME m <= n PROVE FALSE
    BY <1>4
  <2>1. m \in 1 .. n /\ m \in 1 .. Len(a) /\ m < n + 1
    BY <1>1, <1>4
  <2>2. a[m] = a[n + 1] /\ a[m] \in Nat
    BY <1>3, <2>1
  <2>3. a[m] < a[n + 1]
    BY <1>1, <2>1 DEF Ascending
  <2>4. QED BY <1>1, <2>2, <2>3
<1>6. n + 1 <= m /\ n + 1 \in 1 .. Len(b)
  BY <1>1, <1>4, <1>5
<1>7. b[n + 1] \in Nat
  BY <1>6
<1>8. CASE m = n + 1
  BY <1>1, <1>3, <1>6, <1>8
<1>9. CASE n + 1 < m
  <2>1. b[n + 1] < b[m]
    BY <1>4, <1>6, <1>9 DEF Ascending
  <2>2. QED BY <1>1, <1>3, <1>6, <1>7, <2>1
<1>10. QED BY <1>4, <1>6, <1>8, <1>9

\* Two ascending lists of the same numbers agree as far as the first goes.
LEMMA AscendingAgree ==
    ASSUME NEW a \in Seq(Nat), NEW b \in Seq(Nat), Ascending(a), Ascending(b),
           Range(a) = Range(b)
    PROVE  Len(a) <= Len(b) /\ \A i \in 1 .. Len(a) : a[i] = b[i]
<1> DEFINE Same(n) == n <= Len(b) /\ \A i \in 1 .. n : a[i] = b[i]
           N == {n \in Nat : n <= Len(a) => Same(n)}
<1>1. Len(a) \in Nat /\ Len(b) \in Nat
  OBVIOUS
<1>2. 0 \in N
  BY <1>1
<1>3. ASSUME NEW n \in N PROVE n + 1 \in N
  <2> SUFFICES ASSUME n + 1 <= Len(a) PROVE Same(n + 1)
    OBVIOUS
  <2>0. n \in Nat /\ n <= Len(a)
    BY <1>1
  <2>1. Same(n)
    BY <2>0
  <2>2. n <= Len(b) /\ \A i \in 1 .. n : a[i] = b[i]
    BY <2>1
  <2>3. n + 1 <= Len(b) /\ b[n + 1] <= a[n + 1]
    BY <2>0, <2>2, NextNoSmaller
  <2>4. \A i \in 1 .. n : b[i] = a[i]
    BY <2>2
  <2>5. a[n + 1] <= b[n + 1]
    BY <2>0, <2>3, <2>4, NextNoSmaller
  <2>6. n + 1 \in 1 .. Len(a) /\ n + 1 \in 1 .. Len(b)
    BY <1>1, <2>0, <2>3
  <2>7. a[n + 1] \in Nat /\ b[n + 1] \in Nat
    BY <2>6
  <2>8. a[n + 1] = b[n + 1]
    BY <2>3, <2>5, <2>7
  <2>9. \A i \in 1 .. n + 1 : i \in 1 .. n \/ i = n + 1
    BY <2>0
  <2>10. QED BY <2>2, <2>3, <2>8, <2>9
<1>4. N = Nat
  <2> HIDE DEF N
  <2>1. N \subseteq Nat
    BY DEF N
  <2>2. QED BY <1>2, <1>3, <2>1, SetInduction
<1>5. Len(a) \in N
  BY <1>1, <1>4
<1>6. Same(Len(a))
  BY <1>1, <1>5
<1>7. QED BY <1>6

\* There is one ascending list of a set of numbers.
LEMMA AscendingUnique ==
    ASSUME NEW a \in Seq(Nat), NEW b \in Seq(Nat), Ascending(a), Ascending(b),
           Range(a) = Range(b)
    PROVE  a = b
<1>1. Len(a) <= Len(b) /\ Len(b) <= Len(a) /\ \A i \in 1 .. Len(a) : a[i] = b[i]
  BY AscendingAgree
<1>2. QED BY <1>1

\* A number at the end of an ascending list of smaller ones.
LEMMA AppendAscends ==
    ASSUME NEW S \in SUBSET Nat, NEW list \in Seq(S), Ascending(list),
           NEW k \in Nat, \A x \in Range(list) : x < k
    PROVE  /\ Append(list, k) \in Seq(S \cup {k})
           /\ Ascending(Append(list, k))
           /\ Range(Append(list, k)) = Range(list) \cup {k}
<1> DEFINE u == Append(list, k)
<1>1. /\ u \in Seq(S \cup {k}) /\ Len(list) \in Nat /\ Len(u) = Len(list) + 1
      /\ DOMAIN u = 1 .. Len(list) + 1 /\ DOMAIN list = 1 .. Len(list)
      /\ \A i \in 1 .. Len(list) : u[i] = list[i]
      /\ u[Len(list) + 1] = k
  OBVIOUS
<1> HIDE DEF u
<1>2. Range(u) = Range(list) \cup {k}
  <2>1. \A i \in DOMAIN u : u[i] \in Range(list) \cup {k}
    BY <1>1 DEF Range
  <2>2. \A i \in DOMAIN list : i \in DOMAIN u /\ u[i] = list[i]
    BY <1>1
  <2>3. Len(list) + 1 \in DOMAIN u
    BY <1>1
  <2>4. QED BY <1>1, <2>1, <2>2, <2>3 DEF Range
<1>3. Ascending(u)
  <2>1. \A i \in 1 .. Len(list) : list[i] < k
    BY <1>1 DEF Range
  <2>2. QED BY <1>1, <2>1 DEF Ascending
<1>4. QED BY <1>1, <1>2, <1>3 DEF u

\* InOrder is what its name says.
LEMMA InOrderFacts ==
    ASSUME NEW b \in Nat, NEW S \in SUBSET (0 .. b)
    PROVE  /\ InOrder(S) \in Seq(S) /\ InOrder(S) \in Seq(Nat)
           /\ Range(InOrder(S)) = S
           /\ Ascending(InOrder(S))
<1> DEFINE last == Max(S \cup {0})
           f == CHOOSE f : Counts(f, last + 1, S)
<1>1. last \in Nat /\ \A y \in S : y <= last
  <2>1. S \cup {0} \in SUBSET (0 .. b) /\ S \cup {0} # {}
    OBVIOUS
  <2>2. last \in S \cup {0} /\ \A y \in S \cup {0} : last >= y
    BY <2>1, GreatestNatural
  <2> HIDE DEF last
  <2>3. last \in Nat
    BY <2>1, <2>2
  <2>4. \A y \in S : y \in Nat /\ last >= y
    BY <2>2
  <2>5. QED BY <2>3, <2>4
<1> HIDE DEF last
<1>2. Counts(f, last + 1, S)
  BY <1>1, CountExists
<1>3. InOrder(S) = f[last + 1]
  BY DEF InOrder, Counts, InOrderOne, last
<1> HIDE DEF f
<1>4. \A k \in 0 .. last + 1 : f[k] = IF k = 0 THEN <<>> ELSE InOrderOne(S, f[k - 1], k)
  BY <1>1, <1>2 DEF Counts
<1>a. S \in SUBSET Nat
  OBVIOUS
<1> DEFINE Below(k) == {x \in S : x < k}
           Good(k) == f[k] \in Seq(S) /\ Range(f[k]) = Below(k) /\ Ascending(f[k])
           N == {k \in Nat : k <= last + 1 => Good(k)}
<1>5. 0 \in N
  <2>1. f[0] = <<>>
    BY <1>1, <1>4
  <2>2. Below(0) = {}
    <3>1. \A x \in S : x \in Nat /\ ~(x < 0)
      BY <1>a
    <3>2. QED BY <3>1
  <2>3. Range(<<>>) = {} /\ Ascending(<<>>) /\ <<>> \in Seq(S)
    BY DEF Range, Ascending
  <2>4. Good(0)
    BY <2>1, <2>2, <2>3
  <2>5. QED BY <2>4
<1>6. ASSUME NEW k \in N PROVE k + 1 \in N
  <2> SUFFICES ASSUME k + 1 <= last + 1 PROVE Good(k + 1)
    OBVIOUS
  <2>1. /\ k \in Nat /\ Good(k) /\ k + 1 \in 0 .. last + 1 /\ (k + 1) - 1 = k /\ k + 1 # 0
        /\ S \in SUBSET Nat
    BY <1>1
  <2>2. f[k + 1] = IF k \in S THEN Append(f[k], k) ELSE f[k]
    BY <1>4, <2>1 DEF InOrderOne
  <2>3. CASE k \in S
    <3>1. Below(k + 1) = Below(k) \cup {k}
      <4>1. k \in Nat
        BY <2>1
      <4>2. \A x \in S : x \in Nat /\ (x < k + 1 <=> x < k \/ x = k)
        BY <1>a, <4>1
      <4>3. QED BY <2>3, <4>2
    <3>2. \A x \in Range(f[k]) : x < k
      BY <2>1
    <3>3. S \cup {k} = S
      BY <2>3
    <3> HIDE DEF Below
    <3>4. /\ Append(f[k], k) \in Seq(S)
          /\ Ascending(Append(f[k], k))
          /\ Range(Append(f[k], k)) = Below(k) \cup {k}
      BY <2>1, <3>2, <3>3, AppendAscends
    <3>5. QED BY <2>2, <2>3, <3>1, <3>4
  <2>4. CASE k \notin S
    <3>1. Below(k + 1) = Below(k)
      <4>1. k \in Nat
        BY <2>1
      <4>2. \A x \in S : x < k + 1 <=> x < k
        BY <1>a, <2>4, <4>1
      <4>3. QED BY <4>2
    <3>2. QED BY <2>1, <2>2, <2>4, <3>1
  <2>5. QED BY <2>3, <2>4
<1>7. N = Nat
  <2> HIDE DEF N
  <2>1. N \subseteq Nat
    BY DEF N
  <2>2. QED BY <1>5, <1>6, <2>1, SetInduction
<1>8. Good(last + 1)
  <2>1. last + 1 \in Nat /\ last + 1 <= last + 1
    BY <1>1
  <2>2. last + 1 \in N
    BY <1>7, <2>1
  <2>3. QED BY <2>1, <2>2
<1>9. Below(last + 1) = S
  <2>1. \A y \in S : y \in Nat /\ y < last + 1
    BY <1>1, <1>a
  <2>2. QED BY <2>1
<1>10. \A list \in Seq(S) : list \in Seq(Nat)
  BY <1>a, SeqWithin
<1>11. QED BY <1>3, <1>8, <1>9, <1>10

\* An element above all others comes last.
LEMMA InOrderExtends ==
    ASSUME NEW p \in Nat, NEW S \in SUBSET (0 .. p - 1)
    PROVE  InOrder(S \cup {p}) = Append(InOrder(S), p)
<1>1. S \in SUBSET (0 .. p) /\ S \cup {p} \in SUBSET (0 .. p) /\ S \in SUBSET Nat
  OBVIOUS
<1>2. /\ InOrder(S) \in Seq(S) /\ Range(InOrder(S)) = S /\ Ascending(InOrder(S))
      /\ InOrder(S \cup {p}) \in Seq(Nat) /\ Range(InOrder(S \cup {p})) = S \cup {p}
      /\ Ascending(InOrder(S \cup {p}))
  BY <1>1, InOrderFacts
<1>a. \A x \in S : x < p
  OBVIOUS
<1>3. /\ Append(InOrder(S), p) \in Seq(S \cup {p})
      /\ Range(Append(InOrder(S), p)) = S \cup {p}
      /\ Ascending(Append(InOrder(S), p))
  <2>1. \A x \in Range(InOrder(S)) : x < p
    BY <1>2, <1>a
  <2>2. InOrder(S) \in Seq(S) /\ Ascending(InOrder(S)) /\ S \in SUBSET Nat
    BY <1>1, <1>2
  <2>3. /\ Append(InOrder(S), p) \in Seq(S \cup {p})
        /\ Range(Append(InOrder(S), p)) = Range(InOrder(S)) \cup {p}
        /\ Ascending(Append(InOrder(S), p))
    BY ONLY <2>1, <2>2, p \in Nat, AppendAscends
  <2>4. QED BY <1>2, <2>3
<1>b. S \cup {p} \in SUBSET Nat
  BY <1>1
<1>4. Append(InOrder(S), p) \in Seq(Nat)
  BY <1>b, <1>3, SeqWithin
<1>5. QED BY <1>2, <1>3, <1>4, AscendingUnique

-----------------------------------------------------------------------------
(* Deltas and entries of the calls in T, and what a collector is made of   *)
(* that has been given no others.                                          *)

CallIds == {NoId} \cup {CallId(c) : c \in Tools} \cup {ItemId(c) : c \in Tools}
             \cup {<<"call_", n>> : n \in Nat}
DeltaKinds == {"", "function", "custom_tool", "local_shell", "server"}
Fragments(T) == Seq(T \X (1 .. Pieces))

DeltaOf(T) == [index : Nat, id : CallIds, item : CallIds, kind : DeltaKinds,
               name : T \cup {NoName}, args : Fragments(T)]
EntryOf(T) == [id : CallIds, name : T \cup {NoName}, kind : DeltaKinds, args : Fragments(T)]

Fields == {"acc", "ids", "outs", "parked", "text", "think", "items", "final"}
Bounded(S) == \E b \in Nat : S \subseteq 0 .. b

Sound(c, T) ==
    /\ DOMAIN c = Fields
    /\ Bounded(DOMAIN c.acc)
    /\ \A i \in DOMAIN c.acc : c.acc[i] \in EntryOf(T)
    /\ \A x \in DOMAIN c.ids : c.ids[x] \in Nat
    /\ \A i \in DOMAIN c.outs : c.outs[i] \in Nat
    /\ c.parked \in Seq(DeltaOf(T))

\* What a collector has besides its calls.
SameTexts(c, d) ==
    /\ d.text = c.text /\ d.think = c.think /\ d.items = c.items /\ d.final = c.final

\* A set with a bound keeps one when it is given another number.
LEMMA BoundedAdd ==
    ASSUME NEW S, Bounded(S), NEW k \in Nat
    PROVE  Bounded(S \cup {k})
<1>1. PICK b \in Nat : S \subseteq 0 .. b
  BY DEF Bounded
<1>2. CASE k <= b
  <2>1. S \cup {k} \subseteq 0 .. b
    BY <1>1, <1>2
  <2>2. QED BY <2>1 DEF Bounded
<1>3. CASE k > b
  <2>1. S \cup {k} \subseteq 0 .. k
    BY <1>1, <1>3
  <2>2. QED BY <2>1 DEF Bounded
<1>4. QED BY <1>2, <1>3

\* A buffer takes fragments of its alphabet only.
LEMMA AppendFragmentType ==
    ASSUME NEW A, NEW buf \in Seq(A), NEW more \in Seq(A)
    PROVE  AppendFragment(buf, more) \in Seq(A)
BY DEF AppendFragment

\* g is c after a grafting onto its call idx.
IsGraft(g, A, Z, c, idx) ==
    \E args \in Seq(A), parked \in Seq(Z) :
       g = [c EXCEPT !.acc = With(c.acc, idx, [c.acc[idx] EXCEPT !.args = args]),
                     !.parked = parked]

\* Grafting gives a call what is parked for it, and leaves the rest parked.
LEMMA GraftFacts ==
    ASSUME NEW A, NEW Z, NEW tc, NEW c, NEW idx, DOMAIN c = Fields,
           idx \in DOMAIN c.acc,
           DOMAIN c.acc[idx] = {"id", "name", "kind", "args"},
           c.acc[idx].args \in Seq(A), c.parked \in Seq(Z),
           \A n \in 1 .. Len(c.parked) :
              ParkedFor(tc, c.parked[n]) /\ c.acc[idx].kind # "server" =>
                 c.parked[n].args \in Seq(A)
    PROVE  IsGraft(Graft(tc, idx, c), A, Z, c, idx)
<1> DEFINE entry == c.acc[idx]
           len == Len(c.parked)
           f == CHOOSE f : Keeps(f, len, tc, entry, c.parked)
<1>1. len \in Nat /\ \A n \in 1 .. len : c.parked[n] \in Z
  OBVIOUS
<1>2. Keeps(f, len, tc, entry, c.parked)
  BY <1>1, KeptExists
<1>3. Graft(tc, idx, c) =
        [c EXCEPT !.acc = With(c.acc, idx, [c.acc[idx] EXCEPT !.args = f[len].args]),
                  !.parked = f[len].parked]
  BY DEF Graft, Keeps
<1> HIDE DEF f
<1>4. \A k \in 0 .. len : f[k] = IF k = 0 THEN [args |-> entry.args, parked |-> <<>>]
                                 ELSE GraftOne(tc, entry, f[k - 1], c.parked[k])
  BY <1>1, <1>2 DEF Keeps
<1> DEFINE Good(k) == f[k] \in [args : Seq(A), parked : Seq(Z)]
           N == {k \in Nat : k <= len => Good(k)}
<1>5. 0 \in N
  <2>1. f[0] = [args |-> entry.args, parked |-> <<>>]
    BY <1>1, <1>4
  <2>2. Good(0)
    BY <2>1
  <2>3. QED BY <2>2
<1>6. ASSUME NEW k \in N PROVE k + 1 \in N
  <2> SUFFICES ASSUME k + 1 <= len PROVE Good(k + 1)
    OBVIOUS
  <2>1. /\ k \in Nat /\ Good(k) /\ k + 1 \in 0 .. len /\ k + 1 # 0 /\ (k + 1) - 1 = k
        /\ k + 1 \in 1 .. len
    BY <1>1
  <2>2. f[k + 1] = GraftOne(tc, entry, f[k], c.parked[k + 1])
    BY <1>4, <2>1
  <2>3. c.parked[k + 1] \in Z
    BY <1>1, <2>1
  <2>4. f[k].args \in Seq(A) /\ f[k].parked \in Seq(Z)
    BY <2>1
  <2>5. CASE ParkedFor(tc, c.parked[k + 1]) /\ entry.kind # "server"
    <3>1. c.parked[k + 1].args \in Seq(A)
      BY <2>1, <2>5
    <3>2. AppendFragment(f[k].args, c.parked[k + 1].args) \in Seq(A)
      BY <2>4, <3>1, AppendFragmentType
    <3>3. f[k + 1] = [f[k] EXCEPT !.args = AppendFragment(f[k].args, c.parked[k + 1].args)]
      BY <2>2, <2>5 DEF GraftOne
    <3>4. QED BY <2>1, <3>2, <3>3
  <2>6. CASE ~(ParkedFor(tc, c.parked[k + 1]) /\ entry.kind # "server")
    <3>1. f[k + 1] = [f[k] EXCEPT !.parked = Append(f[k].parked, c.parked[k + 1])]
      BY <2>2, <2>6 DEF GraftOne
    <3>2. Append(f[k].parked, c.parked[k + 1]) \in Seq(Z)
      BY <2>3, <2>4
    <3>3. QED BY <2>1, <3>1, <3>2
  <2>7. QED BY <2>5, <2>6
<1>7. N = Nat
  <2> HIDE DEF N
  <2>1. N \subseteq Nat
    BY DEF N
  <2>2. QED BY <1>5, <1>6, <2>1, SetInduction
<1>8. Good(len)
  BY <1>1, <1>7
<1>9. f[len].args \in Seq(A) /\ f[len].parked \in Seq(Z)
  BY <1>8
<1>10. QED BY <1>3, <1>9 DEF IsGraft

\* A delta is resolved to a number, or it is parked.
LEMMA ResolveType ==
    ASSUME NEW U, NEW c, Sound(c, U), NEW tc \in DeltaOf(U)
    PROVE  Resolve(tc, c) \in Nat \cup {Unresolved}
BY DEF Resolve, Sound, DeltaOf

\* Taking a delta that is resolved nowhere.
LEMMA DeltaParked ==
    ASSUME NEW U, NEW c, Sound(c, U), NEW tc \in DeltaOf(U), Resolve(tc, c) = Unresolved
    PROVE  /\ Sound(TakeDelta(c, tc), U)
           /\ SameTexts(c, TakeDelta(c, tc))
           /\ TakeDelta(c, tc).acc = c.acc
           /\ TakeDelta(c, tc).ids = c.ids
           /\ TakeDelta(c, tc).outs = c.outs
           /\ TakeDelta(c, tc).parked \in {c.parked, Append(c.parked, tc)}
<1>1. TakeDelta(c, tc) = IF tc.args = <<>> THEN c ELSE [c EXCEPT !.parked = Append(c.parked, tc)]
  BY DEF TakeDelta
<1>2. DOMAIN c = Fields /\ c.parked \in Seq(DeltaOf(U))
  BY DEF Sound
<1>3. CASE tc.args = <<>>
  BY <1>1, <1>3 DEF SameTexts
<1>4. CASE tc.args # <<>>
  <2> DEFINE new == [c EXCEPT !.parked = Append(c.parked, tc)]
  <2>1. TakeDelta(c, tc) = new
    BY <1>1, <1>4
  <2>2. /\ DOMAIN new = Fields /\ new.acc = c.acc /\ new.ids = c.ids /\ new.outs = c.outs
        /\ new.text = c.text /\ new.think = c.think /\ new.items = c.items
        /\ new.final = c.final /\ new.parked = Append(c.parked, tc)
    BY <1>2 DEF Fields
  <2>3. Append(c.parked, tc) \in Seq(DeltaOf(U))
    BY <1>2
  <2> HIDE DEF new
  <2>4. Sound(new, U)
    BY <2>2, <2>3 DEF Sound
  <2>5. QED BY <2>1, <2>2, <2>4 DEF SameTexts
<1>5. QED BY <1>3, <1>4

\* The entry a delta leaves is typed by the delta and by the entry before.
LEMMA MergeType ==
    ASSUME NEW C, NEW tc \in DeltaOf(C), NEW old \in EntryOf(C)
    PROVE  Merge(tc, old) \in EntryOf(C)
<1> DEFINE kind == IF tc.kind = "" THEN old.kind ELSE tc.kind
           args == CASE tc.args = <<>> -> old.args
                     [] tc.args # <<>> /\ kind = "server" -> tc.args
                     [] OTHER -> AppendFragment(old.args, tc.args)
<1>1. /\ tc.id \in CallIds /\ tc.kind \in DeltaKinds /\ tc.name \in C \cup {NoName}
      /\ tc.args \in Fragments(C)
      /\ old.id \in CallIds /\ old.kind \in DeltaKinds /\ old.name \in C \cup {NoName}
      /\ old.args \in Fragments(C)
  BY DEF DeltaOf, EntryOf
<1>2. kind \in DeltaKinds
  BY <1>1
<1>3. AppendFragment(old.args, tc.args) \in Fragments(C)
  BY <1>1, AppendFragmentType DEF Fragments
<1>4. Merge(tc, old).args \in Fragments(C)
  BY <1>1, <1>3 DEF Merge
<1>5. Merge(tc, old) = [id |-> IF tc.id = NoId THEN old.id ELSE tc.id,
                        name |-> IF tc.name = NoName THEN old.name ELSE tc.name,
                        kind |-> kind, args |-> Merge(tc, old).args]
  BY DEF Merge
<1> HIDE DEF kind
<1>6. QED BY <1>1, <1>2, <1>4, <1>5 DEF EntryOf

\* What is set aside for a call that is unknown so far.
LEMMA NewEntryType == ASSUME NEW C PROVE NewEntry \in EntryOf(C)
BY DEF NewEntry, EntryOf, CallIds, DeltaKinds, Fragments

\* What is parked for the call of a delta is of C.
ParkedFits(tc, parked, C) ==
    \A n \in 1 .. Len(parked) : ParkedFor(tc, parked[n]) => parked[n].args \in Fragments(C)

\* new is c after a delta that was resolved to the call idx, whose entry was
\* old: the entry is one of the calls in C, what is parked is in Z.
IsTaken(new, c, tc, idx, old, C, Z) ==
    /\ SameTexts(c, new)
    /\ DOMAIN new = Fields
    /\ DOMAIN new.acc = DOMAIN c.acc \cup {idx}
    /\ \A i \in DOMAIN c.acc : i # idx => new.acc[i] = c.acc[i]
    /\ new.acc[idx] \in EntryOf(C)
    /\ new.acc[idx].id = Merge(tc, old).id
    /\ new.acc[idx].name = Merge(tc, old).name
    /\ new.acc[idx].kind = Merge(tc, old).kind
    /\ new.ids = Remember(tc, idx, c).ids
    /\ new.outs = With(c.outs, tc.index, idx)
    /\ new.parked \in Seq(Z)

\* Taking a delta that is resolved to the call idx, whose entry and parked
\* fragments are, like the delta, of calls in C: no entry but that one changes.
LEMMA DeltaTaken ==
    ASSUME NEW U, NEW C \in SUBSET U, NEW c, Sound(c, U), NEW tc \in DeltaOf(C),
           NEW idx \in Nat, idx = Resolve(tc, c),
           NEW old, old = IF idx \in DOMAIN c.acc THEN c.acc[idx] ELSE NewEntry,
           old \in EntryOf(C),
           ParkedFits(tc, c.parked, C),
           NEW Z, c.parked \in Seq(Z)
    PROVE  IsTaken(TakeDelta(c, tc), c, tc, idx, old, C, Z)
<1> DEFINE merged == Merge(tc, old)
           acc == With(c.acc, idx, merged)
           ids == Remember(tc, idx, c).ids
           kept == Remember(tc, idx, [c EXCEPT !.acc = acc])
           new == TakeDelta(c, tc)
<1>1. DOMAIN c = Fields
  BY DEF Sound
<1>2. idx # Unresolved
  BY DEF Unresolved
<1>3. new = Graft(tc, idx, kept)
  BY <1>2 DEF TakeDelta
<1>4. /\ DOMAIN kept = Fields /\ kept.acc = acc /\ kept.ids = ids
      /\ kept.outs = With(c.outs, tc.index, idx) /\ kept.parked = c.parked
      /\ kept.text = c.text /\ kept.think = c.think /\ kept.items = c.items
      /\ kept.final = c.final
  <2> DEFINE byId == IF tc.id = NoId THEN c.ids ELSE With(c.ids, tc.id, idx)
             all == IF tc.item = NoId THEN byId ELSE With(byId, tc.item, idx)
             put == [c EXCEPT !.acc = acc]
  <2>0. /\ DOMAIN put = Fields /\ put.ids = c.ids /\ put.outs = c.outs /\ put.parked = c.parked
        /\ put.acc = acc /\ put.text = c.text /\ put.think = c.think /\ put.items = c.items
        /\ put.final = c.final
    <3> HIDE DEF acc
    <3>1. QED BY <1>1 DEF Fields
  <2> HIDE DEF put
  <2>1. kept = [put EXCEPT !.ids = all, !.outs = With(c.outs, tc.index, idx)]
    BY <2>0 DEF Remember, put
  <2>2. Remember(tc, idx, c) = [c EXCEPT !.ids = all, !.outs = With(c.outs, tc.index, idx)]
    BY DEF Remember
  <2> HIDE DEF all, acc, byId, kept
  <2>3. ids = all
    BY <1>1, <2>2 DEF Fields
  <2>4. QED BY <2>0, <2>1, <2>3 DEF Fields
<1>5. merged \in EntryOf(C)
  BY MergeType
<1>6. /\ DOMAIN acc = DOMAIN c.acc \cup {idx} /\ acc[idx] = merged
      /\ \A i \in DOMAIN c.acc : i # idx => acc[i] = c.acc[i]
  BY DEF With
<1> HIDE DEF kept, acc, ids, merged
<1>7. DOMAIN merged = {"id", "name", "kind", "args"} /\ merged.args \in Fragments(C)
  BY <1>5 DEF EntryOf
<1> DEFINE A == C \X (1 .. Pieces)
<1>8. PICK args \in Seq(A), parked \in Seq(Z) :
         new = [kept EXCEPT !.acc = With(kept.acc, idx, [kept.acc[idx] EXCEPT !.args = args]),
                            !.parked = parked]
  <2>0. DOMAIN kept = Fields
    BY <1>4
  <2>1. kept.acc[idx] = merged /\ idx \in DOMAIN kept.acc
    BY <1>4, <1>6
  <2>2. kept.acc[idx].args \in Seq(A) /\ DOMAIN kept.acc[idx] = {"id", "name", "kind", "args"}
    BY <1>7, <2>1 DEF Fragments
  <2>3. kept.parked \in Seq(Z)
    BY <1>4
  <2>4. \A n \in 1 .. Len(kept.parked) :
           ParkedFor(tc, kept.parked[n]) /\ kept.acc[idx].kind # "server" =>
              kept.parked[n].args \in Seq(A)
    BY <1>4 DEF Fragments, ParkedFits
  <2> HIDE DEF A, new
  <2>5. IsGraft(Graft(tc, idx, kept), A, Z, kept, idx)
    BY ONLY <2>0, <2>1, <2>2, <2>3, <2>4, GraftFacts
  <2>6. QED BY <1>3, <2>5 DEF IsGraft
<1> HIDE DEF new
<1> DEFINE entry == [merged EXCEPT !.args = args]
<1>9. /\ DOMAIN new = Fields /\ new.acc = With(acc, idx, entry) /\ new.ids = ids
      /\ new.outs = With(c.outs, tc.index, idx) /\ new.parked = parked
      /\ new.text = c.text /\ new.think = c.think /\ new.items = c.items
      /\ new.final = c.final
  <2>1. kept.acc[idx] = merged
    BY <1>4, <1>6
  <2>2. new = [kept EXCEPT !.acc = With(acc, idx, entry), !.parked = parked]
    BY <1>4, <1>8, <2>1
  <2> HIDE DEF entry
  <2>3. QED BY <1>4, <2>2 DEF Fields
<1>10. /\ entry \in EntryOf(C) /\ entry.id = merged.id /\ entry.name = merged.name
       /\ entry.kind = merged.kind
  <2>1. args \in Fragments(C)
    BY DEF Fragments
  <2>2. QED BY <1>5, <2>1 DEF EntryOf
<1> HIDE DEF entry
<1>11. /\ DOMAIN new.acc = DOMAIN c.acc \cup {idx} /\ new.acc[idx] = entry
       /\ \A i \in DOMAIN c.acc : i # idx => new.acc[i] = c.acc[i]
  BY <1>6, <1>9 DEF With
<1>12. QED BY <1>9, <1>10, <1>11 DEF SameTexts, IsTaken, new, merged, ids


\* What is known by an id after a delta: the ids it carries lead to its call.
LEMMA RememberIds ==
    ASSUME NEW tc, NEW idx, NEW c, DOMAIN c = Fields
    PROVE  /\ DOMAIN Remember(tc, idx, c).ids = DOMAIN c.ids \cup ({tc.id, tc.item} \ {NoId})
           /\ \A x \in DOMAIN Remember(tc, idx, c).ids :
                 Remember(tc, idx, c).ids[x] = IF x \in {tc.id, tc.item} \ {NoId} THEN idx
                                               ELSE c.ids[x]
<1> DEFINE byId == IF tc.id = NoId THEN c.ids ELSE With(c.ids, tc.id, idx)
           all == IF tc.item = NoId THEN byId ELSE With(byId, tc.item, idx)
<1>1. /\ DOMAIN byId = DOMAIN c.ids \cup ({tc.id} \ {NoId})
      /\ \A x \in DOMAIN byId : byId[x] = IF x \in {tc.id} \ {NoId} THEN idx ELSE c.ids[x]
  BY DEF With
<1>2. /\ DOMAIN all = DOMAIN byId \cup ({tc.item} \ {NoId})
      /\ \A x \in DOMAIN all : all[x] = IF x \in {tc.item} \ {NoId} THEN idx ELSE byId[x]
  <2> HIDE DEF byId
  <2> QED BY DEF With
<1>3. Remember(tc, idx, c) = [c EXCEPT !.ids = all, !.outs = With(c.outs, tc.index, idx)]
  BY DEF Remember
<1> HIDE DEF all
<1>4. Remember(tc, idx, c).ids = all
  BY <1>3 DEF Fields
<1> HIDE DEF byId
<1>5. QED BY <1>1, <1>2, <1>4

\* A delta of some calls that is resolved.
LEMMA TakenAny ==
    ASSUME NEW U, NEW c, Sound(c, U), NEW tc \in DeltaOf(U), Resolve(tc, c) # Unresolved
    PROVE  \E old : IsTaken(TakeDelta(c, tc), c, tc, Resolve(tc, c), old, U, DeltaOf(U))
<1> DEFINE idx == Resolve(tc, c)
           old == IF idx \in DOMAIN c.acc THEN c.acc[idx] ELSE NewEntry
           new == TakeDelta(c, tc)
<1>1. idx \in Nat
  BY ResolveType
<1>2. old \in EntryOf(U)
  BY NewEntryType DEF Sound
<1>3. c.parked \in Seq(DeltaOf(U))
  BY DEF Sound
<1>4. ParkedFits(tc, c.parked, U)
  <2> SUFFICES ASSUME NEW n \in 1 .. Len(c.parked) PROVE c.parked[n].args \in Fragments(U)
    BY DEF ParkedFits
  <2>1. c.parked[n] \in DeltaOf(U)
    BY <1>3
  <2>2. QED BY <2>1 DEF DeltaOf
<1>5. U \in SUBSET U
  OBVIOUS
<1> HIDE DEF old
<1>6. IsTaken(new, c, tc, idx, old, U, DeltaOf(U))
  <2> HIDE DEF idx, new
  <2>1. idx = Resolve(tc, c) /\ new = TakeDelta(c, tc)
    BY DEF idx, new
  <2>2. old = IF idx \in DOMAIN c.acc THEN c.acc[idx] ELSE NewEntry
    BY DEF old
  <2>3. QED BY <1>1, <1>2, <1>3, <1>4, <1>5, <2>1, <2>2, DeltaTaken
<1>7. QED BY <1>6

\* A delta of some calls leaves a collector of those calls.
LEMMA SoundStep ==
    ASSUME NEW U, NEW c, Sound(c, U), NEW tc \in DeltaOf(U)
    PROVE  Sound(TakeDelta(c, tc), U) /\ SameTexts(c, TakeDelta(c, tc))
<1>1. CASE Resolve(tc, c) = Unresolved
  BY <1>1, DeltaParked
<1>2. CASE Resolve(tc, c) # Unresolved
  <2> DEFINE idx == Resolve(tc, c)
             new == TakeDelta(c, tc)
  <2>1. idx \in Nat
    BY <1>2, ResolveType
  <2>6. PICK old : IsTaken(new, c, tc, idx, old, U, DeltaOf(U))
    BY <1>2, TakenAny
  <2> HIDE DEF new, idx
  <2>7. Bounded(DOMAIN new.acc)
    <3>1. Bounded(DOMAIN c.acc)
      BY DEF Sound
    <3>2. QED BY <2>1, <2>6, <3>1, BoundedAdd DEF IsTaken
  <2>8. \A i \in DOMAIN new.acc : new.acc[i] \in EntryOf(U)
    BY <2>6 DEF Sound, IsTaken
  <2>9. \A x \in DOMAIN new.ids : new.ids[x] \in Nat
    BY <2>1, <2>6, RememberIds DEF Sound, IsTaken
  <2>10. \A i \in DOMAIN new.outs : new.outs[i] \in Nat
    BY <2>1, <2>6 DEF Sound, With, IsTaken
  <2>11. Sound(new, U)
    BY <2>6, <2>7, <2>8, <2>9, <2>10 DEF Sound, IsTaken
  <2>12. QED BY <2>6, <2>11 DEF new, IsTaken
<1>3. QED BY <1>1, <1>2

\* What is known by its id besides what was, after the delta tc.
KnownBy(new, c, tc) == DOMAIN new.ids = DOMAIN c.ids \cup ({tc.id, tc.item} \ {NoId})

\* An entry has what the delta tc says of it.
Says(entry, tc) ==
    /\ tc.id # NoId => entry.id = tc.id
    /\ tc.name # NoName => entry.name = tc.name
    /\ tc.kind # "" => entry.kind = tc.kind

\* What a delta that is resolved leaves: its ids and its position lead to its
\* call, and the call has what the delta says of it.
LEMMA ResolvedStep ==
    ASSUME NEW U, NEW c, Sound(c, U), NEW tc \in DeltaOf(U), Resolve(tc, c) # Unresolved
    PROVE  /\ TakeDelta(c, tc).outs = With(c.outs, tc.index, Resolve(tc, c))
           /\ KnownBy(TakeDelta(c, tc), c, tc)
           /\ Resolve(tc, c) \in DOMAIN TakeDelta(c, tc).acc
           /\ Says(TakeDelta(c, tc).acc[Resolve(tc, c)], tc)
<1>1. PICK old : IsTaken(TakeDelta(c, tc), c, tc, Resolve(tc, c), old, U, DeltaOf(U))
  BY TakenAny
<1>2. DOMAIN c = Fields
  BY DEF Sound
<1>3. /\ tc.id # NoId => Merge(tc, old).id = tc.id
      /\ tc.name # NoName => Merge(tc, old).name = tc.name
      /\ tc.kind # "" => Merge(tc, old).kind = tc.kind
  BY DEF Merge
<1>4. DOMAIN Remember(tc, Resolve(tc, c), c).ids = DOMAIN c.ids \cup ({tc.id, tc.item} \ {NoId})
  BY <1>2, RememberIds
<1>5. QED BY <1>1, <1>3, <1>4 DEF IsTaken, KnownBy, Says

-----------------------------------------------------------------------------
(* Turns: where their calls are, by what ids they go, and at which         *)
(* position the collector keeps them.                                      *)

ToolPlaces(t) == {p \in Positions(t) : ToolAt(t, p)}
Kin(t) == {At(t, p) : p \in ToolPlaces(t)}
Place(w, t, p) == IF w = "chat" THEN Ordinal(t, p) ELSE p
IdsOf(t, p) == {CallId(At(t, p)), ItemId(At(t, p)), <<"call_", p>>}

\* What the items of a turn are.
LEMMA TurnFacts ==
    ASSUME NEW t \in Turns
    PROVE  /\ Len(t) \in Nat /\ Kin(t) \subseteq Tools
           /\ \A p \in Positions(t) : /\ p \in Nat /\ p < Len(t) /\ p + 1 \in 1 .. Len(t)
                                      /\ At(t, p) \in Tools \cup {"text", "think"}
           /\ \A p \in ToolPlaces(t) : /\ p \in Positions(t) /\ At(t, p) \in Tools
                                       /\ At(t, p) # NoName /\ At(t, p) \in Kin(t)
           /\ \A p, q \in ToolPlaces(t) : At(t, p) = At(t, q) => p = q
<1>1. /\ t \in Seq(Tools \cup {"text", "think"})
      /\ \A i, j \in 1 .. Len(t) : t[i] \in Tools /\ t[i] = t[j] => i = j
      /\ NoName \notin Tools
  BY StreamAssumption
<1>2. Len(t) \in Nat
  BY <1>1
<1>3. \A p \in Positions(t) : /\ p \in Nat /\ p < Len(t) /\ p + 1 \in 1 .. Len(t)
                              /\ At(t, p) \in Tools \cup {"text", "think"}
  BY <1>1, <1>2 DEF Positions, At
<1>4. \A p \in ToolPlaces(t) : p \in Positions(t) /\ At(t, p) \in Tools /\ At(t, p) # NoName
  BY <1>1 DEF ToolPlaces, ToolAt
<1>5. \A p, q \in ToolPlaces(t) : At(t, p) = At(t, q) => p = q
  <2> SUFFICES ASSUME NEW p \in ToolPlaces(t), NEW q \in ToolPlaces(t), At(t, p) = At(t, q)
               PROVE  p = q
    OBVIOUS
  <2>1. p \in Nat /\ q \in Nat /\ p + 1 \in 1 .. Len(t) /\ q + 1 \in 1 .. Len(t)
    BY <1>3, <1>4
  <2>2. t[p + 1] \in Tools /\ t[p + 1] = t[q + 1]
    BY <1>4 DEF At
  <2>3. p + 1 = q + 1
    BY <1>1, <2>1, <2>2
  <2>4. QED BY <2>1, <2>3
<1>6. QED BY <1>2, <1>3, <1>4, <1>5 DEF Kin

\* No two calls of a turn go by one id.
LEMMA IdsApart ==
    ASSUME NEW t \in Turns, NEW p \in ToolPlaces(t), NEW q \in ToolPlaces(t),
           NEW x \in IdsOf(t, p), x \in IdsOf(t, q)
    PROVE  p = q
<1>1. \A a, b, c, d : <<a, b>> = <<c, d>> => a = c /\ b = d
  OBVIOUS
<1>2. At(t, p) = At(t, q) \/ p = q
  BY <1>1 DEF IdsOf, CallId, ItemId
<1>3. QED BY <1>2, TurnFacts

\* The calls before a position of a turn.
LEMMA OrdinalFacts ==
    ASSUME NEW t \in Turns, NEW p \in Nat
    PROVE  /\ Ordinal(t, p) \in Nat /\ Ordinal(t, p) <= p
           /\ \A q \in Nat : p < q /\ p \in ToolPlaces(t) => Ordinal(t, p) < Ordinal(t, q)
<1> DEFINE Below(q) == {r \in 0 .. q - 1 : ToolAt(t, r)}
<1>1. ASSUME NEW q \in Nat PROVE IsFiniteSet(Below(q)) /\ Cardinality(Below(q)) <= q
  <2>1. IsFiniteSet(0 .. q - 1) /\ Cardinality(0 .. q - 1) = q
    BY FS_Interval
  <2>2. Below(q) \subseteq 0 .. q - 1
    OBVIOUS
  <2> HIDE DEF Below
  <2>3. QED BY <2>1, <2>2, FS_Subset
<1>2. \A q \in Nat : Ordinal(t, q) = Cardinality(Below(q)) /\ Ordinal(t, q) \in Nat
  BY <1>1, FS_CardinalityType DEF Ordinal
<1>3. ASSUME NEW q \in Nat, p < q, p \in ToolPlaces(t) PROVE Ordinal(t, p) < Ordinal(t, q)
  <2>1. p \in Below(q) /\ p \notin Below(p) /\ Below(p) \cup {p} \subseteq Below(q)
    BY <1>3 DEF ToolPlaces
  <2> HIDE DEF Below
  <2>2. Cardinality(Below(p) \cup {p}) = Cardinality(Below(p)) + 1
    BY <1>1, <2>1, FS_AddElement
  <2>3. Cardinality(Below(p) \cup {p}) <= Cardinality(Below(q))
    BY <1>1, <2>1, FS_Subset
  <2>4. QED BY <1>2, <2>2, <2>3
<1>4. QED BY <1>1, <1>2, <1>3

\* No two calls of a turn are kept at one position.
LEMMA PlaceApart ==
    ASSUME NEW t \in Turns, NEW w, NEW p \in ToolPlaces(t), NEW q \in ToolPlaces(t)
    PROVE  Place(w, t, p) \in Nat /\ (Place(w, t, p) = Place(w, t, q) => p = q)
<1>1. p \in Nat /\ q \in Nat
  BY TurnFacts
<1>2. /\ Ordinal(t, p) \in Nat /\ Ordinal(t, q) \in Nat
      /\ p < q => Ordinal(t, p) < Ordinal(t, q)
      /\ q < p => Ordinal(t, q) < Ordinal(t, p)
  BY <1>1, OrdinalFacts
<1>3. QED BY <1>1, <1>2 DEF Place

-----------------------------------------------------------------------------
(* Ownership: every entry, every known id and every parked fragment is of  *)
(* one call of the turn, the entry at the position of that call.           *)

\* The deltas of the call at p.
Own(t, p) == {d \in DeltaOf({At(t, p)}) : {d.id, d.item} \subseteq IdsOf(t, p) \cup {NoId}}
OwnAny(t) == UNION {Own(t, p) : p \in ToolPlaces(t)}

Owned(w, t, c) ==
    /\ \A i \in DOMAIN c.acc : \E p \in ToolPlaces(t) :
          i = Place(w, t, p) /\ c.acc[i] \in EntryOf({At(t, p)})
    /\ \A x \in DOMAIN c.ids : \E p \in ToolPlaces(t) :
          x \in IdsOf(t, p) /\ c.ids[x] = Place(w, t, p)
    /\ c.parked \in Seq(OwnAny(t))

\* What is of some calls is of more of them.
LEMMA DeltaWider ==
    ASSUME NEW C, NEW U, C \subseteq U
    PROVE  DeltaOf(C) \subseteq DeltaOf(U) /\ EntryOf(C) \subseteq EntryOf(U)
<1>1. Fragments(C) \subseteq Fragments(U)
  <2> SUFFICES ASSUME NEW x \in Fragments(C) PROVE x \in Fragments(U)
    OBVIOUS
  <2>1. C \X (1 .. Pieces) \subseteq U \X (1 .. Pieces)
    OBVIOUS
  <2>2. x \in Seq(C \X (1 .. Pieces))
    BY DEF Fragments
  <2>3. QED BY <2>1, <2>2, SeqWithin DEF Fragments
<1>2. QED BY <1>1 DEF DeltaOf, EntryOf

\* Own deltas are deltas of the turn.
LEMMA OwnFacts ==
    ASSUME NEW t \in Turns, NEW p \in ToolPlaces(t), NEW d \in Own(t, p)
    PROVE  /\ d \in DeltaOf({At(t, p)}) /\ d \in DeltaOf(Kin(t)) /\ d \in OwnAny(t)
           /\ \A x \in {d.id, d.item} : x # NoId => x \in IdsOf(t, p)
<1>1. {At(t, p)} \subseteq Kin(t)
  BY DEF Kin
<1>2. DeltaOf({At(t, p)}) \subseteq DeltaOf(Kin(t))
  BY <1>1, DeltaWider
<1>3. d \in DeltaOf({At(t, p)}) /\ {d.id, d.item} \subseteq IdsOf(t, p) \cup {NoId}
  BY DEF Own
<1>4. d \in OwnAny(t)
  BY DEF OwnAny
<1>5. QED BY <1>2, <1>3, <1>4

\* Attributed to its own call or to none, a delta leaves every call its own.
LEMMA OwnedStep ==
    ASSUME NEW t \in Turns, NEW w, NEW c, Sound(c, Kin(t)), Owned(w, t, c),
           NEW p \in ToolPlaces(t), NEW tc \in Own(t, p),
           Resolve(tc, c) \in {Unresolved, Place(w, t, p)}
    PROVE  Owned(w, t, TakeDelta(c, tc))
<1> DEFINE C == {At(t, p)}
           new == TakeDelta(c, tc)
<1>1. /\ tc \in DeltaOf(C) /\ tc \in DeltaOf(Kin(t)) /\ tc \in OwnAny(t)
      /\ \A x \in {tc.id, tc.item} : x # NoId => x \in IdsOf(t, p)
  BY OwnFacts
<1>2. c.parked \in Seq(OwnAny(t))
  BY DEF Owned
<1>3. CASE Resolve(tc, c) = Unresolved
  <2>1. /\ new.acc = c.acc /\ new.ids = c.ids
        /\ new.parked \in {c.parked, Append(c.parked, tc)}
    BY <1>1, <1>3, DeltaParked
  <2>2. new.parked \in Seq(OwnAny(t))
    <3>1. Append(c.parked, tc) \in Seq(OwnAny(t))
      BY <1>1, <1>2
    <3> HIDE DEF new
    <3>2. QED BY <1>2, <2>1, <3>1
  <2>3. QED BY <2>1, <2>2 DEF Owned
<1>4. CASE Resolve(tc, c) # Unresolved
  <2> DEFINE idx == Place(w, t, p)
             old == IF idx \in DOMAIN c.acc THEN c.acc[idx] ELSE NewEntry
  <2>1. idx \in Nat /\ idx = Resolve(tc, c) /\ C \in SUBSET Kin(t)
    BY <1>4, PlaceApart DEF Kin
  <2>2. old \in EntryOf(C)
    <3>1. CASE idx \in DOMAIN c.acc
      <4>1. PICK q \in ToolPlaces(t) : idx = Place(w, t, q) /\ c.acc[idx] \in EntryOf({At(t, q)})
        BY <3>1 DEF Owned
      <4>2. p = q
        BY <4>1, PlaceApart
      <4>3. QED BY <3>1, <4>1, <4>2
    <3>2. CASE idx \notin DOMAIN c.acc
      BY <3>2, NewEntryType
    <3>3. QED BY <3>1, <3>2
  <2>3. ParkedFits(tc, c.parked, C)
    <3> SUFFICES ASSUME NEW n \in 1 .. Len(c.parked), ParkedFor(tc, c.parked[n])
                 PROVE  c.parked[n].args \in Fragments(C)
      BY DEF ParkedFits
    <3>1. PICK q \in ToolPlaces(t) : c.parked[n] \in Own(t, q)
      BY <1>2 DEF OwnAny
    <3> DEFINE d == c.parked[n]
               key == IF d.id # NoId THEN d.id ELSE d.item
    <3>2. /\ d \in DeltaOf({At(t, q)})
          /\ \A x \in {d.id, d.item} : x # NoId => x \in IdsOf(t, q)
      BY <3>1, OwnFacts
    <3>3. key # NoId /\ key \in {tc.id, tc.item}
      BY DEF ParkedFor
    <3>4. key \in IdsOf(t, q) /\ key \in IdsOf(t, p)
      BY <1>1, <3>2, <3>3
    <3> HIDE DEF key
    <3>5. q = p
      BY <3>4, IdsApart
    <3>6. QED BY <3>2, <3>5 DEF DeltaOf
  <2>4. IsTaken(new, c, tc, idx, old, C, OwnAny(t))
    <3> HIDE DEF idx, new, C
    <3>1. new = TakeDelta(c, tc)
      BY DEF new
    <3> HIDE DEF old
    <3>2. old = IF idx \in DOMAIN c.acc THEN c.acc[idx] ELSE NewEntry
      BY DEF old
    <3>3. QED BY <1>1, <1>2, <2>1, <2>2, <2>3, <3>1, <3>2, DeltaTaken
  <2> HIDE DEF new, old
  <2>5. \A i \in DOMAIN new.acc : \E q \in ToolPlaces(t) :
           i = Place(w, t, q) /\ new.acc[i] \in EntryOf({At(t, q)})
    <3> SUFFICES ASSUME NEW i \in DOMAIN new.acc
                 PROVE  \E q \in ToolPlaces(t) :
                           i = Place(w, t, q) /\ new.acc[i] \in EntryOf({At(t, q)})
      OBVIOUS
    <3>1. CASE i = idx
      BY <2>4, <3>1 DEF IsTaken
    <3>2. CASE i # idx
      <4>1. i \in DOMAIN c.acc /\ new.acc[i] = c.acc[i]
        BY <2>4, <3>2 DEF IsTaken
      <4>2. QED BY <4>1 DEF Owned
    <3>3. QED BY <3>1, <3>2
  <2>6. \A x \in DOMAIN new.ids : \E q \in ToolPlaces(t) :
           x \in IdsOf(t, q) /\ new.ids[x] = Place(w, t, q)
    <3> SUFFICES ASSUME NEW x \in DOMAIN new.ids
                 PROVE  \E q \in ToolPlaces(t) :
                           x \in IdsOf(t, q) /\ new.ids[x] = Place(w, t, q)
      OBVIOUS
    <3>1. DOMAIN c = Fields /\ new.ids = Remember(tc, idx, c).ids
      BY <2>4 DEF IsTaken, Sound
    <3> HIDE DEF idx
    <3>2. /\ x \in DOMAIN c.ids \cup ({tc.id, tc.item} \ {NoId})
          /\ new.ids[x] = IF x \in {tc.id, tc.item} \ {NoId} THEN idx ELSE c.ids[x]
      BY <3>1, RememberIds
    <3>3. CASE x \in {tc.id, tc.item} \ {NoId}
      BY <1>1, <3>2, <3>3 DEF idx
    <3>4. CASE x \notin {tc.id, tc.item} \ {NoId}
      BY <3>2, <3>4 DEF Owned
    <3>5. QED BY <3>3, <3>4
  <2>7. new.parked \in Seq(OwnAny(t))
    BY <2>4 DEF IsTaken
  <2>8. Owned(w, t, new)
    BY <2>5, <2>6, <2>7 DEF Owned
  <2>9. QED BY <2>8 DEF new
<1>5. QED BY <1>3, <1>4

\* A delta whose ids are unknown is resolved by its position, one whose ids
\* are known to its own call.
LEMMA OwnResolve ==
    ASSUME NEW t \in Turns, NEW w, NEW c, Owned(w, t, c),
           NEW p \in ToolPlaces(t), NEW tc \in Own(t, p)
    PROVE  \/ Resolve(tc, c) = Place(w, t, p)
           \/ /\ ({tc.id, tc.item} \ {NoId}) \cap DOMAIN c.ids = {}
              /\ Resolve(tc, c) = IF tc.index \in DOMAIN c.outs THEN c.outs[tc.index]
                                  ELSE IF tc.name # NoName THEN tc.index ELSE Unresolved
<1>1. ASSUME NEW x \in {tc.id, tc.item}, x # NoId, x \in DOMAIN c.ids
      PROVE  c.ids[x] = Place(w, t, p)
  <2>1. x \in IdsOf(t, p)
    BY <1>1, OwnFacts
  <2>2. PICK q \in ToolPlaces(t) : x \in IdsOf(t, q) /\ c.ids[x] = Place(w, t, q)
    BY <1>1 DEF Owned
  <2>3. p = q
    BY <2>1, <2>2, IdsApart
  <2>4. QED BY <2>2, <2>3
<1>2. QED BY <1>1 DEF Resolve

-----------------------------------------------------------------------------
(* The adapters: what each event of a turn is decoded to.                  *)

\* Arguments, whole or by the piece, are fragments of their call.
LEMMA ArgsFacts ==
    ASSUME NEW c \in Tools
    PROVE  /\ Args(c) \in Fragments({c}) /\ Len(Args(c)) \in Nat /\ Len(Args(c)) <= Pieces
           /\ <<>> \in Fragments({c})
           /\ \A k \in 1 .. Pieces : Piece(c, k) \in Fragments({c})
<1>1. Pieces \in Nat
  BY PiecesAssumption
<1>2. \A k \in 1 .. Pieces : <<c, k>> \in {c} \X (1 .. Pieces)
  OBVIOUS
<1>3. [k \in 1 .. Pieces |-> <<c, k>>] \in Seq({c} \X (1 .. Pieces))
  BY <1>1, <1>2
<1>4. Len([k \in 1 .. Pieces |-> <<c, k>>]) = Pieces
  BY <1>1
<1>5. QED BY <1>1, <1>2, <1>3, <1>4 DEF Args, Piece, Fragments

\* A delta with the ids of a call, its name or none, and its arguments.
LEMMA OwnDelta ==
    ASSUME NEW t \in Turns, NEW p \in ToolPlaces(t), NEW index \in Nat,
           NEW id \in {NoId} \cup IdsOf(t, p), NEW item \in {NoId} \cup IdsOf(t, p),
           NEW kind \in DeltaKinds, NEW name \in {At(t, p), NoName},
           NEW args \in Fragments({At(t, p)})
    PROVE  Delta(index, id, item, kind, name, args) \in Own(t, p)
<1>1. At(t, p) \in Tools /\ p \in Nat
  BY TurnFacts
<1>2. IdsOf(t, p) \subseteq CallIds
  BY <1>1 DEF IdsOf, CallIds
<1>3. id \in CallIds /\ item \in CallIds
  BY <1>2 DEF CallIds
<1> DEFINE d == Delta(index, id, item, kind, name, args)
<1>4. d \in DeltaOf({At(t, p)})
  BY <1>3 DEF DeltaOf, Delta
<1>5. d.id = id /\ d.item = item
  BY DEF Delta
<1> HIDE DEF d
<1>6. QED BY <1>4, <1>5 DEF Own, d

\* The kinds of calls.
LEMMA KindFacts ==
    ASSUME NEW c \in Tools
    PROVE  /\ KindOf[c] \in {"function", "custom_tool", "local_shell", "server"}
           /\ KindOf[c] \in DeltaKinds
BY ToolsAssumption DEF DeltaKinds

\* The ids that the deltas of an item of the Responses API carry.
ItemIds(t, p) ==
    CASE KindOf[At(t, p)] = "function" -> {CallId(At(t, p)), ItemId(At(t, p))}
      [] KindOf[At(t, p)] = "server" -> {ItemId(At(t, p))}
      [] OTHER -> {CallId(At(t, p))}

\* An item's delta is its own, at its position, with its ids and its name.
LEMMA ItemDeltaFacts ==
    ASSUME NEW t \in Turns, NEW p \in ToolPlaces(t), NEW args \in Fragments({At(t, p)})
    PROVE  /\ ItemDelta(t, p, args) \in Own(t, p)
           /\ ItemDelta(t, p, args).index = p
           /\ ItemDelta(t, p, args).name = At(t, p)
           /\ ItemDelta(t, p, args).kind = KindOf[At(t, p)]
           /\ {ItemDelta(t, p, args).id, ItemDelta(t, p, args).item} \ {NoId} = ItemIds(t, p)
           /\ KindOf[At(t, p)] = "server" => ItemDelta(t, p, args).id = ItemId(At(t, p))
<1> DEFINE c == At(t, p)
<1>1. p \in Nat /\ c \in Tools /\ c # NoName
  BY TurnFacts
<1>2. KindOf[c] \in DeltaKinds /\ {"function", "server"} \subseteq DeltaKinds
  BY <1>1, KindFacts DEF DeltaKinds
<1>3. {NoId, CallId(c), ItemId(c)} \subseteq {NoId} \cup IdsOf(t, p)
  BY DEF IdsOf
<1>4. CallId(c) # NoId /\ ItemId(c) # NoId
  BY DEF CallId, ItemId, NoId
<1>5. CASE KindOf[c] = "function"
  <2>1. ItemDelta(t, p, args) = Delta(p, CallId(c), ItemId(c), "function", c, args)
    BY <1>5 DEF ItemDelta
  <2>2. ItemDelta(t, p, args) \in Own(t, p)
    BY <1>1, <1>2, <1>3, <2>1, OwnDelta
  <2>3. QED BY <1>4, <1>5, <2>1, <2>2 DEF Delta, ItemIds
<1>6. CASE KindOf[c] = "server"
  <2>1. ItemDelta(t, p, args) = Delta(p, ItemId(c), NoId, "server", c, args)
    BY <1>6 DEF ItemDelta
  <2>2. ItemDelta(t, p, args) \in Own(t, p)
    BY <1>1, <1>2, <1>3, <2>1, OwnDelta
  <2>3. QED BY <1>4, <1>6, <2>1, <2>2 DEF Delta, ItemIds
<1>7. CASE KindOf[c] # "function" /\ KindOf[c] # "server"
  <2>1. ItemDelta(t, p, args) = Delta(p, CallId(c), NoId, KindOf[c], c, args)
    BY <1>7 DEF ItemDelta
  <2>2. ItemDelta(t, p, args) \in Own(t, p)
    BY <1>1, <1>2, <1>3, <2>1, OwnDelta
  <2>3. QED BY <1>4, <1>7, <2>1, <2>2 DEF Delta, ItemIds
<1>8. QED BY <1>5, <1>6, <1>7

\* An argument event's delta is its item's own; the position it gives is not
\* after the item's, and is the item's if the gateway keeps positions.
LEMMA ArgsDeltaFacts ==
    ASSUME NEW t \in Turns, NEW p \in ToolPlaces(t), NEW g \in Gateways,
           NEW args \in Fragments({At(t, p)})
    PROVE  /\ ArgsDelta(t, g, p, args) \in Own(t, p)
           /\ ArgsDelta(t, g, p, args).index \in Nat
           /\ ArgsDelta(t, g, p, args).index <= p
           /\ g.index = "true" => ArgsDelta(t, g, p, args).index = p
           /\ KindOf[At(t, p)] = "function" /\ g.ids =>
                 ArgsDelta(t, g, p, args).item = ItemId(At(t, p))
<1> DEFINE c == At(t, p)
           x == ArgsIndex(t, g, p)
<1>1. p \in Nat /\ c \in Tools /\ c # NoName
  BY TurnFacts
<1>2. x \in Nat /\ x <= p /\ (g.index = "true" => x = p)
  BY <1>1, OrdinalFacts DEF ArgsIndex
<1>3. {NoId, ItemId(c)} \subseteq {NoId} \cup IdsOf(t, p)
  BY DEF IdsOf
<1>4. "function" \in DeltaKinds /\ "custom_tool" \in DeltaKinds
  BY DEF DeltaKinds
<1> HIDE DEF x
<1>5. CASE KindOf[c] = "function"
  <2> DEFINE item == IF g.ids THEN ItemId(c) ELSE NoId
  <2>1. ArgsDelta(t, g, p, args) = Delta(x, NoId, item, "function", NoName, args)
    BY <1>5 DEF ArgsDelta, x
  <2>2. item \in {NoId} \cup IdsOf(t, p)
    BY <1>3
  <2> HIDE DEF item
  <2>3. Delta(x, NoId, item, "function", NoName, args) \in Own(t, p)
    BY <1>2, <1>4, <2>2, OwnDelta
  <2>4. QED BY <1>2, <1>5, <2>1, <2>3 DEF Delta, item
<1>6. CASE KindOf[c] # "function"
  <2>1. ArgsDelta(t, g, p, args) = Delta(x, NoId, NoId, "custom_tool", NoName, args)
    BY <1>6 DEF ArgsDelta, x
  <2>2. Delta(x, NoId, NoId, "custom_tool", NoName, args) \in Own(t, p)
    BY <1>2, <1>4, OwnDelta
  <2>3. QED BY <1>2, <1>6, <2>1, <2>2 DEF Delta
<1>7. QED BY <1>5, <1>6

\* What the events of the Responses API are about.
LEMMA ResponsesShape ==
    ASSUME NEW t \in Turns, NEW g, NEW e \in ResponsesEvents(t, g)
    PROVE  \/ /\ e.t \in {"added", "progress", "done", "args", "argsdone"}
              /\ e.p \in ToolPlaces(t)
              /\ e.t = "added" => e = Event("added", e.p, 0)
              /\ e.t = "progress" => KindOf[At(t, e.p)] = "server"
              /\ e.t \in {"args", "argsdone"} =>
                    KindOf[At(t, e.p)] \notin {"server", "local_shell"}
              /\ e.t = "args" => e.k \in 1 .. Len(Args(At(t, e.p)))
           \/ e.t = "text" /\ e.p \in Positions(t) /\ At(t, e.p) = "text"
              /\ e = Event("text", e.p, 0)
           \/ e.t \in {"think", "item"} /\ e.p \in Positions(t) /\ At(t, e.p) = "think"
           \/ e = Event("end", Len(t), 0)
<1>1. CASE e = Event("end", Len(t), 0)
  BY <1>1
<1>2. CASE e # Event("end", Len(t), 0)
  <2> DEFINE c(p) == At(t, p)
  <2>1. PICK p \in Positions(t) :
          \/ c(p) = "text" /\ e = Event("text", p, 0)
          \/ c(p) = "think" /\ e \in {Event("think", p, 0), Event("item", p, 0)}
          \/ /\ c(p) \in Tools /\ KindOf[c(p)] = "server"
             /\ \E a \in {"added", "progress", "done"} : e = Event(a, p, 0)
          \/ /\ c(p) \in Tools /\ KindOf[c(p)] = "local_shell"
             /\ \E a \in {"added", "done"} : e = Event(a, p, 0)
          \/ /\ c(p) \in Tools /\ KindOf[c(p)] \notin {"server", "local_shell"}
             /\ \/ e \in {Event("added", p, 0), Event("argsdone", p, 0), Event("done", p, 0)}
                \/ \E k \in 1 .. Len(Args(c(p))) : e = Event("args", p, k)
    <3>1. PICK p \in Positions(t) : e \in ItemEvents(t, g, p)
      BY <1>2 DEF ResponsesEvents
    <3>2. c(p) \in Tools \cup {"text", "think"}
      BY TurnFacts
    <3>3. "text" \notin Tools /\ "think" \notin Tools
      BY StreamAssumption
    <3>4. CASE c(p) = "text"
      BY <3>1, <3>4 DEF ItemEvents
    <3>5. CASE c(p) = "think"
      BY <3>1, <3>5 DEF ItemEvents
    <3>6. CASE c(p) \in Tools /\ KindOf[c(p)] = "server"
      <4>1. c(p) # "text" /\ c(p) # "think"
        BY <3>3, <3>6
      <4>2. e \in {Event(a, p, 0) : a \in {"added", "progress", "done"}}
        BY <3>1, <3>6, <4>1 DEF ItemEvents
      <4>3. QED BY <3>6, <4>2
    <3>7. CASE c(p) \in Tools /\ KindOf[c(p)] = "local_shell"
      <4>1. c(p) # "text" /\ c(p) # "think" /\ KindOf[c(p)] # "server"
        BY <3>3, <3>7
      <4>2. e \in {Event(a, p, 0) : a \in {"added", "done"}}
        BY <3>1, <3>7, <4>1 DEF ItemEvents
      <4>3. QED BY <3>7, <4>2
    <3>8. CASE c(p) \in Tools /\ KindOf[c(p)] \notin {"server", "local_shell"}
      <4>1. c(p) # "text" /\ c(p) # "think"
        BY <3>3, <3>8
      <4>2. e \in {Event("added", p, 0)}
                 \cup (IF g.deltas THEN {Event("args", p, k) : k \in 1 .. Len(Args(c(p)))} ELSE {})
                 \cup (IF g.done THEN {Event("argsdone", p, 0), Event("done", p, 0)} ELSE {})
        BY <3>1, <3>8, <4>1 DEF ItemEvents
      <4>3. QED BY <3>8, <4>2
    <3>9. QED BY <3>2, <3>4, <3>5, <3>6, <3>7, <3>8
  <2>2. c(p) \in Tools => p \in ToolPlaces(t)
    BY DEF ToolPlaces, ToolAt
  <2>3. QED BY <2>1, <2>2 DEF Event
<1>3. QED BY <1>1, <1>2

\* What the delta of a Responses event tells of its item.
DeltaSays(t, g, e, d) ==
    /\ d.index \in Nat /\ d.index <= e.p /\ (g.index = "true" => d.index = e.p)
    /\ e.t \notin {"args", "argsdone"} =>
          /\ d.index = e.p /\ d.name = At(t, e.p)
          /\ {d.id, d.item} \ {NoId} # {} /\ {d.id, d.item} \ {NoId} \subseteq ItemIds(t, e.p)
    /\ e.t = "added" =>
          /\ {d.id, d.item} \ {NoId} = ItemIds(t, e.p) /\ d.kind = KindOf[At(t, e.p)]
          /\ KindOf[At(t, e.p)] = "server" => d.id = ItemId(At(t, e.p))
    /\ e.t \in {"args", "argsdone"} /\ KindOf[At(t, e.p)] = "function" /\ g.ids =>
          d.item = ItemId(At(t, e.p))

IsDeltaChunk(ch, t, g, e) ==
    \E d \in Own(t, e.p) : ch = Calls(<<d>>) /\ DeltaSays(t, g, e, d)

\* The fields of a chunk of deltas.
LEMMA CallsFacts ==
    ASSUME NEW seq
    PROVE  /\ Calls(seq).calls = seq /\ Calls(seq).text = <<>>
           /\ Calls(seq).items = <<>> /\ Calls(seq).final = <<>>
BY DEF Calls, EmptyChunk

\* Every item has an id.
LEMMA ItemIdsSome ==
    ASSUME NEW t, NEW p
    PROVE  ItemIds(t, p) # {} /\ ItemIds(t, p) \subseteq IdsOf(t, p)
BY DEF ItemIds, IdsOf

\* The delta of an item as announced or as done.
LEMMA DecodeItemFacts ==
    ASSUME NEW t \in Turns, NEW g, NEW e, e.p \in ToolPlaces(t), e.t \in {"added", "done"}
    PROVE  IsDeltaChunk(DecodeItem(t, e), t, g, e)
<1> DEFINE c == At(t, e.p)
           args == IF e.t = "done" \/ KindOf[c] = "local_shell" THEN Args(c) ELSE <<>>
           d == ItemDelta(t, e.p, args)
<1>1. c \in Tools /\ e.p \in Nat
  BY TurnFacts
<1>2. args \in Fragments({c})
  BY <1>1, ArgsFacts
<1>3. DecodeItem(t, e) = Calls(<<d>>)
  BY DEF DecodeItem
<1> HIDE DEF args
<1>4. /\ d \in Own(t, e.p) /\ d.index = e.p /\ d.name = c /\ d.kind = KindOf[c]
      /\ {d.id, d.item} \ {NoId} = ItemIds(t, e.p)
      /\ KindOf[c] = "server" => d.id = ItemId(c)
  BY <1>2, ItemDeltaFacts
<1> HIDE DEF d
<1>5. DeltaSays(t, g, e, d)
  BY <1>1, <1>4, ItemIdsSome DEF DeltaSays
<1>6. QED BY <1>3, <1>4, <1>5 DEF IsDeltaChunk

\* The delta of the progress of a hosted search.
LEMMA DecodeProgressFacts ==
    ASSUME NEW t \in Turns, NEW g, NEW e, e.p \in ToolPlaces(t), e.t = "progress",
           KindOf[At(t, e.p)] = "server"
    PROVE  IsDeltaChunk(DecodeProgress(t, e), t, g, e)
<1> DEFINE c == At(t, e.p)
           d == Delta(e.p, ItemId(c), ItemId(c), "server", c, <<>>)
<1>1. c \in Tools /\ e.p \in Nat
  BY TurnFacts
<1>2. d \in Own(t, e.p)
  <2>1. ItemId(c) \in {NoId} \cup IdsOf(t, e.p) /\ "server" \in DeltaKinds
    BY DEF IdsOf, DeltaKinds
  <2>2. QED BY <1>1, <2>1, ArgsFacts, OwnDelta
<1>3. /\ d.index = e.p /\ d.name = c /\ {d.id, d.item} \ {NoId} = ItemIds(t, e.p)
  BY DEF Delta, ItemIds, ItemId, NoId
<1>4. DecodeProgress(t, e) = Calls(<<d>>)
  BY DEF DecodeProgress
<1> HIDE DEF d
<1>5. DeltaSays(t, g, e, d)
  BY <1>1, <1>3, ItemIdsSome DEF DeltaSays
<1>6. QED BY <1>2, <1>4, <1>5 DEF IsDeltaChunk

\* The delta of an argument event; a custom tool's last one has none.
LEMMA DecodeArgumentsFacts ==
    ASSUME NEW t \in Turns, NEW g \in Gateways, NEW e, e.p \in ToolPlaces(t),
           e.t \in {"args", "argsdone"},
           e.t = "args" => e.k \in 1 .. Len(Args(At(t, e.p)))
    PROVE  \/ IsDeltaChunk(DecodeArguments(t, g, e), t, g, e)
           \/ DecodeArguments(t, g, e) = EmptyChunk
<1> DEFINE c == At(t, e.p)
           args == IF e.t = "args" THEN Piece(c, e.k) ELSE Args(c)
           d == ArgsDelta(t, g, e.p, args)
<1>1. c \in Tools /\ e.p \in Nat
  BY TurnFacts
<1>2. args \in Fragments({c})
  <2>1. Len(Args(c)) \in Nat /\ Len(Args(c)) <= Pieces /\ Pieces \in Nat
    BY <1>1, ArgsFacts, PiecesAssumption
  <2>2. e.t = "args" => e.k \in 1 .. Pieces
    BY <2>1
  <2>3. QED BY <1>1, <2>2, ArgsFacts
<1>3. DecodeArguments(t, g, e) \in {Calls(<<d>>), EmptyChunk}
  BY DEF DecodeArguments
<1> HIDE DEF args
<1>4. /\ d \in Own(t, e.p) /\ d.index \in Nat /\ d.index <= e.p
      /\ g.index = "true" => d.index = e.p
      /\ KindOf[c] = "function" /\ g.ids => d.item = ItemId(c)
  BY <1>2, ArgsDeltaFacts
<1> HIDE DEF d
<1>5. DeltaSays(t, g, e, d)
  BY <1>4 DEF DeltaSays
<1>6. QED BY <1>3, <1>4, <1>5 DEF IsDeltaChunk

\* What a Responses chunk holds.
TextOf(e) == IF e.t = "text" THEN <<e.p>> ELSE <<>>

IsResponsesChunk(ch, t, g, e) ==
    /\ \/ e.p \in ToolPlaces(t) /\ e.t \notin {"text", "end"} /\ IsDeltaChunk(ch, t, g, e)
       \/ ch.calls = <<>> /\ e.t # "added"
    /\ ch.text = TextOf(e)
    /\ ch.final = IF e.t = "end" /\ g.final # "none" THEN OutputItems(t, g) ELSE <<>>

\* Every event of the Responses API gives such a chunk.
LEMMA ResponsesDecoded ==
    ASSUME NEW t \in Turns, NEW g \in Gateways, NEW e \in ResponsesEvents(t, g)
    PROVE  IsResponsesChunk(DecodeResponses(t, g, e), t, g, e)
<1> DEFINE ch == DecodeResponses(t, g, e)
<1>0. EmptyChunk.calls = <<>> /\ EmptyChunk.text = <<>> /\ EmptyChunk.final = <<>>
  BY DEF EmptyChunk
<1>a. IsDeltaChunk(ch, t, g, e) => ch.text = <<>> /\ ch.final = <<>>
  BY CallsFacts DEF IsDeltaChunk
<1>1. CASE e.t \in {"added", "done"} /\ e.p \in ToolPlaces(t)
  <2>1. ch = DecodeItem(t, e)
    BY <1>1 DEF DecodeResponses
  <2>2. IsDeltaChunk(ch, t, g, e)
    BY <1>1, <2>1, DecodeItemFacts
  <2>3. QED BY <1>1, <1>a, <2>2 DEF IsResponsesChunk, TextOf
<1>2. CASE e.t = "progress" /\ e.p \in ToolPlaces(t)
  <2>1. ch = DecodeProgress(t, e)
    BY <1>2 DEF DecodeResponses
  <2>2. KindOf[At(t, e.p)] = "server"
    BY <1>2, ResponsesShape DEF Event
  <2>3. IsDeltaChunk(ch, t, g, e)
    BY <1>2, <2>1, <2>2, DecodeProgressFacts
  <2>4. QED BY <1>2, <1>a, <2>3 DEF IsResponsesChunk, TextOf
<1>3. CASE e.t \in {"args", "argsdone"} /\ e.p \in ToolPlaces(t)
  <2>1. ch = DecodeArguments(t, g, e)
    BY <1>3 DEF DecodeResponses
  <2>2. e.t = "args" => e.k \in 1 .. Len(Args(At(t, e.p)))
    BY <1>3, ResponsesShape DEF Event
  <2>3. IsDeltaChunk(ch, t, g, e) \/ ch = EmptyChunk
    BY <1>3, <2>1, <2>2, DecodeArgumentsFacts
  <2>4. QED BY <1>0, <1>3, <1>a, <2>3 DEF IsResponsesChunk, TextOf
<1>4. CASE e.t = "text"
  <2>1. ch = Texts(e.p)
    BY <1>4 DEF DecodeResponses
  <2>2. ch.calls = <<>> /\ ch.text = <<e.p>> /\ ch.final = <<>>
    BY <2>1 DEF Texts, EmptyChunk
  <2>3. QED BY <1>4, <2>2 DEF IsResponsesChunk, TextOf
<1>5. CASE e.t = "think"
  <2>1. ch = Thinks(e.p)
    BY <1>5 DEF DecodeResponses
  <2>2. ch.calls = <<>> /\ ch.text = <<>> /\ ch.final = <<>>
    BY <2>1 DEF Thinks, EmptyChunk
  <2>3. QED BY <1>5, <2>2 DEF IsResponsesChunk, TextOf
<1>6. CASE e.t = "item"
  <2>1. ch = [EmptyChunk EXCEPT !.items = <<ItemId(At(t, e.p))>>]
    BY <1>6 DEF DecodeResponses, DecodeItem
  <2>2. ch.calls = <<>> /\ ch.text = <<>> /\ ch.final = <<>>
    BY <2>1 DEF EmptyChunk
  <2>3. QED BY <1>6, <2>2 DEF IsResponsesChunk, TextOf
<1>7. CASE e = Event("end", Len(t), 0)
  <2>0. e.t = "end"
    BY <1>7 DEF Event
  <2>1. ch = [EmptyChunk EXCEPT !.final = IF g.final = "none" THEN <<>> ELSE OutputItems(t, g)]
    BY <2>0 DEF DecodeResponses, DecodeTerminal
  <2>2. /\ ch.calls = <<>> /\ ch.text = <<>>
        /\ ch.final = IF g.final = "none" THEN <<>> ELSE OutputItems(t, g)
    BY <2>1 DEF EmptyChunk
  <2>3. QED BY <2>0, <2>2 DEF IsResponsesChunk, TextOf
<1>8. QED BY <1>1, <1>2, <1>3, <1>4, <1>5, <1>6, <1>7, ResponsesShape

\* What a chunk of the other streams and of buffered responses holds: deltas
\* of calls of the turn, each with its position if the wire tells it.
PlacedCalls(ch, w, t) ==
    \A n \in 1 .. Len(ch.calls) : \E p \in ToolPlaces(t) :
       ch.calls[n] \in Own(t, p) /\ ch.calls[n].index = Place(w, t, p)

IsCallsChunk(ch, w, t, placed) ==
    ch.calls \in Seq(OwnAny(t)) /\ (placed => PlacedCalls(ch, w, t))

\* The events of Chat Completions and Messages are about items of the turn.
LEMMA IndexedShape ==
    ASSUME NEW t \in Turns, NEW e \in IndexedEvents(t)
    PROVE  \/ /\ e.t \in {"start", "args"} /\ e.p \in ToolPlaces(t)
              /\ e.t = "args" => e.k \in 1 .. Len(Args(At(t, e.p)))
           \/ e.t \in {"text", "think", "end"}
<1>1. CASE e = Event("end", Len(t), 0)
  BY <1>1 DEF Event
<1>2. CASE e # Event("end", Len(t), 0)
  <2>1. PICK p \in Positions(t) : e \in PartEvents(t, p)
    BY <1>2 DEF IndexedEvents
  <2>2. At(t, p) \in Tools \cup {"text", "think"}
    BY TurnFacts
  <2>3. CASE At(t, p) \in Tools
    <3>1. p \in ToolPlaces(t)
      BY <2>3 DEF ToolPlaces, ToolAt
    <3>2. \/ e = Event("start", p, 0)
          \/ \E k \in 1 .. Len(Args(At(t, p))) : e = Event("args", p, k)
      BY <2>1, <2>3 DEF PartEvents
    <3>3. QED BY <3>1, <3>2 DEF Event
  <2>4. CASE At(t, p) \notin Tools
    <3>1. e = Event(At(t, p), p, 0)
      BY <2>1, <2>4 DEF PartEvents
    <3>2. QED BY <2>2, <2>4, <3>1 DEF Event
  <2>5. QED BY <2>3, <2>4
<1>3. QED BY <1>1, <1>2

\* Chunks of Chat Completions and Messages know a call by its position.
LEMMA IndexedDecoded ==
    ASSUME NEW t \in Turns, NEW w \in {"chat", "messages"}, NEW e \in IndexedEvents(t)
    PROVE  /\ IsCallsChunk(DecodeIndexed(w, t, e), w, t, TRUE)
           /\ DecodeIndexed(w, t, e).final = <<>>
<1> DEFINE ch == DecodeIndexed(w, t, e)
           c == At(t, e.p)
           idx == CallIndex(w, t, e.p)
<1>1. CASE e.t \in {"text", "think", "end"}
  <2>1. ch \in {Texts(e.p), Thinks(e.p), EmptyChunk}
    BY <1>1 DEF DecodeIndexed
  <2>2. ch.calls = <<>> /\ ch.final = <<>>
    BY <2>1 DEF Texts, Thinks, EmptyChunk
  <2>3. QED BY <2>2 DEF IsCallsChunk, PlacedCalls
<1>2. CASE e.t \in {"start", "args"}
  <2>1. /\ e.p \in ToolPlaces(t)
        /\ e.t = "args" => e.k \in 1 .. Len(Args(c))
    BY <1>2, IndexedShape
  <2>2. c \in Tools /\ e.p \in Nat
    BY <2>1, TurnFacts
  <2>3. idx = Place(w, t, e.p) /\ idx \in Nat
    BY <2>1, PlaceApart DEF Place, CallIndex
  <2>4. PICK d \in Own(t, e.p) : ch = Calls(<<d>>) /\ d.index = idx
    <3>1. CASE e.t = "start"
      <4> DEFINE kind == IF w = "messages" THEN "function" ELSE ""
                 d == Delta(idx, CallId(c), NoId, kind, c, <<>>)
      <4>1. ch = Calls(<<d>>)
        BY <3>1 DEF DecodeIndexed
      <4>2. CallId(c) \in IdsOf(t, e.p) /\ kind \in DeltaKinds /\ <<>> \in Fragments({c})
        BY <2>2, ArgsFacts DEF IdsOf, DeltaKinds
      <4> HIDE DEF kind, idx
      <4>3. d \in Own(t, e.p)
        BY <2>1, <2>3, <4>2, OwnDelta
      <4>4. QED BY <4>1, <4>3 DEF Delta
    <3>2. CASE e.t = "args"
      <4> DEFINE d == Delta(idx, NoId, NoId, "", NoName, Piece(c, e.k))
      <4>1. ch = Calls(<<d>>)
        BY <3>2 DEF DecodeIndexed
      <4>2. e.k \in 1 .. Pieces
        <5>1. Len(Args(c)) \in Nat /\ Len(Args(c)) <= Pieces /\ Pieces \in Nat
          BY <2>2, ArgsFacts, PiecesAssumption
        <5>2. QED BY <2>1, <3>2, <5>1
      <4>3. "" \in DeltaKinds /\ Piece(c, e.k) \in Fragments({c})
        BY <2>2, <4>2, ArgsFacts DEF DeltaKinds
      <4> HIDE DEF idx
      <4>4. d \in Own(t, e.p)
        BY <2>1, <2>3, <4>3, OwnDelta
      <4>5. QED BY <4>1, <4>4 DEF Delta
    <3>3. QED BY <1>2, <3>1, <3>2
  <2>5. ch.calls = <<d>> /\ ch.final = <<>>
    BY <2>4, CallsFacts
  <2>6. d \in OwnAny(t)
    BY <2>1, OwnFacts
  <2>7. ch.calls \in Seq(OwnAny(t))
    BY <2>5, <2>6
  <2>8. Len(ch.calls) = 1 /\ ch.calls[1] = d
    BY <2>5
  <2>9. \A n \in 1 .. Len(ch.calls) :
           \E p \in ToolPlaces(t) : ch.calls[n] \in Own(t, p) /\ ch.calls[n].index = Place(w, t, p)
    <3> SUFFICES ASSUME NEW n \in 1 .. Len(ch.calls)
                 PROVE  \E p \in ToolPlaces(t) :
                           ch.calls[n] \in Own(t, p) /\ ch.calls[n].index = Place(w, t, p)
      OBVIOUS
    <3>1. ch.calls[n] = d
      BY <2>8
    <3>2. QED BY <2>1, <2>3, <2>4, <3>1
  <2>10. QED BY <2>5, <2>7, <2>9 DEF IsCallsChunk, PlacedCalls
<1>3. QED BY <1>1, <1>2, IndexedShape

\* The calls among the items of a turn from one position to another.
CallPlaces(t, first, last) == {p \in first .. last : At(t, p) \in Tools}

\* They are listed in their order.
LEMMA CallsInOrder ==
    ASSUME NEW t \in Turns, NEW first \in Nat, NEW last, last < Len(t), last \in Int
    PROVE  /\ CallPlaces(t, first, last) \subseteq ToolPlaces(t)
           /\ InOrder(CallPlaces(t, first, last)) \in Seq(CallPlaces(t, first, last))
<1>1. Len(t) \in Nat
  BY TurnFacts
<1>2. CallPlaces(t, first, last) \subseteq ToolPlaces(t)
  BY <1>1 DEF CallPlaces, ToolPlaces, ToolAt, Positions
<1>3. CallPlaces(t, first, last) \in SUBSET (0 .. Len(t))
  BY <1>1 DEF CallPlaces
<1>4. QED BY <1>1, <1>2, <1>3, InOrderFacts

\* The calls of a Gemini chunk; one that holds the whole turn places them.
LEMMA PartsDecoded ==
    ASSUME NEW t \in Turns, NEW first \in Nat, NEW last \in Int, last < Len(t)
    PROVE  /\ DecodeParts(t, first, last).calls \in Seq(DeltaOf(Kin(t)))
           /\ DecodeParts(t, first, last).final = <<>>
           /\ first = 0 => IsCallsChunk(DecodeParts(t, first, last), "gemini", t, TRUE)
<1> DEFINE in(items) == InOrder({p \in first .. last : At(t, p) \in items})
           calls == in(Tools)
           one(p) == Delta(p - first, <<"call_", p - first>>, NoId, "function", At(t, p),
                           Args(At(t, p)))
           ch == DecodeParts(t, first, last)
<1>1. /\ calls \in Seq(CallPlaces(t, first, last))
      /\ CallPlaces(t, first, last) \subseteq ToolPlaces(t)
  BY CallsInOrder DEF CallPlaces
<1>2. ch = [EmptyChunk EXCEPT !.text = in({"text"}), !.think = in({"think"}),
                              !.calls = [n \in 1 .. Len(calls) |-> one(calls[n])]]
  BY DEF DecodeParts
<1>3. ch.calls = [n \in 1 .. Len(calls) |-> one(calls[n])] /\ ch.final = <<>>
  <2> HIDE DEF in, one, calls
  <2>1. QED BY <1>2 DEF EmptyChunk
<1> HIDE DEF calls
<1>4. ASSUME NEW p \in CallPlaces(t, first, last)
      PROVE  /\ p \in ToolPlaces(t) /\ one(p) \in DeltaOf(Kin(t))
             /\ first = 0 => one(p) \in Own(t, p) /\ one(p).index = p
  <2>1. p \in ToolPlaces(t) /\ p - first \in Nat
    BY <1>1 DEF CallPlaces
  <2>2. At(t, p) \in Tools /\ At(t, p) \in Kin(t) /\ Args(At(t, p)) \in Fragments({At(t, p)})
    BY <2>1, TurnFacts, ArgsFacts
  <2>3. "function" \in DeltaKinds /\ NoId \in CallIds /\ <<"call_", p - first>> \in CallIds
    BY <2>1 DEF DeltaKinds, CallIds
  <2>4. one(p) \in DeltaOf({At(t, p)})
    BY <2>1, <2>2, <2>3 DEF DeltaOf, Delta
  <2>5. {At(t, p)} \subseteq Kin(t)
    BY <2>2
  <2>6. one(p) \in DeltaOf(Kin(t))
    BY <2>4, <2>5, DeltaWider
  <2>7. ASSUME first = 0 PROVE one(p) \in Own(t, p) /\ one(p).index = p
    <3>0. p \in Nat
      BY <2>1, TurnFacts
    <3>1. p - first = p
      BY <2>7, <3>0
    <3>2. <<"call_", p>> \in IdsOf(t, p)
      BY DEF IdsOf
    <3>3. Delta(p, <<"call_", p>>, NoId, "function", At(t, p), Args(At(t, p))) \in Own(t, p)
      BY <2>1, <2>2, <2>3, <3>0, <3>2, OwnDelta
    <3>4. QED BY <3>1, <3>3 DEF Delta
  <2>8. QED BY <2>1, <2>6, <2>7
<1> HIDE DEF one
<1>5. Len(calls) \in Nat /\ \A n \in 1 .. Len(calls) : calls[n] \in CallPlaces(t, first, last)
  BY <1>1
<1>6. ch.calls \in Seq(DeltaOf(Kin(t)))
  BY <1>3, <1>4, <1>5
<1>7. ASSUME first = 0 PROVE IsCallsChunk(ch, "gemini", t, TRUE)
  <2>1. \A n \in 1 .. Len(calls) : one(calls[n]) \in OwnAny(t)
    BY <1>4, <1>5, <1>7, OwnFacts
  <2>2. ch.calls \in Seq(OwnAny(t))
    BY <1>3, <1>5, <2>1
  <2>3. \A n \in 1 .. Len(ch.calls) :
           \E p \in ToolPlaces(t) : /\ ch.calls[n] \in Own(t, p)
                                    /\ ch.calls[n].index = Place("gemini", t, p)
    BY <1>3, <1>4, <1>5, <1>7 DEF Place
  <2>4. QED BY <1>3, <2>2, <2>3 DEF IsCallsChunk, PlacedCalls
<1>8. QED BY <1>3, <1>6, <1>7

\* The calls of a buffered answer; Messages places them.
LEMMA WholeDecoded ==
    ASSUME NEW t \in Turns, NEW w \in {"chat", "messages"}
    PROVE  IsCallsChunk(DecodeWhole(w, t), w, t, w # "chat")
<1> DEFINE where(items) == InOrder({p \in Positions(t) : At(t, p) \in items})
           calls == where(Tools)
           one(p) == Delta(WholeIndex(w, t, p), CallId(At(t, p)), NoId, "function", At(t, p),
                           Args(At(t, p)))
           ch == DecodeWhole(w, t)
<1>1. calls \in Seq(ToolPlaces(t))
  <2>1. Len(t) - 1 \in Int /\ Len(t) - 1 < Len(t) /\ 0 \in Nat
    BY TurnFacts
  <2>2. {p \in Positions(t) : At(t, p) \in Tools} = CallPlaces(t, 0, Len(t) - 1)
    BY DEF Positions, CallPlaces
  <2>3. calls \in Seq(CallPlaces(t, 0, Len(t) - 1))
    BY <2>1, <2>2, CallsInOrder
  <2>4. CallPlaces(t, 0, Len(t) - 1) \subseteq ToolPlaces(t)
    BY <2>1, CallsInOrder
  <2> HIDE DEF calls
  <2>5. QED BY <2>3, <2>4, SeqWithin
<1>2. ch = [EmptyChunk EXCEPT !.text = where({"text"}), !.think = where({"think"}),
                              !.calls = [n \in 1 .. Len(calls) |-> one(calls[n])]]
  BY DEF DecodeWhole
<1>3. ch.calls = [n \in 1 .. Len(calls) |-> one(calls[n])] /\ ch.final = <<>>
  <2> HIDE DEF where, one, calls
  <2>1. QED BY <1>2 DEF EmptyChunk
<1> HIDE DEF calls
<1>4. ASSUME NEW p \in ToolPlaces(t)
      PROVE  one(p) \in Own(t, p) /\ (w # "chat" => one(p).index = Place(w, t, p))
  <2>1. /\ At(t, p) \in Tools /\ p \in Nat /\ Args(At(t, p)) \in Fragments({At(t, p)})
        /\ "function" \in DeltaKinds /\ CallId(At(t, p)) \in IdsOf(t, p)
    BY TurnFacts, ArgsFacts DEF DeltaKinds, IdsOf
  <2>2. WholeIndex(w, t, p) \in Nat /\ (w # "chat" => WholeIndex(w, t, p) = Place(w, t, p))
    BY <2>1 DEF WholeIndex, Place
  <2>3. one(p) \in Own(t, p)
    BY <2>1, <2>2, OwnDelta
  <2>4. QED BY <2>2, <2>3 DEF Delta
<1> HIDE DEF one
<1>5. Len(calls) \in Nat /\ \A n \in 1 .. Len(calls) : calls[n] \in ToolPlaces(t)
  BY <1>1
<1>6. \A n \in 1 .. Len(calls) : one(calls[n]) \in OwnAny(t)
  BY <1>4, <1>5, OwnFacts
<1>7. ch.calls \in Seq(OwnAny(t))
  BY <1>3, <1>5, <1>6
<1>8. QED BY <1>3, <1>4, <1>5, <1>7 DEF IsCallsChunk, PlacedCalls

\* The gateways that let the position of a fragment be trusted.
Placed(w, g) ==
    CASE g.whole -> w # "chat"
      [] ~g.whole /\ w = "gemini" -> FALSE
      [] ~g.whole /\ w = "responses" -> g.index = "true"
      [] OTHER -> TRUE

IsDecoded(ch, w, t, g, e) ==
    /\ ch.calls \in Seq(DeltaOf(Kin(t)))
    /\ Placed(w, g) => PlacedCalls(ch, w, t)
    /\ ~g.whole /\ w = "responses" => e \in ResponsesEvents(t, g) /\ IsResponsesChunk(ch, t, g, e)
    /\ ~g.whole /\ w # "responses" => ch.final = <<>>

\* Own deltas are of the turn.
LEMMA OwnCallsKin ==
    ASSUME NEW t \in Turns, NEW calls \in Seq(OwnAny(t))
    PROVE  calls \in Seq(DeltaOf(Kin(t)))
<1>1. OwnAny(t) \subseteq DeltaOf(Kin(t))
  BY OwnFacts DEF OwnAny
<1>2. QED BY <1>1, SeqWithin

\* Every event of every wire is decoded so.
LEMMA Decoded ==
    ASSUME NEW t \in Turns, NEW g \in Gateways, NEW w \in Wires, NEW e \in Events(w, t, g)
    PROVE  IsDecoded(Decode(w, t, g, e), w, t, g, e)
<1> DEFINE ch == Decode(w, t, g, e)
<1>0. w \in {"responses", "chat", "messages", "gemini"} /\ g.whole \in BOOLEAN
  BY StreamAssumption
<1>n. Len(t) \in Nat
  BY TurnFacts
<1>1. CASE g.whole
  <2>1. e = Event("whole", 0, 0) /\ e.t = "whole"
    BY <1>1 DEF Events, Event
  <2>2. CASE w = "gemini"
    <3>1. ch = DecodeParts(t, 0, Len(t) - 1)
      BY <2>1, <2>2 DEF Decode
    <3>0. 0 \in Nat /\ Len(t) - 1 \in Int /\ Len(t) - 1 < Len(t)
      BY <1>n
    <3>2. ch.calls \in Seq(DeltaOf(Kin(t))) /\ IsCallsChunk(ch, "gemini", t, TRUE)
      BY <3>0, <3>1, PartsDecoded
    <3>3. QED BY <1>1, <2>2, <3>2 DEF IsDecoded, IsCallsChunk
  <2>3. CASE w = "responses"
    <3>1. ch = DecodeTerminal(t, [g EXCEPT !.final = "full"])
      BY <2>1, <2>3 DEF Decode, DecodeResponses, Event
    <3>2. ch.calls = <<>>
      BY <3>1 DEF DecodeTerminal, EmptyChunk
    <3>3. QED BY <1>1, <3>2 DEF IsDecoded, PlacedCalls
  <2>4. CASE w \in {"chat", "messages"}
    <3>1. ch = DecodeWhole(w, t)
      BY <2>1, <2>4 DEF Decode
    <3>2. IsCallsChunk(ch, w, t, w # "chat")
      BY <2>4, <3>1, WholeDecoded
    <3>3. ch.calls \in Seq(DeltaOf(Kin(t)))
      BY <3>2, OwnCallsKin DEF IsCallsChunk
    <3>4. QED BY <1>1, <3>2, <3>3 DEF IsDecoded, IsCallsChunk, Placed
  <2>5. QED BY <1>0, <2>2, <2>3, <2>4
<1>2. CASE ~g.whole /\ w = "gemini"
  <2>1. PICK p \in Positions(t) : e = Event("part", p, 0)
    BY <1>2 DEF Events
  <2>2. e.t = "part" /\ e.p = p
    BY <2>1 DEF Event
  <2>3. p \in Nat /\ p \in Int /\ p < Len(t)
    BY TurnFacts
  <2>4. ch = DecodeParts(t, p, p)
    BY <2>2 DEF Decode
  <2>5. ch.calls \in Seq(DeltaOf(Kin(t))) /\ ch.final = <<>>
    BY <2>3, <2>4, PartsDecoded
  <2>6. ~Placed(w, g)
    BY <1>2 DEF Placed
  <2>7. QED BY <1>2, <2>5, <2>6 DEF IsDecoded
<1>3. CASE ~g.whole /\ w = "responses"
  <2>1. e \in ResponsesEvents(t, g)
    BY <1>3 DEF Events
  <2>2. e.t \notin {"whole", "part"}
    BY <2>1, ResponsesShape DEF Event
  <2>3. ch = DecodeResponses(t, g, e)
    BY <1>3, <2>2 DEF Decode
  <2>4. IsResponsesChunk(ch, t, g, e)
    BY <2>1, <2>3, ResponsesDecoded
  <2>5. CASE ch.calls = <<>>
    <3>1. ch.calls \in Seq(DeltaOf(Kin(t))) /\ \A n \in 1 .. Len(ch.calls) : FALSE
      BY <2>5
    <3>2. PlacedCalls(ch, w, t)
      BY <3>1 DEF PlacedCalls
    <3>3. QED BY <1>3, <2>1, <2>4, <3>1, <3>2 DEF IsDecoded
  <2>6. CASE ch.calls # <<>>
    <3>1. e.p \in ToolPlaces(t) /\ IsDeltaChunk(ch, t, g, e)
      BY <2>4, <2>6 DEF IsResponsesChunk
    <3>2. PICK d \in Own(t, e.p) : ch = Calls(<<d>>) /\ DeltaSays(t, g, e, d)
      BY <3>1 DEF IsDeltaChunk
    <3>3. ch.calls = <<d>> /\ d \in DeltaOf(Kin(t))
      BY <3>1, <3>2, CallsFacts, OwnFacts
    <3>4. ch.calls \in Seq(DeltaOf(Kin(t)))
      BY <3>3
    <3>5. ASSUME Placed(w, g) PROVE PlacedCalls(ch, w, t)
      <4>1. d.index = e.p
        BY <1>3, <3>2, <3>5 DEF Placed, DeltaSays
      <4>2. d.index = Place(w, t, e.p)
        BY <1>3, <4>1 DEF Place
      <4>3. \A n \in 1 .. Len(ch.calls) : ch.calls[n] = d
        BY <3>3
      <4>4. QED BY <3>1, <4>2, <4>3 DEF PlacedCalls
    <3>6. QED BY <1>3, <2>1, <2>4, <3>4, <3>5 DEF IsDecoded
  <2>7. QED BY <2>5, <2>6
<1>4. CASE ~g.whole /\ w \in {"chat", "messages"}
  <2>1. e \in IndexedEvents(t)
    BY <1>4 DEF Events
  <2>2. e.t \notin {"whole", "part"}
    BY <2>1, IndexedShape
  <2>3. ch = DecodeIndexed(w, t, e)
    BY <1>4, <2>2 DEF Decode
  <2>4. IsCallsChunk(ch, w, t, TRUE) /\ ch.final = <<>>
    BY <1>4, <2>1, <2>3, IndexedDecoded
  <2>5. ch.calls \in Seq(DeltaOf(Kin(t)))
    BY <2>4, OwnCallsKin DEF IsCallsChunk
  <2>6. QED BY <1>4, <2>4, <2>5 DEF IsDecoded, IsCallsChunk
<1>5. QED BY <1>0, <1>1, <1>2, <1>3, <1>4

-----------------------------------------------------------------------------
(* A chunk: its texts, then its deltas one after the other.                *)

Base(c, ch) ==
    [c EXCEPT !.text = c.text \o ch.text,
              !.think = c.think \o ch.think,
              !.items = MergeReasoning(c.items, ch.items),
              !.final = IF ch.final = <<>> THEN c.final ELSE ch.final]

IsLoop(f, c, ch) ==
    /\ f[0] = Base(c, ch)
    /\ \A k \in Nat : k < Len(ch.calls) => f[k + 1] = TakeDelta(f[k], ch.calls[k + 1])
    /\ TakeChunk(c, ch) = f[Len(ch.calls)]

\* Taking a chunk is such a loop.
LEMMA ChunkLoops ==
    ASSUME NEW c, NEW ch, NEW U, ch.calls \in Seq(U)
    PROVE  \E f : IsLoop(f, c, ch)
<1> DEFINE base == Base(c, ch)
           len == Len(ch.calls)
           f == CHOOSE f : Takes(f, len, base, ch.calls)
<1>1. len \in Nat
  OBVIOUS
<1>2. Takes(f, len, base, ch.calls)
  <2> HIDE DEF base, len
  <2>1. QED BY <1>1, TakenExists
<1>3. TakeChunk(c, ch) = f[len]
  BY DEF TakeChunk, Takes, Base
<1> HIDE DEF f, base
<1>4. \A k \in 0 .. len : f[k] = IF k = 0 THEN base ELSE TakeDelta(f[k - 1], ch.calls[k])
  BY <1>1, <1>2 DEF Takes
<1>5. f[0] = base
  BY <1>1, <1>4
<1>6. ASSUME NEW k \in Nat, k < len PROVE f[k + 1] = TakeDelta(f[k], ch.calls[k + 1])
  <2>1. k + 1 \in 0 .. len /\ k + 1 # 0 /\ (k + 1) - 1 = k
    BY <1>1, <1>6
  <2>2. QED BY <1>4, <2>1
<1>7. IsLoop(f, c, ch)
  BY <1>3, <1>5, <1>6 DEF IsLoop, base
<1>8. QED BY <1>7

\* The texts of a chunk leave the calls alone.
LEMMA BaseFacts ==
    ASSUME NEW c, NEW ch, NEW U, Sound(c, U)
    PROVE  /\ Sound(Base(c, ch), U)
           /\ Base(c, ch).acc = c.acc /\ Base(c, ch).ids = c.ids /\ Base(c, ch).outs = c.outs
           /\ Base(c, ch).parked = c.parked
           /\ Base(c, ch).text = c.text \o ch.text
           /\ Base(c, ch).think = c.think \o ch.think
           /\ Base(c, ch).items = MergeReasoning(c.items, ch.items)
           /\ Base(c, ch).final = IF ch.final = <<>> THEN c.final ELSE ch.final
<1> DEFINE new == Base(c, ch)
<1>1. DOMAIN c = Fields
  BY DEF Sound
<1>2. /\ DOMAIN new = Fields
      /\ new.acc = c.acc /\ new.ids = c.ids /\ new.outs = c.outs /\ new.parked = c.parked
      /\ new.text = c.text \o ch.text /\ new.think = c.think \o ch.think
      /\ new.items = MergeReasoning(c.items, ch.items)
      /\ new.final = IF ch.final = <<>> THEN c.final ELSE ch.final
  BY <1>1 DEF Base, Fields
<1> HIDE DEF new
<1>3. Sound(new, U)
  BY <1>2 DEF Sound
<1>4. QED BY <1>2, <1>3 DEF new

\* A chunk of deltas of some calls leaves a collector of those calls.
LEMMA ChunkSound ==
    ASSUME NEW c, NEW ch, NEW U, Sound(c, U), ch.calls \in Seq(DeltaOf(U))
    PROVE  /\ Sound(TakeChunk(c, ch), U)
           /\ SameTexts(Base(c, ch), TakeChunk(c, ch))
           /\ TakeChunk(c, ch).text = c.text \o ch.text
           /\ TakeChunk(c, ch).final = IF ch.final = <<>> THEN c.final ELSE ch.final
<1> DEFINE base == Base(c, ch)
           len == Len(ch.calls)
<1>1. PICK f : IsLoop(f, c, ch)
  BY ChunkLoops
<1> DEFINE Good(k) == Sound(f[k], U) /\ SameTexts(base, f[k])
           N == {k \in Nat : k <= len => Good(k)}
<1>2. len \in Nat
  OBVIOUS
<1>3. 0 \in N
  <2>1. f[0] = base
    BY <1>1 DEF IsLoop
  <2>2. Sound(base, U)
    BY BaseFacts
  <2>3. Good(0)
    BY <2>1, <2>2 DEF SameTexts
  <2>4. QED BY <2>3
<1>4. ASSUME NEW k \in N PROVE k + 1 \in N
  <2> SUFFICES ASSUME k + 1 <= len PROVE Good(k + 1)
    OBVIOUS
  <2>1. k \in Nat /\ k < len /\ k + 1 \in 1 .. len /\ Good(k)
    BY <1>2
  <2>2. f[k + 1] = TakeDelta(f[k], ch.calls[k + 1]) /\ ch.calls[k + 1] \in DeltaOf(U)
    BY <1>1, <2>1 DEF IsLoop
  <2>3. Sound(f[k + 1], U) /\ SameTexts(f[k], f[k + 1])
    BY <2>1, <2>2, SoundStep
  <2>4. QED BY <2>1, <2>3 DEF SameTexts
<1>5. N = Nat
  <2> HIDE DEF N
  <2>1. N \subseteq Nat
    BY DEF N
  <2>2. QED BY <1>3, <1>4, <2>1, SetInduction
<1>6. Good(len)
  BY <1>2, <1>5
<1>7. TakeChunk(c, ch) = f[len]
  BY <1>1 DEF IsLoop
<1>8. base.text = c.text \o ch.text /\ base.final = IF ch.final = <<>> THEN c.final ELSE ch.final
  BY BaseFacts
<1>9. SameTexts(base, TakeChunk(c, ch))
  BY <1>6, <1>7
<1> HIDE DEF base
<1>10. QED BY <1>6, <1>7, <1>8, <1>9 DEF SameTexts, base

\* Every position is known as itself.
TrueOuts(c) == \A i \in DOMAIN c.outs : c.outs[i] = i

\* A delta with its true position goes to its call.
LEMMA PlacedStep ==
    ASSUME NEW t \in Turns, NEW w, NEW c, Sound(c, Kin(t)), Owned(w, t, c), TrueOuts(c),
           NEW p \in ToolPlaces(t), NEW tc \in Own(t, p), tc.index = Place(w, t, p)
    PROVE  Owned(w, t, TakeDelta(c, tc)) /\ TrueOuts(TakeDelta(c, tc))
<1>1. Resolve(tc, c) \in {Unresolved, Place(w, t, p)}
  <2>1. tc.index \in DOMAIN c.outs => c.outs[tc.index] = tc.index
    BY DEF TrueOuts
  <2>2. QED BY <2>1, OwnResolve
<1>2. tc \in DeltaOf(Kin(t))
  BY OwnFacts
<1>3. TakeDelta(c, tc).outs \in {c.outs, With(c.outs, tc.index, tc.index)}
  <2>1. CASE Resolve(tc, c) = Unresolved
    BY <1>2, <2>1, DeltaParked
  <2>2. CASE Resolve(tc, c) # Unresolved
    <3>1. Resolve(tc, c) = tc.index
      BY <1>1, <2>2
    <3>2. TakeDelta(c, tc).outs = With(c.outs, tc.index, Resolve(tc, c))
      BY <1>2, <2>2, ResolvedStep
    <3>3. QED BY <3>1, <3>2
  <2>3. QED BY <2>1, <2>2
<1>4. TrueOuts(TakeDelta(c, tc))
  BY <1>3 DEF TrueOuts, With
<1>5. QED BY <1>1, <1>4, OwnedStep

\* A chunk of deltas with their true positions goes to its calls.
LEMMA ChunkPlaced ==
    ASSUME NEW t \in Turns, NEW w, NEW c, Sound(c, Kin(t)), Owned(w, t, c), TrueOuts(c),
           NEW ch, ch.calls \in Seq(DeltaOf(Kin(t))), PlacedCalls(ch, w, t)
    PROVE  Owned(w, t, TakeChunk(c, ch)) /\ TrueOuts(TakeChunk(c, ch))
<1> DEFINE base == Base(c, ch)
           len == Len(ch.calls)
<1>1. PICK f : IsLoop(f, c, ch)
  BY ChunkLoops
<1> DEFINE Good(k) == Sound(f[k], Kin(t)) /\ Owned(w, t, f[k]) /\ TrueOuts(f[k])
           N == {k \in Nat : k <= len => Good(k)}
<1>2. len \in Nat
  OBVIOUS
<1>3. 0 \in N
  <2>1. f[0] = base
    BY <1>1 DEF IsLoop
  <2>2. /\ Sound(base, Kin(t)) /\ base.acc = c.acc /\ base.ids = c.ids /\ base.outs = c.outs
        /\ base.parked = c.parked
    BY BaseFacts
  <2> HIDE DEF base
  <2>3. Good(0)
    BY <2>1, <2>2 DEF Owned, TrueOuts
  <2>4. QED BY <2>3
<1>4. ASSUME NEW k \in N PROVE k + 1 \in N
  <2> SUFFICES ASSUME k + 1 <= len PROVE Good(k + 1)
    OBVIOUS
  <2>1. k \in Nat /\ k < len /\ k + 1 \in 1 .. len /\ Good(k)
    BY <1>2
  <2>2. f[k + 1] = TakeDelta(f[k], ch.calls[k + 1]) /\ ch.calls[k + 1] \in DeltaOf(Kin(t))
    BY <1>1, <2>1 DEF IsLoop
  <2>3. PICK p \in ToolPlaces(t) :
          ch.calls[k + 1] \in Own(t, p) /\ ch.calls[k + 1].index = Place(w, t, p)
    BY <2>1 DEF PlacedCalls
  <2>4. Owned(w, t, f[k + 1]) /\ TrueOuts(f[k + 1])
    BY <2>1, <2>2, <2>3, PlacedStep
  <2>5. Sound(f[k + 1], Kin(t))
    BY <2>1, <2>2, SoundStep
  <2>6. QED BY <2>4, <2>5
<1>5. N = Nat
  <2> HIDE DEF N
  <2>1. N \subseteq Nat
    BY DEF N
  <2>2. QED BY <1>3, <1>4, <2>1, SetInduction
<1>6. Good(len)
  BY <1>2, <1>5
<1>7. QED BY <1>1, <1>6 DEF IsLoop

-----------------------------------------------------------------------------
(* Delivery: what has been sent is closed under the order of the events.   *)

IsClosed(w, t, g, s) ==
    /\ s \subseteq Events(w, t, g)
    /\ \A f \in s : \A h \in Events(w, t, g) : Before(w, g, h, f) => h \in s

IsReady(w, t, g, s, e) ==
    /\ e \in Events(w, t, g) \ s
    /\ \A f \in Events(w, t, g) \ s : ~Before(w, g, f, e)

\* It stays so when an event is sent that is ready.
LEMMA ClosedStep ==
    ASSUME NEW w, NEW t, NEW g, NEW s, IsClosed(w, t, g, s), NEW e, IsReady(w, t, g, s, e)
    PROVE  IsClosed(w, t, g, s \cup {e})
BY DEF IsClosed, IsReady

Added(p) == Event("added", p, 0)
Text(p) == Event("text", p, 0)

\* Each call is announced, each text is sent.
LEMMA ResponsesSends ==
    ASSUME NEW t \in Turns, NEW g
    PROVE  /\ \A p \in ToolPlaces(t) : Added(p) \in ResponsesEvents(t, g)
           /\ \A p \in Positions(t) : At(t, p) = "text" => Text(p) \in ResponsesEvents(t, g)
<1>1. ASSUME NEW p \in ToolPlaces(t) PROVE Added(p) \in ResponsesEvents(t, g)
  <2> DEFINE c == At(t, p)
  <2>1. p \in Positions(t) /\ c \in Tools
    BY TurnFacts
  <2>2. c # "text" /\ c # "think"
    BY <2>1, StreamAssumption
  <2>3. Added(p) \in ItemEvents(t, g, p)
    <3>1. CASE KindOf[c] = "server"
      <4>1. ItemEvents(t, g, p) = {Event(a, p, 0) : a \in {"added", "progress", "done"}}
        BY <2>1, <2>2, <3>1 DEF ItemEvents
      <4>2. QED BY <4>1 DEF Added
    <3>2. CASE KindOf[c] = "local_shell"
      <4>1. ItemEvents(t, g, p) = {Event(a, p, 0) : a \in {"added", "done"}}
        BY <2>1, <2>2, <3>2 DEF ItemEvents
      <4>2. QED BY <4>1 DEF Added
    <3>3. CASE KindOf[c] \notin {"server", "local_shell"}
      <4>1. {Event("added", p, 0)} \subseteq ItemEvents(t, g, p)
        BY <2>1, <2>2, <3>3 DEF ItemEvents
      <4>2. QED BY <4>1 DEF Added
    <3>4. QED BY <3>1, <3>2, <3>3
  <2>4. QED BY <2>1, <2>3 DEF ResponsesEvents
<1>2. ASSUME NEW p \in Positions(t), At(t, p) = "text" PROVE Text(p) \in ResponsesEvents(t, g)
  <2>1. Text(p) \in ItemEvents(t, g, p)
    <3>1. ItemEvents(t, g, p) = {Event("text", p, 0)}
      <4>1. "text" \notin Tools
        BY StreamAssumption
      <4>2. QED BY <1>2, <4>1 DEF ItemEvents
    <3>2. QED BY <3>1 DEF Text
  <2>2. QED BY <2>1 DEF ResponsesEvents
<1>3. QED BY <1>1, <1>2

\* A call is announced before anything else is said of it, unless the gateway
\* lets arguments overtake; calls and texts come in the order of the turn.
LEMMA DeliveryOrder ==
    ASSUME NEW t \in Turns, NEW g \in Gateways, NEW s, IsClosed("responses", t, g, s), ~g.whole,
           NEW e, IsReady("responses", t, g, s, e)
    PROVE  /\ e \in ResponsesEvents(t, g) /\ e \notin s
           /\ e.t \in {"progress", "done", "args", "argsdone"} /\ e.p \in ToolPlaces(t) /\ ~g.early
                 => Added(e.p) \in s
           /\ e.t = "added" => \A q \in ToolPlaces(t) : Added(q) \in s => q <= e.p
           /\ e.t = "text" => \A q \in Positions(t) : Text(q) \in s => q < e.p
<1>1. Events("responses", t, g) = ResponsesEvents(t, g)
  BY DEF Events
<1>2. e \in ResponsesEvents(t, g) /\ e \notin s
  BY <1>1 DEF IsReady
<1>3. ASSUME e.t \in {"progress", "done", "args", "argsdone"}, e.p \in ToolPlaces(t), ~g.early
      PROVE  Added(e.p) \in s
  <2>1. Added(e.p) \in ResponsesEvents(t, g)
    BY <1>3, ResponsesSends
  <2>2. Rank(Added(e.p)) = 0 /\ Rank(e) \in {1, 2, 3} /\ Added(e.p).p = e.p
    BY <1>3 DEF Rank, Added, Event
  <2>3. Before("responses", g, Added(e.p), e)
    BY <1>3, <2>2 DEF Before
  <2>4. QED BY <1>1, <2>1, <2>3 DEF IsReady
<1>4. ASSUME e.t = "added", NEW q \in ToolPlaces(t), Added(q) \in s, ~(q <= e.p)
      PROVE  FALSE
  <2>1. q \in Nat /\ e.p \in Nat
    <3>1. e.p \in ToolPlaces(t)
      BY <1>2, <1>4, ResponsesShape DEF Event
    <3>2. QED BY <3>1, TurnFacts
  <2>2. Added(q).t = "added" /\ Added(q).p = q
    BY DEF Added, Event
  <2>3. Before("responses", g, e, Added(q))
    BY <1>4, <2>1, <2>2 DEF Before
  <2>4. QED BY <1>1, <1>2, <1>4, <2>3 DEF IsClosed
<1>5. ASSUME e.t = "text", NEW q \in Positions(t), Text(q) \in s, ~(q < e.p)
      PROVE  FALSE
  <2>1. q \in Nat /\ e.p \in Nat /\ e = Text(e.p)
    <3>1. e.p \in Positions(t) /\ e = Text(e.p)
      BY <1>2, <1>5, ResponsesShape DEF Event, Text
    <3>2. QED BY <3>1, TurnFacts
  <2>2. Text(q).t = "text" /\ Text(q).p = q
    BY DEF Text, Event
  <2>3. q # e.p
    BY <1>2, <1>5, <2>1
  <2>4. Before("responses", g, e, Text(q))
    BY <1>5, <2>1, <2>2, <2>3 DEF Before
  <2>5. QED BY <1>1, <1>2, <1>5, <2>4 DEF IsClosed
<1>6. QED BY <1>2, <1>3, <1>4, <1>5

-----------------------------------------------------------------------------
(* Attribution by id: a gateway that renumbers its events, but keeps their *)
(* ids, and sends nothing of an item before it announced it.               *)

ById(w, g, t) ==
    /\ ~g.whole /\ w = "responses" /\ g.ids /\ ~g.early
    /\ \A p \in ToolPlaces(t) : KindOf[At(t, p)] # "custom_tool"

\* Who was announced is known by his ids; only the positions up to those of
\* who was announced are taken.
Announced(t, s, c) ==
    /\ \A p \in ToolPlaces(t) : Added(p) \in s => ItemIds(t, p) \subseteq DOMAIN c.ids
    /\ \A i \in DOMAIN c.outs : \E p \in ToolPlaces(t) : Added(p) \in s /\ i <= p

\* Such a delta goes to its call.
LEMMA ByIdResolve ==
    ASSUME NEW t \in Turns, NEW g \in Gateways, ById("responses", g, t),
           NEW s, IsClosed("responses", t, g, s), NEW e, IsReady("responses", t, g, s, e),
           e.p \in ToolPlaces(t), e.t \notin {"text", "end"},
           NEW c, Owned("responses", t, c), Announced(t, s, c),
           NEW d \in Own(t, e.p), DeltaSays(t, g, e, d)
    PROVE  Resolve(d, c) = Place("responses", t, e.p)
<1> DEFINE p == e.p
           w == "responses"
<1>1. /\ e \in ResponsesEvents(t, g) /\ e \notin s
      /\ e.t \in {"progress", "done", "args", "argsdone"} => Added(p) \in s
      /\ e.t = "added" => \A q \in ToolPlaces(t) : Added(q) \in s => q <= p
  BY DeliveryOrder DEF ById
<1>2. /\ e.t \in {"added", "progress", "done", "args", "argsdone"}
      /\ e.t = "added" => e = Added(p)
      /\ e.t \in {"args", "argsdone"} => KindOf[At(t, p)] \notin {"server", "local_shell"}
  <2>1. At(t, p) \in Tools
    BY TurnFacts
  <2>2. At(t, p) # "text" /\ At(t, p) # "think"
    BY <2>1, StreamAssumption
  <2>3. QED BY <1>1, <2>2, ResponsesShape DEF Added, Event
<1>3. \/ Resolve(d, c) = Place(w, t, p)
      \/ /\ ({d.id, d.item} \ {NoId}) \cap DOMAIN c.ids = {}
         /\ Resolve(d, c) = IF d.index \in DOMAIN c.outs THEN c.outs[d.index]
                            ELSE IF d.name # NoName THEN d.index ELSE Unresolved
  BY OwnResolve
<1>4. CASE e.t = "added"
  <2>1. d.index = p /\ d.name # NoName
    BY <1>4, TurnFacts DEF DeltaSays
  <2>2. p \notin DOMAIN c.outs
    <3> SUFFICES ASSUME p \in DOMAIN c.outs PROVE FALSE
      OBVIOUS
    <3>1. PICK q \in ToolPlaces(t) : Added(q) \in s /\ p <= q
      BY DEF Announced
    <3>2. p \in Nat /\ q \in Nat
      BY TurnFacts
    <3>3. q <= p
      BY <1>1, <1>4, <3>1
    <3>4. q = p
      BY <3>1, <3>2, <3>3
    <3>5. QED BY <1>1, <1>2, <1>4, <3>1, <3>4
  <2>3. Place(w, t, p) = p
    BY DEF Place
  <2>4. QED BY <1>3, <2>1, <2>2, <2>3
<1>5. CASE e.t # "added"
  <2>1. ItemIds(t, p) \subseteq DOMAIN c.ids
    BY <1>1, <1>2, <1>5 DEF Announced
  <2>2. ({d.id, d.item} \ {NoId}) \cap ItemIds(t, p) # {}
    <3>1. CASE e.t \in {"args", "argsdone"}
      <4>1. KindOf[At(t, p)] = "function"
        <5>1. At(t, p) \in Tools
          BY TurnFacts
        <5>2. KindOf[At(t, p)] # "custom_tool"
          BY DEF ById
        <5>3. QED BY <1>2, <3>1, <5>1, <5>2, KindFacts
      <4>2. d.item = ItemId(At(t, p))
        BY <3>1, <4>1 DEF DeltaSays, ById
      <4>3. ItemId(At(t, p)) \in ItemIds(t, p) /\ ItemId(At(t, p)) # NoId
        BY <4>1 DEF ItemIds, ItemId, NoId
      <4>4. QED BY <4>2, <4>3
    <3>2. CASE e.t \notin {"args", "argsdone"}
      BY <3>2 DEF DeltaSays
    <3>3. QED BY <3>1, <3>2
  <2>3. QED BY <1>3, <2>1, <2>2
<1>6. QED BY <1>4, <1>5

\* After such a delta, too, who was announced is known by his ids.
LEMMA AnnouncedStep ==
    ASSUME NEW t \in Turns, NEW g \in Gateways, ById("responses", g, t),
           NEW s, IsClosed("responses", t, g, s), NEW e, IsReady("responses", t, g, s, e),
           e.p \in ToolPlaces(t), e.t \notin {"text", "end"},
           NEW c, Sound(c, Kin(t)), Owned("responses", t, c), Announced(t, s, c),
           NEW d \in Own(t, e.p), DeltaSays(t, g, e, d)
    PROVE  Owned("responses", t, TakeDelta(c, d)) /\ Announced(t, s \cup {e}, TakeDelta(c, d))
<1> DEFINE p == e.p
           w == "responses"
           new == TakeDelta(c, d)
<1>1. Resolve(d, c) = Place(w, t, p)
  BY ByIdResolve
<1>2. d \in DeltaOf(Kin(t)) /\ Resolve(d, c) # Unresolved
  <2>1. Place(w, t, p) \in Nat
    BY PlaceApart
  <2>2. d \in DeltaOf(Kin(t))
    BY OwnFacts
  <2>3. Unresolved \notin Nat
    BY DEF Unresolved
  <2>4. QED BY <1>1, <2>1, <2>2, <2>3
<1>3. Owned(w, t, new)
  BY <1>1, OwnedStep
<1>4. /\ DOMAIN new.ids = DOMAIN c.ids \cup ({d.id, d.item} \ {NoId})
      /\ new.outs = With(c.outs, d.index, Resolve(d, c))
  <2>1. new.outs = With(c.outs, d.index, Resolve(d, c))
    BY <1>2, ResolvedStep
  <2>2. DOMAIN new.ids = DOMAIN c.ids \cup ({d.id, d.item} \ {NoId})
    <3>1. KnownBy(new, c, d)
      BY <1>2, ResolvedStep
    <3>2. QED BY <3>1 DEF KnownBy
  <2>3. QED BY <2>1, <2>2
<1>5. /\ e \in ResponsesEvents(t, g) /\ e \notin s
      /\ e.t \in {"progress", "done", "args", "argsdone"} => Added(p) \in s
  BY DeliveryOrder DEF ById
<1>6. /\ e.t \in {"added", "progress", "done", "args", "argsdone"}
      /\ e.t = "added" => e = Added(p)
  <2>1. At(t, p) \in Tools
    BY TurnFacts
  <2>2. At(t, p) # "text" /\ At(t, p) # "think"
    BY <2>1, StreamAssumption
  <2>3. QED BY <1>5, <2>2, ResponsesShape DEF Added, Event
<1>7. Added(p) \in s \cup {e}
  BY <1>5, <1>6
<1>8. ASSUME NEW q \in ToolPlaces(t), Added(q) \in s \cup {e}
      PROVE  ItemIds(t, q) \subseteq DOMAIN new.ids
  <2>1. CASE Added(q) \in s
    BY <1>4, <2>1 DEF Announced
  <2>2. CASE Added(q) = e
    <3>1. q = p /\ e.t = "added"
      BY <2>2 DEF Added, Event
    <3>2. {d.id, d.item} \ {NoId} = ItemIds(t, p)
      BY <3>1 DEF DeltaSays
    <3>3. QED BY <1>4, <3>1, <3>2
  <2>3. QED BY <1>8, <2>1, <2>2
<1>9. ASSUME NEW i \in DOMAIN new.outs
      PROVE  \E q \in ToolPlaces(t) : Added(q) \in s \cup {e} /\ i <= q
  <2>1. CASE i = d.index
    <3>1. d.index <= p
      BY DEF DeltaSays
    <3>2. QED BY <1>7, <2>1, <3>1
  <2>2. CASE i # d.index
    <3>1. i \in DOMAIN c.outs
      BY <1>4, <2>2 DEF With
    <3>2. QED BY <3>1 DEF Announced
  <2>3. QED BY <2>1, <2>2
<1>10. Announced(t, s \cup {e}, new)
  BY <1>8, <1>9 DEF Announced
<1>11. QED BY <1>3, <1>10

-----------------------------------------------------------------------------
(* The end of a stream: what finalize_turn makes of a collector.           *)

\* list is what seq has at the places in S, in their order.
IsPick(list, seq, S) ==
    /\ InOrder(S) \in Seq(S) /\ InOrder(S) \in Seq(Nat)
    /\ Len(list) = Len(InOrder(S)) /\ Len(list) \in Nat /\ DOMAIN list = 1 .. Len(list)
    /\ \A n \in 1 .. Len(list) : InOrder(S)[n] \in S /\ list[n] = seq[InOrder(S)[n]]

\* The places of a finite set are picked in their order.
LEMMA PickFacts ==
    ASSUME NEW seq, NEW b \in Nat, NEW S \in SUBSET (0 .. b)
    PROVE  IsPick(Pick(seq, S), seq, S)
<1>1. InOrder(S) \in Seq(S) /\ InOrder(S) \in Seq(Nat)
  BY InOrderFacts
<1>2. Pick(seq, S) = [n \in 1 .. Len(InOrder(S)) |-> seq[InOrder(S)[n]]]
  BY DEF Pick
<1>3. Len(InOrder(S)) \in Nat
  BY <1>1
<1>4. Len(Pick(seq, S)) = Len(InOrder(S)) /\ DOMAIN Pick(seq, S) = 1 .. Len(InOrder(S))
  BY <1>2, <1>3
<1>5. QED BY <1>1, <1>2, <1>3, <1>4 DEF IsPick

\* Reasoning that was streamed adds no text and no hosted call.
LEMMA WithReasoningFacts ==
    ASSUME NEW c, NEW i, NEW x, NEW h, NEW think, NEW r,
           r = [calls |-> c, hosted |-> h, items |-> i, text |-> x]
    PROVE  WithReasoning(r, think).text = x /\ WithReasoning(r, think).hosted = h
BY DEF WithReasoning

\* The calls of a collector are entries, at bounded positions.
Entered(c) ==
    /\ Bounded(DOMAIN c.acc)
    /\ \A i \in DOMAIN c.acc : DOMAIN c.acc[i] = {"id", "name", "kind", "args"}

\* From the stream: the text that was collected, and hosted calls that were
\* shown.
LEMMA FinalizedStream ==
    ASSUME NEW c, Entered(c), c.final = <<>>
    PROVE  /\ Finalize(c).text = c.text
           /\ \A n \in 1 .. Len(Finalize(c).hosted) : Finalize(c).hosted[n].id \in ServerStarts(c)
<1> DEFINE S == {i \in DOMAIN c.acc : c.acc[i].name # NoName}
           order == InOrder(S)
           streamed == StreamedCalls(c)
           of(e) == [e EXCEPT !.kind = IF e.kind = "" THEN "function" ELSE e.kind]
           H == {n \in DOMAIN streamed : streamed[n].kind = "server"}
           hosted == Pick(streamed, H)
<1>1. order \in Seq(S)
  <2>1. PICK b \in Nat : DOMAIN c.acc \subseteq 0 .. b
    BY DEF Bounded, Entered
  <2>2. S \in SUBSET (0 .. b)
    BY <2>1
  <2> HIDE DEF S
  <2>3. QED BY <2>2, InOrderFacts
<1>2. streamed = [n \in 1 .. Len(order) |-> of(c.acc[order[n]])]
  BY DEF StreamedCalls
<1> HIDE DEF streamed, order, S, of
<1>3. Len(order) \in Nat /\ DOMAIN streamed = 1 .. Len(order)
  BY <1>1, <1>2
<1>4. H \in SUBSET (0 .. Len(order))
  BY <1>3
<1>5. Finalize(c).text = c.text /\ Finalize(c).hosted = hosted
  <2> DEFINE calls == Pick(streamed, {n \in DOMAIN streamed : streamed[n].kind # "server"})
             r == [calls |-> calls, hosted |-> hosted, items |-> c.items, text |-> c.text]
  <2>1. Finalize(c) = WithReasoning(r, c.think)
    BY DEF Finalize, FromStream, streamed
  <2> HIDE DEF calls, hosted
  <2>2. QED BY <2>1, WithReasoningFacts
<1>6. ASSUME NEW n \in 1 .. Len(hosted) PROVE hosted[n].id \in ServerStarts(c)
  <2>1. IsPick(hosted, streamed, H)
    BY <1>3, <1>4, PickFacts
  <2>2. PICK m \in H : hosted[n] = streamed[m]
    <3> HIDE DEF hosted, H
    <3>1. QED BY <2>1 DEF IsPick
  <2>3. m \in 1 .. Len(order) /\ streamed[m].kind = "server"
    BY <1>3
  <2>4. order[m] \in S /\ streamed[m] = of(c.acc[order[m]])
    BY <1>1, <1>2, <2>3
  <2> DEFINE e == c.acc[order[m]]
  <2>5. order[m] \in DOMAIN c.acc /\ e.name # NoName /\ DOMAIN e = {"id", "name", "kind", "args"}
    BY <2>4 DEF S, Entered
  <2> HIDE DEF e
  <2>6. of(e).id = e.id /\ (of(e).kind = "server" => e.kind = "server")
    BY <2>5 DEF of
  <2>7. hosted[n].id = e.id /\ e.kind = "server"
    <3> HIDE DEF hosted
    <3>1. QED BY <2>2, <2>3, <2>4, <2>6 DEF e
  <2>8. QED BY <2>5, <2>7 DEF ServerStarts, e
<1>7. QED BY <1>5, <1>6

\* The items of the terminal output are those of the turn.
LEMMA OutputFacts ==
    ASSUME NEW t \in Turns, NEW g, NEW n \in 1 .. Len(t)
    PROVE  /\ n - 1 \in Positions(t) /\ n - 1 \in Nat /\ At(t, n - 1) = t[n]
           /\ OutputItems(t, g)[n].kind = "message" <=> At(t, n - 1) = "text"
           /\ At(t, n - 1) = "text" => OutputItems(t, g)[n].args = <<n - 1>>
           /\ OutputItems(t, g)[n].kind = "server" =>
                 /\ n - 1 \in ToolPlaces(t) /\ KindOf[At(t, n - 1)] = "server"
                 /\ OutputItems(t, g)[n].id = ItemId(At(t, n - 1))
<1> DEFINE c == t[n]
           item == OutputItems(t, g)[n]
<1>1. /\ Len(t) \in Nat /\ n \in Nat /\ n - 1 \in Nat /\ n - 1 \in Positions(t)
      /\ At(t, n - 1) = c
  <2>1. Len(t) \in Nat
    BY TurnFacts
  <2>2. n - 1 + 1 = n /\ n - 1 \in 0 .. Len(t) - 1
    BY <2>1
  <2>3. QED BY <2>1, <2>2 DEF Positions, At
<1>2. c \in Tools \cup {"text", "think"} /\ "text" \notin Tools /\ "think" \notin Tools
  BY <1>1, TurnFacts, StreamAssumption
<1>3. CASE c = "text"
  <2>1. item = [kind |-> "message", id |-> NoId, name |-> NoName, args |-> <<n - 1>>]
    BY <1>2, <1>3 DEF OutputItems
  <2>2. QED BY <1>1, <1>3, <2>1
<1>4. CASE c = "think"
  <2>1. item = [kind |-> "reasoning", id |-> ItemId(c), name |-> NoName, args |-> <<>>]
    BY <1>2, <1>4 DEF OutputItems
  <2>2. QED BY <1>1, <1>4, <2>1
<1>5. CASE c \in Tools
  <2> DEFINE args == IF g.final = "full" \/ KindOf[c] # "function" THEN Args(c) ELSE <<>>
             id == IF KindOf[c] = "server" THEN ItemId(c) ELSE CallId(c)
  <2>1. item = [kind |-> KindOf[c], id |-> id, name |-> c, args |-> args]
    BY <1>2, <1>5 DEF OutputItems
  <2> HIDE DEF args
  <2>2. item.kind = KindOf[c] /\ item.id = id
    BY <2>1
  <2>3. KindOf[c] # "message" /\ c # "text"
    BY <1>2, <1>5, KindFacts
  <2>4. n - 1 \in ToolPlaces(t)
    BY <1>1, <1>5 DEF ToolPlaces, ToolAt
  <2>5. QED BY <1>1, <2>2, <2>3, <2>4
<1>6. QED BY <1>2, <1>3, <1>4, <1>5

TextPlaces(t) == {p \in Positions(t) : At(t, p) = "text"}

IsHosted(t, id) == \E p \in ToolPlaces(t) : KindOf[At(t, p)] = "server" /\ id = ItemId(At(t, p))

\* From the terminal output: the texts of the turn and its hosted calls.
LEMMA FinalizedSnapshot ==
    ASSUME NEW t \in Turns, NEW g, NEW c, c.final = OutputItems(t, g), c.final # <<>>
    PROVE  /\ Finalize(c).text = InOrder(TextPlaces(t))
           /\ \A n \in 1 .. Len(Finalize(c).hosted) : IsHosted(t, Finalize(c).hosted[n].id)
<1> DEFINE final == c.final
           H == {n \in DOMAIN final : final[n].kind \in {"server"}}
           M == {n \in DOMAIN final : final[n].kind \in {"message"}}
           hosted == Pick(final, H)
           messages == Pick(final, M)
           text == [n \in 1 .. Len(messages) |-> messages[n].args[1]]
           order == InOrder(M)
<1>1. Len(t) \in Nat /\ DOMAIN final = 1 .. Len(t)
  BY TurnFacts DEF OutputItems
<1>2. H \in SUBSET (0 .. Len(t)) /\ M \in SUBSET (0 .. Len(t)) /\ M \in SUBSET (1 .. Len(t))
  BY <1>1
<1>3. IsPick(hosted, final, H) /\ IsPick(messages, final, M)
  <2> HIDE DEF H, M
  <2>1. QED BY <1>1, <1>2, PickFacts
<1>4. Finalize(c).text = text /\ Finalize(c).hosted = hosted
  <2>1. PICK calls, items : Finalize(c) = WithReasoning(
            [calls |-> calls, hosted |-> hosted, items |-> items, text |-> text], c.think)
    BY DEF Finalize, FromSnapshot
  <2> HIDE DEF hosted, text
  <2>2. QED BY <2>1, WithReasoningFacts
<1>5. ASSUME NEW n \in 1 .. Len(hosted) PROVE IsHosted(t, hosted[n].id)
  <2>1. PICK m \in H : hosted[n] = final[m]
    <3> HIDE DEF hosted, H
    <3>1. QED BY <1>3 DEF IsPick
  <2>2. m \in 1 .. Len(t) /\ final[m].kind = "server"
    BY <1>1
  <2>3. m - 1 \in ToolPlaces(t) /\ KindOf[At(t, m - 1)] = "server"
        /\ final[m].id = ItemId(At(t, m - 1))
    BY <2>2, OutputFacts
  <2> HIDE DEF hosted
  <2>4. QED BY <2>1, <2>3 DEF IsHosted
<1>6. ASSUME NEW m \in M PROVE final[m].args = <<m - 1>> /\ m - 1 \in TextPlaces(t) /\ m \in Nat
  <2>1. m \in 1 .. Len(t) /\ final[m].kind = "message"
    BY <1>1
  <2>2. At(t, m - 1) = "text" /\ final[m].args = <<m - 1>> /\ m - 1 \in Positions(t)
    BY <2>1, OutputFacts
  <2>3. QED BY <2>1, <2>2 DEF TextPlaces
<1>7. /\ order \in Seq(M) /\ order \in Seq(Nat) /\ Range(order) = M /\ Ascending(order)
      /\ Len(messages) = Len(order) /\ Len(order) \in Nat
      /\ \A n \in 1 .. Len(order) : order[n] \in M /\ messages[n] = final[order[n]]
  <2> HIDE DEF M, messages
  <2>1. order \in Seq(M) /\ order \in Seq(Nat) /\ Range(order) = M /\ Ascending(order)
    BY <1>1, <1>2, InOrderFacts
  <2>2. QED BY <1>3, <2>1 DEF IsPick
<1> HIDE DEF order, messages, M, final, hosted
<1>8. text \in Seq(Nat) /\ Len(text) = Len(order)
      /\ \A n \in 1 .. Len(order) : text[n] = order[n] - 1 /\ text[n] \in TextPlaces(t)
  <2>1. ASSUME NEW n \in 1 .. Len(order)
        PROVE  messages[n].args[1] = order[n] - 1 /\ order[n] - 1 \in TextPlaces(t)
    <3>1. order[n] \in M /\ messages[n] = final[order[n]]
      BY <1>7
    <3>2. final[order[n]].args = <<order[n] - 1>> /\ order[n] - 1 \in TextPlaces(t)
      BY <1>6, <3>1
    <3>3. QED BY <3>1, <3>2
  <2>2. TextPlaces(t) \subseteq Nat
    BY TurnFacts DEF TextPlaces
  <2>3. QED BY <1>7, <2>1, <2>2
<1>9. Ascending(text)
  <2>1. \A n \in 1 .. Len(order) : order[n] \in Nat
    BY <1>7
  <2> HIDE DEF text
  <2>2. QED BY <1>7, <1>8, <2>1 DEF Ascending
<1>10. Range(text) = TextPlaces(t)
  <2>1. DOMAIN text = 1 .. Len(order) /\ DOMAIN order = 1 .. Len(order)
    BY <1>7, <1>8
  <2> HIDE DEF text
  <2>2. Range(text) \subseteq TextPlaces(t)
    BY <1>8, <2>1 DEF Range
  <2>3. ASSUME NEW p \in TextPlaces(t) PROVE p \in Range(text)
    <3>1. p \in Nat /\ p + 1 \in 1 .. Len(t) /\ At(t, p) = "text" /\ (p + 1) - 1 = p
      BY TurnFacts DEF TextPlaces
    <3>2. final[p + 1].kind = "message"
      BY <3>1, OutputFacts DEF final
    <3>3. p + 1 \in M
      BY <1>1, <3>1, <3>2 DEF M, final
    <3>4. PICK n \in 1 .. Len(order) : order[n] = p + 1
      BY <1>7, <2>1, <3>3 DEF Range
    <3>5. text[n] = p
      BY <1>8, <3>1, <3>4
    <3>6. QED BY <2>1, <3>5 DEF Range
  <2>4. QED BY <2>2, <2>3
<1>11. text = InOrder(TextPlaces(t))
  <2>1. TextPlaces(t) \in SUBSET (0 .. Len(t))
    BY <1>1, TurnFacts DEF TextPlaces, Positions
  <2>2. /\ InOrder(TextPlaces(t)) \in Seq(Nat) /\ Ascending(InOrder(TextPlaces(t)))
        /\ Range(InOrder(TextPlaces(t))) = TextPlaces(t)
    BY <1>1, <2>1, InOrderFacts
  <2> HIDE DEF text
  <2>3. QED BY <1>8, <1>9, <1>10, <2>2, AscendingUnique
<1>12. QED BY <1>4, <1>5, <1>11

\* Salvaging gives one open client call its arguments: nothing that was shown
\* changes.
LEMMA SalvageFacts ==
    ASSUME NEW c, NEW U, Sound(c, U)
    PROVE  /\ Entered(Salvage(c)) /\ Entered(c)
           /\ Salvage(c).text = c.text /\ Salvage(c).final = c.final
           /\ ServerStarts(Salvage(c)) \subseteq ServerStarts(c)
<1> DEFINE new == Salvage(c)
           Rec(e) == DOMAIN e = {"id", "name", "kind", "args"}
           buffer == Joined(c.parked)
           open == OpenCalls(c)
<1>1. Entered(c) /\ DOMAIN c = Fields
  BY DEF Sound, Entered, EntryOf
<1>2. CASE new = [c EXCEPT !.parked = <<>>]
  <2>1. new.acc = c.acc /\ new.text = c.text /\ new.final = c.final
    BY <1>1, <1>2 DEF Fields
  <2> HIDE DEF new
  <2>2. Entered(new) /\ ServerStarts(new) \subseteq ServerStarts(c)
    BY <1>1, <2>1 DEF Entered, ServerStarts
  <2>3. QED BY <1>1, <2>1, <2>2 DEF new
<1>3. ASSUME NEW i \in open, new = [c EXCEPT !.acc[i].args = buffer, !.parked = <<>>]
      PROVE  /\ Entered(new) /\ new.text = c.text /\ new.final = c.final
             /\ ServerStarts(new) \subseteq ServerStarts(c)
  <2> DEFINE acc == [c.acc EXCEPT ![i].args = buffer]
  <2> HIDE DEF buffer
  <2>1. new.acc = acc /\ new.text = c.text /\ new.final = c.final
    BY <1>1, <1>3 DEF Fields
  <2>2. i \in DOMAIN c.acc
    BY DEF OpenCalls
  <2>3. /\ DOMAIN acc = DOMAIN c.acc
        /\ \A j \in DOMAIN c.acc : /\ Rec(c.acc[j]) /\ Rec(acc[j])
                                   /\ acc[j].id = c.acc[j].id /\ acc[j].name = c.acc[j].name
                                   /\ acc[j].kind = c.acc[j].kind
    BY <1>1, <2>2 DEF Entered
  <2> HIDE DEF new, acc
  <2>4. Entered(new)
    BY <1>1, <2>1, <2>3 DEF Entered
  <2>5. ServerStarts(new) \subseteq ServerStarts(c)
    BY <2>1, <2>3 DEF ServerStarts
  <2>6. QED BY <2>1, <2>4, <2>5
<1>4. \/ new = [c EXCEPT !.parked = <<>>]
      \/ \E i \in open : new = [c EXCEPT !.acc[i].args = buffer, !.parked = <<>>]
  <2> HIDE DEF buffer
  <2>1. CASE c.parked # <<>> /\ \E i \in open : open = {i} /\ IsComplete(buffer)
    <3>1. PICK i \in open : open = {i} /\ IsComplete(buffer)
      BY <2>1
    <3>2. (CHOOSE k \in open : TRUE) = i
      BY <3>1
    <3>3. new = [c EXCEPT !.acc[CHOOSE k \in open : TRUE].args = buffer, !.parked = <<>>]
      BY <2>1 DEF Salvage, buffer
    <3> HIDE DEF new, open
    <3>4. QED BY <3>1, <3>2, <3>3
  <2>2. CASE ~(c.parked # <<>> /\ \E i \in open : open = {i} /\ IsComplete(buffer))
    BY <2>2 DEF Salvage, buffer
  <2>3. QED BY <2>1, <2>2
<1>5. QED BY <1>1, <1>2, <1>3, <1>4

-----------------------------------------------------------------------------
(* The inductive invariant.                                                *)

\* What a collector is, at any time.
CollectorOK(w, t, g, c) ==
    /\ Sound(c, Kin(t))
    /\ Placed(w, g) => Owned(w, t, c) /\ TrueOuts(c)
    /\ ById(w, g, t) => Owned(w, t, c)
    /\ ~g.whole => c.final \in IF w = "responses" THEN {<<>>, OutputItems(t, g)} ELSE {<<>>}

\* How what was sent, collected and shown belong together, until a stream is
\* aborted with an event that was sent and not collected.
TextsSent(t, s) == {p \in TextPlaces(t) : Text(p) \in s}
HostedShown(t, s, shown) ==
    \A p \in ToolPlaces(t) :
       KindOf[At(t, p)] = "server" /\ Added(p) \in s => ItemId(At(t, p)) \in shown

FlowOK(w, t, g, s, c, text, shown) ==
    /\ ById(w, g, t) => Announced(t, s, c)
    /\ ~g.whole /\ w = "responses" => text = InOrder(TextsSent(t, s)) /\ HostedShown(t, s, shown)

Inv ==
    /\ wire \in Wires /\ gw \in Gateways /\ turn \in Turns
    /\ IsClosed(wire, turn, gw, sent)
    /\ CollectorOK(wire, turn, gw, col)
    /\ col.text = uiText /\ ServerStarts(col) \subseteq started
    /\ status # "loop" => FlowOK(wire, turn, gw, sent, col, uiText, started)
    /\ status = "ok" => result = Finalize(Salvage(col))
    /\ status = "idle" => result = Finalize(col)

\* A chunk of one delta, and one of none.
LEMMA ChunkOne ==
    ASSUME NEW c, NEW d
    PROVE  TakeChunk(c, Calls(<<d>>)) = TakeDelta(Base(c, Calls(<<d>>)), d)
<1> DEFINE ch == Calls(<<d>>)
<1>1. ch.calls = <<d>>
  BY CallsFacts
<1> HIDE DEF ch
<1>2. ch.calls \in Seq({d}) /\ Len(ch.calls) = 1 /\ ch.calls[1] = d
  BY <1>1
<1>3. PICK f : IsLoop(f, c, ch)
  BY <1>2, ChunkLoops
<1>4. 0 \in Nat /\ 0 < 1 /\ 0 + 1 = 1
  OBVIOUS
<1>5. f[1] = TakeDelta(f[0], ch.calls[1])
  BY <1>2, <1>3, <1>4 DEF IsLoop
<1>6. QED BY <1>2, <1>3, <1>5 DEF IsLoop, ch

LEMMA ChunkNone ==
    ASSUME NEW c, NEW ch, ch.calls = <<>>
    PROVE  TakeChunk(c, ch) = Base(c, ch)
<1>1. ch.calls \in Seq({}) /\ Len(ch.calls) = 0
  OBVIOUS
<1>2. PICK f : IsLoop(f, c, ch)
  BY <1>1, ChunkLoops
<1>3. QED BY <1>1, <1>2 DEF IsLoop

\* A delta with a name is resolved.
LEMMA NamedResolves ==
    ASSUME NEW U, NEW c, Sound(c, U), NEW tc \in DeltaOf(U), tc.name # NoName
    PROVE  Resolve(tc, c) # Unresolved
<1>1. tc.index \in Nat
  BY DEF DeltaOf
<1>2. Resolve(tc, c) \in Nat
  BY <1>1 DEF Resolve, Sound
<1>3. QED BY <1>2 DEF Unresolved

\* The announcement of a hosted call is shown with its id.
LEMMA HostedStep ==
    ASSUME NEW t \in Turns, NEW g, NEW c, Sound(c, Kin(t)), NEW e, e.t = "added",
           e.p \in ToolPlaces(t), KindOf[At(t, e.p)] = "server",
           NEW d \in Own(t, e.p), DeltaSays(t, g, e, d)
    PROVE  ItemId(At(t, e.p)) \in ServerStarts(TakeDelta(c, d))
<1> DEFINE x == ItemId(At(t, e.p))
           new == TakeDelta(c, d)
           idx == Resolve(d, c)
<1>1. /\ d.id = x /\ d.kind = "server" /\ d.name = At(t, e.p) /\ d.name # NoName /\ x # NoId
  BY TurnFacts DEF DeltaSays, ItemId, NoId
<1>2. d \in DeltaOf(Kin(t))
  BY OwnFacts
<1>3. idx # Unresolved
  BY <1>1, <1>2, NamedResolves
<1>4. idx \in DOMAIN new.acc
  BY <1>2, <1>3, ResolvedStep
<1>5. new.acc[idx].id = d.id /\ new.acc[idx].name = d.name /\ new.acc[idx].kind = d.kind
  <2>1. Says(new.acc[idx], d)
    BY <1>2, <1>3, ResolvedStep
  <2>2. d.id # NoId /\ d.name # NoName /\ d.kind # ""
    BY <1>1
  <2> HIDE DEF new, idx
  <2>3. QED BY <2>1, <2>2 DEF Says
<1> HIDE DEF x, new, idx
<1>6. x \in ServerStarts(new)
  BY <1>1, <1>4, <1>5 DEF ServerStarts
<1>7. QED BY <1>6 DEF x, new

ExtendsTexts(t, s, e) ==
    InOrder(TextsSent(t, s \cup {e})) = InOrder(TextsSent(t, s)) \o TextOf(e)

\* The texts are shown in the order of the turn.
LEMMA TextStep ==
    ASSUME NEW t \in Turns, NEW g \in Gateways, NEW s, IsClosed("responses", t, g, s), ~g.whole,
           NEW e, IsReady("responses", t, g, s, e)
    PROVE  ExtendsTexts(t, s, e)
<1> DEFINE S == TextsSent(t, s)
<1>1. S \in SUBSET (0 .. Len(t)) /\ Len(t) \in Nat
  BY TurnFacts DEF TextsSent, TextPlaces, Positions
<1>2. InOrder(S) \in Seq(Nat)
  BY <1>1, InOrderFacts
<1>3. CASE e.t # "text"
  <2>1. \A p : Text(p) # e
    BY <1>3 DEF Text, Event
  <2>2. TextsSent(t, s \cup {e}) = S
    BY <2>1 DEF TextsSent
  <2> HIDE DEF S
  <2>3. InOrder(S) \o <<>> = InOrder(S)
    BY <1>2
  <2>4. QED BY <1>3, <2>2, <2>3 DEF S, TextOf, ExtendsTexts
<1>4. CASE e.t = "text"
  <2>1. /\ e \in ResponsesEvents(t, g) /\ e \notin s
        /\ \A q \in Positions(t) : Text(q) \in s => q < e.p
    BY <1>4, DeliveryOrder
  <2>2. e.p \in TextPlaces(t) /\ e = Text(e.p)
    BY <1>4, <2>1, ResponsesShape DEF Event, Text, TextPlaces
  <2>3. \A p : Text(p) = e => p = e.p
    BY DEF Text, Event
  <2>4. TextsSent(t, s \cup {e}) = S \cup {e.p}
    BY <2>2, <2>3 DEF TextsSent
  <2>5. e.p \in Nat /\ S \in SUBSET (0 .. e.p - 1)
    <3>1. e.p \in Nat
      BY <2>2, TurnFacts DEF TextPlaces
    <3>2. \A q \in S : q \in Positions(t) /\ q \in Nat /\ q < e.p
      BY <2>1, TurnFacts DEF TextsSent, TextPlaces
    <3>3. QED BY <3>1, <3>2
  <2> HIDE DEF S
  <2>6. InOrder(S \cup {e.p}) = Append(InOrder(S), e.p)
    BY <2>5, InOrderExtends
  <2>7. Append(InOrder(S), e.p) = InOrder(S) \o <<e.p>>
    BY <1>2, <2>5
  <2>8. QED BY <1>4, <2>4, <2>6, <2>7 DEF S, TextOf, ExtendsTexts
<1>5. QED BY <1>3, <1>4

\* What a delivered chunk makes of all this.
LEMMA DeliveryStep ==
    ASSUME NEW t \in Turns, NEW g \in Gateways, NEW w \in Wires,
           NEW s, IsClosed(w, t, g, s), NEW e, IsReady(w, t, g, s, e),
           NEW c, CollectorOK(w, t, g, c), NEW text, NEW shown, FlowOK(w, t, g, s, c, text, shown),
           NEW ch, ch = Decode(w, t, g, e), NEW new, new = TakeChunk(c, ch)
    PROVE  /\ CollectorOK(w, t, g, new)
           /\ FlowOK(w, t, g, s \cup {e}, new, text \o ch.text, shown \cup ServerStarts(new))
<1> DEFINE base == Base(c, ch)
<1>1. IsDecoded(ch, w, t, g, e)
  BY Decoded DEF IsReady
<1>2. Sound(c, Kin(t)) /\ ch.calls \in Seq(DeltaOf(Kin(t)))
  BY <1>1 DEF CollectorOK, IsDecoded
<1>3. /\ Sound(new, Kin(t))
      /\ new.final = IF ch.final = <<>> THEN c.final ELSE ch.final
  BY <1>2, ChunkSound
<1>4. Placed(w, g) => Owned(w, t, new) /\ TrueOuts(new)
  BY <1>1, <1>2, ChunkPlaced DEF CollectorOK, IsDecoded
<1>5. /\ Sound(base, Kin(t)) /\ base.acc = c.acc /\ base.ids = c.ids /\ base.outs = c.outs
      /\ base.parked = c.parked
  BY <1>2, BaseFacts
<1>6. ASSUME ~g.whole PROVE new.final \in IF w = "responses" THEN {<<>>, OutputItems(t, g)}
                                          ELSE {<<>>}
  <2>1. CASE w = "responses"
    BY <1>1, <1>3, <1>6, <2>1 DEF CollectorOK, IsDecoded, IsResponsesChunk
  <2>2. CASE w # "responses"
    BY <1>1, <1>3, <1>6, <2>2 DEF CollectorOK, IsDecoded
  <2>3. QED BY <2>1, <2>2
<1>7. CASE ~g.whole /\ w = "responses"
  <2>1. IsResponsesChunk(ch, t, g, e) /\ e \in ResponsesEvents(t, g)
    BY <1>1, <1>7 DEF IsDecoded
  <2>2. IsClosed("responses", t, g, s) /\ IsReady("responses", t, g, s, e)
    BY <1>7
  <2>3. text \o ch.text = InOrder(TextsSent(t, s \cup {e}))
    <3>1. text = InOrder(TextsSent(t, s))
      BY <1>7 DEF FlowOK
    <3>2. ch.text = TextOf(e)
      BY <2>1 DEF IsResponsesChunk
    <3>3. ExtendsTexts(t, s, e)
      BY <1>7, <2>2, TextStep
    <3>4. QED BY <3>1, <3>2, <3>3 DEF ExtendsTexts
  <2>4. ASSUME ById(w, g, t) PROVE Owned(w, t, base) /\ Announced(t, s, base)
    BY <1>5, <1>7, <2>4 DEF CollectorOK, FlowOK, Owned, Announced
  <2>5. HostedShown(t, s, shown)
    BY <1>7 DEF FlowOK
  <2>6. CASE ch.calls = <<>> /\ e.t # "added"
    <3>1. new = base
      BY <2>6, ChunkNone
    <3>2. \A p : Added(p) # e
      BY <2>6 DEF Added, Event
    <3> HIDE DEF base
    <3>3. HostedShown(t, s \cup {e}, shown \cup ServerStarts(new))
      BY <2>5, <3>2 DEF HostedShown
    <3>4. ASSUME ById(w, g, t) PROVE Owned(w, t, new) /\ Announced(t, s \cup {e}, new)
      BY <2>4, <3>1, <3>2, <3>4 DEF Announced
    <3>5. QED BY <1>3, <1>4, <1>6, <2>3, <3>3, <3>4 DEF CollectorOK, FlowOK
  <2>7. CASE e.p \in ToolPlaces(t) /\ e.t \notin {"text", "end"} /\ IsDeltaChunk(ch, t, g, e)
    <3>1. PICK d \in Own(t, e.p) : ch = Calls(<<d>>) /\ DeltaSays(t, g, e, d)
      BY <2>7 DEF IsDeltaChunk
    <3>2. new = TakeDelta(base, d)
      BY <3>1, ChunkOne
    <3> HIDE DEF base
    <3>3. HostedShown(t, s \cup {e}, shown \cup ServerStarts(new))
      <4> SUFFICES ASSUME NEW p \in ToolPlaces(t), KindOf[At(t, p)] = "server",
                          Added(p) \in s \cup {e}
                   PROVE  ItemId(At(t, p)) \in shown \cup ServerStarts(new)
        BY DEF HostedShown
      <4>1. CASE Added(p) \in s
        BY <2>5, <4>1 DEF HostedShown
      <4>2. CASE Added(p) = e
        <5>1. e.t = "added" /\ e.p = p
          BY <4>2 DEF Added, Event
        <5>2. ItemId(At(t, e.p)) \in ServerStarts(TakeDelta(base, d))
          BY <1>5, <3>1, <5>1, HostedStep
        <5>3. QED BY <3>2, <5>1, <5>2
      <4>3. QED BY <4>1, <4>2
    <3>4. ASSUME ById(w, g, t) PROVE Owned(w, t, new) /\ Announced(t, s \cup {e}, new)
      <4>1. ById("responses", g, t) /\ Owned("responses", t, base) /\ Announced(t, s, base)
        BY <1>7, <2>4, <3>4
      <4>2. /\ Owned("responses", t, TakeDelta(base, d))
            /\ Announced(t, s \cup {e}, TakeDelta(base, d))
        BY <1>5, <2>2, <2>7, <3>1, <4>1, AnnouncedStep
      <4>3. QED BY <1>7, <3>2, <4>2
    <3>5. QED BY <1>3, <1>4, <1>6, <2>3, <3>3, <3>4 DEF CollectorOK, FlowOK
  <2>8. QED BY <2>1, <2>6, <2>7 DEF IsResponsesChunk
<1>8. CASE ~(~g.whole /\ w = "responses")
  <2>1. ~ById(w, g, t)
    BY <1>8 DEF ById
  <2>2. QED BY <1>3, <1>4, <1>6, <1>8, <2>1 DEF CollectorOK, FlowOK
<1>9. QED BY <1>7, <1>8

-----------------------------------------------------------------------------
(* Invariance.                                                             *)

\* A request that nothing was sent for.
LEMMA InitInv == Init => Inv
<1> SUFFICES ASSUME Init PROVE Inv
  OBVIOUS
<1>1. /\ wire \in Wires /\ gw \in Gateways /\ turn \in Turns
      /\ sent = {} /\ uiText = <<>> /\ started = {} /\ status = "open"
      /\ col = NewCollector
  BY DEF Init
<1>2. IsClosed(wire, turn, gw, sent)
  BY <1>1 DEF IsClosed
<1>3. /\ DOMAIN col = Fields /\ col.acc = <<>> /\ col.ids = <<>> /\ col.outs = <<>>
      /\ col.parked = <<>> /\ col.text = <<>> /\ col.final = <<>>
  BY <1>1 DEF NewCollector, Fields
<1>4. DOMAIN <<>> = {}
  OBVIOUS
<1>5. Bounded({})
  BY DEF Bounded
<1>6. Sound(col, Kin(turn))
  BY <1>3, <1>4, <1>5 DEF Sound
<1>7. Owned(wire, turn, col) /\ TrueOuts(col) /\ ServerStarts(col) = {}
  BY <1>3, <1>4 DEF Owned, TrueOuts, ServerStarts
<1>8. CollectorOK(wire, turn, gw, col)
  BY <1>3, <1>6, <1>7 DEF CollectorOK
<1>9. FlowOK(wire, turn, gw, sent, col, uiText, started)
  <2>1. TextsSent(turn, sent) = {}
    BY <1>1 DEF TextsSent
  <2>2. InOrder({}) \in Seq({})
    <3>1. {} \in SUBSET (0 .. 0) /\ 0 \in Nat
      OBVIOUS
    <3>2. QED BY <3>1, InOrderFacts
  <2>3. InOrder({}) = <<>>
    BY <2>2
  <2>4. Announced(turn, sent, col)
    BY <1>1, <1>3, <1>4 DEF Announced
  <2>5. HostedShown(turn, sent, started)
    BY <1>1 DEF HostedShown
  <2>6. QED BY <1>1, <2>1, <2>3, <2>4, <2>5 DEF FlowOK
<1>10. QED BY <1>1, <1>2, <1>3, <1>7, <1>8, <1>9 DEF Inv

\* An event that is delivered, or that aborts the stream.
LEMMA DeliverInv ==
    ASSUME Inv, NEW e \in Events(wire, turn, gw), NEW triggers, Deliver(e, triggers)
    PROVE  Inv'
<1> DEFINE chunk == Decode(wire, turn, gw, e)
           next == TakeChunk(col, chunk)
<1>1. /\ wire \in Wires /\ gw \in Gateways /\ turn \in Turns
      /\ IsClosed(wire, turn, gw, sent) /\ CollectorOK(wire, turn, gw, col)
      /\ col.text = uiText /\ ServerStarts(col) \subseteq started
  BY DEF Inv
<1>2. /\ status = "open" /\ IsReady(wire, turn, gw, sent, e) /\ sent' = sent \cup {e}
      /\ wire' = wire /\ gw' = gw /\ turn' = turn
  BY DEF Deliver, Ready, IsReady, Abort, fixed
<1>3. IsClosed(wire, turn, gw, sent \cup {e})
  BY <1>1, <1>2, ClosedStep
<1>4. CASE AbortTriggers(signals') # {}
  <2>1. status' = "loop" /\ col' = col /\ uiText' = uiText /\ started' = started
    BY <1>4 DEF Deliver, Abort
  <2>2. QED BY <1>1, <1>2, <1>3, <2>1 DEF Inv
<1>5. CASE AbortTriggers(signals') = {}
  <2>1. /\ col' = next /\ uiText' = uiText \o chunk.text
        /\ started' = started \cup ServerStarts(next)
        /\ \/ status' = "ok" /\ result' = Finalize(Salvage(next))
           \/ status' = "open"
    BY <1>2, <1>5 DEF Deliver, Finish
  <2>2. FlowOK(wire, turn, gw, sent, col, uiText, started)
    BY <1>2 DEF Inv
  <2> HIDE DEF chunk, next
  <2>3. chunk = Decode(wire, turn, gw, e) /\ next = TakeChunk(col, chunk)
    BY DEF chunk, next
  <2>4. /\ CollectorOK(wire, turn, gw, next)
        /\ FlowOK(wire, turn, gw, sent \cup {e}, next, uiText \o chunk.text,
                  started \cup ServerStarts(next))
    BY <1>1, <1>2, <2>2, <2>3, DeliveryStep
  <2>5. next.text = uiText \o chunk.text
    <3>1. chunk.calls \in Seq(DeltaOf(Kin(turn)))
      BY <1>1, <1>2, <2>3, Decoded DEF IsDecoded
    <3>2. Sound(col, Kin(turn))
      BY <1>1 DEF CollectorOK
    <3>3. next.text = col.text \o chunk.text
      BY <2>3, <3>1, <3>2, ChunkSound
    <3>4. QED BY <1>1, <3>3
  <2>6. QED BY <1>1, <1>2, <1>3, <2>1, <2>4, <2>5 DEF Inv
<1>6. QED BY <1>4, <1>5

\* Every step keeps the invariant.
LEMMA NextInv == Inv /\ [Next]_vars => Inv'
<1> SUFFICES ASSUME Inv, [Next]_vars PROVE Inv'
  OBVIOUS
<1>1. CASE \E e \in Events(wire, turn, gw) : \E triggers : Deliver(e, triggers)
  BY <1>1, DeliverInv
<1>2. CASE \E frame \in Frames : Check(frame)
  <2>1. /\ UNCHANGED <<wire, gw, turn, sent, col, uiText, started, result>>
        /\ status = "open" /\ status' \in {"open", "loop"}
    BY <1>2 DEF Check, Abort, fixed
  <2>2. QED BY <2>1 DEF Inv
<1>3. CASE Close
  BY <1>3 DEF Inv, Close, Finish, fixed
<1>4. CASE FallSilent
  BY <1>4 DEF Inv, FallSilent, fixed
<1>5. CASE Break
  BY <1>5 DEF Inv, Break, fixed
<1>6. CASE UNCHANGED vars
  BY <1>6 DEF Inv, vars
<1>7. QED BY <1>1, <1>2, <1>3, <1>4, <1>5, <1>6 DEF Next, Done

\* The invariant holds in every state of every stream.
LEMMA Invariance == Spec => []Inv
BY InitInv, NextInv, PTL DEF Spec

-----------------------------------------------------------------------------
(* The properties.                                                         *)

\* A turn of at most one call has one name for all fragments.
LEMMA SingleCall ==
    ASSUME NEW t \in Turns, Cardinality(ToolPlaces(t)) <= 1, NEW a \in Kin(t), NEW b \in Kin(t)
    PROVE  a = b
<1>1. PICK p \in ToolPlaces(t), q \in ToolPlaces(t) : a = At(t, p) /\ b = At(t, q)
  BY DEF Kin
<1>2. IsFiniteSet(ToolPlaces(t))
  <2>1. IsFiniteSet(0 .. Len(t) - 1)
    BY TurnFacts, FS_Interval
  <2>2. QED BY <2>1, FS_Subset DEF ToolPlaces, Positions
<1>3. p = q
  <2> SUFFICES ASSUME p # q PROVE FALSE
    OBVIOUS
  <2>1. IsFiniteSet({p}) /\ Cardinality({p}) = 1
    BY FS_Singleton
  <2>2. Cardinality({p} \cup {q}) = 2
    BY <2>1, FS_AddElement
  <2>3. Cardinality({p} \cup {q}) <= Cardinality(ToolPlaces(t))
    BY <1>2, FS_Subset
  <2>4. Cardinality(ToolPlaces(t)) \in Nat
    BY <1>2, FS_CardinalityType
  <2>5. QED BY <2>2, <2>3, <2>4
<1>4. QED BY <1>1, <1>3

\* The invariant keeps the arguments of calls apart.
LEMMA InvOwnArguments == Inv => OwnArguments
<1> SUFFICES ASSUME Inv, Attributable, NEW i \in DOMAIN col.acc, col.acc[i].name # NoName,
                    NEW n \in 1 .. Len(col.acc[i].args)
             PROVE  col.acc[i].args[n][1] = col.acc[i].name
  BY DEF OwnArguments
<1> DEFINE e == col.acc[i]
<1>1. /\ wire \in Wires /\ gw \in Gateways /\ turn \in Turns /\ Sound(col, Kin(turn))
      /\ Placed(wire, gw) => Owned(wire, turn, col)
      /\ ById(wire, gw, turn) => Owned(wire, turn, col)
  BY DEF Inv, CollectorOK
<1>2. ToolPositions = ToolPlaces(turn)
  BY DEF ToolPositions, ToolPlaces
<1>3. ASSUME NEW C, e \in EntryOf(C) PROVE e.name \in C /\ e.args[n][1] \in C
  <2>1. e.name \in C /\ e.args \in Seq(C \X (1 .. Pieces))
    BY <1>3 DEF EntryOf, Fragments
  <2>2. e.args[n] \in C \X (1 .. Pieces)
    BY <2>1
  <2>3. QED BY <2>1, <2>2
<1>4. CASE Cardinality(ToolPositions) <= 1
  <2>1. e.name \in Kin(turn) /\ e.args[n][1] \in Kin(turn)
    BY <1>1, <1>3 DEF Sound
  <2>2. QED BY <1>1, <1>2, <1>4, <2>1, SingleCall
<1>5. CASE ~(Cardinality(ToolPositions) <= 1)
  <2>1. Placed(wire, gw) \/ ById(wire, gw, turn)
    BY <1>2, <1>5 DEF Attributable, Placed, ById, NoCustomTool
  <2>2. PICK p \in ToolPlaces(turn) : e \in EntryOf({At(turn, p)})
    BY <1>1, <2>1 DEF Owned
  <2>3. QED BY <1>3, <2>2
<1>6. QED BY <1>4, <1>5

\* Arguments never end up with another call, whatever a gateway that says whose
\* they are repeats, reorders, renumbers or leaves out.
THEOREM ArgumentsOwned == Spec => []OwnArguments
BY Invariance, InvOwnArguments, PTL

\* A turn that is made of the collector, salvaged or not, is what was shown.
LEMMA FinalAgrees ==
    ASSUME Inv, status # "loop", Whole \/ col.final = <<>>, ~gw.whole,
           NEW c, Entered(c), c.text = col.text, c.final = col.final,
           ServerStarts(c) \subseteq ServerStarts(col)
    PROVE  /\ Finalize(c).text = uiText
           /\ \A n \in 1 .. Len(Finalize(c).hosted) : Finalize(c).hosted[n].id \in started
<1>1. /\ wire \in Wires /\ gw \in Gateways /\ turn \in Turns
      /\ CollectorOK(wire, turn, gw, col) /\ col.text = uiText
      /\ ServerStarts(col) \subseteq started
      /\ FlowOK(wire, turn, gw, sent, col, uiText, started)
  BY DEF Inv
<1>2. CASE col.final = <<>>
  BY <1>1, <1>2, FinalizedStream
<1>3. CASE col.final # <<>>
  <2>1. wire = "responses" /\ col.final = OutputItems(turn, gw)
    BY <1>1, <1>3 DEF CollectorOK
  <2>2. /\ Finalize(c).text = InOrder(TextPlaces(turn))
        /\ \A n \in 1 .. Len(Finalize(c).hosted) : IsHosted(turn, Finalize(c).hosted[n].id)
    BY <1>1, <1>3, <2>1, FinalizedSnapshot
  <2>3. ResponsesEvents(turn, gw) \subseteq sent
    BY <1>3, <2>1 DEF Whole, Events
  <2>4. uiText = InOrder(TextsSent(turn, sent)) /\ HostedShown(turn, sent, started)
    BY <1>1, <2>1 DEF FlowOK
  <2>5. TextsSent(turn, sent) = TextPlaces(turn)
    BY <1>1, <2>3, ResponsesSends DEF TextsSent, TextPlaces
  <2>6. ASSUME NEW n \in 1 .. Len(Finalize(c).hosted) PROVE Finalize(c).hosted[n].id \in started
    <3>1. IsHosted(turn, Finalize(c).hosted[n].id)
      BY <2>2
    <3>2. PICK p \in ToolPlaces(turn) :
            KindOf[At(turn, p)] = "server" /\ Finalize(c).hosted[n].id = ItemId(At(turn, p))
      BY <3>1 DEF IsHosted
    <3>3. Added(p) \in sent
      BY <1>1, <2>3, ResponsesSends
    <3>4. QED BY <2>4, <3>2, <3>3 DEF HostedShown
  <2>7. QED BY <2>2, <2>4, <2>5, <2>6
<1>4. QED BY <1>2, <1>3

\* The invariant gives the agreement of the observer and the turn.
LEMMA InvUiAgrees == Inv => UiAgrees
<1> SUFFICES ASSUME Inv, status \in {"ok", "idle"}, Whole \/ col.final = <<>>, ~gw.whole
             PROVE  /\ result.text = uiText
                    /\ \A n \in 1 .. Len(result.hosted) : result.hosted[n].id \in started
  BY DEF UiAgrees
<1>1. Sound(col, Kin(turn))
  BY DEF Inv, CollectorOK
<1>2. /\ Entered(Salvage(col)) /\ Entered(col)
      /\ Salvage(col).text = col.text /\ Salvage(col).final = col.final
      /\ ServerStarts(Salvage(col)) \subseteq ServerStarts(col)
  BY <1>1, SalvageFacts
<1>3. CASE status = "ok"
  <2>1. result = Finalize(Salvage(col)) /\ status # "loop"
    BY <1>3 DEF Inv
  <2>2. QED BY <1>2, <2>1, FinalAgrees
<1>4. CASE status = "idle"
  <2>1. result = Finalize(col) /\ status # "loop"
    BY <1>4 DEF Inv
  <2>2. QED BY <1>2, <2>1, FinalAgrees
<1>5. QED BY <1>3, <1>4

\* What the observer was shown is what is returned: the text of the turn is the
\* text shown, and each of its hosted calls was announced, also for a stream
\* that was cut or fell silent.
THEOREM UiShown == Spec => []UiAgrees
BY Invariance, InvUiAgrees, PTL

-----------------------------------------------------------------------------
(***************************************************************************)
(* The assembly of a turn: what a collector holds when the events in s     *)
(* were delivered and the rest is still to come, and the invariant that    *)
(* says it, AssemblyInv.                                                   *)
(***************************************************************************)
\* The first n fragments of the arguments of c.
Prefix(c, n) == [k \in 1 .. n |-> <<c, k>>]

\* What a list of fragments becomes when those parked under the ids in K are
\* appended to it.
Key(d) == IF d.id # NoId THEN d.id ELSE d.item
JoinedOne(list, K, d) == IF Key(d) \in K THEN AppendFragment(list, d.args) ELSE list

IsJoined(start, list, parked, K) ==
    \E f : /\ f[0] = start /\ f[Len(parked)] = list
           /\ \A n \in 1 .. Len(parked) : f[n] = JoinedOne(f[n - 1], K, parked[n])

\* A call is known once it was announced; it is kept under this id and kind.
Announce(w, p) == IF w = "responses" THEN Added(p) ELSE Event("start", p, 0)
Known(w, t, s) == {p \in ToolPlaces(t) : Announce(w, p) \in s}
IdFor(c) == IF KindOf[c] = "server" THEN ItemId(c) ELSE CallId(c)
KindFor(w, c) == IF w = "chat" THEN "" ELSE KindOf[c]

\* Whose the fragments of a call are is told by their item id or by their
\* true position, or it is not.
Tracked(w, t, g, p) ==
    \/ w # "responses"
    \/ KindOf[At(t, p)] \in {"server", "local_shell"}
    \/ KindOf[At(t, p)] = "function" /\ g.ids
    \/ ArgsIndex(t, g, p) = p
Lost(w, t, g) == \E p \in ToolPlaces(t) : ~Tracked(w, t, g, p)
Lone(t) == Cardinality(ToolPlaces(t)) <= 1
Tells(w, t, g) ==
    /\ Lone(t) \/ Placed(w, g) \/ ById(w, g, t)
    /\ g.early => g.ids /\ \A p \in ToolPlaces(t) : KindOf[At(t, p)] # "custom_tool"

\* n fragments of the call at p are there: those that were sent, or all.
Repeats(t, p) ==
    IF KindOf[At(t, p)] = "function" THEN {Event("argsdone", p, 0)} ELSE {}
Earned(t, s, p, n, snaps) ==
    /\ n \in 0 .. Len(Args(At(t, p)))
    /\ \A k \in 1 .. Pieces : Event("args", p, k) \in s => k <= n
    /\ snaps \cap s # {} => n = Len(Args(At(t, p)))
    /\ n = Len(Args(At(t, p))) \/ \A k \in 1 .. n : Event("args", p, k) \in s
Snaps(t, p) == Repeats(t, p) \cup {Event("done", p, 0)}

\* The ids and the positions that lead to calls.
Exact(w, t, g) == Placed(w, g) \/ Lost(w, t, g)
Guided(w, t, g, s, c) ==
    /\ \A x \in DOMAIN c.ids : \E p \in Known(w, t, s) :
          x \in IdsOf(t, p) /\ c.ids[x] = Place(w, t, p)
    /\ w = "responses" => \A p \in Known(w, t, s) : ItemIds(t, p) \subseteq DOMAIN c.ids
    /\ \A i \in DOMAIN c.outs : \E p \in Known(w, t, s) :
          /\ i <= Place(w, t, p) /\ c.outs[i] = Place(w, t, p)
          /\ Exact(w, t, g) => i = Place(w, t, p)
    /\ \A p \in Known(w, t, s) : Place(w, t, p) \in DOMAIN c.outs

\* The calls that are known, with their fragments.
Named(w, t, s, c) ==
    /\ DOMAIN c.acc = {Place(w, t, p) : p \in Known(w, t, s)}
    /\ \A p \in Known(w, t, s) :
          /\ c.acc[Place(w, t, p)].name = At(t, p)
          /\ c.acc[Place(w, t, p)].id = IdFor(At(t, p))
          /\ c.acc[Place(w, t, p)].kind = KindFor(w, At(t, p))

HasArgs(w, t, s, c, p) ==
    KindOf[At(t, p)] # "server" =>
       \E n : /\ Earned(t, s, p, n, Snaps(t, p))
              /\ c.acc[Place(w, t, p)].args = Prefix(At(t, p), n)

\* What is parked waits for a call that is not known yet.
Waiting(w, t, s) == ToolPlaces(t) \ Known(w, t, s)
Waits(w, t, s, c) ==
    /\ w # "responses" => c.parked = <<>>
    /\ \A n \in 1 .. Len(c.parked) : \E p \in Waiting(w, t, s) :
          KindOf[At(t, p)] = "function" /\ Key(c.parked[n]) = ItemId(At(t, p))
    /\ \A p \in Waiting(w, t, s) : \E n :
          /\ Earned(t, s, p, n, Snaps(t, p))
          /\ IsJoined(<<>>, Prefix(At(t, p), n), c.parked, {ItemId(At(t, p))})

\* The only call of a turn whose fragments tell nothing: they are all parked.
Stray(t, s, c) ==
    /\ \A n \in 1 .. Len(c.parked) : Key(c.parked[n]) = NoId
    /\ \A p \in ToolPlaces(t) :
          /\ \E n : /\ Earned(t, s, p, n, Repeats(t, p))
                    /\ IsJoined(<<>>, Prefix(At(t, p), n), c.parked, {NoId})
          /\ Event("done", p, 0) \in s => p \in Known("responses", t, s)
          /\ p \in Known("responses", t, s) =>
                c.acc[p].args = IF Event("done", p, 0) \in s THEN Args(At(t, p)) ELSE <<>>

Streamed(w, t, g, s, c) ==
    /\ Guided(w, t, g, s, c) /\ Named(w, t, s, c)
    /\ IF Lost(w, t, g) THEN Stray(t, s, c)
       ELSE Waits(w, t, s, c) /\ \A p \in Known(w, t, s) : HasArgs(w, t, s, c, p)

\* Calls that come in one piece: those of a buffered answer, and of Gemini.
Part(p) == Event("part", p, 0)
Home(w, g, t, p) == IF w = "gemini" /\ ~g.whole THEN 0 ELSE Place(w, t, p)
Taken(w, t, g, s) ==
    IF g.whole THEN IF s = {} \/ w = "responses" THEN {} ELSE ToolPlaces(t)
    ELSE {p \in ToolPlaces(t) : Part(p) \in s}
Shot(w, t, g, s, c) ==
    /\ DOMAIN c.acc = {Home(w, g, t, p) : p \in Taken(w, t, g, s)}
    /\ \A p \in Taken(w, t, g, s) :
          /\ c.acc[Home(w, g, t, p)].name = At(t, p)
          /\ c.acc[Home(w, g, t, p)].kind = "function"
          /\ c.acc[Home(w, g, t, p)].args = Args(At(t, p))
    /\ Taken(w, t, g, s) = {} => DOMAIN c.ids = {} /\ DOMAIN c.outs = {}
    /\ c.parked = <<>>

\* The texts and the reasoning that were sent.
SentPart(w, p, what) == IF w = "gemini" THEN Part(p) ELSE Event(what, p, 0)
SentTexts(w, t, g, s) ==
    IF g.whole THEN IF s = {} \/ w = "responses" THEN {} ELSE TextPlaces(t)
    ELSE {p \in TextPlaces(t) : SentPart(w, p, "text") \in s}
ThinkPlaces(t) == {p \in Positions(t) : At(t, p) = "think"}
SentThinks(w, t, g, s) ==
    IF g.whole THEN IF s = {} \/ w = "responses" THEN {} ELSE ThinkPlaces(t)
    ELSE {p \in ThinkPlaces(t) : SentPart(w, p, "think") \in s}
LastEvent(t, g) == IF g.whole THEN Event("whole", 0, 0) ELSE Event("end", Len(t), 0)
FinalOf(w, t, g) ==
    IF w # "responses" \/ (~g.whole /\ g.final = "none") THEN <<>>
    ELSE OutputItems(t, IF g.whole THEN [g EXCEPT !.final = "full"] ELSE g)
Spoken(w, t, g, s, c) ==
    /\ c.text = InOrder(SentTexts(w, t, g, s))
    /\ c.think \in Seq(Nat)
    /\ SentThinks(w, t, g, s) # {} => c.think # <<>>
    /\ ThinkPlaces(t) = {} => c.think = <<>> /\ c.items = <<>>
    /\ c.final = IF LastEvent(t, g) \in s THEN FinalOf(w, t, g) ELSE <<>>

Stream(w, g) == ~g.whole /\ w # "gemini"
Assembling(w, t, g, s, c) ==
    /\ Spoken(w, t, g, s, c)
    /\ Tells(w, t, g) => IF Stream(w, g) THEN Streamed(w, t, g, s, c) ELSE Shot(w, t, g, s, c)

AssemblyInv ==
    /\ Speaks(wire, gw, turn)
    /\ status # "loop" => Assembling(wire, turn, gw, sent, col)

\* The fragments of a call are its arguments once all are there.
LEMMA PrefixFacts ==
    ASSUME NEW c \in Tools
    PROVE  /\ Len(Args(c)) \in 0 .. Pieces
           /\ Prefix(c, Len(Args(c))) = Args(c)
           /\ Prefix(c, 0) = <<>>
           /\ Len(Args(c)) # 0 => Len(Args(c)) = Pieces
           /\ \A n \in 0 .. Pieces : /\ Prefix(c, n) \in Seq({c} \X (1 .. Pieces))
                                     /\ Len(Prefix(c, n)) = n
                                     /\ Prefix(c, n) = <<>> <=> n = 0
<1>p. Pieces \in Nat \ {0}
  BY PiecesAssumption
<1>1. \A n \in 0 .. Pieces : /\ Prefix(c, n) \in Seq({c} \X (1 .. Pieces))
                             /\ Len(Prefix(c, n)) = n
                             /\ Prefix(c, n) = <<>> <=> n = 0
  BY <1>p DEF Prefix
<1>2. CASE c \in Bare
  <2>1. Args(c) = <<>>
    BY <1>2 DEF Args
  <2>2. Prefix(c, 0) = <<>>
    BY DEF Prefix
  <2> QED BY <1>1, <1>p, <2>1, <2>2
<1>3. CASE c \notin Bare
  <2>1. Args(c) = Prefix(c, Pieces)
    BY <1>3 DEF Args, Prefix
  <2>2. Prefix(c, 0) = <<>>
    BY DEF Prefix
  <2>3. Len(Args(c)) = Pieces
    BY <1>1, <1>p, <2>1
  <2>4. Len(Args(c)) \in 0 .. Pieces /\ Prefix(c, Len(Args(c))) = Args(c)
    BY <1>p, <2>1, <2>3
  <2> QED BY <1>1, <2>2, <2>3, <2>4
<1> QED BY <1>2, <1>3

\* Only all fragments of a call close an object.
LEMMA PrefixComplete ==
    ASSUME NEW c \in Tools, NEW n \in 0 .. Pieces
    PROVE  IsComplete(Prefix(c, n)) <=> n = Pieces
<1>1. Pieces \in Nat \ {0} /\ Len(Prefix(c, n)) = n
  BY PrefixFacts, PiecesAssumption
<1>2. \A k \in 1 .. n : Prefix(c, n)[k] = <<c, k>>
  BY DEF Prefix
<1>3. \A k \in 1 .. n : Prefix(c, n)[k][2] = k
  BY <1>2
<1> QED BY <1>1, <1>3 DEF IsComplete

\* The next fragment is appended, and nothing to arguments that are whole.
LEMMA AppendPiece ==
    ASSUME NEW c \in Tools, NEW k \in 1 .. Len(Args(c)), NEW n \in {k - 1, Len(Args(c))}
    PROVE  AppendFragment(Prefix(c, n), Piece(c, k))
             = Prefix(c, IF n = Len(Args(c)) THEN n ELSE k)
<1>l. Len(Args(c)) \in 0 .. Pieces /\ (Len(Args(c)) # 0 => Len(Args(c)) = Pieces)
  BY PrefixFacts
<1>p. Pieces \in Nat \ {0} /\ Len(Args(c)) = Pieces /\ k \in 1 .. Pieces /\ n \in 0 .. Pieces
  BY <1>l, PiecesAssumption
<1>1. /\ Len(Prefix(c, n)) = n
      /\ Prefix(c, n) = <<>> <=> n = 0
      /\ Prefix(c, n) \in Seq({c} \X (1 .. Pieces))
  BY <1>p, PrefixFacts
<1>2. CASE n = Len(Args(c))
  BY <1>1, <1>2, <1>p, PrefixComplete DEF AppendFragment, IsPlaceholder
<1>3. CASE n # Len(Args(c)) /\ n = 0
  <2>1. k = 1 /\ Prefix(c, 1) = << <<c, 1>> >>
    BY <1>3, <1>p DEF Prefix
  <2> QED BY <1>1, <1>3, <1>p, <2>1 DEF AppendFragment, IsPlaceholder, Piece
<1>4. CASE n # Len(Args(c)) /\ n # 0
  <2>1. n = k - 1 /\ ~IsComplete(Prefix(c, n)) /\ ~IsPlaceholder(Prefix(c, n))
    BY <1>1, <1>4, <1>p, PrefixComplete DEF IsPlaceholder
  <2>2. AppendFragment(Prefix(c, n), Piece(c, k)) = Prefix(c, n) \o << <<c, k>> >>
    BY <2>1 DEF AppendFragment, Piece
  <2>3. Prefix(c, n) \o << <<c, k>> >> = Prefix(c, k)
    BY <1>p, <2>1 DEF Prefix
  <2> QED BY <1>4, <2>2, <2>3
<1> QED BY <1>2, <1>3, <1>4

\* A snapshot of the arguments adds nothing to them, and is them where there
\* are none.
LEMMA AppendArgs ==
    ASSUME NEW c \in Tools, NEW n \in {0, Len(Args(c))}
    PROVE  AppendFragment(Prefix(c, n), Args(c)) = Args(c)
<1>p. Pieces \in Nat \ {0} /\ Len(Args(c)) \in 0 .. Pieces /\ Prefix(c, 0) = <<>>
      /\ (Len(Args(c)) # 0 => Len(Args(c)) = Pieces)
      /\ Prefix(c, Len(Args(c))) = Args(c)
  BY PrefixFacts, PiecesAssumption
<1>1. CASE n = 0
  BY <1>1, <1>p DEF AppendFragment, IsPlaceholder
<1>2. CASE n # 0
  BY <1>2, <1>p, PrefixComplete DEF AppendFragment, IsPlaceholder
<1> QED BY <1>1, <1>2

\* Nothing is appended to what is joined.
LEMMA JoinedEmpty ==
    ASSUME NEW start, NEW K
    PROVE  IsJoined(start, start, <<>>, K)
<1> DEFINE f == [n \in {0} |-> start]
<1>1. /\ f[0] = start /\ f[Len(<<>>)] = start
      /\ \A n \in 1 .. Len(<<>>) : f[n] = JoinedOne(f[n - 1], K, <<>>[n])
  OBVIOUS
<1> HIDE DEF f
<1> QED BY <1>1 DEF IsJoined

\* One more fragment is parked.
LEMMA JoinedAppend ==
    ASSUME NEW start, NEW list, NEW Z, NEW parked \in Seq(Z), NEW K, NEW d \in Z,
           IsJoined(start, list, parked, K)
    PROVE  IsJoined(start, JoinedOne(list, K, d), Append(parked, d), K)
<1>1. PICK f : /\ f[0] = start /\ f[Len(parked)] = list
               /\ \A n \in 1 .. Len(parked) : f[n] = JoinedOne(f[n - 1], K, parked[n])
  BY DEF IsJoined
<1> DEFINE l == Len(parked)
           more == Append(parked, d)
           g == [n \in 0 .. l + 1 |-> IF n = l + 1 THEN JoinedOne(list, K, d) ELSE f[n]]
<1>2. /\ l \in Nat /\ Len(more) = l + 1 /\ more[l + 1] = d
      /\ \A n \in 1 .. l : more[n] = parked[n]
  OBVIOUS
<1>3. g[0] = start /\ g[Len(more)] = JoinedOne(list, K, d)
  BY <1>1, <1>2
<1>4. ASSUME NEW n \in 1 .. Len(more)
      PROVE  g[n] = JoinedOne(g[n - 1], K, more[n])
  <2>1. CASE n = l + 1
    <3>1. g[n - 1] = list
      BY <1>1, <1>2, <2>1
    <3> QED BY <1>2, <2>1, <3>1
  <2>2. CASE n \in 1 .. l
    <3>1. g[n] = f[n] /\ g[n - 1] = f[n - 1]
      BY <1>2, <2>2
    <3> QED BY <1>1, <1>2, <2>2, <3>1
  <2> QED BY <1>2, <2>1, <2>2
<1> QED BY <1>3, <1>4 DEF IsJoined

\* What is parked under other ids adds nothing.
LEMMA JoinedNone ==
    ASSUME NEW start, NEW list, NEW Z, NEW parked \in Seq(Z), NEW K,
           IsJoined(start, list, parked, K),
           \A n \in 1 .. Len(parked) : Key(parked[n]) \notin K
    PROVE  list = start
<1>1. PICK f : /\ f[0] = start /\ f[Len(parked)] = list
               /\ \A n \in 1 .. Len(parked) : f[n] = JoinedOne(f[n - 1], K, parked[n])
  BY DEF IsJoined
<1> DEFINE S == {n \in Nat : n <= Len(parked) => f[n] = start}
<1>2. 0 \in S
  BY <1>1
<1>3. ASSUME NEW n \in S PROVE n + 1 \in S
  <2>1. CASE n + 1 <= Len(parked)
    <3>1. f[n] = start /\ n + 1 \in 1 .. Len(parked)
      BY <2>1
    <3> DEFINE m == n + 1
    <3>2. m \in 1 .. Len(parked) /\ m - 1 = n
      BY <3>1
    <3>3. f[m] = JoinedOne(f[m - 1], K, parked[m]) /\ Key(parked[m]) \notin K
      BY <1>1, <3>2
    <3> QED BY <3>1, <3>2, <3>3 DEF JoinedOne
  <2> QED BY <2>1
<1>4. S = Nat
  BY <1>2, <1>3, SetInduction
<1> QED BY <1>1, <1>4

\* The ids that what is parked for a call goes by: none for a hosted call.
Grafted(tc, kind) == IF kind = "server" THEN {} ELSE {tc.id, tc.item} \ {NoId}

\* rest is what remains parked of a list when what goes by K is taken out.
Remains(rest, parked, K) ==
    /\ \A n \in 1 .. Len(rest) :
          Key(rest[n]) \notin K /\ \E m \in 1 .. Len(parked) : rest[n] = parked[m]
    /\ \A start, list, others :
          others \cap K = {} /\ IsJoined(start, list, parked, others) =>
             IsJoined(start, list, rest, others)

\* next is kept after the fragment d, which is appended or stays parked.
IsGraftedOne(next, kept, d, K) ==
    /\ DOMAIN next = {"args", "parked"}
    /\ next.args = JoinedOne(kept.args, K, d)
    /\ next.parked = IF Key(d) \in K THEN kept.parked ELSE Append(kept.parked, d)

\* One step of the grafting appends what is parked for the call, or keeps it.
LEMMA GraftedOne ==
    ASSUME NEW tc, NEW entry, NEW kept, NEW d, DOMAIN kept = {"args", "parked"},
           NEW K, K = Grafted(tc, entry.kind)
    PROVE  IsGraftedOne(GraftOne(tc, entry, kept, d), kept, d, K)
<1>1. ParkedFor(tc, d) /\ entry.kind # "server" <=> Key(d) \in K
  BY DEF ParkedFor, Key, Grafted
<1>2. CASE Key(d) \in K
  <2>1. GraftOne(tc, entry, kept, d) = [kept EXCEPT !.args = AppendFragment(kept.args, d.args)]
    BY <1>1, <1>2 DEF GraftOne
  <2> QED BY <1>2, <2>1 DEF JoinedOne, IsGraftedOne
<1>3. CASE Key(d) \notin K
  <2>1. GraftOne(tc, entry, kept, d) = [kept EXCEPT !.parked = Append(kept.parked, d)]
    BY <1>1, <1>3 DEF GraftOne
  <2> QED BY <1>3, <2>1 DEF JoinedOne, IsGraftedOne
<1> QED BY <1>2, <1>3

\* What the loop of the grafting has done after k fragments.
LEMMA GraftLoop ==
    ASSUME NEW tc, NEW entry, NEW Z, NEW parked \in Seq(Z), NEW f,
           Keeps(f, Len(parked), tc, entry, parked), NEW K, K = Grafted(tc, entry.kind)
    PROVE  /\ f[0] = [args |-> entry.args, parked |-> <<>>]
           /\ \A k \in 1 .. Len(parked) :
                 /\ f[k].args = JoinedOne(f[k - 1].args, K, parked[k])
                 /\ f[k].parked = IF Key(parked[k]) \in K THEN f[k - 1].parked
                                  ELSE Append(f[k - 1].parked, parked[k])
<1> DEFINE len == Len(parked)
<1>1. len \in Nat
  OBVIOUS
<1>2. \A k \in 0 .. len : f[k] = IF k = 0 THEN [args |-> entry.args, parked |-> <<>>]
                                 ELSE GraftOne(tc, entry, f[k - 1], parked[k])
  BY <1>1 DEF Keeps
<1> DEFINE N == {k \in Nat : k <= len => DOMAIN f[k] = {"args", "parked"}}
<1>3. f[0] = [args |-> entry.args, parked |-> <<>>]
  BY <1>1, <1>2
<1>4. 0 \in N
  BY <1>3
<1>5. ASSUME NEW k \in N PROVE k + 1 \in N
  <2> SUFFICES ASSUME k + 1 <= len PROVE DOMAIN f[k + 1] = {"args", "parked"}
    OBVIOUS
  <2>1. k + 1 \in 0 .. len /\ k + 1 # 0 /\ (k + 1) - 1 = k /\ DOMAIN f[k] = {"args", "parked"}
    BY <1>1
  <2>2. f[k + 1] = GraftOne(tc, entry, f[k], parked[k + 1])
    BY <1>2, <2>1
  <2>3. IsGraftedOne(GraftOne(tc, entry, f[k], parked[k + 1]), f[k], parked[k + 1], K)
    BY <2>1, GraftedOne
  <2> QED BY <2>2, <2>3 DEF IsGraftedOne
<1>6. N = Nat
  <2> HIDE DEF N
  <2>1. N \subseteq Nat
    BY DEF N
  <2> QED BY <1>4, <1>5, <2>1, SetInduction
<1>7. ASSUME NEW k \in 1 .. len
      PROVE  /\ f[k].args = JoinedOne(f[k - 1].args, K, parked[k])
             /\ f[k].parked = IF Key(parked[k]) \in K THEN f[k - 1].parked
                              ELSE Append(f[k - 1].parked, parked[k])
  <2>1. k - 1 \in Nat /\ k - 1 <= len /\ k \in 0 .. len /\ k # 0
    BY <1>1
  <2>2. DOMAIN f[k - 1] = {"args", "parked"}
    BY <1>6, <2>1
  <2>3. f[k] = GraftOne(tc, entry, f[k - 1], parked[k])
    BY <1>2, <2>1
  <2>4. IsGraftedOne(GraftOne(tc, entry, f[k - 1], parked[k]), f[k - 1], parked[k], K)
    BY <2>2, GraftedOne
  <2> QED BY <2>3, <2>4 DEF IsGraftedOne
<1> QED BY <1>3, <1>7

\* What is parked for others stays parked, in its order.
LEMMA GraftRemains ==
    ASSUME NEW tc, NEW entry, NEW Z, NEW parked \in Seq(Z), NEW f,
           Keeps(f, Len(parked), tc, entry, parked), NEW K, K = Grafted(tc, entry.kind)
    PROVE  /\ Remains(f[Len(parked)].parked, parked, K)
           /\ f[Len(parked)].parked \in Seq(Z)
           /\ IsJoined(entry.args, f[Len(parked)].args, parked, K)
<1> DEFINE len == Len(parked)
           Left == {d \in Z : Key(d) \notin K /\ \E m \in 1 .. len : d = parked[m]}
<1>1. len \in Nat /\ \A k \in 1 .. len : parked[k] \in Z
  OBVIOUS
<1>2. /\ f[0] = [args |-> entry.args, parked |-> <<>>]
      /\ \A k \in 1 .. len :
            /\ f[k].args = JoinedOne(f[k - 1].args, K, parked[k])
            /\ f[k].parked = IF Key(parked[k]) \in K THEN f[k - 1].parked
                             ELSE Append(f[k - 1].parked, parked[k])
  BY GraftLoop
<1>3. f[0].args = entry.args /\ f[0].parked = <<>>
  BY <1>2
<1>4. f[len].parked \in Seq(Left)
  <2> DEFINE N == {k \in Nat : k <= len => f[k].parked \in Seq(Left)}
  <2>1. 0 \in N
    <3>1. <<>> \in Seq(Left)
      <4> HIDE DEF Left
      <4> QED OBVIOUS
    <3> QED BY <1>3, <3>1
  <2>2. ASSUME NEW k \in N PROVE k + 1 \in N
    <3> SUFFICES ASSUME k + 1 <= len PROVE f[k + 1].parked \in Seq(Left)
      OBVIOUS
    <3> DEFINE m == k + 1
    <3>1. m \in 1 .. len /\ m - 1 = k /\ f[k].parked \in Seq(Left) /\ parked[m] \in Z
      BY <1>1
    <3> HIDE DEF m
    <3>2. f[m].parked = IF Key(parked[m]) \in K THEN f[k].parked
                        ELSE Append(f[k].parked, parked[m])
      BY <1>2, <3>1
    <3>3. Key(parked[m]) \notin K => parked[m] \in Left
      BY <3>1
    <3>4. f[m].parked \in Seq(Left)
      <4> HIDE DEF Left
      <4> QED BY <3>1, <3>2, <3>3
    <3> QED BY <3>4 DEF m
  <2>3. N = Nat
    <3> HIDE DEF N
    <3>1. N \subseteq Nat
      BY DEF N
    <3> QED BY <2>1, <2>2, <3>1, SetInduction
  <2> QED BY <1>1, <2>3
<1>5. IsJoined(entry.args, f[len].args, parked, K)
  <2> DEFINE g == [k \in 0 .. len |-> f[k].args]
  <2>1. g[0] = entry.args /\ g[len] = f[len].args
    BY <1>1, <1>3
  <2>2. ASSUME NEW k \in 1 .. len PROVE g[k] = JoinedOne(g[k - 1], K, parked[k])
    <3>1. g[k] = f[k].args /\ g[k - 1] = f[k - 1].args
      BY <1>1
    <3> QED BY <1>2, <3>1
  <2> HIDE DEF g
  <2> QED BY <2>1, <2>2 DEF IsJoined
<1>6. ASSUME NEW start, NEW list, NEW others, others \cap K = {},
             IsJoined(start, list, parked, others)
      PROVE  IsJoined(start, list, f[len].parked, others)
  <2>1. PICK h : /\ h[0] = start /\ h[len] = list
                 /\ \A n \in 1 .. len : h[n] = JoinedOne(h[n - 1], others, parked[n])
    BY <1>6 DEF IsJoined
  <2> DEFINE Good(k) == f[k].parked \in Seq(Z) /\ IsJoined(start, h[k], f[k].parked, others)
             N == {k \in Nat : k <= len => Good(k)}
  <2>2. 0 \in N
    <3>1. IsJoined(start, start, <<>>, others) /\ <<>> \in Seq(Z)
      BY JoinedEmpty
    <3> QED BY <1>3, <2>1, <3>1
  <2>3. ASSUME NEW k \in N PROVE k + 1 \in N
    <3> SUFFICES ASSUME k + 1 <= len PROVE Good(k + 1)
      OBVIOUS
    <3> DEFINE m == k + 1
    <3>1. m \in 1 .. len /\ m - 1 = k /\ Good(k) /\ parked[m] \in Z
      BY <1>1
    <3> HIDE DEF m
    <3>2. /\ f[m].parked = IF Key(parked[m]) \in K THEN f[k].parked
                           ELSE Append(f[k].parked, parked[m])
          /\ h[m] = JoinedOne(h[k], others, parked[m])
      BY <1>2, <2>1, <3>1
    <3>3. CASE Key(parked[m]) \in K
      <4>1. h[m] = h[k]
        BY <1>6, <3>2, <3>3 DEF JoinedOne
      <4> QED BY <3>1, <3>2, <3>3, <4>1 DEF m
    <3>4. CASE Key(parked[m]) \notin K
      <4>1. IsJoined(start, JoinedOne(h[k], others, parked[m]), Append(f[k].parked, parked[m]),
                     others)
        BY <3>1, JoinedAppend
      <4>2. Append(f[k].parked, parked[m]) \in Seq(Z)
        BY <3>1
      <4> QED BY <3>2, <3>4, <4>1, <4>2 DEF m
    <3> QED BY <3>3, <3>4
  <2>4. N = Nat
    <3> HIDE DEF N
    <3>1. N \subseteq Nat
      BY DEF N
    <3> QED BY <2>2, <2>3, <3>1, SetInduction
  <2> QED BY <1>1, <2>1, <2>4
<1>7. \A n \in 1 .. Len(f[len].parked) :
         Key(f[len].parked[n]) \notin K /\ \E m \in 1 .. len : f[len].parked[n] = parked[m]
  <2>1. \A n \in 1 .. Len(f[len].parked) : f[len].parked[n] \in Left
    BY <1>4
  <2> QED BY <2>1
<1>8. f[len].parked \in Seq(Z)
  BY <1>4, SeqWithin
<1> QED BY <1>5, <1>6, <1>7, <1>8 DEF Remains

\* What a delta adds to the arguments of its call: its own, then those parked
\* for it, which are taken out of what is parked.
IsExact(new, c, tc, idx, old) ==
    /\ IsJoined(Merge(tc, old).args, new.acc[idx].args, c.parked,
                Grafted(tc, Merge(tc, old).kind))
    /\ Remains(new.parked, c.parked, Grafted(tc, Merge(tc, old).kind))

\* Taking a delta that is resolved to the call idx, whose entry was old.
LEMMA TakenExact ==
    ASSUME NEW U, NEW c, Sound(c, U), NEW tc \in DeltaOf(U),
           NEW idx \in Nat, idx = Resolve(tc, c),
           NEW old, old = IF idx \in DOMAIN c.acc THEN c.acc[idx] ELSE NewEntry
    PROVE  /\ IsTaken(TakeDelta(c, tc), c, tc, idx, old, U, DeltaOf(U))
           /\ IsExact(TakeDelta(c, tc), c, tc, idx, old)
<1>0. old \in EntryOf(U)
  BY NewEntryType DEF Sound
<1>1. c.parked \in Seq(DeltaOf(U)) /\ DOMAIN c = Fields
  BY DEF Sound
<1>2. IsTaken(TakeDelta(c, tc), c, tc, idx, old, U, DeltaOf(U))
  <2>0. \A n \in 1 .. Len(c.parked) : c.parked[n] \in DeltaOf(U)
    BY <1>1
  <2>1. \A n \in 1 .. Len(c.parked) : c.parked[n].args \in Fragments(U)
    BY <2>0 DEF DeltaOf
  <2>2. ParkedFits(tc, c.parked, U)
    BY <2>1 DEF ParkedFits
  <2> QED BY <1>0, <1>1, <2>2, DeltaTaken
<1> DEFINE merged == Merge(tc, old)
           acc == With(c.acc, idx, merged)
           kept == Remember(tc, idx, [c EXCEPT !.acc = acc])
           new == TakeDelta(c, tc)
           K == Grafted(tc, merged.kind)
           len == Len(c.parked)
<1>3. new = Graft(tc, idx, kept)
  BY DEF TakeDelta, Unresolved
<1>4. DOMAIN kept = Fields /\ kept.acc = acc /\ kept.parked = c.parked
  <2>1. /\ DOMAIN [c EXCEPT !.acc = acc] = Fields /\ [c EXCEPT !.acc = acc].acc = acc
        /\ [c EXCEPT !.acc = acc].parked = c.parked
    <3> HIDE DEF acc
    <3> QED BY <1>1 DEF Fields
  <2> HIDE DEF acc
  <2> QED BY <2>1 DEF Remember, Fields
<1>5. acc[idx] = merged /\ idx \in DOMAIN acc
  BY DEF With
<1>6. merged \in EntryOf(U)
  BY <1>0, MergeType
<1>7. DOMAIN merged = {"id", "name", "kind", "args"}
  BY <1>6 DEF EntryOf
<1> HIDE DEF merged, acc, kept, new
<1>8. PICK f : /\ Keeps(f, len, tc, merged, c.parked)
               /\ new = [kept EXCEPT !.acc = With(acc, idx, [merged EXCEPT !.args = f[len].args]),
                                     !.parked = f[len].parked]
  <2> DEFINE f == CHOOSE f : Keeps(f, len, tc, merged, c.parked)
  <2>0. len \in Nat
    BY <1>1
  <2>1. Keeps(f, len, tc, merged, c.parked)
    BY <2>0, KeptExists
  <2>2. kept.acc[idx] = merged
    BY <1>4, <1>5
  <2>3. Graft(tc, idx, kept) =
          [kept EXCEPT !.acc = With(kept.acc, idx, [kept.acc[idx] EXCEPT !.args = f[len].args]),
                       !.parked = f[len].parked]
    BY <1>4, <2>2 DEF Graft, Keeps
  <2> HIDE DEF f
  <2> QED BY <1>3, <1>4, <2>1, <2>2, <2>3
<1>9. /\ Remains(f[len].parked, c.parked, K)
      /\ IsJoined(merged.args, f[len].args, c.parked, K)
  BY <1>1, <1>8, GraftRemains
<1>10. new.parked = f[len].parked /\ new.acc[idx].args = f[len].args
  <2> DEFINE entry == [merged EXCEPT !.args = f[len].args]
  <2>1. entry.args = f[len].args
    BY <1>7
  <2> HIDE DEF entry
  <2>2. With(acc, idx, entry)[idx] = entry
    BY DEF With
  <2>3. new.acc = With(acc, idx, entry) /\ new.parked = f[len].parked
    BY <1>4, <1>8 DEF Fields, entry
  <2> QED BY <2>1, <2>2, <2>3
<1>11. IsExact(new, c, tc, idx, old)
  BY <1>9, <1>10 DEF IsExact, merged
<1> QED BY <1>2, <1>11 DEF new

-----------------------------------------------------------------------------
(***************************************************************************)
(* What the events of a stream say, exactly.                               *)
(***************************************************************************)
StreamEvents(w, t, g) == IF w = "responses" THEN ResponsesEvents(t, g) ELSE IndexedEvents(t)

\* A delta of the item at p: it tells all of it but its arguments.
ItemSays(w, t, p, d) ==
    /\ d.index = Place(w, t, p) /\ d.name = At(t, p) /\ d.id = IdFor(At(t, p))
    /\ d.kind = KindFor(w, At(t, p))
    /\ w = "responses" => {d.id, d.item} \ {NoId} = ItemIds(t, p)

\* A delta with fragments of the call at p: it tells little else.
FragmentSays(w, t, g, p, d) ==
    /\ d.id = NoId /\ d.name = NoName /\ d.kind \in {"", KindFor(w, At(t, p))}
    /\ d.index = IF w = "responses" THEN ArgsIndex(t, g, p) ELSE Place(w, t, p)
    /\ d.index <= Place(w, t, p)
    /\ d.item = IF w = "responses" /\ KindOf[At(t, p)] = "function" /\ g.ids THEN ItemId(At(t, p))
                ELSE NoId
    /\ KindOf[At(t, p)] \in {"function", "custom_tool"}

\* The event e announces the call at p, repeats it, or has a fragment of it.
Opens(w, t, p, e, d) ==
    /\ e = Announce(w, p) /\ ItemSays(w, t, p, d)
    /\ d.args = IF KindOf[At(t, p)] = "local_shell" THEN Args(At(t, p)) ELSE <<>>
Ends(w, t, p, e, d) ==
    /\ w = "responses" /\ e = Event("done", p, 0) /\ ItemSays(w, t, p, d)
    /\ d.args = Args(At(t, p))
Advances(w, t, p, e, d) ==
    /\ w = "responses" /\ e = Event("progress", p, 0) /\ ItemSays(w, t, p, d)
    /\ KindOf[At(t, p)] = "server" /\ d.args = <<>>
Adds(w, t, g, p, e, d) ==
    /\ e = Event("args", p, e.k) /\ e.k \in 1 .. Len(Args(At(t, p)))
    /\ FragmentSays(w, t, g, p, d) /\ d.args = Piece(At(t, p), e.k)
Closes(w, t, g, p, e, d) ==
    /\ w = "responses" /\ e = Event("argsdone", p, 0) /\ FragmentSays(w, t, g, p, d)
    /\ KindOf[At(t, p)] = "function" /\ d.args = Args(At(t, p))
Acts(w, t, g, e, d) ==
    \/ Opens(w, t, e.p, e, d) \/ Ends(w, t, e.p, e, d) \/ Advances(w, t, e.p, e, d)
    \/ Adds(w, t, g, e.p, e, d) \/ Closes(w, t, g, e.p, e, d)

\* Or it is about no call.
Quiet(w, t, e) ==
    \A p \in ToolPlaces(t) : /\ e # Announce(w, p) /\ e \notin Snaps(t, p)
                             /\ \A k \in Nat : e # Event("args", p, k)

IsStreamChunk(ch, w, t, g, e) ==
    \/ e.p \in ToolPlaces(t) /\ \E d \in Own(t, e.p) : ch = Calls(<<d>>) /\ Acts(w, t, g, e, d)
    \/ ch.calls = <<>> /\ Quiet(w, t, e)

\* The events of the Responses API, each with what it is about.
IsResponsesEvent(t, g, e) ==
    \/ /\ e.p \in ToolPlaces(t)
       /\ \/ e = Event("added", e.p, 0)
          \/ e = Event("done", e.p, 0)
          \/ e = Event("progress", e.p, 0) /\ KindOf[At(t, e.p)] = "server"
          \/ /\ KindOf[At(t, e.p)] \in {"function", "custom_tool"}
             /\ \/ e = Event("args", e.p, e.k) /\ e.k \in 1 .. Len(Args(At(t, e.p))) /\ g.deltas
                \/ e = Event("argsdone", e.p, 0)
    \/ e.p \in TextPlaces(t) /\ e = Event("text", e.p, 0)
    \/ e.p \in ThinkPlaces(t) /\ e \in {Event("think", e.p, 0), Event("item", e.p, 0)}
    \/ e = Event("end", Len(t), 0)

\* Nothing else is an event of the Responses API.
LEMMA ResponsesEvent ==
    ASSUME NEW t \in Turns, NEW g, NEW e \in ResponsesEvents(t, g)
    PROVE  IsResponsesEvent(t, g, e)
<1>1. CASE e = Event("end", Len(t), 0)
  BY <1>1 DEF IsResponsesEvent
<1>2. CASE e # Event("end", Len(t), 0)
  <2> DEFINE c(p) == At(t, p)
  <2>1. PICK p \in Positions(t) : e \in ItemEvents(t, g, p)
    BY <1>2 DEF ResponsesEvents
  <2>2. c(p) \in Tools \cup {"text", "think"} /\ "text" \notin Tools /\ "think" \notin Tools
    BY TurnFacts, StreamAssumption
  <2>3. c(p) \in Tools => p \in ToolPlaces(t)
    BY DEF ToolPlaces, ToolAt
  <2>4. CASE c(p) = "text"
    <3>1. e = Event("text", p, 0)
      BY <2>1, <2>2, <2>4, SMT DEF ItemEvents
    <3> QED BY <2>4, <3>1 DEF IsResponsesEvent, TextPlaces, Event
  <2>5. CASE c(p) = "think"
    <3>1. e \in {Event("think", p, 0), Event("item", p, 0)}
      BY <2>1, <2>2, <2>5, SMT DEF ItemEvents
    <3> QED BY <2>5, <3>1 DEF IsResponsesEvent, ThinkPlaces, Event
  <2>6. CASE c(p) \in Tools /\ KindOf[c(p)] = "server"
    <3>1. e \in {Event(a, p, 0) : a \in {"added", "progress", "done"}}
      BY <2>1, <2>2, <2>6 DEF ItemEvents
    <3> QED BY <2>3, <2>6, <3>1 DEF IsResponsesEvent, Event
  <2>7. CASE c(p) \in Tools /\ KindOf[c(p)] = "local_shell"
    <3>1. e \in {Event(a, p, 0) : a \in {"added", "done"}}
      BY <2>1, <2>2, <2>7 DEF ItemEvents
    <3> QED BY <2>3, <2>7, <3>1 DEF IsResponsesEvent, Event
  <2>8. CASE c(p) \in Tools /\ KindOf[c(p)] \notin {"server", "local_shell"}
    <3>1. e \in {Event("added", p, 0)}
                 \cup (IF g.deltas THEN {Event("args", p, k) : k \in 1 .. Len(Args(c(p)))} ELSE {})
                 \cup (IF g.done THEN {Event("argsdone", p, 0), Event("done", p, 0)} ELSE {})
      BY <2>1, <2>2, <2>8 DEF ItemEvents
    <3>2. KindOf[c(p)] \in {"function", "custom_tool"}
      BY <2>8, KindFacts
    <3>3. \/ e \in {Event("added", p, 0), Event("argsdone", p, 0), Event("done", p, 0)}
          \/ g.deltas /\ \E k \in 1 .. Len(Args(c(p))) : e = Event("args", p, k)
      BY <3>1
    <3> QED BY <2>3, <2>8, <3>2, <3>3 DEF IsResponsesEvent, Event
  <2> QED BY <2>2, <2>4, <2>5, <2>6, <2>7, <2>8
<1> QED BY <1>1, <1>2

\* The events of Chat Completions and Messages, each with what it is about.
IsIndexedEvent(t, e) ==
    \/ /\ e.p \in ToolPlaces(t)
       /\ \/ e = Event("start", e.p, 0)
          \/ e = Event("args", e.p, e.k) /\ e.k \in 1 .. Len(Args(At(t, e.p)))
    \/ e.p \in TextPlaces(t) /\ e = Event("text", e.p, 0)
    \/ e.p \in ThinkPlaces(t) /\ e = Event("think", e.p, 0)
    \/ e = Event("end", Len(t), 0)

\* Nothing else is an event of Chat Completions and Messages.
LEMMA IndexedEvent ==
    ASSUME NEW t \in Turns, NEW e \in IndexedEvents(t)
    PROVE  IsIndexedEvent(t, e)
<1>1. CASE e = Event("end", Len(t), 0)
  BY <1>1 DEF IsIndexedEvent
<1>2. CASE e # Event("end", Len(t), 0)
  <2>1. PICK p \in Positions(t) : e \in PartEvents(t, p)
    BY <1>2 DEF IndexedEvents
  <2>2. At(t, p) \in Tools \cup {"text", "think"}
    BY TurnFacts
  <2>3. CASE At(t, p) \in Tools
    <3>1. p \in ToolPlaces(t)
      BY <2>3 DEF ToolPlaces, ToolAt
    <3>2. \/ e = Event("start", p, 0)
          \/ \E k \in 1 .. Len(Args(At(t, p))) : e = Event("args", p, k)
      BY <2>1, <2>3 DEF PartEvents
    <3> QED BY <3>1, <3>2 DEF Event, IsIndexedEvent
  <2>4. CASE At(t, p) \notin Tools
    <3>1. e = Event(At(t, p), p, 0)
      BY <2>1, <2>4 DEF PartEvents
    <3> QED BY <2>2, <2>4, <3>1 DEF Event, IsIndexedEvent, TextPlaces, ThinkPlaces
  <2> QED BY <2>3, <2>4
<1> QED BY <1>1, <1>2

\* The delta of an item, with these arguments.
LEMMA ItemDeltaSays ==
    ASSUME NEW t \in Turns, NEW p \in ToolPlaces(t), NEW args \in Fragments({At(t, p)})
    PROVE  /\ ItemDelta(t, p, args) \in Own(t, p) /\ ItemSays("responses", t, p, ItemDelta(t, p, args))
           /\ ItemDelta(t, p, args).args = args
<1> DEFINE d == ItemDelta(t, p, args)
<1>1. /\ d \in Own(t, p) /\ d.index = p /\ d.name = At(t, p) /\ d.kind = KindOf[At(t, p)]
      /\ {d.id, d.item} \ {NoId} = ItemIds(t, p)
  BY ItemDeltaFacts
<1>2. d.id = IdFor(At(t, p)) /\ d.args = args
  BY DEF ItemDelta, Delta, IdFor
<1> HIDE DEF d
<1>3. ItemSays("responses", t, p, d)
  BY <1>1, <1>2 DEF ItemSays, Place, KindFor
<1> QED BY <1>1, <1>2, <1>3 DEF d

\* The delta of fragments of a call.
LEMMA ArgsDeltaSays ==
    ASSUME NEW t \in Turns, NEW p \in ToolPlaces(t), NEW g \in Gateways,
           NEW args \in Fragments({At(t, p)}), KindOf[At(t, p)] \in {"function", "custom_tool"}
    PROVE  /\ ArgsDelta(t, g, p, args) \in Own(t, p)
           /\ FragmentSays("responses", t, g, p, ArgsDelta(t, g, p, args))
           /\ ArgsDelta(t, g, p, args).args = args
<1> DEFINE d == ArgsDelta(t, g, p, args)
<1>1. d \in Own(t, p) /\ d.index <= p
  BY ArgsDeltaFacts
<1>2. /\ d.id = NoId /\ d.name = NoName /\ d.kind = KindOf[At(t, p)]
      /\ d.index = ArgsIndex(t, g, p) /\ d.args = args
      /\ d.item = IF KindOf[At(t, p)] = "function" /\ g.ids THEN ItemId(At(t, p)) ELSE NoId
  BY DEF ArgsDelta, Delta
<1> HIDE DEF d
<1>3. FragmentSays("responses", t, g, p, d)
  BY <1>1, <1>2 DEF FragmentSays, Place, KindFor
<1> QED BY <1>1, <1>2, <1>3 DEF d

\* What a chunk says besides calls: text, reasoning, the terminal output.
Conveys(ch, t, g, e) ==
    /\ ch.text = TextOf(e) /\ ch.think = IF e.t = "think" THEN <<e.p>> ELSE <<>>
    /\ e.t # "item" => ch.items = <<>>
    /\ ch.final = IF e.t = "end" /\ g.final # "none" THEN OutputItems(t, g) ELSE <<>>

\* A chunk of calls says nothing else.
LEMMA CallsTell ==
    ASSUME NEW seq, NEW t, NEW g, NEW e, e.t \notin {"text", "think", "end"}
    PROVE  Conveys(Calls(seq), t, g, e)
BY DEF Conveys, TextOf, Calls, EmptyChunk

\* An empty chunk says nothing.
LEMMA EmptyTells ==
    ASSUME NEW t, NEW g, NEW e, e.t \notin {"text", "think", "end"}
    PROVE  Conveys(EmptyChunk, t, g, e) /\ EmptyChunk.calls = <<>>
BY DEF Conveys, TextOf, EmptyChunk

\* Events of these types are about no call.
LEMMA QuietEvents ==
    ASSUME NEW w \in {"responses", "chat", "messages"}, NEW t, NEW e,
           \/ e.t \in {"text", "think", "item", "end"}
           \/ e.t = "argsdone" /\ KindOf[At(t, e.p)] # "function"
    PROVE  Quiet(w, t, e)
BY DEF Quiet, Announce, Added, Snaps, Repeats, Event

\* Every event of the Responses API is decoded so.
LEMMA ResponsesSay ==
    ASSUME NEW t \in Turns, NEW g \in Gateways, NEW e \in ResponsesEvents(t, g)
    PROVE  /\ IsStreamChunk(DecodeResponses(t, g, e), "responses", t, g, e)
           /\ Conveys(DecodeResponses(t, g, e), t, g, e)
<1> DEFINE ch == DecodeResponses(t, g, e)
           c == At(t, e.p)
           p == e.p
           w == "responses"
<1>0. IsResponsesEvent(t, g, e)
  BY ResponsesEvent
<1>a. ASSUME e.p \in ToolPlaces(t)
      PROVE  /\ c \in Tools /\ Args(c) \in Fragments({c}) /\ <<>> \in Fragments({c})
             /\ \A k \in 1 .. Len(Args(c)) : Piece(c, k) \in Fragments({c})
  <2>1. c \in Tools
    BY <1>a, TurnFacts
  <2>2. Len(Args(c)) \in Nat /\ Len(Args(c)) <= Pieces /\ Pieces \in Nat
    BY <2>1, ArgsFacts, PiecesAssumption
  <2>3. \A k \in 1 .. Len(Args(c)) : k \in 1 .. Pieces
    BY <2>2
  <2>4. /\ Args(c) \in Fragments({c}) /\ <<>> \in Fragments({c})
        /\ \A k \in 1 .. Pieces : Piece(c, k) \in Fragments({c})
    BY <2>1, ArgsFacts
  <2> HIDE DEF c
  <2> QED BY <2>1, <2>3, <2>4
<1>1. CASE e.p \in ToolPlaces(t) /\ e = Event("added", e.p, 0)
  <2> DEFINE args == IF KindOf[c] = "local_shell" THEN Args(c) ELSE <<>>
             d == ItemDelta(t, p, args)
  <2>0. e.t = "added"
    BY <1>1 DEF Event
  <2>1. ch = Calls(<<d>>)
    BY <2>0 DEF DecodeResponses, DecodeItem
  <2>2. args \in Fragments({c})
    BY <1>1, <1>a
  <2> HIDE DEF args
  <2>3. d \in Own(t, p) /\ ItemSays(w, t, p, d) /\ d.args = args
    BY <1>1, <2>2, ItemDeltaSays
  <2> HIDE DEF d
  <2>4. Opens(w, t, p, e, d)
    BY <1>1, <2>3 DEF Opens, Announce, Added, args
  <2>5. Conveys(Calls(<<d>>), t, g, e)
    BY <2>0, CallsTell
  <2> HIDE DEF ch
  <2> QED BY <1>1, <2>1, <2>3, <2>4, <2>5 DEF Acts, IsStreamChunk, ch
<1>2. CASE e.p \in ToolPlaces(t) /\ e = Event("done", e.p, 0)
  <2> DEFINE d == ItemDelta(t, p, Args(c))
  <2>0. e.t = "done"
    BY <1>2 DEF Event
  <2>1. ch = Calls(<<d>>)
    BY <2>0 DEF DecodeResponses, DecodeItem
  <2>3. d \in Own(t, p) /\ ItemSays(w, t, p, d) /\ d.args = Args(c)
    BY <1>2, <1>a, ItemDeltaSays
  <2> HIDE DEF d
  <2>4. Ends(w, t, p, e, d)
    BY <1>2, <2>3 DEF Ends
  <2>5. Conveys(Calls(<<d>>), t, g, e)
    BY <2>0, CallsTell
  <2> HIDE DEF ch
  <2> QED BY <1>2, <2>1, <2>3, <2>4, <2>5 DEF Acts, IsStreamChunk, ch
<1>3. CASE e.p \in ToolPlaces(t) /\ e = Event("progress", e.p, 0) /\ KindOf[c] = "server"
  <2> DEFINE d == Delta(p, ItemId(c), ItemId(c), "server", c, <<>>)
  <2>0. e.t = "progress"
    BY <1>3 DEF Event
  <2>1. ch = Calls(<<d>>)
    BY <2>0 DEF DecodeResponses, DecodeProgress
  <2>2. d \in Own(t, p)
    <3>1. ItemId(c) \in {NoId} \cup IdsOf(t, p) /\ "server" \in DeltaKinds
      BY DEF IdsOf, DeltaKinds
    <3>2. p \in Nat
      BY <1>3, TurnFacts
    <3> QED BY <1>3, <1>a, <3>1, <3>2, OwnDelta
  <2>3. ItemSays(w, t, p, d) /\ d.args = <<>>
    <3>1. /\ d.index = p /\ d.id = ItemId(c) /\ d.item = ItemId(c) /\ d.kind = "server"
          /\ d.name = c /\ d.args = <<>>
      BY DEF Delta
    <3>2. ItemId(c) # NoId
      BY DEF ItemId, NoId
    <3> HIDE DEF d
    <3>3. Place(w, t, p) = p /\ KindFor(w, c) = "server" /\ IdFor(c) = ItemId(c)
          /\ ItemIds(t, p) = {ItemId(c)}
      BY <1>3 DEF Place, KindFor, IdFor, ItemIds
    <3>4. {d.id, d.item} \ {NoId} = {ItemId(c)}
      BY <3>1, <3>2
    <3> QED BY <3>1, <3>3, <3>4 DEF ItemSays
  <2> HIDE DEF d
  <2>4. Advances(w, t, p, e, d)
    BY <1>3, <2>3 DEF Advances
  <2>5. Conveys(Calls(<<d>>), t, g, e)
    BY <2>0, CallsTell
  <2> HIDE DEF ch
  <2> QED BY <1>3, <2>1, <2>2, <2>4, <2>5 DEF Acts, IsStreamChunk, ch
<1>4. CASE /\ e.p \in ToolPlaces(t) /\ KindOf[c] \in {"function", "custom_tool"}
           /\ e = Event("args", e.p, e.k) /\ e.k \in 1 .. Len(Args(c))
  <2> DEFINE d == ArgsDelta(t, g, p, Piece(c, e.k))
  <2>0. e.t = "args"
    BY <1>4 DEF Event
  <2>1. ch = Calls(<<d>>)
    BY <2>0 DEF DecodeResponses, DecodeArguments
  <2>3. d \in Own(t, p) /\ FragmentSays(w, t, g, p, d) /\ d.args = Piece(c, e.k)
    BY <1>4, <1>a, ArgsDeltaSays
  <2> HIDE DEF d
  <2>4. Adds(w, t, g, p, e, d)
    BY <1>4, <2>3 DEF Adds
  <2>5. Conveys(Calls(<<d>>), t, g, e)
    BY <2>0, CallsTell
  <2> HIDE DEF ch
  <2> QED BY <1>4, <2>1, <2>3, <2>4, <2>5 DEF Acts, IsStreamChunk, ch
<1>5. CASE e.p \in ToolPlaces(t) /\ KindOf[c] = "function" /\ e = Event("argsdone", e.p, 0)
  <2> DEFINE d == ArgsDelta(t, g, p, Args(c))
  <2>0. e.t = "argsdone"
    BY <1>5 DEF Event
  <2>1. ch = Calls(<<d>>)
    BY <1>5, <2>0 DEF DecodeResponses, DecodeArguments
  <2>3. d \in Own(t, p) /\ FragmentSays(w, t, g, p, d) /\ d.args = Args(c)
    BY <1>5, <1>a, ArgsDeltaSays
  <2> HIDE DEF d
  <2>4. Closes(w, t, g, p, e, d)
    BY <1>5, <2>3 DEF Closes
  <2>5. Conveys(Calls(<<d>>), t, g, e)
    BY <2>0, CallsTell
  <2> HIDE DEF ch
  <2> QED BY <1>5, <2>1, <2>3, <2>4, <2>5 DEF Acts, IsStreamChunk, ch
<1>6. CASE KindOf[c] = "custom_tool" /\ e = Event("argsdone", e.p, 0)
  <2>0. e.t = "argsdone"
    BY <1>6 DEF Event
  <2>1. ch = EmptyChunk
    BY <1>6, <2>0 DEF DecodeResponses, DecodeArguments
  <2>2. Quiet(w, t, e)
    BY <1>6, <2>0, QuietEvents
  <2> QED BY <2>0, <2>1, <2>2, EmptyTells DEF IsStreamChunk
<1>7. CASE e.t \in {"text", "think", "item", "end"}
  <2>1. Quiet(w, t, e)
    BY <1>7, QuietEvents
  <2>2. ch.calls = <<>> /\ Conveys(ch, t, g, e)
    <3>1. CASE e.t = "text"
      BY <3>1 DEF DecodeResponses, Texts, EmptyChunk, Conveys, TextOf
    <3>2. CASE e.t = "think"
      BY <3>2 DEF DecodeResponses, Thinks, EmptyChunk, Conveys, TextOf
    <3>3. CASE e.t = "item"
      BY <3>3 DEF DecodeResponses, DecodeItem, EmptyChunk, Conveys, TextOf
    <3>4. CASE e.t = "end"
      BY <3>4 DEF DecodeResponses, DecodeTerminal, EmptyChunk, Conveys, TextOf
    <3> QED BY <1>7, <3>1, <3>2, <3>3, <3>4
  <2> QED BY <2>1, <2>2 DEF IsStreamChunk
<1>8. \/ e.t \in {"text", "think", "item", "end"}
      \/ /\ e.p \in ToolPlaces(t)
         /\ \/ e = Event("added", e.p, 0)
            \/ e = Event("done", e.p, 0)
            \/ e = Event("progress", e.p, 0) /\ KindOf[c] = "server"
            \/ /\ KindOf[c] \in {"function", "custom_tool"}
               /\ \/ e = Event("args", e.p, e.k) /\ e.k \in 1 .. Len(Args(c))
                  \/ e = Event("argsdone", e.p, 0)
  <2>1. \A q, k : Event("text", q, k).t = "text" /\ Event("think", q, k).t = "think"
                  /\ Event("item", q, k).t = "item" /\ Event("end", q, k).t = "end"
    BY DEF Event
  <2> QED BY <1>0, <2>1 DEF IsResponsesEvent
<1> HIDE DEF ch, c, p
<1> QED BY <1>1, <1>2, <1>3, <1>4, <1>5, <1>6, <1>7, <1>8 DEF ch, c, p

\* Every event of Chat Completions and Messages is decoded so.
LEMMA IndexedSay ==
    ASSUME NEW t \in Turns, NEW g \in Gateways, NEW w \in {"chat", "messages"}, Speaks(w, g, t),
           NEW e \in IndexedEvents(t)
    PROVE  /\ IsStreamChunk(DecodeIndexed(w, t, e), w, t, g, e)
           /\ DecodeIndexed(w, t, e).final = <<>>
           /\ Conveys(DecodeIndexed(w, t, e), t, [g EXCEPT !.final = "none"], e)
<1> DEFINE ch == DecodeIndexed(w, t, e)
           c == At(t, e.p)
           p == e.p
           idx == CallIndex(w, t, e.p)
           h == [g EXCEPT !.final = "none"]
<1>0. IsIndexedEvent(t, e) /\ h.final = "none"
  BY IndexedEvent, StreamAssumption
<1>a. ASSUME e.p \in ToolPlaces(t)
      PROVE  /\ c \in Tools /\ <<>> \in Fragments({c}) /\ KindOf[c] = "function"
             /\ \A k \in 1 .. Len(Args(c)) : Piece(c, k) \in Fragments({c})
             /\ idx = Place(w, t, p) /\ idx \in Nat
  <2>1. c \in Tools /\ p + 1 \in 1 .. Len(t) /\ t[p + 1] = c
    BY <1>a, TurnFacts DEF At
  <2>2. Len(Args(c)) \in Nat /\ Len(Args(c)) <= Pieces /\ Pieces \in Nat
    BY <2>1, ArgsFacts, PiecesAssumption
  <2>3. \A k \in 1 .. Len(Args(c)) : k \in 1 .. Pieces
    BY <2>2
  <2>4. <<>> \in Fragments({c}) /\ \A k \in 1 .. Pieces : Piece(c, k) \in Fragments({c})
    BY <2>1, ArgsFacts
  <2>5. idx = Place(w, t, p) /\ idx \in Nat
    BY <1>a, PlaceApart DEF Place, CallIndex
  <2>6. KindOf[c] = "function"
    BY <2>1 DEF Speaks
  <2> HIDE DEF c, idx
  <2> QED BY <2>1, <2>3, <2>4, <2>5, <2>6
<1>1. CASE e.p \in ToolPlaces(t) /\ e = Event("start", e.p, 0)
  <2> DEFINE kind == IF w = "messages" THEN "function" ELSE ""
             d == Delta(idx, CallId(c), NoId, kind, c, <<>>)
  <2>0. e.t = "start"
    BY <1>1 DEF Event
  <2>1. ch = Calls(<<d>>)
    BY <2>0 DEF DecodeIndexed
  <2>2. CallId(c) \in {NoId} \cup IdsOf(t, p) /\ kind \in DeltaKinds
    BY DEF IdsOf, DeltaKinds
  <2>3. d.index = idx /\ d.name = c /\ d.id = CallId(c) /\ d.kind = kind /\ d.args = <<>>
    BY DEF Delta
  <2>4. d \in Own(t, p)
    <3> HIDE DEF kind, idx
    <3> QED BY <1>1, <1>a, <2>2, OwnDelta
  <2>5. kind = KindFor(w, c) /\ CallId(c) = IdFor(c)
    BY <1>1, <1>a DEF KindFor, IdFor
  <2> HIDE DEF d, kind, idx
  <2>6. ItemSays(w, t, p, d)
    BY <1>1, <1>a, <2>3, <2>5 DEF ItemSays
  <2>7. Opens(w, t, p, e, d)
    BY <1>1, <1>a, <2>3, <2>6 DEF Opens, Announce
  <2>8. Conveys(Calls(<<d>>), t, h, e)
    BY <2>0, CallsTell
  <2>9. Calls(<<d>>).final = <<>>
    BY CallsFacts
  <2> HIDE DEF ch, h
  <2> QED BY <1>1, <2>1, <2>4, <2>7, <2>8, <2>9 DEF Acts, IsStreamChunk, ch, h
<1>2. CASE /\ e.p \in ToolPlaces(t) /\ e = Event("args", e.p, e.k)
           /\ e.k \in 1 .. Len(Args(c))
  <2> DEFINE d == Delta(idx, NoId, NoId, "", NoName, Piece(c, e.k))
  <2>0. e.t = "args"
    BY <1>2 DEF Event
  <2>1. ch = Calls(<<d>>)
    BY <2>0 DEF DecodeIndexed
  <2>3. /\ d.index = idx /\ d.name = NoName /\ d.id = NoId /\ d.item = NoId /\ d.kind = ""
        /\ d.args = Piece(c, e.k)
    BY DEF Delta
  <2>4. d \in Own(t, p)
    <3>1. "" \in DeltaKinds /\ Piece(c, e.k) \in Fragments({c})
      BY <1>2, <1>a DEF DeltaKinds
    <3> HIDE DEF idx
    <3> QED BY <1>2, <1>a, <3>1, OwnDelta
  <2> HIDE DEF d, idx
  <2>5. KindOf[c] = "function" /\ idx = Place(w, t, p) /\ idx \in Nat
    BY <1>2, <1>a
  <2>6. FragmentSays(w, t, g, p, d)
    <3> DEFINE x == Place(w, t, p)
    <3>0. d.index = x /\ x \in Nat
      BY <2>3, <2>5
    <3> HIDE DEF x
    <3>1. d.index = x /\ d.index <= x
      BY <3>0
    <3> USE DEF x
    <3> QED BY <2>3, <2>5, <3>1 DEF FragmentSays
  <2>7. Adds(w, t, g, p, e, d)
    BY <1>2, <2>3, <2>6 DEF Adds
  <2>8. Conveys(Calls(<<d>>), t, h, e)
    BY <2>0, CallsTell
  <2>9. Calls(<<d>>).final = <<>>
    BY CallsFacts
  <2> HIDE DEF ch, h
  <2> QED BY <1>2, <2>1, <2>4, <2>7, <2>8, <2>9 DEF Acts, IsStreamChunk, ch, h
<1>3. CASE e.t \in {"text", "think", "end"}
  <2>1. Quiet(w, t, e)
    BY <1>3, QuietEvents
  <2>2. ch.calls = <<>> /\ Conveys(ch, t, h, e) /\ ch.final = <<>>
    <3>1. CASE e.t = "text"
      BY <3>1 DEF DecodeIndexed, Texts, EmptyChunk, Conveys, TextOf
    <3>2. CASE e.t = "think"
      BY <3>2 DEF DecodeIndexed, Thinks, EmptyChunk, Conveys, TextOf
    <3>4. CASE e.t = "end"
      BY <1>0, <3>4 DEF DecodeIndexed, EmptyChunk, Conveys, TextOf
    <3> QED BY <1>3, <3>1, <3>2, <3>4
  <2> QED BY <2>1, <2>2 DEF IsStreamChunk
<1>4. \/ e.t \in {"text", "think", "end"}
      \/ /\ e.p \in ToolPlaces(t)
         /\ \/ e = Event("start", e.p, 0)
            \/ e = Event("args", e.p, e.k) /\ e.k \in 1 .. Len(Args(c))
  <2>1. \A q, k : Event("text", q, k).t = "text" /\ Event("think", q, k).t = "think"
                  /\ Event("end", q, k).t = "end"
    BY DEF Event
  <2> QED BY <1>0, <2>1 DEF IsIndexedEvent
<1> HIDE DEF ch, c, p, idx, h
<1> QED BY <1>1, <1>2, <1>3, <1>4 DEF ch, c, p, h

\* What a stream is sure to send: its calls and their fragments, its texts, its
\* reasoning, and the end.
IsSent(w, t, g, S) ==
    /\ \A p \in ToolPlaces(t) :
          /\ Announce(w, p) \in S
          /\ KindOf[At(t, p)] \in {"function", "custom_tool"} =>
                /\ w # "responses" \/ g.deltas =>
                      \A k \in 1 .. Len(Args(At(t, p))) : Event("args", p, k) \in S
                /\ w = "responses" /\ g.done => {Event("done", p, 0)} \cup Repeats(t, p) \subseteq S
    /\ \A p \in TextPlaces(t) : Event("text", p, 0) \in S
    /\ \A p \in ThinkPlaces(t) : Event("think", p, 0) \in S
    /\ Event("end", Len(t), 0) \in S

\* All of that is among the events of a stream, whatever the gateway leaves out.
LEMMA StreamSends ==
    ASSUME NEW t \in Turns, NEW g, NEW w \in {"responses", "chat", "messages"}
    PROVE  IsSent(w, t, g, StreamEvents(w, t, g))
<1> DEFINE S == StreamEvents(w, t, g)
           Of(p) == IF w = "responses" THEN ItemEvents(t, g, p) ELSE PartEvents(t, p)
<1>1. \A p \in Positions(t) : Of(p) \subseteq S
  BY DEF StreamEvents, ResponsesEvents, IndexedEvents
<1>2. Event("end", Len(t), 0) \in S
  BY DEF StreamEvents, ResponsesEvents, IndexedEvents
<1> HIDE DEF S
<1>3. ASSUME NEW p \in ToolPlaces(t)
      PROVE  /\ Announce(w, p) \in S
             /\ KindOf[At(t, p)] \in {"function", "custom_tool"} =>
                   /\ w # "responses" \/ g.deltas =>
                         \A k \in 1 .. Len(Args(At(t, p))) : Event("args", p, k) \in S
                   /\ w = "responses" /\ g.done =>
                         {Event("done", p, 0)} \cup Repeats(t, p) \subseteq S
  <2> DEFINE c == At(t, p)
  <2>1. p \in Positions(t) /\ c \in Tools /\ c # "text" /\ c # "think"
    BY TurnFacts, StreamAssumption
  <2>2. KindOf[c] \in {"function", "custom_tool", "local_shell", "server"}
    BY <2>1, KindFacts
  <2>3. CASE w # "responses"
    <3>1. PartEvents(t, p)
            = {Event("start", p, 0)} \cup {Event("args", p, k) : k \in 1 .. Len(Args(c))}
      BY <2>1 DEF PartEvents
    <3>2. Announce(w, p) \in Of(p)
      BY <2>3, <3>1 DEF Announce
    <3>3. \A k \in 1 .. Len(Args(c)) : Event("args", p, k) \in Of(p)
      BY <2>3, <3>1
    <3> HIDE DEF Of
    <3> QED BY <1>1, <2>1, <2>3, <3>2, <3>3
  <2>4. CASE w = "responses" /\ KindOf[c] \in {"function", "custom_tool"}
    <3>1. Of(p) = {Event("added", p, 0)}
             \cup (IF g.deltas THEN {Event("args", p, k) : k \in 1 .. Len(Args(c))} ELSE {})
             \cup (IF g.done THEN {Event("argsdone", p, 0), Event("done", p, 0)} ELSE {})
      BY <2>1, <2>4, SMT DEF ItemEvents
    <3> HIDE DEF Of
    <3>2. Announce(w, p) \in Of(p)
      BY <2>4, <3>1 DEF Announce, Added
    <3>3. g.deltas => \A k \in 1 .. Len(Args(c)) : Event("args", p, k) \in Of(p)
      BY <3>1
    <3>4. g.done => {Event("argsdone", p, 0), Event("done", p, 0)} \subseteq Of(p)
      BY <3>1
    <3>5. g.done => {Event("done", p, 0)} \cup Repeats(t, p) \subseteq Of(p)
      BY <3>4 DEF Repeats
    <3> QED BY <1>1, <2>1, <2>4, <3>2, <3>3, <3>5
  <2>5. CASE w = "responses" /\ KindOf[c] = "server"
    <3>1. Of(p) = {Event(a, p, 0) : a \in {"added", "progress", "done"}}
      BY <2>1, <2>5, SMT DEF ItemEvents
    <3> HIDE DEF Of
    <3>2. Announce(w, p) \in Of(p)
      BY <2>5, <3>1 DEF Announce, Added
    <3> QED BY <1>1, <2>1, <2>5, <3>2
  <2>6. CASE w = "responses" /\ KindOf[c] = "local_shell"
    <3>1. Of(p) = {Event(a, p, 0) : a \in {"added", "done"}}
      BY <2>1, <2>6, SMT DEF ItemEvents
    <3> HIDE DEF Of
    <3>2. Announce(w, p) \in Of(p)
      BY <2>6, <3>1 DEF Announce, Added
    <3> QED BY <1>1, <2>1, <2>6, <3>2
  <2> HIDE DEF c
  <2>7. QED BY <2>2, <2>3, <2>4, <2>5, <2>6 DEF c
<1>4. ASSUME NEW p \in TextPlaces(t) PROVE Event("text", p, 0) \in S
  <2>1. p \in Positions(t) /\ At(t, p) = "text" /\ "text" \notin Tools
    BY StreamAssumption DEF TextPlaces
  <2>2. Event("text", p, 0) \in Of(p)
    BY <2>1, SMT DEF ItemEvents, PartEvents
  <2> HIDE DEF Of
  <2> QED BY <1>1, <2>1, <2>2
<1>5. ASSUME NEW p \in ThinkPlaces(t) PROVE Event("think", p, 0) \in S
  <2>1. p \in Positions(t) /\ At(t, p) = "think" /\ "think" \notin Tools
    BY StreamAssumption DEF ThinkPlaces
  <2>2. Event("think", p, 0) \in Of(p)
    BY <2>1, SMT DEF ItemEvents, PartEvents
  <2> HIDE DEF Of
  <2> QED BY <1>1, <2>1, <2>2
<1> QED BY <1>2, <1>3, <1>4, <1>5 DEF IsSent, S

\* What an event of a stream is, and what was sent before it.
IsNext(w, t, g, s, e) ==
    /\ e \in StreamEvents(w, t, g) /\ e \notin s /\ s \subseteq StreamEvents(w, t, g)
    /\ e.p \in ToolPlaces(t) /\ (e.t \in {"progress", "done", "argsdone"} \/ (e.t = "args" /\ ~g.early)) =>
          Announce(w, e.p) \in s
    /\ e = Announce(w, e.p) /\ e.p \in ToolPlaces(t) => \A q \in Known(w, t, s) : q < e.p
    /\ e.t = "args" /\ e.p \in ToolPlaces(t) /\ e.k \in 1 .. Len(Args(At(t, e.p))) =>
          \A k \in 1 .. Pieces : Event("args", e.p, k) \in s <=> k < e.k
    /\ e.t \in {"argsdone", "done"} /\ e.p \in ToolPlaces(t)
          /\ KindOf[At(t, e.p)] \in {"function", "custom_tool"}
          /\ Event("args", e.p, 1) \in s
          => \A k \in 1 .. Len(Args(At(t, e.p))) : Event("args", e.p, k) \in s
    /\ e.t \in {"text", "think"} =>
          \A q \in Positions(t), a \in {"text", "think"} : Event(a, q, 0) \in s => q <= e.p

\* The fragments of a stream are those of the arguments of its calls.
LEMMA ArgsEvents ==
    ASSUME NEW t \in Turns, NEW g, NEW w \in {"responses", "chat", "messages"},
           NEW p \in ToolPlaces(t), NEW k, Event("args", p, k) \in StreamEvents(w, t, g)
    PROVE  k \in 1 .. Len(Args(At(t, p))) /\ (w = "responses" => g.deltas)
<1> DEFINE e == Event("args", p, k)
<1>1. e.t = "args" /\ e.p = p /\ e.k = k
  BY DEF Event
<1>2. CASE w = "responses"
  <2>1. IsResponsesEvent(t, g, e)
    BY <1>2, ResponsesEvent DEF StreamEvents
  <2> QED BY <1>1, <2>1 DEF IsResponsesEvent, Event
<1>3. CASE w # "responses"
  <2>1. IsIndexedEvent(t, e)
    BY <1>3, IndexedEvent DEF StreamEvents
  <2> QED BY <1>1, <1>3, <2>1 DEF IsIndexedEvent, Event
<1> QED BY <1>2, <1>3

\* An event that is ready comes after what the order of the stream puts before
\* it.
LEMMA StreamOrder ==
    ASSUME NEW t \in Turns, NEW g \in Gateways, NEW w \in {"responses", "chat", "messages"},
           NEW s, IsClosed(w, t, g, s), ~g.whole, NEW e, IsReady(w, t, g, s, e)
    PROVE  IsNext(w, t, g, s, e)
<1> DEFINE S == StreamEvents(w, t, g)
<1>1. Events(w, t, g) = S
  BY DEF Events, StreamEvents
<1>2. e \in S /\ e \notin s /\ s \subseteq S
  BY <1>1 DEF IsReady, IsClosed
<1>3. \A f \in S : Before(w, g, f, e) => f \in s
  BY <1>1 DEF IsReady
<1>4. \A f \in s : ~Before(w, g, e, f)
  BY <1>1, <1>2 DEF IsClosed
<1>5. IsSent(w, t, g, S)
  BY StreamSends
<1> HIDE DEF S
<1>6. ASSUME e.p \in ToolPlaces(t),
             e.t \in {"progress", "done", "argsdone"} \/ (e.t = "args" /\ ~g.early)
      PROVE  Announce(w, e.p) \in s
  <2> DEFINE f == Announce(w, e.p)
  <2>1. f \in S
    BY <1>5, <1>6 DEF IsSent
  <2>2. f.p = e.p /\ f.t \in {"added", "start"}
    BY DEF Announce, Added, Event
  <2> HIDE DEF f
  <2>3. Rank(f) = 0 /\ Rank(e) \in {1, 2, 3}
    BY <1>6, <2>2 DEF Rank
  <2>4. Rank(f) < Rank(e) /\ ~(g.early /\ f.t = "added" /\ e.t = "args")
    BY <1>6, <2>3
  <2>5. Before(w, g, f, e)
    BY <2>2, <2>4 DEF Before
  <2> QED BY <1>3, <2>1, <2>5 DEF f
<1>7. ASSUME e = Announce(w, e.p), e.p \in ToolPlaces(t), NEW q \in Known(w, t, s)
      PROVE  q < e.p
  <2> DEFINE f == Announce(w, q)
  <2>1. f \in s /\ q \in Nat /\ e.p \in Nat
    BY <1>7, TurnFacts DEF Known
  <2>2. f.p = q /\ f.t \in {"added", "start"} /\ e.t \in {"added", "start"}
    <3>1. \A x : Announce(w, x).p = x /\ Announce(w, x).t \in {"added", "start"}
      BY DEF Announce, Added, Event
    <3> QED BY <1>7, <3>1
  <2>3. q # e.p
    BY <1>2, <1>7, <2>1
  <2> HIDE DEF f
  <2>4. ~(e.p < q)
    BY <1>4, <2>1, <2>2 DEF Before
  <2> QED BY <2>1, <2>3, <2>4
<1>8. ASSUME e.t = "args", e.p \in ToolPlaces(t), e.k \in 1 .. Len(Args(At(t, e.p))),
             NEW k \in 1 .. Pieces
      PROVE  Event("args", e.p, k) \in s <=> k < e.k
  <2> DEFINE f == Event("args", e.p, k)
  <2>1. f.t = "args" /\ f.p = e.p /\ f.k = k
    BY DEF Event
  <2>0. (At(t, e.p) \in Tools /\ KindOf[At(t, e.p)] \in {"function", "custom_tool"}) \/ w # "responses"
    <3>1. CASE w = "responses"
      <4>1. IsResponsesEvent(t, g, e)
        BY <1>2, <3>1, ResponsesEvent DEF StreamEvents, S
      <4> QED BY <1>8, <4>1, TurnFacts DEF IsResponsesEvent, Event
    <3> QED BY <3>1
  <2>2. ASSUME k < e.k PROVE f \in s
    <3>1. Len(Args(At(t, e.p))) \in Nat /\ k \in 1 .. Len(Args(At(t, e.p)))
      <4>1. At(t, e.p) \in Tools
        BY <1>8, TurnFacts
      <4>2. Len(Args(At(t, e.p))) \in Nat
        BY <4>1, ArgsFacts
      <4> QED BY <1>8, <2>2, <4>2
    <3>2. f \in S
      <4>1. e = Event("args", e.p, e.k)
        <5>1. CASE w = "responses"
          <6>1. IsResponsesEvent(t, g, e)
            BY <1>2, <5>1, ResponsesEvent DEF StreamEvents, S
          <6> QED BY <1>8, <6>1 DEF IsResponsesEvent, Event
        <5>2. CASE w # "responses"
          <6>1. IsIndexedEvent(t, e)
            BY <1>2, <5>2, IndexedEvent DEF StreamEvents, S
          <6> QED BY <1>8, <6>1 DEF IsIndexedEvent, Event
        <5> QED BY <5>1, <5>2
      <4>2. w = "responses" => g.deltas
        BY <1>2, <1>8, <4>1, ArgsEvents DEF S
      <4>3. CASE w = "responses"
        BY <1>5, <1>8, <2>0, <3>1, <4>2, <4>3 DEF IsSent
      <4>4. CASE w # "responses"
        <5>1. At(t, e.p) \in Tools /\ e.p \in Positions(t)
          BY <1>8, TurnFacts
        <5>2. f \in PartEvents(t, e.p)
          BY <3>1, <5>1 DEF PartEvents
        <5> HIDE DEF f
        <5> QED BY <4>4, <5>1, <5>2 DEF S, StreamEvents, IndexedEvents
      <4> QED BY <4>3, <4>4
    <3> HIDE DEF f
    <3>3. Before(w, g, f, e)
      BY <1>8, <2>1, <2>2 DEF Before
    <3> QED BY <1>3, <3>2, <3>3
  <2>3. ASSUME f \in s, ~(k < e.k) PROVE FALSE
    <3>1. k # e.k
      <4>1. e = Event("args", e.p, e.k)
        <5>1. CASE w = "responses"
          <6>1. IsResponsesEvent(t, g, e)
            BY <1>2, <5>1, ResponsesEvent DEF StreamEvents, S
          <6> QED BY <1>8, <6>1 DEF IsResponsesEvent, Event
        <5>2. CASE w # "responses"
          <6>1. IsIndexedEvent(t, e)
            BY <1>2, <5>2, IndexedEvent DEF StreamEvents, S
          <6> QED BY <1>8, <6>1 DEF IsIndexedEvent, Event
        <5> QED BY <5>1, <5>2
      <4> QED BY <1>2, <2>3, <4>1
    <3>2. e.k \in Nat /\ k \in Nat
      BY <1>8, PiecesAssumption
    <3>3. e.k < k
      BY <2>3, <3>1, <3>2
    <3> HIDE DEF f
    <3>4. Before(w, g, e, f)
      BY <1>8, <2>1, <3>3 DEF Before
    <3> QED BY <1>4, <2>3, <3>4
  <2> QED BY <2>2, <2>3
<1>9. ASSUME e.t \in {"argsdone", "done"}, e.p \in ToolPlaces(t),
             KindOf[At(t, e.p)] \in {"function", "custom_tool"},
             Event("args", e.p, 1) \in s, NEW k \in 1 .. Len(Args(At(t, e.p)))
      PROVE  Event("args", e.p, k) \in s
  <2> DEFINE f == Event("args", e.p, k)
  <2>1. f.t = "args" /\ f.p = e.p
    BY DEF Event
  <2>2. w = "responses" => g.deltas
    BY <1>2, <1>9, ArgsEvents DEF S
  <2>3. f \in S
    BY <1>5, <1>9, <2>2 DEF IsSent
  <2> HIDE DEF f
  <2>4. Rank(f) = 1 /\ Rank(e) \in {2, 3}
    BY <1>9, <2>1 DEF Rank
  <2>5. Rank(f) < Rank(e)
    BY <2>4
  <2>6. Before(w, g, f, e)
    BY <1>9, <2>1, <2>5 DEF Before
  <2> QED BY <1>3, <2>3, <2>6 DEF f
<1>10. ASSUME e.t \in {"text", "think"}, NEW q \in Positions(t), NEW a \in {"text", "think"},
              Event(a, q, 0) \in s
       PROVE  q <= e.p
  <2> DEFINE f == Event(a, q, 0)
  <2>1. f.t \in {"text", "think"} /\ f.p = q /\ q \in Nat
    BY TurnFacts DEF Event
  <2>2. e.p \in Nat
    <3>1. CASE w = "responses"
      <4>1. IsResponsesEvent(t, g, e)
        BY <1>2, <3>1, ResponsesEvent DEF StreamEvents, S
      <4> QED BY <1>10, <4>1, TurnFacts DEF IsResponsesEvent, Event, TextPlaces, ThinkPlaces
    <3>2. CASE w # "responses"
      <4>1. IsIndexedEvent(t, e)
        BY <1>2, <3>2, IndexedEvent DEF StreamEvents, S
      <4> QED BY <1>10, <4>1, TurnFacts DEF IsIndexedEvent, Event, TextPlaces, ThinkPlaces
    <3> QED BY <3>1, <3>2
  <2> HIDE DEF f
  <2>3. ~(e.p < q)
    BY <1>4, <1>10, <2>1 DEF Before, f
  <2> QED BY <2>1, <2>2, <2>3
<1> HIDE DEF S
<1> QED BY <1>2, <1>6, <1>7, <1>8, <1>9, <1>10 DEF IsNext, S

\* What was earned of a call is not touched by the events of others.
LEMMA EarnedKept ==
    ASSUME NEW t, NEW s, NEW p, NEW n, NEW snaps, Earned(t, s, p, n, snaps), NEW e,
           \A k \in Nat : e # Event("args", p, k), e \notin snaps
    PROVE  Earned(t, s \cup {e}, p, n, snaps)
BY PiecesAssumption DEF Earned

\* The next fragment of a call is earned, unless all of them were.
LEMMA EarnedPiece ==
    ASSUME NEW t \in Turns, NEW g \in Gateways, NEW w, NEW s, NEW e, IsNext(w, t, g, s, e),
           e.p \in ToolPlaces(t), e = Event("args", e.p, e.k), e.k \in 1 .. Len(Args(At(t, e.p))),
           NEW n, NEW snaps, \A x \in snaps : x.t # "args", Earned(t, s, e.p, n, snaps)
    PROVE  /\ n \in {e.k - 1, Len(Args(At(t, e.p)))}
           /\ Earned(t, s \cup {e}, e.p, IF n = Len(Args(At(t, e.p))) THEN n ELSE e.k, snaps)
<1> DEFINE len == Len(Args(At(t, e.p)))
           k == e.k
           m == IF n = len THEN n ELSE k
<1>1. len \in Nat /\ len <= Pieces /\ Pieces \in Nat
  BY TurnFacts, ArgsFacts, PiecesAssumption
<1>2. e.t = "args"
  BY DEF Event
<1>3. \A j \in 1 .. Pieces : Event("args", e.p, j) \in s <=> j < k
  BY <1>2 DEF IsNext
<1>4. k \in 1 .. len /\ k \in Nat
  BY <1>1
<1>5. /\ n \in 0 .. len
      /\ \A j \in 1 .. Pieces : Event("args", e.p, j) \in s => j <= n
      /\ snaps \cap s # {} => n = len
      /\ n = len \/ \A j \in 1 .. n : Event("args", e.p, j) \in s
  BY DEF Earned
<1>6. e \notin snaps
  BY <1>2
<1>7. \A j \in Nat : Event("args", e.p, j) = e <=> j = k
  BY DEF Event
<1> HIDE DEF len, k
<1>8. n >= k - 1
  <2>1. CASE k = 1
    BY <1>5, <2>1, <1>1
  <2>2. CASE k # 1
    <3> DEFINE j == k - 1
    <3>1. j \in 1 .. Pieces /\ j < k
      BY <1>1, <1>4, <2>2
    <3> HIDE DEF j
    <3>2. j <= n
      BY <1>3, <1>5, <3>1
    <3> QED BY <3>2 DEF j
  <2> QED BY <2>1, <2>2
<1>9. n = len \/ n < k
  <2> SUFFICES ASSUME n # len, ~(n < k) PROVE FALSE
    OBVIOUS
  <2>1. k \in 1 .. n /\ k \in 1 .. Pieces
    BY <1>1, <1>4, <1>5
  <2> QED BY <1>3, <1>5, <2>1
<1>10. n \in {k - 1, len}
  BY <1>1, <1>4, <1>5, <1>8, <1>9
<1>11. m \in 0 .. len
  BY <1>1, <1>4, <1>5
<1>12. ASSUME NEW j \in 1 .. Pieces, Event("args", e.p, j) \in s \cup {e} PROVE j <= m
  <2>1. j <= k
    BY <1>3, <1>4, <1>7, <1>12
  <2> QED BY <1>1, <1>4, <2>1
<1>13. snaps \cap (s \cup {e}) # {} => m = len
  BY <1>5, <1>6
<1>14. m = len \/ \A j \in 1 .. m : Event("args", e.p, j) \in s \cup {e}
  <2> SUFFICES ASSUME m # len, NEW j \in 1 .. m PROVE Event("args", e.p, j) \in s \cup {e}
    OBVIOUS
  <2>1. m = k /\ j \in 1 .. Pieces /\ j <= k /\ j \in Nat
    BY <1>1, <1>4
  <2>2. CASE j = k
    BY <1>7, <2>1, <2>2
  <2>3. CASE j < k
    BY <1>3, <2>1, <2>3
  <2> QED BY <1>4, <2>1, <2>2, <2>3
<1> HIDE DEF m
<1>15. Earned(t, s \cup {e}, e.p, m, snaps)
  BY <1>11, <1>12, <1>13, <1>14 DEF Earned, len
<1> QED BY <1>10, <1>15 DEF len, k, m

\* A snapshot comes when no fragment of the call was sent, or when all were.
LEMMA EarnedAll ==
    ASSUME NEW t \in Turns, NEW g \in Gateways, NEW w, NEW s, NEW e, IsNext(w, t, g, s, e),
           e.p \in ToolPlaces(t), e.t \in {"argsdone", "done"},
           KindOf[At(t, e.p)] \in {"function", "custom_tool"},
           NEW n, NEW snaps, Earned(t, s, e.p, n, snaps)
    PROVE  /\ n \in {0, Len(Args(At(t, e.p)))}
           /\ Earned(t, s \cup {e}, e.p, Len(Args(At(t, e.p))), snaps)
<1> DEFINE len == Len(Args(At(t, e.p)))
<1>1. len \in Nat /\ len <= Pieces /\ Pieces \in Nat
  BY TurnFacts, ArgsFacts, PiecesAssumption
<1>2. /\ n \in 0 .. len
      /\ \A j \in 1 .. Pieces : Event("args", e.p, j) \in s => j <= n
      /\ n = len \/ \A j \in 1 .. n : Event("args", e.p, j) \in s
  BY DEF Earned
<1>3. \A k \in Nat : e # Event("args", e.p, k)
  BY DEF Event
<1>4. n \in {0, len}
  <2> SUFFICES ASSUME n # 0, n # len PROVE FALSE
    OBVIOUS
  <2>1. 1 \in 1 .. n /\ len \in 1 .. len /\ len \in 1 .. Pieces
    BY <1>1, <1>2
  <2>2. Event("args", e.p, 1) \in s
    BY <1>2, <2>1
  <2>3. Event("args", e.p, len) \in s
    BY <2>1, <2>2 DEF IsNext
  <2>4. len <= n
    BY <1>2, <2>1, <2>3
  <2> QED BY <1>1, <1>2, <2>4
<1>5. \A j \in 1 .. Pieces : Event("args", e.p, j) \in s \cup {e} => j <= len
  <2> SUFFICES ASSUME NEW j \in 1 .. Pieces, Event("args", e.p, j) \in s \cup {e} PROVE j <= len
    OBVIOUS
  <2>1. Event("args", e.p, j) \in s
    BY <1>1, <1>3
  <2>2. j <= n
    BY <1>2, <2>1
  <2> QED BY <1>1, <1>2, <2>2
<1>6. len \in 0 .. len
  BY <1>1
<1>7. Earned(t, s \cup {e}, e.p, len, snaps)
  BY <1>5, <1>6 DEF Earned
<1> QED BY <1>4, <1>7

-----------------------------------------------------------------------------
(***************************************************************************)
(* Where the deltas of a stream go.                                        *)
(***************************************************************************)
\* A turn of at most one call.
LEMMA LoneSame ==
    ASSUME NEW t \in Turns, Lone(t), NEW p \in ToolPlaces(t), NEW q \in ToolPlaces(t)
    PROVE  p = q
<1>1. At(t, p) \in Kin(t) /\ At(t, q) \in Kin(t)
  BY TurnFacts
<1>2. At(t, p) = At(t, q)
  BY <1>1, SingleCall DEF Lone
<1> QED BY <1>2, TurnFacts

\* Calls are kept in the order of the turn.
LEMMA PlaceOrder ==
    ASSUME NEW t \in Turns, NEW w, NEW p \in ToolPlaces(t), NEW q \in ToolPlaces(t), p < q
    PROVE  Place(w, t, p) < Place(w, t, q)
BY OrdinalFacts, TurnFacts DEF Place

\* A known id is that of a call that is known.
LEMMA IdKnown ==
    ASSUME NEW t \in Turns, NEW w, NEW g, NEW s, NEW c, Guided(w, t, g, s, c),
           NEW p \in ToolPlaces(t), NEW x \in DOMAIN c.ids, x \in IdsOf(t, p)
    PROVE  p \in Known(w, t, s) /\ c.ids[x] = Place(w, t, p)
<1>1. PICK q \in Known(w, t, s) : x \in IdsOf(t, q) /\ c.ids[x] = Place(w, t, q)
  BY DEF Guided
<1>2. q \in ToolPlaces(t)
  BY DEF Known
<1>3. p = q
  BY <1>1, <1>2, IdsApart
<1> QED BY <1>1, <1>3

\* A delta is resolved by one of its ids, or by its position and name.
LEMMA GuidedResolve ==
    ASSUME NEW t \in Turns, NEW w, NEW g, NEW s, NEW c, Guided(w, t, g, s, c),
           NEW p \in ToolPlaces(t), NEW d \in Own(t, p)
    PROVE  \/ /\ \E x \in {d.id, d.item} \ {NoId} : x \in DOMAIN c.ids
              /\ p \in Known(w, t, s) /\ Resolve(d, c) = Place(w, t, p)
           \/ /\ \A x \in {d.id, d.item} \ {NoId} : x \notin DOMAIN c.ids
              /\ Resolve(d, c) = IF d.index \in DOMAIN c.outs THEN c.outs[d.index]
                                 ELSE IF d.name # NoName THEN d.index ELSE Unresolved
<1>1. \A x \in {d.id, d.item} \ {NoId} : x \in IdsOf(t, p)
  BY OwnFacts
<1>2. CASE d.id # NoId /\ d.id \in DOMAIN c.ids
  <2>1. p \in Known(w, t, s) /\ c.ids[d.id] = Place(w, t, p)
    BY <1>1, <1>2, IdKnown
  <2>2. Resolve(d, c) = c.ids[d.id]
    BY <1>2 DEF Resolve
  <2> QED BY <1>2, <2>1, <2>2
<1>3. CASE ~(d.id # NoId /\ d.id \in DOMAIN c.ids) /\ d.item # NoId /\ d.item \in DOMAIN c.ids
  <2>1. p \in Known(w, t, s) /\ c.ids[d.item] = Place(w, t, p)
    BY <1>1, <1>3, IdKnown
  <2>2. Resolve(d, c) = c.ids[d.item]
    BY <1>3 DEF Resolve
  <2> QED BY <1>3, <2>1, <2>2
<1>4. CASE /\ ~(d.id # NoId /\ d.id \in DOMAIN c.ids)
           /\ ~(d.item # NoId /\ d.item \in DOMAIN c.ids)
  <2>1. Resolve(d, c) = IF d.index \in DOMAIN c.outs THEN c.outs[d.index]
                        ELSE IF d.name # NoName THEN d.index ELSE Unresolved
    BY <1>4 DEF Resolve
  <2>2. \A x \in {d.id, d.item} \ {NoId} : x \notin DOMAIN c.ids
    BY <1>4
  <2> QED BY <2>1, <2>2
<1> QED BY <1>2, <1>3, <1>4

\* The delta that announces a call goes to a place of its own.
LEMMA NewResolve ==
    ASSUME NEW t \in Turns, NEW w, NEW g, NEW s, NEW c, Guided(w, t, g, s, c),
           NEW p \in ToolPlaces(t), p \notin Known(w, t, s),
           \A q \in Known(w, t, s) : q < p,
           NEW d \in Own(t, p), ItemSays(w, t, p, d)
    PROVE  Resolve(d, c) = Place(w, t, p)
<1>1. d.index = Place(w, t, p) /\ d.name # NoName
  BY TurnFacts DEF ItemSays
<1>2. ASSUME d.index \in DOMAIN c.outs PROVE FALSE
  <2>1. PICK q \in Known(w, t, s) : d.index <= Place(w, t, q)
    BY <1>2 DEF Guided
  <2>2. q \in ToolPlaces(t) /\ q < p
    BY DEF Known
  <2>3. Place(w, t, q) < Place(w, t, p)
    BY <2>2, PlaceOrder
  <2>4. Place(w, t, q) \in Nat /\ Place(w, t, p) \in Nat
    BY <2>2, PlaceApart
  <2> QED BY <1>1, <2>1, <2>3, <2>4
<1> QED BY <1>1, <1>2, GuidedResolve

\* A delta that repeats an item of the Responses API goes to its call.
LEMMA KnownResolve ==
    ASSUME NEW t \in Turns, NEW g, NEW s, NEW c, Guided("responses", t, g, s, c),
           NEW p \in Known("responses", t, s),
           NEW d \in Own(t, p), ItemSays("responses", t, p, d)
    PROVE  Resolve(d, c) = Place("responses", t, p)
<1>1. p \in ToolPlaces(t)
  BY DEF Known
<1>2. {d.id, d.item} \ {NoId} = ItemIds(t, p) /\ ItemIds(t, p) # {}
      /\ ItemIds(t, p) \subseteq DOMAIN c.ids
  BY ItemIdsSome DEF ItemSays, Guided
<1>3. \E x \in {d.id, d.item} \ {NoId} : x \in DOMAIN c.ids
  BY <1>2
<1> QED BY <1>1, <1>3, GuidedResolve

\* A fragment goes to its call once it was announced.
LEMMA FragmentResolve ==
    ASSUME NEW t \in Turns, NEW w \in {"responses", "chat", "messages"}, NEW g \in Gateways, ~g.whole,
           Tells(w, t, g), ~Lost(w, t, g), NEW s, NEW c, Guided(w, t, g, s, c),
           NEW p \in Known(w, t, s), NEW d \in Own(t, p), FragmentSays(w, t, g, p, d)
    PROVE  Resolve(d, c) = Place(w, t, p)
<1>1. p \in ToolPlaces(t) /\ Known(w, t, s) \subseteq ToolPlaces(t)
  BY DEF Known
<1>2. CASE d.item # NoId
  <2>1. w = "responses" /\ KindOf[At(t, p)] = "function" /\ d.item = ItemId(At(t, p))
    BY <1>2 DEF FragmentSays
  <2>2. d.item \in ItemIds(t, p)
    BY <2>1 DEF ItemIds
  <2>3. d.item \in DOMAIN c.ids
    BY <2>1, <2>2 DEF Guided
  <2> QED BY <1>1, <1>2, <2>3, GuidedResolve
<1>3. CASE d.item = NoId
  <2>1. Tracked(w, t, g, p) /\ ItemId(At(t, p)) # NoId
    BY <1>1 DEF Lost, ItemId, NoId
  <2>2. ~(w = "responses" /\ KindOf[At(t, p)] = "function" /\ g.ids)
    BY <1>3, <2>1 DEF FragmentSays
  <2>3. d.index = Place(w, t, p)
    BY <2>1, <2>2 DEF FragmentSays, Tracked, Place
  <2>4. d.index \in DOMAIN c.outs
    BY <2>3 DEF Guided
  <2>5. PICK q \in Known(w, t, s) : /\ c.outs[d.index] = Place(w, t, q)
                                    /\ Exact(w, t, g) => d.index = Place(w, t, q)
    BY <2>4 DEF Guided
  <2>6. Lone(t) \/ Placed(w, g)
    <3>1. KindOf[At(t, p)] \in {"function", "custom_tool"}
      BY DEF FragmentSays
    <3>2. ~ById(w, g, t)
      BY <1>1, <2>2, <3>1 DEF ById
    <3> QED BY <3>2 DEF Tells
  <2>7. q = p
    <3>1. CASE Lone(t)
      BY <1>1, <3>1, LoneSame
    <3>2. CASE Placed(w, g)
      <4>1. Place(w, t, p) = Place(w, t, q)
        BY <2>3, <2>5, <3>2 DEF Exact
      <4> QED BY <1>1, <4>1, PlaceApart
    <3> QED BY <2>6, <3>1, <3>2
  <2>8. d.id = NoId
    BY DEF FragmentSays
  <2> QED BY <1>1, <1>3, <2>4, <2>5, <2>7, <2>8, GuidedResolve
<1> QED BY <1>2, <1>3

\* Before, it goes nowhere.
LEMMA WaitingResolve ==
    ASSUME NEW t \in Turns, NEW w \in {"responses", "chat", "messages"}, NEW g \in Gateways, ~g.whole,
           g.early, Tells(w, t, g), NEW s, NEW c, Guided(w, t, g, s, c),
           NEW p \in ToolPlaces(t), p \notin Known(w, t, s),
           NEW d \in Own(t, p), FragmentSays(w, t, g, p, d)
    PROVE  Resolve(d, c) = Unresolved
<1>1. d.name = NoName /\ Known(w, t, s) \subseteq ToolPlaces(t)
  BY DEF FragmentSays, Known
<1>2. ASSUME d.index \in DOMAIN c.outs PROVE FALSE
  <2>1. PICK q \in Known(w, t, s) : Exact(w, t, g) => d.index = Place(w, t, q)
    BY <1>2 DEF Guided
  <2>2. q # p
    OBVIOUS
  <2>3. ~Lone(t)
    BY <1>1, <2>2, LoneSame
  <2>4. Placed(w, g)
    BY <2>3 DEF Tells, ById
  <2>5. d.index = Place(w, t, p)
    BY <2>4 DEF Placed, FragmentSays, ArgsIndex, Place
  <2>6. Place(w, t, p) = Place(w, t, q)
    BY <2>1, <2>4, <2>5 DEF Exact
  <2> QED BY <1>1, <2>2, <2>6, PlaceApart
<1> QED BY <1>1, <1>2, GuidedResolve

\* The fragments of an only call that tell nothing go nowhere.
LEMMA StrayResolve ==
    ASSUME NEW t \in Turns, NEW w \in {"responses", "chat", "messages"}, NEW g \in Gateways,
           Lone(t), Lost(w, t, g), NEW s, NEW c, Guided(w, t, g, s, c),
           NEW p \in ToolPlaces(t), NEW d \in Own(t, p), FragmentSays(w, t, g, p, d)
    PROVE  Resolve(d, c) = Unresolved /\ d.id = NoId /\ d.item = NoId
<1>1. ~Tracked(w, t, g, p)
  BY LoneSame DEF Lost
<1>2. w = "responses" /\ ~(KindOf[At(t, p)] = "function" /\ g.ids) /\ ArgsIndex(t, g, p) # p
  BY <1>1 DEF Tracked
<1>3. d.name = NoName /\ d.id = NoId /\ d.item = NoId /\ d.index # p
  BY <1>2 DEF FragmentSays
<1>4. ASSUME d.index \in DOMAIN c.outs PROVE FALSE
  <2>1. PICK q \in Known(w, t, s) : Exact(w, t, g) => d.index = Place(w, t, q)
    BY <1>4 DEF Guided
  <2>2. q = p
    BY LoneSame DEF Known
  <2> QED BY <1>2, <1>3, <2>1, <2>2 DEF Exact, Place
<1> QED BY <1>3, <1>4, GuidedResolve

-----------------------------------------------------------------------------
(***************************************************************************)
(* What a delta of a stream does to the collector.                         *)
(***************************************************************************)
\* What is joined is told by what goes by the ids.
LEMMA JoinedSame ==
    ASSUME NEW start, NEW a, NEW b, NEW Z, NEW parked \in Seq(Z), NEW K, NEW L,
           IsJoined(start, a, parked, K), IsJoined(start, b, parked, L),
           \A n \in 1 .. Len(parked) : Key(parked[n]) \in K <=> Key(parked[n]) \in L
    PROVE  a = b
<1>1. PICK f : /\ f[0] = start /\ f[Len(parked)] = a
               /\ \A n \in 1 .. Len(parked) : f[n] = JoinedOne(f[n - 1], K, parked[n])
  BY DEF IsJoined
<1>2. PICK h : /\ h[0] = start /\ h[Len(parked)] = b
               /\ \A n \in 1 .. Len(parked) : h[n] = JoinedOne(h[n - 1], L, parked[n])
  BY DEF IsJoined
<1> DEFINE S == {n \in Nat : n <= Len(parked) => f[n] = h[n]}
<1>3. 0 \in S
  BY <1>1, <1>2
<1>4. ASSUME NEW n \in S PROVE n + 1 \in S
  <2> SUFFICES ASSUME n + 1 <= Len(parked) PROVE f[n + 1] = h[n + 1]
    OBVIOUS
  <2> DEFINE m == n + 1
  <2>1. m \in 1 .. Len(parked) /\ m - 1 = n /\ f[n] = h[n]
    OBVIOUS
  <2> HIDE DEF m
  <2>2. f[m] = JoinedOne(f[m - 1], K, parked[m]) /\ h[m] = JoinedOne(h[m - 1], L, parked[m])
    BY <1>1, <1>2, <2>1
  <2>3. Key(parked[m]) \in K <=> Key(parked[m]) \in L
    BY <2>1
  <2> QED BY <2>1, <2>2, <2>3 DEF JoinedOne, m
<1>5. S = Nat
  <2> HIDE DEF S
  <2>1. S \subseteq Nat
    BY DEF S
  <2> QED BY <1>3, <1>4, <2>1, SetInduction
<1> QED BY <1>1, <1>2, <1>5

\* An event at another position is about no event of this call.
LEMMA OtherEvents ==
    ASSUME NEW w, NEW t, NEW e, NEW q, e.p # q
    PROVE  e # Announce(w, q) /\ e \notin Snaps(t, q) /\ e \notin Repeats(t, q)
           /\ e # Event("done", q, 0) /\ \A k : e # Event("args", q, k)
BY DEF Announce, Added, Snaps, Repeats, Event

\* What is known after the event e is the call it announces, besides what was.
KnowsMore(w, t, s, e) ==
    /\ e = Announce(w, e.p) =>
          /\ Known(w, t, s \cup {e}) = Known(w, t, s) \cup {e.p}
          /\ Waiting(w, t, s \cup {e}) = Waiting(w, t, s) \ {e.p}
    /\ e # Announce(w, e.p) =>
          /\ Known(w, t, s \cup {e}) = Known(w, t, s)
          /\ Waiting(w, t, s \cup {e}) = Waiting(w, t, s)

\* An event about a call makes that call known, or none.
LEMMA KnownStep ==
    ASSUME NEW w, NEW t, NEW s, NEW e, e.p \in ToolPlaces(t)
    PROVE  KnowsMore(w, t, s, e)
<1>1. \A q : q # e.p => e # Announce(w, q)
  BY OtherEvents
<1> QED BY <1>1 DEF Known, Waiting, KnowsMore

\* The ids and the positions still lead to calls after a delta that was
\* resolved to its call.
LEMMA GuidedTaken ==
    ASSUME NEW t \in Turns, NEW w, NEW g, NEW s, NEW u, NEW c, Guided(w, t, g, s, c),
           NEW p \in ToolPlaces(t), Known(w, t, u) = Known(w, t, s) \cup {p},
           NEW d \in Own(t, p), DOMAIN c = Fields,
           NEW old, NEW new, IsTaken(new, c, d, Place(w, t, p), old, Kin(t), DeltaOf(Kin(t))),
           d.index <= Place(w, t, p), Exact(w, t, g) => d.index = Place(w, t, p),
           p \in Known(w, t, s) \/ ItemSays(w, t, p, d)
    PROVE  Guided(w, t, g, u, new)
<1> DEFINE idx == Place(w, t, p)
           K == {d.id, d.item} \ {NoId}
<1>1. /\ DOMAIN new.ids = DOMAIN c.ids \cup K
      /\ \A x \in DOMAIN new.ids : new.ids[x] = IF x \in K THEN idx ELSE c.ids[x]
  BY RememberIds DEF IsTaken
<1>2. new.outs = With(c.outs, d.index, idx)
  BY DEF IsTaken
<1>3. \A x \in K : x \in IdsOf(t, p)
  BY OwnFacts
<1> HIDE DEF idx, K
<1>4. ASSUME NEW x \in DOMAIN new.ids
      PROVE  \E q \in Known(w, t, u) : x \in IdsOf(t, q) /\ new.ids[x] = Place(w, t, q)
  <2>1. CASE x \in K
    BY <1>1, <1>3, <2>1 DEF idx
  <2>2. CASE x \notin K
    <3>1. x \in DOMAIN c.ids /\ new.ids[x] = c.ids[x]
      BY <1>1, <2>2
    <3> QED BY <3>1 DEF Guided
  <2> QED BY <2>1, <2>2
<1>5. ASSUME w = "responses", NEW q \in Known(w, t, u) PROVE ItemIds(t, q) \subseteq DOMAIN new.ids
  <2>1. CASE q \in Known(w, t, s)
    BY <1>1, <1>5, <2>1 DEF Guided
  <2>2. CASE q \notin Known(w, t, s)
    <3>1. q = p
      BY <2>2
    <3>2. ItemIds(t, p) = K
      BY <1>5, <2>2, <3>1 DEF ItemSays, K
    <3> QED BY <1>1, <3>1, <3>2
  <2> QED BY <2>1, <2>2
<1>6. ASSUME NEW i \in DOMAIN new.outs
      PROVE  \E q \in Known(w, t, u) : /\ i <= Place(w, t, q) /\ new.outs[i] = Place(w, t, q)
                                       /\ Exact(w, t, g) => i = Place(w, t, q)
  <2>1. CASE i = d.index
    <3>1. new.outs[i] = Place(w, t, p)
      BY <1>2, <2>1 DEF With, idx
    <3> QED BY <2>1, <3>1
  <2>2. CASE i # d.index
    <3>1. i \in DOMAIN c.outs /\ new.outs[i] = c.outs[i]
      BY <1>2, <2>2 DEF With
    <3> QED BY <3>1 DEF Guided
  <2> QED BY <2>1, <2>2
<1>7. ASSUME NEW q \in Known(w, t, u) PROVE Place(w, t, q) \in DOMAIN new.outs
  <2>1. CASE q \in Known(w, t, s)
    BY <1>2, <2>1 DEF Guided, With
  <2>2. CASE q \notin Known(w, t, s)
    <3>1. q = p /\ d.index = Place(w, t, p)
      BY <2>2 DEF ItemSays
    <3> QED BY <1>2, <3>1 DEF With
  <2> QED BY <2>1, <2>2
<1> QED BY <1>4, <1>5, <1>6, <1>7 DEF Guided

\* What is said of a call: by its announcement all, by a fragment of it
\* nothing that is not known.
IsMerged(w, t, p, d, old) ==
    LET e == Merge(d, old) IN
    e.name = At(t, p) /\ e.id = IdFor(At(t, p)) /\ e.kind = KindFor(w, At(t, p))

\* A delta of an item says it, and fragments leave it.
LEMMA MergeSays ==
    ASSUME NEW t \in Turns, NEW w, NEW g, NEW p \in ToolPlaces(t), NEW d, NEW old,
           \/ ItemSays(w, t, p, d) /\ (KindFor(w, At(t, p)) = "" => old.kind = "")
           \/ /\ FragmentSays(w, t, g, p, d)
              /\ old.name = At(t, p) /\ old.id = IdFor(At(t, p)) /\ old.kind = KindFor(w, At(t, p))
    PROVE  IsMerged(w, t, p, d, old)
<1>1. At(t, p) # NoName /\ IdFor(At(t, p)) # NoId
  BY TurnFacts DEF IdFor, CallId, ItemId, NoId
<1>2. CASE ItemSays(w, t, p, d) /\ (KindFor(w, At(t, p)) = "" => old.kind = "")
  <2>1. d.name = At(t, p) /\ d.id = IdFor(At(t, p)) /\ d.kind = KindFor(w, At(t, p))
    BY <1>2 DEF ItemSays
  <2> QED BY <1>1, <1>2, <2>1 DEF IsMerged, Merge
<1>3. CASE /\ FragmentSays(w, t, g, p, d)
           /\ old.name = At(t, p) /\ old.id = IdFor(At(t, p)) /\ old.kind = KindFor(w, At(t, p))
  <2>1. d.id = NoId /\ d.name = NoName /\ d.kind \in {"", KindFor(w, At(t, p))}
    BY <1>3 DEF FragmentSays
  <2> QED BY <1>3, <2>1 DEF IsMerged, Merge
<1> QED BY <1>2, <1>3

\* The calls that are known are named after such a delta.
LEMMA NamedTaken ==
    ASSUME NEW t \in Turns, NEW w, NEW s, NEW u, NEW c, Named(w, t, s, c),
           NEW p \in ToolPlaces(t), Known(w, t, u) = Known(w, t, s) \cup {p},
           NEW d, NEW old, NEW new,
           IsTaken(new, c, d, Place(w, t, p), old, Kin(t), DeltaOf(Kin(t))),
           IsMerged(w, t, p, d, old)
    PROVE  /\ Named(w, t, u, new)
           /\ \A q \in Known(w, t, s) : q # p => new.acc[Place(w, t, q)] = c.acc[Place(w, t, q)]
<1>1. /\ DOMAIN new.acc = DOMAIN c.acc \cup {Place(w, t, p)}
      /\ \A i \in DOMAIN c.acc : i # Place(w, t, p) => new.acc[i] = c.acc[i]
      /\ new.acc[Place(w, t, p)].id = Merge(d, old).id
      /\ new.acc[Place(w, t, p)].name = Merge(d, old).name
      /\ new.acc[Place(w, t, p)].kind = Merge(d, old).kind
  BY DEF IsTaken
<1>2. \A q \in Known(w, t, s) : q # p => new.acc[Place(w, t, q)] = c.acc[Place(w, t, q)]
  <2> SUFFICES ASSUME NEW q \in Known(w, t, s), q # p
               PROVE  new.acc[Place(w, t, q)] = c.acc[Place(w, t, q)]
    OBVIOUS
  <2>1. q \in ToolPlaces(t) /\ Place(w, t, q) \in DOMAIN c.acc
    BY DEF Known, Named
  <2>2. Place(w, t, q) # Place(w, t, p)
    BY <2>1, PlaceApart
  <2> QED BY <1>1, <2>1, <2>2
<1>3. DOMAIN new.acc = {Place(w, t, q) : q \in Known(w, t, u)}
  BY <1>1 DEF Named
<1>4. ASSUME NEW q \in Known(w, t, u)
      PROVE  /\ new.acc[Place(w, t, q)].name = At(t, q)
             /\ new.acc[Place(w, t, q)].id = IdFor(At(t, q))
             /\ new.acc[Place(w, t, q)].kind = KindFor(w, At(t, q))
  <2>1. CASE q = p
    BY <1>1, <2>1 DEF IsMerged
  <2>2. CASE q # p
    <3>1. q \in Known(w, t, s)
      BY <2>2
    <3> QED BY <1>2, <2>2, <3>1 DEF Named
  <2> QED BY <2>1, <2>2
<1> QED BY <1>2, <1>3, <1>4 DEF Named

\* The fields of an event.
LEMMA EventFields ==
    \A a, p, k : Event(a, p, k).t = a /\ Event(a, p, k).p = p /\ Event(a, p, k).k = k
BY DEF Event

\* A delta d of the call at e.p, taken by the collector of a stream whose
\* fragments can be attributed.
IsStep(w, t, g, s, e, c, d) ==
    /\ ~g.whole /\ Speaks(w, g, t) /\ Tells(w, t, g)
    /\ IsNext(w, t, g, s, e) /\ Sound(c, Kin(t)) /\ Streamed(w, t, g, s, c)
    /\ e.p \in ToolPlaces(t) /\ d \in Own(t, e.p) /\ Acts(w, t, g, e, d)

\* When the fragments of a call tell nothing, it is the only one, announced
\* before them.
LEMMA LostFacts ==
    ASSUME NEW t \in Turns, NEW w \in {"responses", "chat", "messages"}, NEW g \in Gateways, ~g.whole,
           Tells(w, t, g), Lost(w, t, g)
    PROVE  /\ w = "responses" /\ Lone(t) /\ ~g.early
           /\ \A p \in ToolPlaces(t) : KindOf[At(t, p)] \in {"function", "custom_tool"}
<1>1. PICK p \in ToolPlaces(t) : ~Tracked(w, t, g, p)
  BY DEF Lost
<1>2. /\ w = "responses" /\ KindOf[At(t, p)] \in {"function", "custom_tool"}
      /\ ~(KindOf[At(t, p)] = "function" /\ g.ids) /\ ArgsIndex(t, g, p) # p
  BY <1>1, TurnFacts, KindFacts DEF Tracked
<1>3. ~Placed(w, g)
  BY <1>2 DEF Placed, ArgsIndex
<1>4. ~ById(w, g, t)
  BY <1>2 DEF ById
<1>5. Lone(t)
  BY <1>3, <1>4 DEF Tells
<1>6. ~g.early
  <2>1. g.early => KindOf[At(t, p)] # "custom_tool" /\ g.ids
    BY DEF Tells
  <2>2. g.early \in BOOLEAN
    BY StreamAssumption
  <2> QED BY <1>2, <2>1, <2>2
<1> QED BY <1>2, <1>5, <1>6, LoneSame

\* A delta that says all of its call is resolved to it.
LEMMA ItemResolve ==
    ASSUME NEW t \in Turns, NEW w \in {"responses", "chat", "messages"}, NEW g \in Gateways,
           NEW s, NEW e, NEW c, NEW d, IsStep(w, t, g, s, e, c, d), ItemSays(w, t, e.p, d)
    PROVE  /\ e = Announce(w, e.p) => e.p \notin Known(w, t, s)
           /\ e # Announce(w, e.p) => e.p \in Known(w, t, s)
           /\ Resolve(d, c) = Place(w, t, e.p) /\ d.index = Place(w, t, e.p)
<1>1. Guided(w, t, g, s, c) /\ IsNext(w, t, g, s, e) /\ e.p \in ToolPlaces(t) /\ d \in Own(t, e.p)
  BY DEF IsStep, Streamed
<1>2. d.name # NoName /\ d.index = Place(w, t, e.p)
  BY <1>1, TurnFacts DEF ItemSays
<1>3. ~Adds(w, t, g, e.p, e, d) /\ ~Closes(w, t, g, e.p, e, d)
  BY <1>2 DEF Adds, Closes, FragmentSays
<1>4. CASE e = Announce(w, e.p)
  <2>1. e.p \notin Known(w, t, s) /\ \A q \in Known(w, t, s) : q < e.p
    BY <1>1, <1>4 DEF IsNext, Known
  <2>2. Resolve(d, c) = Place(w, t, e.p)
    BY <1>1, <2>1, NewResolve
  <2> QED BY <1>2, <1>4, <2>1, <2>2
<1>5. CASE e # Announce(w, e.p)
  <2>0. Ends(w, t, e.p, e, d) \/ Advances(w, t, e.p, e, d)
    BY <1>3, <1>5 DEF IsStep, Acts, Opens
  <2>1. w = "responses" /\ e.t \in {"done", "progress"}
    BY <2>0, EventFields DEF Ends, Advances
  <2>2. e.p \in Known(w, t, s)
    BY <1>1, <2>1 DEF IsNext, Known
  <2>3. Resolve(d, c) = Place(w, t, e.p)
    BY <1>1, <2>1, <2>2, KnownResolve
  <2> QED BY <1>2, <1>5, <2>2, <2>3
<1> QED BY <1>4, <1>5

\* What a delta that is resolved does: c becomes new, the call at p had the
\* entry old.
IsResolved(w, t, g, s, u, c, d, p, old, new) ==
    /\ Guided(w, t, g, u, new) /\ Named(w, t, u, new)
    /\ \A q \in Known(w, t, s) : q # p => new.acc[Place(w, t, q)] = c.acc[Place(w, t, q)]
    /\ IsExact(new, c, d, Place(w, t, p), old)
    /\ new.parked \in Seq(DeltaOf(Kin(t)))
    /\ old = IF p \in Known(w, t, s) THEN c.acc[Place(w, t, p)] ELSE NewEntry
    /\ Merge(d, old).kind = KindFor(w, At(t, p))

\* A delta that is resolved.
LEMMA ResolvedDelta ==
    ASSUME NEW t \in Turns, NEW w \in {"responses", "chat", "messages"}, NEW g \in Gateways, ~g.whole,
           NEW s, NEW u, NEW p \in ToolPlaces(t), NEW c, NEW d \in Own(t, p), Sound(c, Kin(t)),
           Guided(w, t, g, s, c), Named(w, t, s, c),
           Known(w, t, u) = Known(w, t, s) \cup {p},
           Resolve(d, c) = Place(w, t, p),
           \/ ItemSays(w, t, p, d)
           \/ p \in Known(w, t, s) /\ FragmentSays(w, t, g, p, d) /\ ~Lost(w, t, g)
    PROVE  \E old : IsResolved(w, t, g, s, u, c, d, p, old, TakeDelta(c, d))
<1> DEFINE idx == Place(w, t, p)
           old == IF idx \in DOMAIN c.acc THEN c.acc[idx] ELSE NewEntry
           new == TakeDelta(c, d)
<1>1. idx \in Nat /\ d \in DeltaOf(Kin(t)) /\ DOMAIN c = Fields
  BY PlaceApart, OwnFacts DEF Sound
<1>2. p \in Known(w, t, s) <=> idx \in DOMAIN c.acc
  <2>1. \A q \in Known(w, t, s) : q \in ToolPlaces(t)
    BY DEF Known
  <2>2. \A q \in Known(w, t, s) : Place(w, t, q) = idx => q = p
    BY <2>1, PlaceApart
  <2> QED BY <2>2 DEF Named
<1>3. old = IF p \in Known(w, t, s) THEN c.acc[idx] ELSE NewEntry
  BY <1>2
<1> HIDE DEF old
<1>4. IsTaken(new, c, d, idx, old, Kin(t), DeltaOf(Kin(t))) /\ IsExact(new, c, d, idx, old)
  <2> HIDE DEF idx, new
  <2>1. idx = Resolve(d, c) /\ new = TakeDelta(c, d)
    BY DEF idx, new
  <2>2. old = IF idx \in DOMAIN c.acc THEN c.acc[idx] ELSE NewEntry
    BY DEF old
  <2> QED BY <1>1, <2>1, <2>2, TakenExact
<1> HIDE DEF new
<1>5. d.index <= idx /\ (Exact(w, t, g) => d.index = idx)
  <2>1. CASE ItemSays(w, t, p, d)
    BY <1>1, <2>1 DEF ItemSays
  <2>2. CASE FragmentSays(w, t, g, p, d) /\ ~Lost(w, t, g)
    <3>1. Placed(w, g) => d.index = idx
      BY <2>2 DEF Placed, FragmentSays, ArgsIndex, Place
    <3> QED BY <2>2, <3>1 DEF Exact, FragmentSays
  <2> QED BY <2>1, <2>2
<1>6. IsMerged(w, t, p, d, old)
  <2>1. CASE ItemSays(w, t, p, d)
    <3>1. KindFor(w, At(t, p)) = "" => old.kind = ""
      BY <1>3 DEF Named, NewEntry
    <3> QED BY <2>1, <3>1, MergeSays
  <2>2. CASE p \in Known(w, t, s) /\ FragmentSays(w, t, g, p, d)
    <3>1. old.name = At(t, p) /\ old.id = IdFor(At(t, p)) /\ old.kind = KindFor(w, At(t, p))
      BY <1>3, <2>2 DEF Named
    <3> QED BY <2>2, <3>1, MergeSays
  <2> QED BY <2>1, <2>2
<1>7. Guided(w, t, g, u, new)
  BY <1>1, <1>4, <1>5, GuidedTaken
<1>8. /\ Named(w, t, u, new)
      /\ \A q \in Known(w, t, s) : q # p => new.acc[Place(w, t, q)] = c.acc[Place(w, t, q)]
  BY <1>4, <1>6, NamedTaken
<1>9. IsResolved(w, t, g, s, u, c, d, p, old, new)
  BY <1>3, <1>4, <1>6, <1>7, <1>8 DEF IsResolved, IsTaken, IsMerged
<1> QED BY <1>9 DEF new

\* What is parked for others waits on after a delta that was resolved.
LEMMA WaitsStep ==
    ASSUME NEW t \in Turns, NEW w \in {"responses", "chat", "messages"}, NEW g \in Gateways,
           NEW s, NEW e, e.p \in ToolPlaces(t), NEW c, Waits(w, t, s, c), Sound(c, Kin(t)),
           NEW d \in Own(t, e.p), NEW old, NEW new,
           Waiting(w, t, s \cup {e}) = Waiting(w, t, s) \ {e.p},
           e.p \in Waiting(w, t, s) => ItemSays(w, t, e.p, d),
           IsResolved(w, t, g, s, s \cup {e}, c, d, e.p, old, new)
    PROVE  Waits(w, t, s \cup {e}, new)
<1> DEFINE K == Grafted(d, Merge(d, old).kind)
           p == e.p
           u == s \cup {e}
<1>1. Remains(new.parked, c.parked, K) /\ Merge(d, old).kind = KindFor(w, At(t, p))
  BY DEF IsResolved, IsExact
<1>2. K \subseteq IdsOf(t, p)
  <2>1. \A x \in {d.id, d.item} : x # NoId => x \in IdsOf(t, p)
    BY OwnFacts
  <2> QED BY <2>1 DEF Grafted
<1>0. new.parked \in Seq(DeltaOf(Kin(t)))
  BY DEF IsResolved
<1>3. w # "responses" => new.parked = <<>>
  <2> SUFFICES ASSUME w # "responses" PROVE new.parked = <<>>
    OBVIOUS
  <2>1. c.parked = <<>>
    BY DEF Waits
  <2>2. \A n \in 1 .. Len(new.parked) : \E m \in 1 .. Len(c.parked) : new.parked[n] = c.parked[m]
    BY <1>1 DEF Remains
  <2>3. ~(1 \in 1 .. Len(new.parked))
    BY <2>1, <2>2
  <2> QED BY <1>0, <2>3
<1>4. ASSUME NEW n \in 1 .. Len(new.parked)
      PROVE  \E q \in Waiting(w, t, u) :
                KindOf[At(t, q)] = "function" /\ Key(new.parked[n]) = ItemId(At(t, q))
  <2>1. Key(new.parked[n]) \notin K
    BY <1>1 DEF Remains
  <2>2. PICK m \in 1 .. Len(c.parked) : new.parked[n] = c.parked[m]
    BY <1>1 DEF Remains
  <2>3. PICK q \in Waiting(w, t, s) :
          KindOf[At(t, q)] = "function" /\ Key(new.parked[n]) = ItemId(At(t, q))
    BY <2>2 DEF Waits
  <2>4. q # p
    <3> SUFFICES ASSUME q = p PROVE FALSE
      OBVIOUS
    <3>1. ItemSays(w, t, p, d) /\ w = "responses"
      <4>1. w # "responses" => Len(c.parked) = 0
        BY DEF Waits
      <4> QED BY <2>2, <4>1
    <3>2. ItemId(At(t, p)) \in {d.id, d.item} \ {NoId} /\ KindFor(w, At(t, p)) # "server"
      BY <2>3, <3>1 DEF ItemSays, ItemIds, KindFor
    <3>3. ItemId(At(t, p)) \in K
      BY <1>1, <3>2 DEF Grafted
    <3> QED BY <2>1, <2>3, <3>3
  <2> QED BY <2>3, <2>4
<1>5. ASSUME NEW q \in Waiting(w, t, u)
      PROVE  \E n : /\ Earned(t, u, q, n, Snaps(t, q))
                    /\ IsJoined(<<>>, Prefix(At(t, q), n), new.parked, {ItemId(At(t, q))})
  <2>1. q \in Waiting(w, t, s) /\ q # p /\ q \in ToolPlaces(t)
    BY DEF Waiting
  <2>2. PICK n : /\ Earned(t, s, q, n, Snaps(t, q))
                 /\ IsJoined(<<>>, Prefix(At(t, q), n), c.parked, {ItemId(At(t, q))})
    BY <2>1 DEF Waits
  <2>3. e \notin Snaps(t, q) /\ \A k \in Nat : e # Event("args", q, k)
    BY <2>1, OtherEvents
  <2>4. Earned(t, u, q, n, Snaps(t, q))
    BY <2>2, <2>3, EarnedKept
  <2>5. {ItemId(At(t, q))} \cap K = {}
    <3>1. ItemId(At(t, q)) \in IdsOf(t, q)
      BY DEF IdsOf
    <3>2. ItemId(At(t, q)) \notin IdsOf(t, p)
      BY <2>1, <3>1, IdsApart
    <3> QED BY <1>2, <3>2
  <2>6. IsJoined(<<>>, Prefix(At(t, q), n), new.parked, {ItemId(At(t, q))})
    BY <1>1, <2>2, <2>5 DEF Remains
  <2> QED BY <2>4, <2>6
<1> QED BY <1>3, <1>4, <1>5 DEF Waits

\* A delta appends its fragments to those of a client call.
LEMMA MergeArgs ==
    ASSUME NEW d, NEW old, Merge(d, old).kind # "server"
    PROVE  Merge(d, old).args = IF d.args = <<>> THEN old.args
                                ELSE AppendFragment(old.args, d.args)
BY DEF Merge

\* A snapshot of the arguments of a call makes them whole.
LEMMA MergeAll ==
    ASSUME NEW x \in Tools, NEW n \in {0, Len(Args(x))}, NEW d, NEW old,
           Merge(d, old).kind # "server", old.args = Prefix(x, n), d.args = Args(x)
    PROVE  Merge(d, old).args = Args(x)
<1>1. Merge(d, old).args = IF d.args = <<>> THEN old.args ELSE AppendFragment(old.args, d.args)
  BY MergeArgs
<1>2. CASE d.args = <<>>
  <2>1. Len(Args(x)) = 0 /\ n = 0
    BY <1>2
  <2> QED BY <1>1, <1>2, <2>1, PrefixFacts
<1>3. CASE d.args # <<>>
  BY <1>1, <1>3, AppendArgs
<1> QED BY <1>2, <1>3

\* No fragments are sent for a shell call: its arguments come with its item.
LEMMA ShellEarned ==
    ASSUME NEW t \in Turns, NEW g, NEW s, s \subseteq ResponsesEvents(t, g), NEW e,
           NEW p \in ToolPlaces(t), KindOf[At(t, p)] = "local_shell",
           e \in {Announce("responses", p), Event("done", p, 0)},
           NEW n, Earned(t, s, p, n, Snaps(t, p))
    PROVE  /\ n \in {0, Len(Args(At(t, p)))}
           /\ Earned(t, s \cup {e}, p, Len(Args(At(t, p))), Snaps(t, p))
<1> DEFINE len == Len(Args(At(t, p)))
<1>1. len \in Nat /\ len <= Pieces /\ Pieces \in Nat
  BY TurnFacts, ArgsFacts, PiecesAssumption
<1>2. ASSUME NEW k, Event("args", p, k) \in s \cup {e} PROVE FALSE
  <2> DEFINE f == Event("args", p, k)
  <2>1. f.p = p /\ f.t = "args" /\ f \in ResponsesEvents(t, g)
    BY <1>2, EventFields DEF Announce, Added, Event
  <2> HIDE DEF f
  <2>2. IsResponsesEvent(t, g, f)
    BY <2>1, ResponsesEvent
  <2>3. f.t # "text" /\ f.t # "think" /\ f.t # "end" /\ f.t # "added" /\ f.t # "done"
        /\ f.t # "progress"
    BY <2>1
  <2> QED BY <2>1, <2>2, <2>3, EventFields DEF IsResponsesEvent
<1>3. n \in 0 .. len /\ (n = len \/ \A j \in 1 .. n : Event("args", p, j) \in s)
  BY DEF Earned
<1>4. n \in {0, len}
  <2>1. n # 0 => 1 \in 1 .. n
    BY <1>1, <1>3
  <2> QED BY <1>2, <1>3, <2>1
<1>5. len \in 0 .. len
  BY <1>1
<1>6. Earned(t, s \cup {e}, p, len, Snaps(t, p))
  BY <1>2, <1>5 DEF Earned
<1> QED BY <1>4, <1>6

\* What waits is of other calls than one that is known.
LEMMA NoneWaits ==
    ASSUME NEW t \in Turns, NEW w, NEW s, NEW c, Waits(w, t, s, c), Sound(c, Kin(t)),
           NEW p \in ToolPlaces(t), p \in Known(w, t, s) \/ KindOf[At(t, p)] # "function",
           NEW K, K \subseteq IdsOf(t, p), NEW start, NEW list, IsJoined(start, list, c.parked, K)
    PROVE  list = start
<1>1. c.parked \in Seq(DeltaOf(Kin(t)))
  BY DEF Sound
<1>2. ASSUME NEW n \in 1 .. Len(c.parked) PROVE Key(c.parked[n]) \notin K
  <2>1. PICK q \in Waiting(w, t, s) :
          KindOf[At(t, q)] = "function" /\ Key(c.parked[n]) = ItemId(At(t, q))
    BY DEF Waits
  <2>2. q # p /\ q \in ToolPlaces(t) /\ ItemId(At(t, q)) \in IdsOf(t, q)
    BY <2>1 DEF Waiting, IdsOf
  <2> QED BY <2>1, <2>2, IdsApart
<1> QED BY <1>1, <1>2, JoinedNone

\* A client call that is announced has the fragments that waited for it.
LEMMA OpensArgs ==
    ASSUME NEW t \in Turns, NEW w \in {"responses", "chat", "messages"}, NEW g \in Gateways,
           NEW s, NEW e, NEW c, NEW d, IsStep(w, t, g, s, e, c, d), Waits(w, t, s, c),
           Opens(w, t, e.p, e, d), e.p \notin Known(w, t, s), NEW old, NEW new,
           IsResolved(w, t, g, s, s \cup {e}, c, d, e.p, old, new)
    PROVE  HasArgs(w, t, s \cup {e}, new, e.p)
<1> DEFINE p == e.p
           u == s \cup {e}
           x == At(t, p)
           K == Grafted(d, Merge(d, old).kind)
           args == new.acc[Place(w, t, p)].args
<1> SUFFICES ASSUME KindOf[x] # "server"
             PROVE  \E n : Earned(t, u, p, n, Snaps(t, p)) /\ args = Prefix(x, n)
  BY DEF HasArgs
<1>1. p \in ToolPlaces(t) /\ x \in Tools /\ d \in Own(t, p) /\ Sound(c, Kin(t))
  BY TurnFacts DEF IsStep
<1>2. p \in Waiting(w, t, s)
  BY <1>1 DEF Waiting
<1>3. PICK n : /\ Earned(t, s, p, n, Snaps(t, p))
               /\ IsJoined(<<>>, Prefix(x, n), c.parked, {ItemId(x)})
  BY <1>2 DEF Waits
<1>4. IsJoined(Merge(d, old).args, args, c.parked, K) /\ old = NewEntry
      /\ Merge(d, old).kind = KindFor(w, x)
  BY DEF IsResolved, IsExact
<1>5. KindFor(w, x) # "server"
  BY DEF KindFor
<1>6. K = {d.id, d.item} \ {NoId} /\ K \subseteq IdsOf(t, p)
  <2>1. \A y \in {d.id, d.item} : y # NoId => y \in IdsOf(t, p)
    BY <1>1, OwnFacts
  <2> QED BY <1>4, <1>5, <2>1 DEF Grafted
<1>7. c.parked \in Seq(DeltaOf(Kin(t)))
  BY <1>1 DEF Sound
<1>8. CASE KindOf[x] = "local_shell"
  <2>1. w = "responses" /\ s \subseteq ResponsesEvents(t, g)
    <3>1. w # "responses" => KindOf[x] = "function"
      <4>1. p + 1 \in 1 .. Len(t) /\ t[p + 1] = x
        BY <1>1, TurnFacts DEF At
      <4> QED BY <1>1, <4>1 DEF IsStep, Speaks
    <3>2. s \subseteq StreamEvents(w, t, g)
      BY DEF IsStep, IsNext
    <3> QED BY <1>8, <3>1, <3>2 DEF StreamEvents
  <2>2. d.args = Args(x) /\ NewEntry.args = Prefix(x, 0)
    BY <1>1, <1>8, PrefixFacts DEF Opens, NewEntry
  <2>3. Merge(d, old).args = Args(x)
    BY <1>1, <1>4, <1>5, <2>2, MergeAll
  <2>4. args = Args(x)
    BY <1>1, <1>4, <1>6, <1>8, <2>3, NoneWaits
  <2>5. Earned(t, u, p, Len(Args(x)), Snaps(t, p))
    BY <1>1, <1>3, <1>8, <2>1, ShellEarned DEF Opens
  <2> QED BY <1>1, <2>4, <2>5, PrefixFacts
<1>9. CASE KindOf[x] # "local_shell"
  <2>1. d.args = <<>>
    BY <1>9 DEF Opens
  <2>2. Merge(d, old).args = <<>>
    BY <1>4, <1>5, <2>1, MergeArgs DEF NewEntry
  <2>3. ASSUME NEW m \in 1 .. Len(c.parked)
        PROVE  Key(c.parked[m]) \in K <=> Key(c.parked[m]) \in {ItemId(x)}
    <3>1. PICK q \in Waiting(w, t, s) :
            KindOf[At(t, q)] = "function" /\ Key(c.parked[m]) = ItemId(At(t, q))
      BY DEF Waits
    <3>2. CASE q = p
      <4>1. w = "responses"
        <5>1. w # "responses" => Len(c.parked) = 0
          BY DEF Waits
        <5> QED BY <5>1
      <4>2. ItemId(x) \in {d.id, d.item} \ {NoId}
        BY <3>1, <3>2, <4>1 DEF Opens, ItemSays, ItemIds
      <4> QED BY <1>6, <3>1, <3>2, <4>2
    <3>3. CASE q # p
      <4>1. q \in ToolPlaces(t) /\ ItemId(At(t, q)) \in IdsOf(t, q) /\ ItemId(x) \in IdsOf(t, p)
        BY DEF Waiting, IdsOf
      <4>2. ItemId(At(t, q)) \notin IdsOf(t, p)
        BY <1>1, <3>3, <4>1, IdsApart
      <4> QED BY <1>6, <3>1, <4>1, <4>2
    <3> QED BY <3>2, <3>3
  <2>4. args = Prefix(x, n)
    BY <1>3, <1>4, <1>7, <2>2, <2>3, JoinedSame
  <2>5. e \notin Snaps(t, p) /\ \A k \in Nat : e # Event("args", p, k)
    <3>1. e.t \in {"added", "start"}
      BY EventFields DEF Opens, Announce, Added
    <3> QED BY <3>1, EventFields DEF Snaps, Repeats
  <2>6. Earned(t, u, p, n, Snaps(t, p))
    BY <1>3, <2>5, EarnedKept
  <2> QED BY <2>4, <2>6
<1> QED BY <1>8, <1>9

\* A client call that is known has what it was sent.
LEMMA KnownArgs ==
    ASSUME NEW t \in Turns, NEW w \in {"responses", "chat", "messages"}, NEW g \in Gateways,
           NEW s, NEW e, NEW c, NEW d, IsStep(w, t, g, s, e, c, d), Waits(w, t, s, c),
           e.p \in Known(w, t, s), HasArgs(w, t, s, c, e.p), NEW old, NEW new,
           IsResolved(w, t, g, s, s \cup {e}, c, d, e.p, old, new)
    PROVE  HasArgs(w, t, s \cup {e}, new, e.p)
<1> DEFINE p == e.p
           u == s \cup {e}
           x == At(t, p)
           K == Grafted(d, Merge(d, old).kind)
           len == Len(Args(x))
           args == new.acc[Place(w, t, p)].args
<1> SUFFICES ASSUME KindOf[x] # "server"
             PROVE  \E n : Earned(t, u, p, n, Snaps(t, p)) /\ args = Prefix(x, n)
  BY DEF HasArgs
<1>1. p \in ToolPlaces(t) /\ x \in Tools /\ d \in Own(t, p) /\ Sound(c, Kin(t))
      /\ IsNext(w, t, g, s, e) /\ Acts(w, t, g, e, d)
  BY TurnFacts DEF IsStep
<1>2. PICK n : Earned(t, s, p, n, Snaps(t, p)) /\ c.acc[Place(w, t, p)].args = Prefix(x, n)
  BY DEF HasArgs
<1>3. /\ IsJoined(Merge(d, old).args, args, c.parked, K) /\ old = c.acc[Place(w, t, p)]
      /\ Merge(d, old).kind = KindFor(w, x)
  BY DEF IsResolved, IsExact
<1>4. Merge(d, old).kind # "server"
  BY <1>3 DEF KindFor
<1>5. K \subseteq IdsOf(t, p)
  <2>1. \A y \in {d.id, d.item} : y # NoId => y \in IdsOf(t, p)
    BY <1>1, OwnFacts
  <2> QED BY <2>1 DEF Grafted
<1>6. args = Merge(d, old).args
  BY <1>1, <1>3, <1>5, NoneWaits
<1>7. \A y \in Snaps(t, p) : y.t # "args"
  BY EventFields DEF Snaps, Repeats
<1>8. KindOf[x] \in {"function", "custom_tool", "local_shell"}
  BY <1>1, KindFacts
<1>9. CASE Opens(w, t, p, e, d)
  <2>1. e \in s /\ e \notin s
    BY <1>1, <1>9 DEF Opens, Known, IsNext
  <2> QED BY <2>1
<1>10. CASE Advances(w, t, p, e, d)
  BY <1>10 DEF Advances
<1>11. ASSUME n \in {0, len}, Earned(t, u, p, len, Snaps(t, p)), d.args = Args(x)
       PROVE  \E m : Earned(t, u, p, m, Snaps(t, p)) /\ args = Prefix(x, m)
  <2>1. Merge(d, old).args = Args(x)
    BY <1>1, <1>2, <1>3, <1>4, <1>11, MergeAll
  <2> QED BY <1>1, <1>6, <1>11, <2>1, PrefixFacts
<1>12. CASE Ends(w, t, p, e, d)
  <2>1. w = "responses" /\ e = Event("done", p, 0) /\ e.t = "done" /\ d.args = Args(x)
    BY <1>12, EventFields DEF Ends
  <2>2. CASE KindOf[x] = "local_shell"
    <3>1. s \subseteq ResponsesEvents(t, g)
      BY <1>1, <2>1 DEF IsNext, StreamEvents
    <3>2. n \in {0, len} /\ Earned(t, u, p, len, Snaps(t, p))
      BY <1>1, <1>2, <2>1, <2>2, <3>1, ShellEarned
    <3> QED BY <1>11, <2>1, <3>2
  <2>3. CASE KindOf[x] \in {"function", "custom_tool"}
    <3>1. n \in {0, len} /\ Earned(t, u, p, len, Snaps(t, p))
      BY <1>1, <1>2, <2>1, <2>3, EarnedAll
    <3> QED BY <1>11, <2>1, <3>1
  <2> QED BY <1>8, <2>2, <2>3
<1>13. CASE Closes(w, t, g, p, e, d)
  <2>1. e.t = "argsdone" /\ KindOf[x] = "function" /\ d.args = Args(x)
    BY <1>13, EventFields DEF Closes
  <2>2. n \in {0, len} /\ Earned(t, u, p, len, Snaps(t, p))
    BY <1>1, <1>2, <2>1, EarnedAll
  <2> QED BY <1>11, <2>1, <2>2
<1>14. CASE Adds(w, t, g, p, e, d)
  <2>1. /\ e = Event("args", p, e.k) /\ e.k \in 1 .. len /\ d.args = Piece(x, e.k)
    BY <1>14 DEF Adds
  <2>2. /\ n \in {e.k - 1, len}
        /\ Earned(t, u, p, IF n = len THEN n ELSE e.k, Snaps(t, p))
    <3> HIDE DEF p, len, x
    <3>1. \A snaps : Earned(t, s, p, n, snaps) /\ (\A y \in snaps : y.t # "args") =>
             /\ n \in {e.k - 1, len}
             /\ Earned(t, u, p, IF n = len THEN n ELSE e.k, snaps)
      <4> USE DEF p, len, x
      <4> QED BY <1>1, <2>1, EarnedPiece
    <3> QED BY <1>2, <1>7, <3>1
  <2>3. AppendFragment(Prefix(x, n), Piece(x, e.k)) = Prefix(x, IF n = len THEN n ELSE e.k)
    BY <1>1, <2>1, <2>2, AppendPiece
  <2>4. d.args # <<>>
    BY <2>1 DEF Piece
  <2>5. Merge(d, old).args = AppendFragment(old.args, d.args)
    BY <1>4, <2>4, MergeArgs
  <2>6. args = Prefix(x, IF n = len THEN n ELSE e.k)
    BY <1>2, <1>3, <1>6, <2>1, <2>3, <2>5
  <2> QED BY <2>2, <2>6
<1> QED BY <1>1, <1>9, <1>10, <1>12, <1>13, <1>14 DEF Acts

\* A fragment that comes before its call is parked for it.
LEMMA ParkedStep ==
    ASSUME NEW t \in Turns, NEW w \in {"responses", "chat", "messages"}, NEW g \in Gateways,
           NEW s, NEW e, NEW c, NEW d, IsStep(w, t, g, s, e, c, d), ~Lost(w, t, g),
           e.p \notin Known(w, t, s), Adds(w, t, g, e.p, e, d)
    PROVE  Streamed(w, t, g, s \cup {e}, TakeDelta(c, d))
<1> DEFINE p == e.p
           u == s \cup {e}
           x == At(t, p)
           new == TakeDelta(c, d)
<1>1. /\ p \in ToolPlaces(t) /\ x \in Tools /\ d \in Own(t, p) /\ Sound(c, Kin(t)) /\ ~g.whole
      /\ IsNext(w, t, g, s, e) /\ Tells(w, t, g) /\ d \in DeltaOf(Kin(t))
      /\ Guided(w, t, g, s, c) /\ Named(w, t, s, c) /\ Waits(w, t, s, c)
      /\ \A q \in Known(w, t, s) : HasArgs(w, t, s, c, q)
  BY TurnFacts, OwnFacts DEF IsStep, Streamed
<1>2. /\ e = Event("args", p, e.k) /\ e.k \in 1 .. Len(Args(x)) /\ d.args = Piece(x, e.k)
      /\ FragmentSays(w, t, g, p, d) /\ e.t = "args"
  BY EventFields DEF Adds
<1>3. g.early
  <2>1. ~g.early => Announce(w, p) \in s
    BY <1>1, <1>2 DEF IsNext
  <2> QED BY <1>1, <2>1 DEF Known
<1>4. w = "responses"
  BY <1>3 DEF IsStep, Speaks
<1>5. KindOf[x] = "function" /\ d.item = ItemId(x) /\ d.id = NoId
  BY <1>1, <1>2, <1>3, <1>4 DEF Tells, FragmentSays
<1>6. Key(d) = ItemId(x)
  BY <1>5 DEF Key
<1>7. Resolve(d, c) = Unresolved
  BY <1>1, <1>2, <1>3, WaitingResolve
<1>8. new.acc = c.acc /\ new.ids = c.ids /\ new.outs = c.outs /\ new.parked = Append(c.parked, d)
  <2>1. new.acc = c.acc /\ new.ids = c.ids /\ new.outs = c.outs
    BY <1>1, <1>7, DeltaParked
  <2>2. new = [c EXCEPT !.parked = Append(c.parked, d)]
    BY <1>2, <1>7 DEF TakeDelta, Piece
  <2>3. DOMAIN c = Fields
    BY <1>1 DEF Sound
  <2> HIDE DEF new
  <2> QED BY <2>1, <2>2, <2>3 DEF Fields
<1>9. c.parked \in Seq(DeltaOf(Kin(t)))
  BY <1>1 DEF Sound
<1> HIDE DEF new
<1>10. Known(w, t, u) = Known(w, t, s) /\ Waiting(w, t, u) = Waiting(w, t, s)
  <2>1. e # Announce(w, p)
    BY <1>2, EventFields DEF Announce, Added
  <2>2. KnowsMore(w, t, s, e)
    BY <1>1, KnownStep
  <2> QED BY <2>1, <2>2 DEF KnowsMore
<1>11. Guided(w, t, g, u, new) /\ Named(w, t, u, new)
  BY <1>1, <1>8, <1>10 DEF Guided, Named
<1>12. ASSUME NEW q, q # p, NEW n, Earned(t, s, q, n, Snaps(t, q))
       PROVE  Earned(t, u, q, n, Snaps(t, q))
  <2>1. e \notin Snaps(t, q) /\ \A k \in Nat : e # Event("args", q, k)
    BY <1>12, OtherEvents
  <2> QED BY <1>12, <2>1, EarnedKept
<1>13. \A q \in Known(w, t, u) : HasArgs(w, t, u, new, q)
  <2> SUFFICES ASSUME NEW q \in Known(w, t, u) PROVE HasArgs(w, t, u, new, q)
    OBVIOUS
  <2>1. q # p /\ HasArgs(w, t, s, c, q)
    BY <1>1, <1>10
  <2> QED BY <1>8, <1>12, <2>1 DEF HasArgs
<1>14. \A n \in 1 .. Len(new.parked) : \E q \in Waiting(w, t, u) :
          KindOf[At(t, q)] = "function" /\ Key(new.parked[n]) = ItemId(At(t, q))
  <2> SUFFICES ASSUME NEW n \in 1 .. Len(new.parked)
               PROVE  \E q \in Waiting(w, t, u) :
                         KindOf[At(t, q)] = "function" /\ Key(new.parked[n]) = ItemId(At(t, q))
    OBVIOUS
  <2>1. p \in Waiting(w, t, u)
    BY <1>1, <1>10 DEF Waiting
  <2>2. new.parked[n] = d \/ (n \in 1 .. Len(c.parked) /\ new.parked[n] = c.parked[n])
    BY <1>8, <1>9
  <2>3. CASE new.parked[n] = d
    BY <1>5, <1>6, <2>1, <2>3
  <2>4. CASE n \in 1 .. Len(c.parked) /\ new.parked[n] = c.parked[n]
    BY <1>1, <1>10, <2>4 DEF Waits
  <2> QED BY <2>2, <2>3, <2>4
<1>15. ASSUME NEW q \in Waiting(w, t, u)
       PROVE  \E n : /\ Earned(t, u, q, n, Snaps(t, q))
                     /\ IsJoined(<<>>, Prefix(At(t, q), n), new.parked, {ItemId(At(t, q))})
  <2>1. q \in ToolPlaces(t)
    BY DEF Waiting
  <2>2. PICK n : /\ Earned(t, s, q, n, Snaps(t, q))
                 /\ IsJoined(<<>>, Prefix(At(t, q), n), c.parked, {ItemId(At(t, q))})
    BY <1>1, <1>10 DEF Waits
  <2> DEFINE list == Prefix(At(t, q), n)
             L == {ItemId(At(t, q))}
  <2>3. IsJoined(<<>>, JoinedOne(list, L, d), new.parked, L)
    <3> HIDE DEF list, L
    <3>1. IsJoined(<<>>, list, c.parked, L)
      BY <2>2 DEF list, L
    <3> QED BY <1>1, <1>8, <1>9, <3>1, JoinedAppend
  <2>4. CASE q # p
    <3>1. ItemId(x) \notin L
      <4>1. ItemId(x) \in IdsOf(t, p) /\ ItemId(At(t, q)) \in IdsOf(t, q)
        BY DEF IdsOf
      <4>2. ItemId(At(t, q)) \notin IdsOf(t, p)
        BY <1>1, <2>1, <2>4, <4>1, IdsApart
      <4> QED BY <4>1, <4>2
    <3>2. JoinedOne(list, L, d) = list
      BY <1>6, <3>1 DEF JoinedOne
    <3> QED BY <1>12, <2>2, <2>3, <2>4, <3>2
  <2>5. CASE q = p
    <3>1. \A y \in Snaps(t, p) : y.t # "args"
      BY EventFields DEF Snaps, Repeats
    <3> DEFINE m == IF n = Len(Args(x)) THEN n ELSE e.k
    <3>2. n \in {e.k - 1, Len(Args(x))} /\ Earned(t, u, p, m, Snaps(t, p))
      <4> HIDE DEF p, x
      <4>1. \A snaps : Earned(t, s, p, n, snaps) /\ (\A y \in snaps : y.t # "args") =>
               /\ n \in {e.k - 1, Len(Args(x))}
               /\ Earned(t, u, p, IF n = Len(Args(x)) THEN n ELSE e.k, snaps)
        <5> USE DEF p, x
        <5> QED BY <1>1, <1>2, EarnedPiece
      <4> QED BY <2>2, <2>5, <3>1, <4>1
    <3>3. AppendFragment(list, d.args) = Prefix(x, m)
      BY <1>1, <1>2, <2>5, <3>2, AppendPiece
    <3>4. JoinedOne(list, L, d) = Prefix(x, m)
      BY <1>6, <2>5, <3>3 DEF JoinedOne
    <3> QED BY <2>3, <2>5, <3>2, <3>4
  <2> QED BY <2>4, <2>5
<1>16. Waits(w, t, u, new)
  BY <1>4, <1>14, <1>15 DEF Waits
<1>17. ~Lost(w, t, g)
  OBVIOUS
<1> QED BY <1>11, <1>13, <1>16, <1>17 DEF Streamed, new

\* The item of an only call whose fragments tell nothing leaves them parked.
LEMMA StrayItem ==
    ASSUME NEW t \in Turns, NEW w \in {"responses", "chat", "messages"}, NEW g \in Gateways,
           NEW s, NEW e, NEW c, NEW d, IsStep(w, t, g, s, e, c, d), Lost(w, t, g),
           Opens(w, t, e.p, e, d) \/ Ends(w, t, e.p, e, d)
    PROVE  Streamed(w, t, g, s \cup {e}, TakeDelta(c, d))
<1> DEFINE p == e.p
           u == s \cup {e}
           x == At(t, p)
           new == TakeDelta(c, d)
<1>1. /\ p \in ToolPlaces(t) /\ x \in Tools /\ d \in Own(t, p) /\ Sound(c, Kin(t)) /\ ~g.whole
      /\ Tells(w, t, g) /\ Guided(w, t, g, s, c) /\ Named(w, t, s, c) /\ Stray(t, s, c)
  BY TurnFacts DEF IsStep, Streamed
<1>2. w = "responses" /\ Lone(t) /\ KindOf[x] \in {"function", "custom_tool"}
  BY <1>1, LostFacts
<1>3. ItemSays(w, t, p, d)
  BY DEF Opens, Ends
<1>4. /\ e = Announce(w, p) => p \notin Known(w, t, s)
      /\ e # Announce(w, p) => p \in Known(w, t, s)
      /\ Resolve(d, c) = Place(w, t, p) /\ Place(w, t, p) = p
  BY <1>2, <1>3, ItemResolve DEF Place
<1>5. Known(w, t, u) = Known(w, t, s) \cup {p}
  <2>1. p \in ToolPlaces(t)
    BY <1>1
  <2>2. KnowsMore(w, t, s, e)
    BY <2>1, KnownStep
  <2> QED BY <1>4, <2>2 DEF KnowsMore
<1>6. PICK old : IsResolved(w, t, g, s, u, c, d, p, old, new)
  BY <1>1, <1>3, <1>4, <1>5, ResolvedDelta
<1> DEFINE K == Grafted(d, Merge(d, old).kind)
           args == new.acc[p].args
<1>7. /\ Guided(w, t, g, u, new) /\ Named(w, t, u, new)
      /\ IsJoined(Merge(d, old).args, args, c.parked, K) /\ Remains(new.parked, c.parked, K)
      /\ old = IF p \in Known(w, t, s) THEN c.acc[p] ELSE NewEntry
      /\ Merge(d, old).kind = KindFor(w, x)
  BY <1>4, <1>6 DEF IsResolved, IsExact
<1> HIDE DEF new
<1>8. Merge(d, old).kind # "server" /\ NoId \notin K
  BY <1>2, <1>7 DEF KindFor, Grafted
<1>9. c.parked \in Seq(DeltaOf(Kin(t))) /\ \A n \in 1 .. Len(c.parked) : Key(c.parked[n]) = NoId
  BY <1>1 DEF Sound, Stray
<1>10. args = Merge(d, old).args
  <2>1. \A n \in 1 .. Len(c.parked) : Key(c.parked[n]) \notin K
    BY <1>8, <1>9
  <2> HIDE DEF K
  <2> QED BY <1>7, <1>9, <2>1, JoinedNone
<1>11. \A n \in 1 .. Len(new.parked) : Key(new.parked[n]) = NoId
  BY <1>7, <1>9 DEF Remains
<1>12. e \notin Repeats(t, p) /\ \A k \in Nat : e # Event("args", p, k)
  <2>1. e.t \in {"added", "done"}
    BY <1>2, EventFields DEF Opens, Ends, Announce, Added
  <2> QED BY <2>1, EventFields DEF Repeats
<1>13. \E n : /\ Earned(t, u, p, n, Repeats(t, p))
              /\ IsJoined(<<>>, Prefix(x, n), new.parked, {NoId})
  <2>1. PICK n : /\ Earned(t, s, p, n, Repeats(t, p))
                 /\ IsJoined(<<>>, Prefix(x, n), c.parked, {NoId})
    BY <1>1 DEF Stray
  <2>2. Earned(t, u, p, n, Repeats(t, p))
    BY <1>12, <2>1, EarnedKept
  <2>3. {NoId} \cap K = {}
    BY <1>8
  <2>4. IsJoined(<<>>, Prefix(x, n), new.parked, {NoId})
    BY <1>7, <2>1, <2>3 DEF Remains
  <2> QED BY <2>2, <2>4
<1>14. args = IF Event("done", p, 0) \in u THEN Args(x) ELSE <<>>
  <2>1. CASE Opens(w, t, p, e, d)
    <3>1. e = Announce(w, p) /\ d.args = <<>>
      BY <1>2, <2>1 DEF Opens
    <3>2. p \notin Known(w, t, s) /\ old = NewEntry
      BY <1>4, <1>7, <3>1
    <3>3. e # Event("done", p, 0)
      BY <1>2, <3>1, EventFields DEF Announce, Added
    <3>4. Event("done", p, 0) \notin u
      BY <1>1, <1>2, <3>2, <3>3 DEF Stray
    <3>5. Merge(d, old).args = <<>>
      BY <1>8, <3>1, <3>2, MergeArgs DEF NewEntry
    <3> QED BY <1>10, <3>4, <3>5
  <2>2. CASE Ends(w, t, p, e, d)
    <3>1. e = Event("done", p, 0) /\ e # Announce(w, p) /\ d.args = Args(x)
      BY <1>2, <2>2, EventFields DEF Ends, Announce, Added
    <3>2. p \in Known(w, t, s) /\ old = c.acc[p]
      BY <1>4, <1>7, <3>1
    <3>3. old.args \in {<<>>, Args(x)}
      BY <1>1, <1>2, <3>2 DEF Stray
    <3>4. \E n \in {0, Len(Args(x))} : old.args = Prefix(x, n)
      BY <1>1, <3>3, PrefixFacts
    <3>5. Merge(d, old).args = Args(x)
      BY <1>1, <1>8, <3>1, <3>4, MergeAll
    <3> QED BY <1>10, <3>1, <3>5
  <2> QED BY <2>1, <2>2
<1> HIDE DEF args
<1>15. Stray(t, u, new)
  <2>1. \A q \in ToolPlaces(t) : q = p
    BY <1>1, <1>2, LoneSame
  <2>2. p \in Known("responses", t, u)
    BY <1>2, <1>5
  <2> HIDE DEF p, u
  <2>3. new.acc[p].args = IF Event("done", p, 0) \in u THEN Args(At(t, p)) ELSE <<>>
    BY <1>14 DEF p, u, args
  <2> QED BY <1>11, <1>13, <2>1, <2>2, <2>3 DEF Stray
<1> QED BY <1>7, <1>15 DEF Streamed, new

\* Its fragments are parked.
LEMMA StrayFragment ==
    ASSUME NEW t \in Turns, NEW w \in {"responses", "chat", "messages"}, NEW g \in Gateways,
           NEW s, NEW e, NEW c, NEW d, IsStep(w, t, g, s, e, c, d), Lost(w, t, g),
           Adds(w, t, g, e.p, e, d) \/ Closes(w, t, g, e.p, e, d)
    PROVE  Streamed(w, t, g, s \cup {e}, TakeDelta(c, d))
<1> DEFINE p == e.p
           u == s \cup {e}
           x == At(t, p)
           new == TakeDelta(c, d)
<1>1. /\ p \in ToolPlaces(t) /\ x \in Tools /\ d \in Own(t, p) /\ Sound(c, Kin(t)) /\ ~g.whole
      /\ Tells(w, t, g) /\ Guided(w, t, g, s, c) /\ Named(w, t, s, c) /\ Stray(t, s, c)
      /\ IsNext(w, t, g, s, e) /\ d \in DeltaOf(Kin(t))
  BY TurnFacts, OwnFacts DEF IsStep, Streamed
<1>2. w = "responses" /\ Lone(t) /\ KindOf[x] \in {"function", "custom_tool"}
  BY <1>1, LostFacts
<1>3. FragmentSays(w, t, g, p, d)
  BY DEF Adds, Closes
<1>4. Resolve(d, c) = Unresolved /\ Key(d) = NoId
  BY <1>1, <1>2, <1>3, StrayResolve DEF Key
<1>5. /\ new.acc = c.acc /\ new.ids = c.ids /\ new.outs = c.outs
      /\ new.parked = IF d.args = <<>> THEN c.parked ELSE Append(c.parked, d)
  <2>1. new.acc = c.acc /\ new.ids = c.ids /\ new.outs = c.outs
    BY <1>1, <1>4, DeltaParked
  <2>2. new = IF d.args = <<>> THEN c ELSE [c EXCEPT !.parked = Append(c.parked, d)]
    BY <1>4 DEF TakeDelta
  <2>3. DOMAIN c = Fields
    BY <1>1 DEF Sound
  <2> HIDE DEF new
  <2> QED BY <2>1, <2>2, <2>3 DEF Fields
<1>6. c.parked \in Seq(DeltaOf(Kin(t))) /\ \A n \in 1 .. Len(c.parked) : Key(c.parked[n]) = NoId
  BY <1>1 DEF Sound, Stray
<1> HIDE DEF new
<1>7. e.t \in {"args", "argsdone"}
  BY EventFields DEF Adds, Closes
<1>8. Known(w, t, u) = Known(w, t, s)
  <2>1. e # Announce(w, p) /\ p \in ToolPlaces(t)
    BY <1>1, <1>2, <1>7, EventFields DEF Announce, Added
  <2>2. KnowsMore(w, t, s, e)
    BY <2>1, KnownStep
  <2> QED BY <2>1, <2>2 DEF KnowsMore
<1>9. Guided(w, t, g, u, new) /\ Named(w, t, u, new)
  <2>1. Guided(w, t, g, u, new)
    <3>1. Guided(w, t, g, s, c)
      BY <1>1
    <3> HIDE DEF u
    <3> QED BY <1>5, <1>8, <3>1 DEF Guided
  <2>2. Named(w, t, u, new)
    <3>1. Named(w, t, s, c)
      BY <1>1
    <3> HIDE DEF u
    <3> QED BY <1>5, <1>8, <3>1 DEF Named
  <2> QED BY <2>1, <2>2
<1>10. \A n \in 1 .. Len(new.parked) : Key(new.parked[n]) = NoId
  <2>1. CASE d.args = <<>>
    BY <1>5, <1>6, <2>1
  <2>2. CASE d.args # <<>>
    BY <1>4, <1>5, <1>6, <2>2
  <2> QED BY <2>1, <2>2
<1>11. PICK n : /\ Earned(t, s, p, n, Repeats(t, p))
                /\ IsJoined(<<>>, Prefix(x, n), c.parked, {NoId})
  BY <1>1 DEF Stray
<1> DEFINE list == Prefix(x, n)
           more == IF d.args = <<>> THEN list ELSE AppendFragment(list, d.args)
<1>12. IsJoined(<<>>, more, new.parked, {NoId})
  <2>1. CASE d.args = <<>>
    BY <1>5, <1>11, <2>1
  <2>2. CASE d.args # <<>>
    <3> HIDE DEF list
    <3>1. IsJoined(<<>>, list, c.parked, {NoId})
      BY <1>11 DEF list
    <3>2. IsJoined(<<>>, JoinedOne(list, {NoId}, d), Append(c.parked, d), {NoId})
      BY <1>1, <1>6, <3>1, JoinedAppend
    <3>3. JoinedOne(list, {NoId}, d) = AppendFragment(list, d.args)
      BY <1>4 DEF JoinedOne
    <3> QED BY <1>5, <2>2, <3>2, <3>3
  <2> QED BY <2>1, <2>2
<1>13. \E m : Earned(t, u, p, m, Repeats(t, p)) /\ more = Prefix(x, m)
  <2>1. CASE Adds(w, t, g, p, e, d)
    <3>1. /\ e = Event("args", p, e.k) /\ e.k \in 1 .. Len(Args(x)) /\ d.args = Piece(x, e.k)
          /\ d.args # <<>>
      BY <2>1 DEF Adds, Piece
    <3>2. \A y \in Repeats(t, p) : y.t # "args"
      BY EventFields DEF Repeats
    <3> DEFINE m == IF n = Len(Args(x)) THEN n ELSE e.k
    <3>3. n \in {e.k - 1, Len(Args(x))} /\ Earned(t, u, p, m, Repeats(t, p))
      <4> HIDE DEF p, x
      <4>1. \A snaps : Earned(t, s, p, n, snaps) /\ (\A y \in snaps : y.t # "args") =>
               /\ n \in {e.k - 1, Len(Args(x))}
               /\ Earned(t, u, p, IF n = Len(Args(x)) THEN n ELSE e.k, snaps)
        <5> USE DEF p, x
        <5> QED BY <1>1, <3>1, EarnedPiece
      <4> QED BY <1>11, <3>2, <4>1
    <3>4. AppendFragment(list, d.args) = Prefix(x, m)
      BY <1>1, <3>1, <3>3, AppendPiece
    <3> QED BY <3>1, <3>3, <3>4
  <2>2. CASE Closes(w, t, g, p, e, d)
    <3>1. e.t = "argsdone" /\ d.args = Args(x)
      BY <2>2, EventFields DEF Closes
    <3>2. n \in {0, Len(Args(x))} /\ Earned(t, u, p, Len(Args(x)), Repeats(t, p))
      BY <1>1, <1>2, <1>11, <3>1, EarnedAll
    <3>3. more = Args(x)
      <4>1. AppendFragment(list, d.args) = Args(x)
        BY <1>1, <3>1, <3>2, AppendArgs
      <4>2. d.args = <<>> => Len(Args(x)) = 0 /\ n = 0
        BY <3>1, <3>2
      <4>3. d.args = <<>> => list = Args(x)
        BY <1>1, <3>1, <4>2, PrefixFacts
      <4> QED BY <4>1, <4>3
    <3> QED BY <1>1, <3>2, <3>3, PrefixFacts
  <2> QED BY <2>1, <2>2
<1>14. PICK m : Earned(t, u, p, m, Repeats(t, p)) /\ more = Prefix(x, m)
  BY <1>13
<1>15. Event("done", p, 0) \in u <=> Event("done", p, 0) \in s
  BY <1>7, EventFields
<1>16. Stray(t, u, new)
  <2>1. \A q \in ToolPlaces(t) : q = p
    BY <1>1, <1>2, LoneSame
  <2>2. IsJoined(<<>>, Prefix(x, m), new.parked, {NoId})
    BY <1>12, <1>14
  <2>3. /\ Event("done", p, 0) \in s => p \in Known("responses", t, s)
        /\ p \in Known("responses", t, s) =>
              c.acc[p].args = IF Event("done", p, 0) \in s THEN Args(x) ELSE <<>>
    BY <1>1 DEF Stray
  <2>4. Known("responses", t, u) = Known("responses", t, s)
    BY <1>2, <1>8
  <2> HIDE DEF u, p, more
  <2>5. /\ Event("done", p, 0) \in u => p \in Known("responses", t, u)
        /\ p \in Known("responses", t, u) =>
              new.acc[p].args = IF Event("done", p, 0) \in u THEN Args(x) ELSE <<>>
    BY <1>5, <1>15, <2>3, <2>4
  <2> QED BY <1>10, <1>14, <2>1, <2>2, <2>5 DEF Stray
<1> QED BY <1>9, <1>16 DEF Streamed, new

\* After a delta that was resolved, the calls have what they were sent.
LEMMA ResolvedStreamed ==
    ASSUME NEW t \in Turns, NEW w \in {"responses", "chat", "messages"}, NEW g \in Gateways,
           NEW s, NEW e, NEW c, NEW d, IsStep(w, t, g, s, e, c, d), ~Lost(w, t, g),
           Resolve(d, c) = Place(w, t, e.p),
           \/ e.p \in Known(w, t, s) /\ e # Announce(w, e.p)
           \/ e.p \notin Known(w, t, s) /\ Opens(w, t, e.p, e, d),
           ItemSays(w, t, e.p, d) \/ (e.p \in Known(w, t, s) /\ FragmentSays(w, t, g, e.p, d))
    PROVE  Streamed(w, t, g, s \cup {e}, TakeDelta(c, d))
<1> DEFINE p == e.p
           u == s \cup {e}
           new == TakeDelta(c, d)
<1>1. /\ p \in ToolPlaces(t) /\ d \in Own(t, p) /\ Sound(c, Kin(t)) /\ ~g.whole
      /\ Guided(w, t, g, s, c) /\ Named(w, t, s, c) /\ Waits(w, t, s, c)
      /\ \A q \in Known(w, t, s) : HasArgs(w, t, s, c, q)
  BY DEF IsStep, Streamed
<1>2. KnowsMore(w, t, s, e)
  BY <1>1, KnownStep
<1>3. p \notin Known(w, t, s) => e = Announce(w, p)
  BY DEF Opens
<1>4. Known(w, t, u) = Known(w, t, s) \cup {p} /\ Waiting(w, t, u) = Waiting(w, t, s) \ {p}
  <2>1. CASE p \in Known(w, t, s)
    <3>1. p \notin Waiting(w, t, s)
      BY <2>1 DEF Waiting
    <3>2. e # Announce(w, p)
      BY <2>1
    <3> HIDE DEF p
    <3>3. Known(w, t, u) = Known(w, t, s) /\ Waiting(w, t, u) = Waiting(w, t, s)
      BY <1>2, <3>2 DEF KnowsMore, p
    <3> QED BY <2>1, <3>1, <3>3
  <2>2. CASE p \notin Known(w, t, s)
    BY <1>2, <1>3, <2>2 DEF KnowsMore
  <2> QED BY <2>1, <2>2
<1>5. PICK old : IsResolved(w, t, g, s, u, c, d, p, old, new)
  <2> HIDE DEF p, u, new
  <2>1. ItemSays(w, t, p, d) \/ (p \in Known(w, t, s) /\ FragmentSays(w, t, g, p, d))
    BY DEF p
  <2>2. Resolve(d, c) = Place(w, t, p)
    BY DEF p
  <2>3. \E old : IsResolved(w, t, g, s, u, c, d, p, old, TakeDelta(c, d))
    BY <1>1, <1>4, <2>1, <2>2, ResolvedDelta
  <2> QED BY <2>3 DEF new
<1> HIDE DEF new
<1>6. Guided(w, t, g, u, new) /\ Named(w, t, u, new)
      /\ \A q \in Known(w, t, s) : q # p => new.acc[Place(w, t, q)] = c.acc[Place(w, t, q)]
  BY <1>5 DEF IsResolved
<1>7. Waits(w, t, u, new)
  <2>1. p \in Waiting(w, t, s) => ItemSays(w, t, p, d)
    BY DEF Waiting
  <2> QED BY <1>1, <1>4, <1>5, <2>1, WaitsStep
<1>8. HasArgs(w, t, u, new, p)
  <2>1. CASE p \in Known(w, t, s)
    <3>1. HasArgs(w, t, s, c, p)
      BY <1>1, <2>1
    <3> QED BY <1>1, <1>5, <2>1, <3>1, KnownArgs
  <2>2. CASE p \notin Known(w, t, s)
    <3>1. Opens(w, t, p, e, d)
      BY <2>2
    <3> QED BY <1>1, <1>5, <2>2, <3>1, OpensArgs
  <2> QED BY <2>1, <2>2
<1>9. ASSUME NEW q \in Known(w, t, s), q # p PROVE HasArgs(w, t, u, new, q)
  <2>1. e \notin Snaps(t, q) /\ \A k \in Nat : e # Event("args", q, k)
    BY <1>9, OtherEvents
  <2>2. HasArgs(w, t, s, c, q) /\ new.acc[Place(w, t, q)] = c.acc[Place(w, t, q)]
    BY <1>1, <1>6, <1>9
  <2>3. \A n : Earned(t, s, q, n, Snaps(t, q)) => Earned(t, u, q, n, Snaps(t, q))
    BY <2>1, EarnedKept
  <2> HIDE DEF u
  <2> QED BY <2>2, <2>3 DEF HasArgs
<1>10. \A q \in Known(w, t, u) : HasArgs(w, t, u, new, q)
  <2> HIDE DEF u, p
  <2> QED BY <1>4, <1>8, <1>9
<1> QED BY <1>6, <1>7, <1>10 DEF Streamed, new

\* A delta leaves a collector of what was sent.
LEMMA StreamStep ==
    ASSUME NEW t \in Turns, NEW w \in {"responses", "chat", "messages"}, NEW g \in Gateways,
           NEW s, NEW e, NEW c, NEW d, IsStep(w, t, g, s, e, c, d)
    PROVE  Streamed(w, t, g, s \cup {e}, TakeDelta(c, d))
<1> DEFINE p == e.p
<1>1. /\ p \in ToolPlaces(t) /\ d \in Own(t, p) /\ ~g.whole /\ IsNext(w, t, g, s, e)
      /\ Tells(w, t, g) /\ Guided(w, t, g, s, c) /\ Acts(w, t, g, e, d)
  BY DEF IsStep, Streamed
<1>2. CASE Opens(w, t, p, e, d) \/ Ends(w, t, p, e, d) \/ Advances(w, t, p, e, d)
  <2>1. ItemSays(w, t, p, d)
    BY <1>2 DEF Opens, Ends, Advances
  <2>2. /\ e = Announce(w, p) => p \notin Known(w, t, s)
        /\ e # Announce(w, p) => p \in Known(w, t, s)
        /\ Resolve(d, c) = Place(w, t, p)
    BY <2>1, ItemResolve
  <2>3. e = Announce(w, p) => Opens(w, t, p, e, d)
    <3>1. w = "responses" => e.t = "added" \/ e # Announce(w, p)
      BY EventFields DEF Announce, Added
    <3>2. Ends(w, t, p, e, d) \/ Advances(w, t, p, e, d) => e.t # "added" /\ w = "responses"
      BY EventFields DEF Ends, Advances
    <3> QED BY <1>2, <3>1, <3>2
  <2>4. CASE Lost(w, t, g)
    <3>1. ~Advances(w, t, p, e, d)
      <4>1. KindOf[At(t, p)] \in {"function", "custom_tool"}
        BY <1>1, <2>4, LostFacts
      <4> QED BY <4>1 DEF Advances
    <3> QED BY <1>2, <2>4, <3>1, StrayItem
  <2>5. CASE ~Lost(w, t, g)
    BY <2>1, <2>2, <2>3, <2>5, ResolvedStreamed
  <2> QED BY <2>4, <2>5
<1>3. CASE Adds(w, t, g, p, e, d) \/ Closes(w, t, g, p, e, d)
  <2>1. FragmentSays(w, t, g, p, d) /\ e.t \in {"args", "argsdone"}
    BY <1>3, EventFields DEF Adds, Closes
  <2>2. CASE Lost(w, t, g)
    BY <1>3, <2>2, StrayFragment
  <2>3. CASE ~Lost(w, t, g) /\ p \in Known(w, t, s)
    <3>1. Resolve(d, c) = Place(w, t, p)
      BY <1>1, <2>1, <2>3, FragmentResolve
    <3>2. e # Announce(w, p)
      <4>1. e \notin s /\ Announce(w, p) \in s
        BY <1>1, <2>3 DEF IsNext, Known
      <4> QED BY <4>1
    <3> QED BY <2>1, <2>3, <3>1, <3>2, ResolvedStreamed
  <2>4. CASE ~Lost(w, t, g) /\ p \notin Known(w, t, s)
    <3>1. ~Closes(w, t, g, p, e, d)
      <4> SUFFICES ASSUME Closes(w, t, g, p, e, d) PROVE FALSE
        OBVIOUS
      <4>1. e.t = "argsdone"
        BY EventFields DEF Closes
      <4>2. Announce(w, p) \in s
        BY <1>1, <4>1 DEF IsNext
      <4> QED BY <1>1, <2>4, <4>2 DEF Known
    <3> QED BY <1>3, <2>4, <3>1, ParkedStep
  <2> QED BY <2>2, <2>3, <2>4
<1> QED BY <1>1, <1>2, <1>3 DEF Acts

\* What was sent of the calls is told by the calls of a collector.
LEMMA StreamedSame ==
    ASSUME NEW w, NEW t, NEW g, NEW s, NEW c, NEW b, Streamed(w, t, g, s, c),
           b.acc = c.acc, b.ids = c.ids, b.outs = c.outs, b.parked = c.parked
    PROVE  Streamed(w, t, g, s, b)
<1>1. Guided(w, t, g, s, b) /\ Named(w, t, s, b)
  BY DEF Streamed, Guided, Named
<1>2. CASE Lost(w, t, g)
  <2>1. Stray(t, s, c)
    BY <1>2 DEF Streamed
  <2>2. Stray(t, s, b)
    BY <2>1 DEF Stray
  <2> QED BY <1>1, <1>2, <2>2 DEF Streamed
<1>3. CASE ~Lost(w, t, g)
  <2>1. Waits(w, t, s, c) /\ \A p \in Known(w, t, s) : HasArgs(w, t, s, c, p)
    BY <1>3 DEF Streamed
  <2>2. Waits(w, t, s, b) /\ \A p \in Known(w, t, s) : HasArgs(w, t, s, b, p)
    BY <2>1 DEF Waits, HasArgs
  <2> QED BY <1>1, <1>3, <2>2 DEF Streamed
<1> QED BY <1>2, <1>3

\* An event that is about no call changes nothing of them.
LEMMA QuietStep ==
    ASSUME NEW w, NEW t, NEW g, NEW s, NEW e, NEW c, Streamed(w, t, g, s, c), Quiet(w, t, e),
           w = "responses" \/ ~Lost(w, t, g)
    PROVE  Streamed(w, t, g, s \cup {e}, c)
<1> DEFINE u == s \cup {e}
<1>1. Known(w, t, u) = Known(w, t, s) /\ Waiting(w, t, u) = Waiting(w, t, s)
  BY DEF Known, Waiting, Quiet
<1>2. ASSUME NEW p \in ToolPlaces(t), NEW n, NEW snaps, snaps \subseteq Snaps(t, p),
             Earned(t, s, p, n, snaps)
      PROVE  Earned(t, u, p, n, snaps)
  <2>1. e \notin snaps /\ \A k \in Nat : e # Event("args", p, k)
    BY <1>2 DEF Quiet
  <2> QED BY <1>2, <2>1, EarnedKept
<1>3. \A p \in ToolPlaces(t) : Event("done", p, 0) \in u <=> Event("done", p, 0) \in s
  BY DEF Quiet, Snaps
<1>4. \A p : Repeats(t, p) \subseteq Snaps(t, p)
  BY DEF Snaps
<1> HIDE DEF u
<1>5. Guided(w, t, g, u, c) /\ Named(w, t, u, c)
  <2>1. Guided(w, t, g, u, c)
    BY <1>1 DEF Streamed, Guided
  <2>2. Named(w, t, u, c)
    BY <1>1 DEF Streamed, Named
  <2> QED BY <2>1, <2>2
<1>6. CASE Lost(w, t, g)
  <2>1. Stray(t, s, c) /\ Known("responses", t, u) = Known("responses", t, s)
    BY <1>1, <1>6 DEF Streamed
  <2>2. Stray(t, u, c)
    <3>1. ASSUME NEW p \in ToolPlaces(t)
          PROVE  \E n : /\ Earned(t, u, p, n, Repeats(t, p))
                        /\ IsJoined(<<>>, Prefix(At(t, p), n), c.parked, {NoId})
      <4>1. PICK n : /\ Earned(t, s, p, n, Repeats(t, p))
                     /\ IsJoined(<<>>, Prefix(At(t, p), n), c.parked, {NoId})
        BY <2>1 DEF Stray
      <4> QED BY <1>2, <1>4, <4>1
    <3> QED BY <1>3, <2>1, <3>1 DEF Stray
  <2> QED BY <1>5, <1>6, <2>2 DEF Streamed, u
<1>7. CASE ~Lost(w, t, g)
  <2>1. Waits(w, t, s, c) /\ \A p \in Known(w, t, s) : HasArgs(w, t, s, c, p)
    BY <1>7 DEF Streamed
  <2>2. Waits(w, t, u, c)
    <3>1. ASSUME NEW p \in Waiting(w, t, u)
          PROVE  \E n : /\ Earned(t, u, p, n, Snaps(t, p))
                        /\ IsJoined(<<>>, Prefix(At(t, p), n), c.parked, {ItemId(At(t, p))})
      <4>1. PICK n : /\ Earned(t, s, p, n, Snaps(t, p))
                     /\ IsJoined(<<>>, Prefix(At(t, p), n), c.parked, {ItemId(At(t, p))})
        BY <1>1, <2>1 DEF Waits
      <4>2. p \in ToolPlaces(t)
        BY DEF Waiting
      <4> QED BY <1>2, <4>1, <4>2
    <3> QED BY <1>1, <2>1, <3>1 DEF Waits
  <2>3. ASSUME NEW p \in Known(w, t, u) PROVE HasArgs(w, t, u, c, p)
    <3>1. p \in ToolPlaces(t) /\ HasArgs(w, t, s, c, p)
      BY <1>1, <2>1 DEF Known
    <3>2. \A n : Earned(t, s, p, n, Snaps(t, p)) => Earned(t, u, p, n, Snaps(t, p))
      BY <1>2, <3>1
    <3> QED BY <3>1, <3>2 DEF HasArgs
  <2> QED BY <1>5, <1>7, <2>2, <2>3 DEF Streamed, u
<1> QED BY <1>6, <1>7

-----------------------------------------------------------------------------
(***************************************************************************)
(* Calls that come whole: in a buffered answer, or in a part of Gemini.    *)
(***************************************************************************)
\* Deltas of different calls, each with all of its call.
IsVolley(list, U) ==
    /\ list \in Seq(DeltaOf(U))
    /\ \A i \in 1 .. Len(list) :
          /\ list[i].item = NoId /\ list[i].id # NoId /\ list[i].name # NoName
          /\ list[i].kind = "function"
    /\ \A i, j \in 1 .. Len(list) : i < j =>
          list[i].index # list[j].index /\ list[i].id # list[j].id

\* The first k of them were taken.
Fired(c, list, k) ==
    /\ DOMAIN c.acc = {list[i].index : i \in 1 .. k}
    /\ DOMAIN c.outs = {list[i].index : i \in 1 .. k}
    /\ DOMAIN c.ids = {list[i].id : i \in 1 .. k}
    /\ c.parked = <<>>
    /\ \A i \in 1 .. k : /\ c.acc[list[i].index].name = list[i].name
                         /\ c.acc[list[i].index].kind = "function"
                         /\ c.acc[list[i].index].args = list[i].args

\* The next one opens a call of its own.
LEMMA FiredStep ==
    ASSUME NEW U, NEW list, IsVolley(list, U), NEW c, Sound(c, U),
           NEW k \in Nat, k < Len(list), Fired(c, list, k)
    PROVE  Fired(TakeDelta(c, list[k + 1]), list, k + 1)
<1> DEFINE m == k + 1
           d == list[m]
           new == TakeDelta(c, d)
<1>1. /\ Len(list) \in Nat /\ m \in 1 .. Len(list) /\ d \in DeltaOf(U) /\ k = m - 1
      /\ 1 .. m = (1 .. k) \cup {m} /\ \A i \in 1 .. k : i \in 1 .. Len(list) /\ i < m
  BY DEF IsVolley
<1>2. /\ d.item = NoId /\ d.id # NoId /\ d.name # NoName /\ d.kind = "function" /\ d.index \in Nat
      /\ \A i \in 1 .. k : list[i].index # d.index /\ list[i].id # d.id
  BY <1>1 DEF IsVolley, DeltaOf
<1> HIDE DEF m
<1>3. d.id \notin DOMAIN c.ids /\ d.index \notin DOMAIN c.outs /\ d.index \notin DOMAIN c.acc
  BY <1>2 DEF Fired
<1> HIDE DEF d, new
<1>4. Resolve(d, c) = d.index
  BY <1>2, <1>3 DEF Resolve
<1>5. NewEntry = IF d.index \in DOMAIN c.acc THEN c.acc[d.index] ELSE NewEntry
  BY <1>3
<1>6. IsTaken(new, c, d, d.index, NewEntry, U, DeltaOf(U)) /\ IsExact(new, c, d, d.index, NewEntry)
  BY <1>1, <1>2, <1>4, <1>5, TakenExact DEF new
<1>7. /\ Merge(d, NewEntry).name = d.name /\ Merge(d, NewEntry).kind = "function"
      /\ Merge(d, NewEntry).args = d.args
  BY <1>2 DEF Merge, NewEntry, AppendFragment, IsPlaceholder
<1>8. c.parked = <<>> /\ c.parked \in Seq(DeltaOf(U)) /\ DOMAIN c = Fields
  BY DEF Fired, Sound
<1>9. new.acc[d.index].args = d.args
  <2> DEFINE K == Grafted(d, Merge(d, NewEntry).kind)
  <2>1. IsJoined(Merge(d, NewEntry).args, new.acc[d.index].args, c.parked, K)
    BY <1>6 DEF IsExact
  <2>2. \A n \in 1 .. Len(c.parked) : Key(c.parked[n]) \notin K
    BY <1>8
  <2> HIDE DEF K
  <2> QED BY <1>7, <1>8, <2>1, <2>2, JoinedNone
<1>10. new.parked = <<>>
  <2>1. \A n \in 1 .. Len(new.parked) : \E i \in 1 .. Len(c.parked) : new.parked[n] = c.parked[i]
    BY <1>6 DEF IsExact, Remains
  <2>2. new.parked \in Seq(DeltaOf(U))
    BY <1>6 DEF IsTaken
  <2>3. ~(1 \in 1 .. Len(new.parked))
    BY <1>8, <2>1
  <2> QED BY <2>2, <2>3
<1>11. /\ DOMAIN new.acc = DOMAIN c.acc \cup {d.index}
       /\ DOMAIN new.outs = DOMAIN c.outs \cup {d.index}
       /\ DOMAIN new.ids = DOMAIN c.ids \cup {d.id}
       /\ \A i \in DOMAIN c.acc : i # d.index => new.acc[i] = c.acc[i]
       /\ new.acc[d.index].name = d.name /\ new.acc[d.index].kind = "function"
  <2>1. DOMAIN Remember(d, d.index, c).ids = DOMAIN c.ids \cup ({d.id, d.item} \ {NoId})
    BY <1>8, RememberIds
  <2>2. {d.id, d.item} \ {NoId} = {d.id}
    BY <1>2
  <2> QED BY <1>6, <1>7, <2>1, <2>2 DEF IsTaken, With
<1>12. \A i \in 1 .. m : i \in 1 .. k \/ i = m
  BY <1>1
<1>13. {list[i].index : i \in 1 .. m} = {list[i].index : i \in 1 .. k} \cup {d.index}
       /\ {list[i].id : i \in 1 .. m} = {list[i].id : i \in 1 .. k} \cup {d.id}
  BY <1>1 DEF d
<1>14. ASSUME NEW i \in 1 .. m
       PROVE  /\ new.acc[list[i].index].name = list[i].name
              /\ new.acc[list[i].index].kind = "function"
              /\ new.acc[list[i].index].args = list[i].args
  <2>1. CASE i = m
    BY <1>9, <1>11, <2>1 DEF d
  <2>2. CASE i \in 1 .. k
    <3>1. list[i].index \in DOMAIN c.acc /\ list[i].index # d.index
      BY <1>2, <2>2 DEF Fired
    <3> QED BY <1>11, <2>2, <3>1 DEF Fired
  <2> QED BY <1>12, <2>1, <2>2
<1>15. Fired(new, list, m)
  BY <1>10, <1>11, <1>13, <1>14 DEF Fired
<1> QED BY <1>15 DEF new, d, m

\* A collector that knows no call takes them all.
LEMMA VolleyTaken ==
    ASSUME NEW U, NEW ch, IsVolley(ch.calls, U), NEW c, Sound(c, U),
           DOMAIN c.acc = {}, DOMAIN c.outs = {}, DOMAIN c.ids = {}, c.parked = <<>>
    PROVE  Fired(TakeChunk(c, ch), ch.calls, Len(ch.calls))
<1> DEFINE base == Base(c, ch)
           list == ch.calls
           len == Len(list)
<1>1. list \in Seq(DeltaOf(U)) /\ len \in Nat
  BY DEF IsVolley
<1>2. PICK f : IsLoop(f, c, ch)
  BY <1>1, ChunkLoops
<1> DEFINE Good(k) == Sound(f[k], U) /\ Fired(f[k], list, k)
           N == {k \in Nat : k <= len => Good(k)}
<1>3. 0 \in N
  <2>1. f[0] = base
    BY <1>2 DEF IsLoop
  <2>2. /\ Sound(base, U) /\ base.acc = c.acc /\ base.ids = c.ids /\ base.outs = c.outs
        /\ base.parked = c.parked
    BY BaseFacts
  <2> HIDE DEF base
  <2>3. Fired(base, list, 0)
    <3>1. 1 .. 0 = {}
      OBVIOUS
    <3> QED BY <2>2, <3>1 DEF Fired
  <2> QED BY <2>1, <2>2, <2>3
<1>4. ASSUME NEW k \in N PROVE k + 1 \in N
  <2> SUFFICES ASSUME k + 1 <= len PROVE Good(k + 1)
    OBVIOUS
  <2>1. k \in Nat /\ k < len /\ k + 1 \in 1 .. len /\ Good(k)
    BY <1>1
  <2>2. f[k + 1] = TakeDelta(f[k], list[k + 1]) /\ list[k + 1] \in DeltaOf(U)
    BY <1>1, <1>2, <2>1 DEF IsLoop
  <2>3. Fired(f[k + 1], list, k + 1)
    BY <2>1, <2>2, FiredStep
  <2>4. Sound(f[k + 1], U)
    BY <2>1, <2>2, SoundStep
  <2> QED BY <2>3, <2>4
<1>5. N = Nat
  <2> HIDE DEF N
  <2>1. N \subseteq Nat
    BY DEF N
  <2> QED BY <1>3, <1>4, <2>1, SetInduction
<1>6. Good(len)
  BY <1>1, <1>5
<1> QED BY <1>2, <1>6 DEF IsLoop

\* A chunk has the calls at the places in P, each whole.
Fits(w, t, g, d, p) ==
    d.index = Home(w, g, t, p) /\ d.name = At(t, p) /\ d.args = Args(At(t, p))

Shoots(ch, w, t, g, P) ==
    /\ IsVolley(ch.calls, Kin(t))
    /\ \A n \in 1 .. Len(ch.calls) : \E p \in P : Fits(w, t, g, ch.calls[n], p)
    /\ \A p \in P : \E n \in 1 .. Len(ch.calls) : Fits(w, t, g, ch.calls[n], p)

\* The calls of such a chunk are taken, if none were before.
LEMMA ShotStep ==
    ASSUME NEW t \in Turns, NEW w, NEW g, NEW s, NEW u, NEW c, Sound(c, Kin(t)), Shot(w, t, g, s, c),
           NEW ch, NEW P, Shoots(ch, w, t, g, P), Taken(w, t, g, u) = Taken(w, t, g, s) \cup P,
           P # {} => Taken(w, t, g, s) = {}
    PROVE  Shot(w, t, g, u, TakeChunk(c, ch))
<1> DEFINE list == ch.calls
           new == TakeChunk(c, ch)
           T(x) == Taken(w, t, g, x)
<1>1. list \in Seq(DeltaOf(Kin(t))) /\ Len(list) \in Nat
  BY DEF Shoots, IsVolley
<1>2. CASE P = {}
  <2>1. ~(1 \in 1 .. Len(list))
    BY <1>2 DEF Shoots
  <2>2. list = <<>>
    BY <1>1, <2>1
  <2>3. new = Base(c, ch)
    BY <2>2, ChunkNone
  <2>4. /\ Base(c, ch).acc = c.acc /\ Base(c, ch).ids = c.ids /\ Base(c, ch).outs = c.outs
        /\ Base(c, ch).parked = c.parked
    BY BaseFacts
  <2>5. T(u) = T(s)
    BY <1>2
  <2> HIDE DEF new
  <2>6. new.acc = c.acc /\ new.ids = c.ids /\ new.outs = c.outs /\ new.parked = c.parked
    BY <2>3, <2>4
  <2>7. Shot(w, t, g, u, new)
    BY <2>5, <2>6 DEF Shot
  <2> QED BY <2>7 DEF new
<1>3. CASE P # {}
  <2>1. T(s) = {} /\ T(u) = P
    BY <1>3
  <2>2. DOMAIN c.acc = {} /\ DOMAIN c.ids = {} /\ DOMAIN c.outs = {} /\ c.parked = <<>>
    BY <2>1 DEF Shot
  <2>3. Fired(new, list, Len(list))
    BY <2>2, VolleyTaken DEF Shoots
  <2> HIDE DEF new, list
  <2>4. \A n \in 1 .. Len(list) : \E p \in P : Fits(w, t, g, list[n], p)
    BY DEF Shoots, list
  <2>5. \A p \in P : \E n \in 1 .. Len(list) : Fits(w, t, g, list[n], p)
    BY DEF Shoots, list
  <2>6. DOMAIN new.acc = {Home(w, g, t, p) : p \in P}
    BY <2>3, <2>4, <2>5 DEF Fired, Fits
  <2>7. ASSUME NEW p \in P
        PROVE  /\ new.acc[Home(w, g, t, p)].name = At(t, p)
               /\ new.acc[Home(w, g, t, p)].kind = "function"
               /\ new.acc[Home(w, g, t, p)].args = Args(At(t, p))
    <3>1. PICK n \in 1 .. Len(list) : Fits(w, t, g, list[n], p)
      BY <2>5
    <3> QED BY <2>3, <3>1 DEF Fired, Fits
  <2>8. new.parked = <<>>
    BY <2>3 DEF Fired
  <2>9. Shot(w, t, g, u, new)
    BY <1>3, <2>1, <2>6, <2>7, <2>8 DEF Shot
  <2> QED BY <2>9 DEF new
<1> QED BY <1>2, <1>3

-----------------------------------------------------------------------------
(***************************************************************************)
(* What an event that is delivered makes of the calls.                     *)
(***************************************************************************)
\* What the reasoning and the texts of a stream are: only the Responses API has
\* a terminal output.
Voiced(w, g) == IF w = "responses" THEN g ELSE [g EXCEPT !.final = "none"]

\* Every event of a stream is decoded to what it says.
LEMMA StreamSays ==
    ASSUME NEW t \in Turns, NEW g \in Gateways, NEW w \in {"responses", "chat", "messages"},
           ~g.whole, Speaks(w, g, t), NEW e \in Events(w, t, g)
    PROVE  /\ IsStreamChunk(Decode(w, t, g, e), w, t, g, e)
           /\ Conveys(Decode(w, t, g, e), t, Voiced(w, g), e)
<1>1. CASE w = "responses"
  <2>1. e \in ResponsesEvents(t, g)
    BY <1>1 DEF Events
  <2>2. e.t \notin {"whole", "part"}
    BY <2>1, ResponsesShape DEF Event
  <2>3. Decode(w, t, g, e) = DecodeResponses(t, g, e)
    BY <1>1, <2>2 DEF Decode
  <2> QED BY <1>1, <2>1, <2>3, ResponsesSay DEF Voiced
<1>2. CASE w \in {"chat", "messages"}
  <2>1. e \in IndexedEvents(t)
    BY <1>2 DEF Events
  <2>2. e.t \notin {"whole", "part"}
    BY <2>1, IndexedShape
  <2>3. Decode(w, t, g, e) = DecodeIndexed(w, t, e)
    BY <1>2, <2>2 DEF Decode
  <2> QED BY <1>2, <2>1, <2>3, IndexedSay DEF Voiced
<1> QED BY <1>1, <1>2

\* A delivered event of a stream leaves a collector of what was sent.
LEMMA StreamDelivered ==
    ASSUME NEW t \in Turns, NEW g \in Gateways, NEW w \in {"responses", "chat", "messages"},
           ~g.whole, Speaks(w, g, t), Tells(w, t, g), NEW s, NEW e, IsNext(w, t, g, s, e),
           NEW c, Sound(c, Kin(t)), Streamed(w, t, g, s, c), NEW ch, IsStreamChunk(ch, w, t, g, e)
    PROVE  Streamed(w, t, g, s \cup {e}, TakeChunk(c, ch))
<1>0. Sound(Base(c, ch), Kin(t)) /\ Streamed(w, t, g, s, Base(c, ch))
  BY BaseFacts, StreamedSame
<1>1. CASE ch.calls = <<>> /\ Quiet(w, t, e)
  <2>1. TakeChunk(c, ch) = Base(c, ch)
    BY <1>1, ChunkNone
  <2>2. w = "responses" \/ ~Lost(w, t, g)
    BY LostFacts
  <2> QED BY <1>0, <1>1, <2>1, <2>2, QuietStep
<1>2. ASSUME e.p \in ToolPlaces(t), NEW d \in Own(t, e.p), ch = Calls(<<d>>), Acts(w, t, g, e, d)
      PROVE  Streamed(w, t, g, s \cup {e}, TakeChunk(c, ch))
  <2>1. TakeChunk(c, ch) = TakeDelta(Base(c, ch), d)
    BY <1>2, ChunkOne
  <2>2. IsStep(w, t, g, s, e, Base(c, ch), d)
    BY <1>0, <1>2 DEF IsStep
  <2> QED BY <2>1, <2>2, StreamStep
<1> QED BY <1>1, <1>2 DEF IsStreamChunk

\* Deltas of the calls at the places in P, in their order, one for each.
LEMMA VolleyOf ==
    ASSUME NEW t \in Turns, NEW w, NEW g, NEW P \in SUBSET ToolPlaces(t),
           NEW order \in Seq(P), Range(order) = P, Ascending(order),
           NEW ch, ch.calls \in Seq(DeltaOf(Kin(t))), Len(ch.calls) = Len(order),
           \A n \in 1 .. Len(order) : /\ Fits(w, t, g, ch.calls[n], order[n])
                                      /\ ch.calls[n].item = NoId /\ ch.calls[n].id # NoId
                                      /\ ch.calls[n].kind = "function",
           \/ \A p, q \in P : p = q
           \/ /\ \A n \in 1 .. Len(order) : ch.calls[n].id \in IdsOf(t, order[n])
              /\ \A p, q \in P : Home(w, g, t, p) = Home(w, g, t, q) => p = q
    PROVE  Shoots(ch, w, t, g, P)
<1> DEFINE list == ch.calls
<1>1. Len(order) \in Nat /\ DOMAIN order = 1 .. Len(order)
      /\ \A n \in 1 .. Len(order) : order[n] \in P /\ order[n] \in ToolPlaces(t) /\ order[n] \in Nat
  <2>1. \A n \in 1 .. Len(order) : order[n] \in P
    OBVIOUS
  <2> QED BY <2>1, TurnFacts
<1>2. \A i, j \in 1 .. Len(order) : i < j => order[i] # order[j]
  BY <1>1 DEF Ascending
<1>3. ASSUME NEW n \in 1 .. Len(order) PROVE list[n].name # NoName
  BY <1>1, TurnFacts DEF Fits
<1>4. ASSUME NEW i \in 1 .. Len(order), NEW j \in 1 .. Len(order), i < j
      PROVE  list[i].index # list[j].index /\ list[i].id # list[j].id
  <2>1. order[i] # order[j] /\ order[i] \in P /\ order[j] \in P
    BY <1>1, <1>2, <1>4
  <2>2. /\ \A n \in 1 .. Len(order) : list[n].id \in IdsOf(t, order[n])
        /\ \A p, q \in P : Home(w, g, t, p) = Home(w, g, t, q) => p = q
    BY <2>1
  <2>3. list[i].index = Home(w, g, t, order[i]) /\ list[j].index = Home(w, g, t, order[j])
    BY DEF Fits
  <2>4. list[i].index # list[j].index
    BY <2>1, <2>2, <2>3
  <2>5. list[i].id \in IdsOf(t, order[i]) /\ list[j].id \in IdsOf(t, order[j])
    BY <2>2
  <2>6. list[i].id # list[j].id
    BY <2>1, <2>5, IdsApart
  <2> QED BY <2>4, <2>6
<1>5. IsVolley(ch.calls, Kin(t))
  BY <1>3, <1>4 DEF IsVolley
<1>6. \A p \in P : \E n \in 1 .. Len(order) : order[n] = p
  BY <1>1 DEF Range
<1> QED BY <1>1, <1>5, <1>6 DEF Shoots

\* The calls of a buffered answer come in their order; those of a Chat
\* Completions message have no position, so there is only one.
LEMMA WholeCalls ==
    ASSUME NEW t \in Turns, NEW w \in {"chat", "messages"}, NEW g, g.whole, Tells(w, t, g)
    PROVE  Shoots(DecodeWhole(w, t), w, t, g, ToolPlaces(t))
<1> DEFINE where(items) == InOrder({p \in Positions(t) : At(t, p) \in items})
           calls == where(Tools)
           one(p) == Delta(WholeIndex(w, t, p), CallId(At(t, p)), NoId, "function", At(t, p),
                           Args(At(t, p)))
           ch == DecodeWhole(w, t)
           P == ToolPlaces(t)
<1>1. calls \in Seq(P) /\ Range(calls) = P /\ Ascending(calls)
  <2>1. {p \in Positions(t) : At(t, p) \in Tools} = P
    BY DEF ToolPlaces, ToolAt
  <2>2. P \in SUBSET (0 .. Len(t)) /\ Len(t) \in Nat
    BY TurnFacts DEF ToolPlaces, Positions
  <2> HIDE DEF P
  <2> QED BY <2>1, <2>2, InOrderFacts
<1>2. ch = [EmptyChunk EXCEPT !.text = where({"text"}), !.think = where({"think"}),
                              !.calls = [n \in 1 .. Len(calls) |-> one(calls[n])]]
  BY DEF DecodeWhole
<1>3. ch.calls = [n \in 1 .. Len(calls) |-> one(calls[n])]
  <2> HIDE DEF where, one, calls
  <2> QED BY <1>2 DEF EmptyChunk
<1>4. ch.calls \in Seq(DeltaOf(Kin(t)))
  BY WholeDecoded, OwnCallsKin DEF IsCallsChunk
<1> HIDE DEF calls, ch
<1>5. Len(calls) \in Nat /\ Len(ch.calls) = Len(calls)
      /\ \A n \in 1 .. Len(calls) : ch.calls[n] = one(calls[n]) /\ calls[n] \in P
  BY <1>1, <1>3
<1>6. ASSUME NEW p \in P
      PROVE  WholeIndex(w, t, p) = Home(w, g, t, p)
  <2>1. Home(w, g, t, p) = Place(w, t, p)
    BY DEF Home
  <2>2. CASE w = "messages"
    BY <2>1, <2>2 DEF WholeIndex, Place
  <2>3. CASE w = "chat"
    <3>1. ~Placed(w, g) /\ ~ById(w, g, t)
      BY <2>3 DEF Placed, ById
    <3>2. Lone(t)
      BY <3>1 DEF Tells
    <3>3. p \in Nat /\ \A q \in 0 .. p - 1 : ~ToolAt(t, q)
      <4>1. p \in Nat
        BY TurnFacts
      <4>2. \A q \in 0 .. p - 1 : ToolAt(t, q) => q \in P
        BY DEF ToolPlaces, ToolAt
      <4> QED BY <3>2, <4>1, <4>2, LoneSame
    <3>4. {q \in 0 .. p - 1 : ToolAt(t, q)} = {}
      BY <3>3
    <3>5. Ordinal(t, p) = 0
      BY <3>4, FS_EmptySet DEF Ordinal
    <3> QED BY <2>1, <2>3, <3>5 DEF WholeIndex, Place
  <2> QED BY <2>2, <2>3
<1>7. ASSUME NEW n \in 1 .. Len(calls)
      PROVE  /\ Fits(w, t, g, ch.calls[n], calls[n])
             /\ ch.calls[n].item = NoId /\ ch.calls[n].id # NoId /\ ch.calls[n].kind = "function"
             /\ ch.calls[n].id \in IdsOf(t, calls[n])
  <2>1. ch.calls[n] = one(calls[n]) /\ calls[n] \in P
    BY <1>5
  <2>2. WholeIndex(w, t, calls[n]) = Home(w, g, t, calls[n])
    BY <1>6, <2>1
  <2> QED BY <2>1, <2>2 DEF Fits, Delta, IdsOf, CallId, NoId
<1>8. \A p, q \in P : Home(w, g, t, p) = Home(w, g, t, q) => p = q
  BY PlaceApart DEF Home
<1>9. P \in SUBSET ToolPlaces(t)
  OBVIOUS
<1> HIDE DEF P, one
<1>10. Shoots(ch, w, t, g, P)
  BY <1>1, <1>4, <1>5, <1>7, <1>8, <1>9, VolleyOf
<1> QED BY <1>10 DEF ch, P

\* The calls of a chunk of Gemini: of a buffered answer, or of one part.
LEMMA PartCalls ==
    ASSUME NEW t \in Turns, NEW g, NEW first \in Nat, NEW last \in Int, last < Len(t),
           (g.whole /\ first = 0) \/ (~g.whole /\ first = last)
    PROVE  Shoots(DecodeParts(t, first, last), "gemini", t, g, CallPlaces(t, first, last))
<1> DEFINE in(items) == InOrder({p \in first .. last : At(t, p) \in items})
           calls == in(Tools)
           one(p) == Delta(p - first, <<"call_", p - first>>, NoId, "function", At(t, p),
                           Args(At(t, p)))
           ch == DecodeParts(t, first, last)
           P == CallPlaces(t, first, last)
           w == "gemini"
<1>1. calls \in Seq(P) /\ Range(calls) = P /\ Ascending(calls) /\ P \subseteq ToolPlaces(t)
      /\ \A p \in P : p \in first .. last
  <2>1. {p \in first .. last : At(t, p) \in Tools} = P
    BY DEF CallPlaces
  <2>2. P \in SUBSET (0 .. Len(t)) /\ Len(t) \in Nat /\ P \subseteq ToolPlaces(t)
        /\ \A p \in P : p \in first .. last
    <3>1. P \subseteq ToolPlaces(t) /\ \A p \in P : p \in first .. last
      BY CallsInOrder DEF CallPlaces
    <3>2. Len(t) \in Nat /\ \A p \in ToolPlaces(t) : p \in 0 .. Len(t)
      BY TurnFacts
    <3> HIDE DEF P
    <3> QED BY <3>1, <3>2
  <2> HIDE DEF P
  <2> QED BY <2>1, <2>2, InOrderFacts
<1>2. ch = [EmptyChunk EXCEPT !.text = in({"text"}), !.think = in({"think"}),
                              !.calls = [n \in 1 .. Len(calls) |-> one(calls[n])]]
  BY DEF DecodeParts
<1>3. ch.calls = [n \in 1 .. Len(calls) |-> one(calls[n])]
  <2> HIDE DEF in, one, calls
  <2> QED BY <1>2 DEF EmptyChunk
<1>4. ch.calls \in Seq(DeltaOf(Kin(t)))
  BY PartsDecoded
<1> HIDE DEF calls, ch, P
<1>5. Len(calls) \in Nat /\ Len(ch.calls) = Len(calls)
      /\ \A n \in 1 .. Len(calls) : ch.calls[n] = one(calls[n]) /\ calls[n] \in P
  BY <1>1, <1>3
<1>6. ASSUME NEW p \in P
      PROVE  p \in Nat /\ p - first = Home(w, g, t, p) /\ (first = 0 => p - first = p)
  <2>1. p \in Nat /\ p \in first .. last
    BY <1>1, TurnFacts
  <2> QED BY <2>1 DEF Home, Place
<1>7. ASSUME NEW n \in 1 .. Len(calls)
      PROVE  /\ Fits(w, t, g, ch.calls[n], calls[n])
             /\ ch.calls[n].item = NoId /\ ch.calls[n].id # NoId /\ ch.calls[n].kind = "function"
             /\ first = 0 => ch.calls[n].id \in IdsOf(t, calls[n])
  <2>1. ch.calls[n] = one(calls[n]) /\ calls[n] \in P
    BY <1>5
  <2>2. /\ calls[n] - first = Home(w, g, t, calls[n])
        /\ first = 0 => calls[n] - first = calls[n]
    BY <1>6, <2>1
  <2> QED BY <2>1, <2>2 DEF Fits, Delta, IdsOf, NoId
<1>8. CASE g.whole /\ first = 0
  <2>1. \A p, q \in P : Home(w, g, t, p) = Home(w, g, t, q) => p = q
    BY <1>8 DEF Home, Place
  <2> HIDE DEF one, w
  <2> QED BY <1>1, <1>4, <1>5, <1>7, <1>8, <2>1, VolleyOf DEF ch, P, w
<1>9. CASE ~g.whole /\ first = last
  <2>1. \A p, q \in P : p = q
    BY <1>1, <1>9
  <2> HIDE DEF one, w
  <2> QED BY <1>1, <1>4, <1>5, <1>7, <2>1, VolleyOf DEF ch, P, w
<1> QED BY <1>8, <1>9

\* The calls that come with one event, whole.
Brought(w, t, g, e) ==
    IF g.whole THEN IF w = "responses" THEN {} ELSE ToolPlaces(t)
    ELSE {p \in ToolPlaces(t) : Part(p) = e}

\* Every such event brings its calls.
LEMMA ShotSays ==
    ASSUME NEW t \in Turns, NEW g \in Gateways, NEW w \in Wires, ~Stream(w, g), Tells(w, t, g),
           NEW e \in Events(w, t, g)
    PROVE  Shoots(Decode(w, t, g, e), w, t, g, Brought(w, t, g, e))
<1> DEFINE ch == Decode(w, t, g, e)
<1>0. w \in {"responses", "chat", "messages", "gemini"} /\ g.whole \in BOOLEAN /\ Len(t) \in Nat
  BY StreamAssumption, TurnFacts
<1>1. CASE g.whole
  <2>1. e = Event("whole", 0, 0) /\ e.t = "whole"
    BY <1>1 DEF Events, Event
  <2>2. CASE w = "gemini"
    <3>1. ch = DecodeParts(t, 0, Len(t) - 1)
      BY <2>1, <2>2 DEF Decode
    <3>2. 0 \in Nat /\ Len(t) - 1 \in Int /\ Len(t) - 1 < Len(t)
      BY <1>0
    <3>3. CallPlaces(t, 0, Len(t) - 1) = ToolPlaces(t)
      BY DEF CallPlaces, ToolPlaces, ToolAt, Positions
    <3> HIDE DEF ch
    <3>4. Shoots(ch, "gemini", t, g, ToolPlaces(t))
      BY <1>1, <3>1, <3>2, <3>3, PartCalls
    <3> QED BY <1>1, <2>2, <3>4 DEF Brought, ch
  <2>3. CASE w = "responses"
    <3>1. ch = DecodeTerminal(t, [g EXCEPT !.final = "full"])
      BY <2>1, <2>3 DEF Decode, DecodeResponses, Event
    <3>2. ch.calls = <<>>
      BY <3>1 DEF DecodeTerminal, EmptyChunk
    <3>3. ch.calls \in Seq(DeltaOf(Kin(t))) /\ Len(ch.calls) = 0
      BY <3>2
    <3> HIDE DEF ch
    <3>4. Shoots(ch, w, t, g, {})
      BY <3>3 DEF Shoots, IsVolley
    <3> QED BY <1>1, <2>3, <3>4 DEF Brought, ch
  <2>4. CASE w \in {"chat", "messages"}
    <3>1. ch = DecodeWhole(w, t)
      BY <2>1, <2>4 DEF Decode
    <3> QED BY <1>1, <2>4, <3>1, WholeCalls DEF Brought
  <2> QED BY <1>0, <2>2, <2>3, <2>4
<1>2. CASE ~g.whole
  <2>0. w = "gemini"
    BY <1>2 DEF Stream
  <2>1. PICK p \in Positions(t) : e = Event("part", p, 0)
    BY <1>2, <2>0 DEF Events
  <2>2. e.t = "part" /\ e.p = p /\ \A q : Part(q) = e <=> q = p
    BY <2>1 DEF Event, Part
  <2>3. p \in Nat /\ p \in Int /\ p < Len(t)
    BY TurnFacts
  <2>4. ch = DecodeParts(t, p, p)
    BY <2>2 DEF Decode
  <2>5. CallPlaces(t, p, p) = {q \in ToolPlaces(t) : Part(q) = e}
    BY <2>2, <2>3 DEF CallPlaces, ToolPlaces, ToolAt
  <2> HIDE DEF ch
  <2>6. Shoots(ch, "gemini", t, g, CallPlaces(t, p, p))
    BY <1>2, <2>3, <2>4, PartCalls
  <2> QED BY <1>2, <2>0, <2>5, <2>6 DEF Brought, ch
<1> QED BY <1>1, <1>2

\* A delivered event leaves a collector with the calls that came.
LEMMA ShotDelivered ==
    ASSUME NEW t \in Turns, NEW g \in Gateways, NEW w \in Wires, ~Stream(w, g), Tells(w, t, g),
           NEW s \in SUBSET Events(w, t, g), NEW e \in Events(w, t, g) \ s,
           NEW c, Sound(c, Kin(t)), Shot(w, t, g, s, c)
    PROVE  Shot(w, t, g, s \cup {e}, TakeChunk(c, Decode(w, t, g, e)))
<1> DEFINE u == s \cup {e}
           P == Brought(w, t, g, e)
<1>0. g.whole \in BOOLEAN
  BY StreamAssumption
<1>1. Shoots(Decode(w, t, g, e), w, t, g, P)
  BY ShotSays
<1>2. CASE g.whole
  <2>1. s = {} /\ u # {}
    BY <1>2 DEF Events
  <2>2. Taken(w, t, g, s) = {} /\ Taken(w, t, g, u) = P
    BY <1>2, <2>1 DEF Taken, Brought
  <2> HIDE DEF u, P
  <2>3. Taken(w, t, g, u) = Taken(w, t, g, s) \cup P
    BY <2>2
  <2>4. Shot(w, t, g, u, TakeChunk(c, Decode(w, t, g, e)))
    BY <1>1, <2>2, <2>3, ShotStep
  <2> QED BY <2>4 DEF u
<1>3. CASE ~g.whole
  <2>1. w = "gemini" /\ ~Placed(w, g) /\ ~ById(w, g, t)
    BY <1>3 DEF Stream, Placed, ById
  <2>2. Lone(t)
    BY <2>1 DEF Tells
  <2>3. Taken(w, t, g, u) = Taken(w, t, g, s) \cup P
    BY <1>3 DEF Taken, Brought
  <2>4. ASSUME P # {} PROVE Taken(w, t, g, s) = {}
    <3>1. PICK p \in ToolPlaces(t) : Part(p) = e
      BY <1>3, <2>4 DEF Brought
    <3>2. \A q \in ToolPlaces(t) : q = p
      BY <2>2, LoneSame
    <3>3. Part(p) \notin s
      BY <3>1
    <3> QED BY <1>3, <3>2, <3>3 DEF Taken
  <2> HIDE DEF u, P
  <2>5. Shot(w, t, g, u, TakeChunk(c, Decode(w, t, g, e)))
    BY <1>1, <2>3, <2>4, ShotStep
  <2> QED BY <2>5 DEF u
<1> QED BY <1>0, <1>2, <1>3

-----------------------------------------------------------------------------
(***************************************************************************)
(* What an event that is delivered makes of texts and reasoning.           *)
(***************************************************************************)
\* A chunk has the texts and the reasoning of the event e, and the terminal
\* output with the last event.
Voices(ch, w, t, g, s, e) ==
    /\ InOrder(SentTexts(w, t, g, s \cup {e})) = InOrder(SentTexts(w, t, g, s)) \o ch.text
    /\ ch.think \in Seq(Nat)
    /\ SentThinks(w, t, g, s \cup {e}) # {} => SentThinks(w, t, g, s) # {} \/ ch.think # <<>>
    /\ ThinkPlaces(t) = {} => ch.think = <<>> /\ ch.items = <<>>
    /\ ch.final = IF e = LastEvent(t, g) THEN FinalOf(w, t, g) ELSE <<>>

\* One number, and none, in order; one more above the others.
LEMMA InOrderJoins ==
    /\ InOrder({}) = <<>>
    /\ \A p \in Nat : InOrder({p}) = <<p>>
    /\ \A p \in Nat : \A S \in SUBSET (0 .. p - 1) :
          InOrder(S \cup {p}) = InOrder(S) \o <<p>> /\ InOrder(S) \in Seq(Nat)
<1>1. InOrder({}) = <<>>
  <2>1. {} \in SUBSET (0 .. 0) /\ 0 \in Nat
    OBVIOUS
  <2>2. InOrder({}) \in Seq({})
    BY <2>1, InOrderFacts
  <2> QED BY <2>2
<1>2. ASSUME NEW p \in Nat, NEW S \in SUBSET (0 .. p - 1)
      PROVE  /\ InOrder(S \cup {p}) = InOrder(S) \o <<p>> /\ InOrder(S) \in Seq(Nat)
             /\ InOrder(S \cup {p}) = Append(InOrder(S), p)
  <2>1. S \in SUBSET (0 .. p)
    OBVIOUS
  <2>2. InOrder(S) \in Seq(Nat)
    BY <2>1, InOrderFacts
  <2>3. InOrder(S \cup {p}) = Append(InOrder(S), p)
    BY InOrderExtends
  <2>4. Append(InOrder(S), p) = InOrder(S) \o <<p>>
    BY <2>2
  <2> QED BY <2>2, <2>3, <2>4
<1>3. ASSUME NEW p \in Nat PROVE InOrder({p}) = <<p>>
  <2>1. {} \in SUBSET (0 .. p - 1) /\ {} \cup {p} = {p}
    OBVIOUS
  <2>2. InOrder({p}) = Append(InOrder({}), p)
    BY <1>2, <2>1
  <2>3. Append(<<>>, p) = <<p>>
    OBVIOUS
  <2> QED BY <1>1, <2>2, <2>3
<1> QED BY <1>1, <1>2, <1>3

\* Collected, they are what was sent.
LEMMA SpokenStep ==
    ASSUME NEW w, NEW t, NEW g, NEW s, NEW e, e \notin s, NEW c, NEW U, Sound(c, U),
           Spoken(w, t, g, s, c), NEW ch, ch.calls \in Seq(DeltaOf(U)), Voices(ch, w, t, g, s, e)
    PROVE  Spoken(w, t, g, s \cup {e}, TakeChunk(c, ch))
<1> DEFINE u == s \cup {e}
           new == TakeChunk(c, ch)
           base == Base(c, ch)
<1>1. SameTexts(base, new)
  BY ChunkSound
<1>2. /\ base.text = c.text \o ch.text /\ base.think = c.think \o ch.think
      /\ base.items = MergeReasoning(c.items, ch.items)
      /\ base.final = IF ch.final = <<>> THEN c.final ELSE ch.final
  BY BaseFacts
<1> HIDE DEF base, new
<1>3. /\ new.text = c.text \o ch.text /\ new.think = c.think \o ch.think
      /\ new.items = MergeReasoning(c.items, ch.items)
      /\ new.final = IF ch.final = <<>> THEN c.final ELSE ch.final
  BY <1>1, <1>2 DEF SameTexts
<1>4. new.text = InOrder(SentTexts(w, t, g, u))
  BY <1>3 DEF Spoken, Voices
<1>5. c.think \in Seq(Nat) /\ ch.think \in Seq(Nat)
  BY DEF Spoken, Voices
<1>6. /\ new.think \in Seq(Nat)
      /\ c.think # <<>> \/ ch.think # <<>> => new.think # <<>>
      /\ c.think = <<>> /\ ch.think = <<>> => new.think = <<>>
  BY <1>3, <1>5
<1>7. SentThinks(w, t, g, u) # {} => new.think # <<>>
  BY <1>6 DEF Spoken, Voices
<1>8. ASSUME ThinkPlaces(t) = {} PROVE new.think = <<>> /\ new.items = <<>>
  <2>1. c.think = <<>> /\ c.items = <<>> /\ ch.think = <<>> /\ ch.items = <<>>
    BY <1>8 DEF Spoken, Voices
  <2>2. new.items = MergeReasoning(<<>>, <<>>)
    BY <1>3, <2>1
  <2>3. {n \in DOMAIN <<>> : <<>>[n] \notin Range(<<>>)} = {}
    OBVIOUS
  <2>4. MergeReasoning(<<>>, <<>>) = <<>> \o Pick(<<>>, {})
    BY <2>3 DEF MergeReasoning
  <2>5. Pick(<<>>, {}) = <<>>
    BY InOrderJoins DEF Pick
  <2> QED BY <1>6, <2>1, <2>2, <2>4, <2>5
<1>9. new.final = IF LastEvent(t, g) \in u THEN FinalOf(w, t, g) ELSE <<>>
  <2>1. CASE e = LastEvent(t, g)
    BY <1>3, <2>1 DEF Spoken, Voices
  <2>2. CASE e # LastEvent(t, g)
    BY <1>3, <2>2 DEF Spoken, Voices
  <2> QED BY <2>1, <2>2
<1> QED BY <1>4, <1>6, <1>7, <1>8, <1>9 DEF Spoken, new

\* Texts, reasoning and the end, among the events of a stream.
LEMMA StreamShape ==
    ASSUME NEW t \in Turns, NEW g, NEW w \in {"responses", "chat", "messages"},
           NEW e \in StreamEvents(w, t, g)
    PROVE  /\ e.t = "text" => e.p \in TextPlaces(t) /\ e = Event("text", e.p, 0)
           /\ e.t = "think" => e.p \in ThinkPlaces(t) /\ e = Event("think", e.p, 0)
           /\ e.t = "item" => e.p \in ThinkPlaces(t)
           /\ e.t = "end" <=> e = Event("end", Len(t), 0)
<1>1. CASE w = "responses"
  <2>1. IsResponsesEvent(t, g, e)
    BY <1>1, ResponsesEvent DEF StreamEvents
  <2> QED BY <2>1, EventFields DEF IsResponsesEvent
<1>2. CASE w # "responses"
  <2>1. IsIndexedEvent(t, e)
    BY <1>2, IndexedEvent DEF StreamEvents
  <2> QED BY <2>1, EventFields DEF IsIndexedEvent
<1> QED BY <1>1, <1>2

\* An event of a stream.
LEMMA StreamVoices ==
    ASSUME NEW t \in Turns, NEW g \in Gateways, NEW w \in {"responses", "chat", "messages"},
           ~g.whole, NEW s, NEW e, IsNext(w, t, g, s, e), NEW ch, Conveys(ch, t, Voiced(w, g), e)
    PROVE  Voices(ch, w, t, g, s, e)
<1> DEFINE S == SentTexts(w, t, g, s)
           T == SentThinks(w, t, g, s)
           u == s \cup {e}
<1>1. e \in StreamEvents(w, t, g) /\ e \notin s
  BY DEF IsNext
<1>2. /\ e.t = "text" => e.p \in TextPlaces(t) /\ e = Event("text", e.p, 0)
      /\ e.t = "think" => e.p \in ThinkPlaces(t) /\ e = Event("think", e.p, 0)
      /\ e.t = "item" => e.p \in ThinkPlaces(t)
      /\ e.t = "end" <=> e = Event("end", Len(t), 0)
  BY <1>1, StreamShape
<1>3. /\ \A x : SentTexts(w, t, g, x) = {p \in TextPlaces(t) : Event("text", p, 0) \in x}
      /\ \A x : SentThinks(w, t, g, x) = {p \in ThinkPlaces(t) : Event("think", p, 0) \in x}
  BY DEF SentTexts, SentThinks, SentPart
<1>4. S \in SUBSET (0 .. Len(t)) /\ Len(t) \in Nat /\ InOrder(S) \in Seq(Nat)
  <2>1. S \in SUBSET (0 .. Len(t)) /\ Len(t) \in Nat
    BY <1>3, TurnFacts DEF TextPlaces, Positions
  <2> HIDE DEF S
  <2> QED BY <2>1, InOrderFacts
<1>5. InOrder(SentTexts(w, t, g, u)) = InOrder(S) \o ch.text
  <2>1. CASE e.t # "text"
    <3>0. \A p : Event("text", p, 0) # e
      BY <2>1, EventFields
    <3>1. SentTexts(w, t, g, u) = S
      <4>1. \A p : Event("text", p, 0) \in u <=> Event("text", p, 0) \in s
        BY <3>0
      <4> HIDE DEF u
      <4> QED BY <1>3, <4>1
    <3>2. ch.text = <<>>
      BY <2>1 DEF Conveys, TextOf
    <3> HIDE DEF S, u
    <3> QED BY <1>4, <3>1, <3>2
  <2>2. CASE e.t = "text"
    <3>1. e.p \in TextPlaces(t) /\ e = Event("text", e.p, 0) /\ e.p \in Nat
      BY <1>2, <2>2, TurnFacts DEF TextPlaces
    <3>2. \A q \in S : q \in Nat /\ q < e.p
      <4>1. \A q \in S : q \in Positions(t) /\ q \in Nat /\ Event("text", q, 0) \in s
        BY <1>3, TurnFacts DEF TextPlaces
      <4>2. \A q \in Positions(t) : Event("text", q, 0) \in s => q <= e.p
        BY <2>2 DEF IsNext
      <4>3. \A q \in S : q # e.p
        BY <1>1, <3>1, <4>1
      <4> HIDE DEF S
      <4> QED BY <3>1, <4>1, <4>2, <4>3
    <3>3. SentTexts(w, t, g, u) = S \cup {e.p}
      BY <1>3, <3>1, EventFields
    <3>4. ch.text = <<e.p>>
      BY <2>2 DEF Conveys, TextOf
    <3> HIDE DEF S, u
    <3>5. S \in SUBSET (0 .. e.p - 1)
      BY <3>1, <3>2
    <3> QED BY <3>1, <3>3, <3>4, <3>5, InOrderJoins
  <2> QED BY <2>1, <2>2
<1>6. /\ ch.think \in Seq(Nat)
      /\ SentThinks(w, t, g, u) # {} => T # {} \/ ch.think # <<>>
      /\ ThinkPlaces(t) = {} => ch.think = <<>> /\ ch.items = <<>>
  <2>1. CASE e.t = "think"
    <3>1. e.p \in ThinkPlaces(t) /\ e.p \in Nat
      BY <1>2, <2>1, TurnFacts DEF ThinkPlaces
    <3>2. ch.think = <<e.p>>
      BY <2>1 DEF Conveys
    <3> QED BY <3>1, <3>2
  <2>2. CASE e.t # "think"
    <3>1. ch.think = <<>>
      BY <2>2 DEF Conveys
    <3>0. \A p : Event("think", p, 0) # e
      BY <2>2, EventFields
    <3>2. SentThinks(w, t, g, u) = T
      BY <1>3, <3>0
    <3>3. ThinkPlaces(t) = {} => ch.items = <<>>
      BY <1>2 DEF Conveys
    <3>4. <<>> \in Seq(Nat)
      OBVIOUS
    <3> HIDE DEF u, T
    <3> QED BY <3>1, <3>2, <3>3, <3>4
  <2> QED BY <2>1, <2>2
<1>7. ch.final = IF e = LastEvent(t, g) THEN FinalOf(w, t, g) ELSE <<>>
  <2>1. e.t = "end" <=> e = LastEvent(t, g)
    BY <1>2 DEF LastEvent
  <2>2. CASE w = "responses"
    <3>1. Voiced(w, g) = g
      BY <2>2 DEF Voiced
    <3> QED BY <2>1, <2>2, <3>1 DEF Conveys, FinalOf
  <2>3. CASE w # "responses"
    <3>1. Voiced(w, g).final = "none"
      BY <2>3, StreamAssumption DEF Voiced
    <3>2. ch.final = <<>>
      BY <3>1 DEF Conveys
    <3> QED BY <2>3, <3>2 DEF FinalOf
  <2> QED BY <2>2, <2>3
<1> QED BY <1>5, <1>6, <1>7 DEF Voices

\* A chunk of Gemini, and a buffered answer, with their texts and reasoning.
LEMMA PartsVoice ==
    ASSUME NEW t, NEW first, NEW last
    PROVE  /\ DecodeParts(t, first, last).text = InOrder({p \in first .. last : At(t, p) = "text"})
           /\ DecodeParts(t, first, last).think = InOrder({p \in first .. last : At(t, p) = "think"})
           /\ DecodeParts(t, first, last).items = <<>> /\ DecodeParts(t, first, last).final = <<>>
<1> DEFINE in(items) == InOrder({p \in first .. last : At(t, p) \in items})
           list == DecodeParts(t, first, last).calls
<1>1. \E calls : DecodeParts(t, first, last)
                   = [EmptyChunk EXCEPT !.text = in({"text"}), !.think = in({"think"}), !.calls = calls]
  BY DEF DecodeParts
<1>2. /\ {p \in first .. last : At(t, p) \in {"text"}} = {p \in first .. last : At(t, p) = "text"}
      /\ {p \in first .. last : At(t, p) \in {"think"}} = {p \in first .. last : At(t, p) = "think"}
  OBVIOUS
<1>3. /\ DecodeParts(t, first, last).text = in({"text"})
      /\ DecodeParts(t, first, last).think = in({"think"})
      /\ DecodeParts(t, first, last).items = <<>> /\ DecodeParts(t, first, last).final = <<>>
  <2> HIDE DEF in
  <2> QED BY <1>1 DEF EmptyChunk
<1> QED BY <1>2, <1>3

\* A buffered answer has the texts and the reasoning of the turn.
LEMMA WholeVoice ==
    ASSUME NEW w, NEW t
    PROVE  /\ DecodeWhole(w, t).text = InOrder(TextPlaces(t))
           /\ DecodeWhole(w, t).think = InOrder(ThinkPlaces(t))
           /\ DecodeWhole(w, t).items = <<>> /\ DecodeWhole(w, t).final = <<>>
<1> DEFINE where(items) == InOrder({p \in Positions(t) : At(t, p) \in items})
<1>1. \E calls : DecodeWhole(w, t)
                   = [EmptyChunk EXCEPT !.text = where({"text"}), !.think = where({"think"}),
                                        !.calls = calls]
  BY DEF DecodeWhole
<1>2. /\ {p \in Positions(t) : At(t, p) \in {"text"}} = TextPlaces(t)
      /\ {p \in Positions(t) : At(t, p) \in {"think"}} = ThinkPlaces(t)
  BY DEF TextPlaces, ThinkPlaces
<1>3. /\ DecodeWhole(w, t).text = where({"text"})
      /\ DecodeWhole(w, t).think = where({"think"})
      /\ DecodeWhole(w, t).items = <<>> /\ DecodeWhole(w, t).final = <<>>
  <2> HIDE DEF where
  <2> QED BY <1>1 DEF EmptyChunk
<1> QED BY <1>2, <1>3

\* The positions of the texts, and of the reasoning, in their order.
LEMMA PlacesInOrder ==
    ASSUME NEW t \in Turns
    PROVE  /\ InOrder(TextPlaces(t)) \in Seq(Nat) /\ InOrder(ThinkPlaces(t)) \in Seq(Nat)
           /\ Range(InOrder(ThinkPlaces(t))) = ThinkPlaces(t)
           /\ InOrder(ThinkPlaces(t)) = <<>> <=> ThinkPlaces(t) = {}
<1>1. /\ TextPlaces(t) \in SUBSET (0 .. Len(t)) /\ ThinkPlaces(t) \in SUBSET (0 .. Len(t))
      /\ Len(t) \in Nat
  BY TurnFacts DEF TextPlaces, ThinkPlaces, Positions
<1>2. /\ InOrder(TextPlaces(t)) \in Seq(Nat) /\ InOrder(ThinkPlaces(t)) \in Seq(Nat)
      /\ Range(InOrder(ThinkPlaces(t))) = ThinkPlaces(t)
  BY <1>1, InOrderFacts
<1>3. Range(<<>>) = {}
  BY DEF Range
<1> QED BY <1>2, <1>3, InOrderJoins

\* A buffered answer says all of it.
LEMMA WholeVoices ==
    ASSUME NEW t \in Turns, NEW g \in Gateways, NEW w \in Wires, g.whole,
           NEW e, e = Event("whole", 0, 0)
    PROVE  Voices(Decode(w, t, g, e), w, t, g, {}, e)
<1> DEFINE ch == Decode(w, t, g, e)
           none == {}
           u == none \cup {e}
<1>0. w \in {"responses", "chat", "messages", "gemini"} /\ e.t = "whole" /\ u # {}
      /\ e = LastEvent(t, g)
  BY StreamAssumption, EventFields DEF LastEvent
<1>1. CASE w = "responses"
  <2>1. ch = DecodeTerminal(t, [g EXCEPT !.final = "full"])
    BY <1>0, <1>1 DEF Decode, DecodeResponses, Event
  <2>2. [g EXCEPT !.final = "full"].final = "full"
    BY StreamAssumption
  <2>3. ch = [EmptyChunk EXCEPT !.final = OutputItems(t, [g EXCEPT !.final = "full"])]
    BY <2>1, <2>2 DEF DecodeTerminal
  <2>4. /\ ch.text = <<>> /\ ch.think = <<>> /\ ch.items = <<>>
        /\ ch.final = OutputItems(t, [g EXCEPT !.final = "full"])
    BY <2>3 DEF EmptyChunk
  <2> HIDE DEF ch
  <2>5. ch.final = FinalOf(w, t, g)
    BY <1>1, <2>4 DEF FinalOf
  <2>6. \A s : SentTexts(w, t, g, s) = {} /\ SentThinks(w, t, g, s) = {}
    BY <1>1 DEF SentTexts, SentThinks
  <2>7. <<>> \in Seq(Nat) /\ InOrder({}) = InOrder({}) \o <<>>
    BY InOrderJoins
  <2>8. Voices(ch, w, t, g, {}, e)
    BY <1>0, <2>4, <2>5, <2>6, <2>7 DEF Voices
  <2> QED BY <2>8 DEF ch
<1>2. CASE w # "responses"
  <2>1. /\ ch.text = InOrder(TextPlaces(t)) /\ ch.think = InOrder(ThinkPlaces(t))
        /\ ch.items = <<>> /\ ch.final = <<>>
    <3>1. CASE w = "gemini"
      <4>1. ch = DecodeParts(t, 0, Len(t) - 1)
        BY <1>0, <3>1 DEF Decode
      <4>2. /\ TextPlaces(t) = {p \in 0 .. Len(t) - 1 : At(t, p) = "text"}
            /\ ThinkPlaces(t) = {p \in 0 .. Len(t) - 1 : At(t, p) = "think"}
        BY DEF TextPlaces, ThinkPlaces, Positions
      <4> QED BY <4>1, <4>2, PartsVoice
    <3>2. CASE w \in {"chat", "messages"}
      <4>1. ch = DecodeWhole(w, t)
        BY <1>0, <3>2 DEF Decode
      <4> QED BY <4>1, WholeVoice
    <3> QED BY <1>0, <1>2, <3>1, <3>2
  <2>2. SentTexts(w, t, g, {}) = {} /\ SentTexts(w, t, g, u) = TextPlaces(t)
        /\ SentThinks(w, t, g, u) = ThinkPlaces(t)
    BY <1>0, <1>2 DEF SentTexts, SentThinks
  <2>3. FinalOf(w, t, g) = <<>>
    BY <1>2 DEF FinalOf
  <2>4. InOrder({}) \o ch.text = ch.text
    BY <2>1, PlacesInOrder, InOrderJoins
  <2> HIDE DEF ch, u
  <2>5. Voices(ch, w, t, g, none, e)
    BY <2>1, <2>2, <2>3, <2>4, PlacesInOrder DEF Voices, u
  <2> QED BY <2>5 DEF ch
<1> QED BY <1>1, <1>2

\* A part of Gemini comes after those before it.
LEMMA PartVoices ==
    ASSUME NEW t \in Turns, NEW g \in Gateways, NEW w, w = "gemini", ~g.whole,
           NEW s, IsClosed(w, t, g, s), NEW e \in Events(w, t, g) \ s
    PROVE  Voices(Decode(w, t, g, e), w, t, g, s, e)
<1> DEFINE ch == Decode(w, t, g, e)
           S == SentTexts(w, t, g, s)
           u == s \cup {e}
<1>1. PICK p \in Positions(t) : e = Part(p)
  BY DEF Events, Part
<1>2. e.t = "part" /\ e.p = p /\ p \in Nat /\ p \in Int /\ (\A q : Part(q) = e <=> q = p)
  BY <1>1, TurnFacts, EventFields DEF Part
<1>3. ch = DecodeParts(t, p, p)
  BY <1>2 DEF Decode
<1>4. p .. p = {p}
  BY <1>2
<1>5. /\ ch.text = InOrder({q \in {p} : At(t, q) = "text"})
      /\ ch.think = InOrder({q \in {p} : At(t, q) = "think"})
      /\ ch.items = <<>> /\ ch.final = <<>>
  <2>1. /\ {q \in p .. p : At(t, q) = "text"} = {q \in {p} : At(t, q) = "text"}
        /\ {q \in p .. p : At(t, q) = "think"} = {q \in {p} : At(t, q) = "think"}
    BY <1>4
  <2>2. /\ ch.text = InOrder({q \in p .. p : At(t, q) = "text"})
        /\ ch.think = InOrder({q \in p .. p : At(t, q) = "think"})
        /\ ch.items = <<>> /\ ch.final = <<>>
    <3>1. /\ DecodeParts(t, p, p).text = InOrder({q \in p .. p : At(t, q) = "text"})
          /\ DecodeParts(t, p, p).think = InOrder({q \in p .. p : At(t, q) = "think"})
          /\ DecodeParts(t, p, p).items = <<>> /\ DecodeParts(t, p, p).final = <<>>
      BY PartsVoice
    <3> QED BY <1>3, <3>1
  <2> QED BY <2>1, <2>2
<1> HIDE DEF ch
<1>6. /\ \A x : SentTexts(w, t, g, x) = {q \in TextPlaces(t) : Part(q) \in x}
      /\ \A x : SentThinks(w, t, g, x) = {q \in ThinkPlaces(t) : Part(q) \in x}
  BY DEF SentTexts, SentThinks, SentPart
<1>7. ASSUME NEW q \in S PROVE q \in Nat /\ q < p
  <2>1. q \in Nat /\ Part(q) \in s
    BY <1>6, TurnFacts DEF TextPlaces
  <2>2. ~Before(w, g, e, Part(q))
    BY <2>1 DEF IsClosed
  <2>3. Part(q).p = q
    BY EventFields DEF Part
  <2>4. ~(p < q)
    BY <1>2, <2>2, <2>3 DEF Before
  <2>5. q # p
    BY <1>1, <2>1
  <2> QED BY <1>2, <2>1, <2>4, <2>5
<1>8. S \in SUBSET (0 .. p - 1)
  <2> HIDE DEF S
  <2> QED BY <1>2, <1>7
<1>9. S \in SUBSET (0 .. p) /\ InOrder(S) \in Seq(Nat)
  <2> HIDE DEF S
  <2>1. S \in SUBSET (0 .. p)
    BY <1>2, <1>8
  <2> QED BY <1>2, <2>1, InOrderFacts
<1>10. InOrder(SentTexts(w, t, g, u)) = InOrder(S) \o ch.text
  <2>1. CASE At(t, p) = "text"
    <3>1. p \in TextPlaces(t)
      BY <2>1 DEF TextPlaces
    <3>2. SentTexts(w, t, g, u) = S \cup {p}
      BY <1>2, <1>6, <3>1
    <3>3. {q \in {p} : At(t, q) = "text"} = {p}
      BY <2>1
    <3>4. ch.text = <<p>>
      BY <1>2, <1>5, <3>3, InOrderJoins
    <3> HIDE DEF S, u
    <3> QED BY <1>2, <1>8, <3>2, <3>4, InOrderJoins
  <2>2. CASE At(t, p) # "text"
    <3>1. p \notin TextPlaces(t)
      BY <2>2 DEF TextPlaces
    <3>a. \A q \in TextPlaces(t) : Part(q) # e
      BY <1>2, <3>1
    <3>2. SentTexts(w, t, g, u) = S
      BY <1>6, <3>a
    <3>3. {q \in {p} : At(t, q) = "text"} = {}
      BY <2>2
    <3>4. ch.text = <<>>
      BY <1>5, <3>3, InOrderJoins
    <3> HIDE DEF S, u
    <3> QED BY <1>9, <3>2, <3>4
  <2> QED BY <2>1, <2>2
<1>11. /\ ch.think \in Seq(Nat)
       /\ SentThinks(w, t, g, u) # {} => SentThinks(w, t, g, s) # {} \/ ch.think # <<>>
       /\ ThinkPlaces(t) = {} => ch.think = <<>>
  <2>1. CASE At(t, p) = "think"
    <3>1. p \in ThinkPlaces(t)
      BY <2>1 DEF ThinkPlaces
    <3>2. {q \in {p} : At(t, q) = "think"} = {p}
      BY <2>1
    <3>3. ch.think = <<p>>
      BY <1>2, <1>5, <3>2, InOrderJoins
    <3> QED BY <1>2, <3>1, <3>3
  <2>2. CASE At(t, p) # "think"
    <3>1. p \notin ThinkPlaces(t)
      BY <2>2 DEF ThinkPlaces
    <3>a. \A q \in ThinkPlaces(t) : Part(q) # e
      BY <1>2, <3>1
    <3>2. SentThinks(w, t, g, u) = SentThinks(w, t, g, s)
      BY <1>6, <3>a
    <3>3. {q \in {p} : At(t, q) = "think"} = {}
      BY <2>2
    <3>4. ch.think = <<>> /\ <<>> \in Seq(Nat)
      BY <1>5, <3>3, InOrderJoins
    <3> HIDE DEF u
    <3> QED BY <3>2, <3>4
  <2> QED BY <2>1, <2>2
<1>12. e # LastEvent(t, g)
  BY <1>2, EventFields DEF LastEvent
<1>13. Voices(ch, w, t, g, s, e)
  BY <1>5, <1>10, <1>11, <1>12 DEF Voices
<1> QED BY <1>13 DEF ch

\* An event that is delivered keeps the assembly of the turn.
LEMMA AssemblyDelivered ==
    ASSUME NEW t \in Turns, NEW g \in Gateways, NEW w \in Wires, Speaks(w, g, t),
           NEW s, IsClosed(w, t, g, s), NEW e, IsReady(w, t, g, s, e),
           NEW c, Sound(c, Kin(t)), Assembling(w, t, g, s, c)
    PROVE  Assembling(w, t, g, s \cup {e}, TakeChunk(c, Decode(w, t, g, e)))
<1> DEFINE ch == Decode(w, t, g, e)
<1>0. /\ w \in {"responses", "chat", "messages", "gemini"} /\ g.whole \in BOOLEAN
      /\ s \in SUBSET Events(w, t, g) /\ e \in Events(w, t, g) \ s
  BY StreamAssumption DEF IsClosed, IsReady
<1>1. ch.calls \in Seq(DeltaOf(Kin(t)))
  BY <1>0, Decoded DEF IsDecoded
<1>2. CASE Stream(w, g)
  <2>1. ~g.whole /\ w \in {"responses", "chat", "messages"}
    BY <1>0, <1>2 DEF Stream
  <2>2. IsStreamChunk(ch, w, t, g, e) /\ Conveys(ch, t, Voiced(w, g), e)
    BY <1>0, <2>1, StreamSays
  <2> HIDE DEF ch
  <2>3. IsNext(w, t, g, s, e)
    BY <2>1, StreamOrder
  <2>4. Voices(ch, w, t, g, s, e)
    BY <2>1, <2>2, <2>3, StreamVoices
  <2>5. Spoken(w, t, g, s \cup {e}, TakeChunk(c, ch))
    BY <1>0, <1>1, <2>4, SpokenStep DEF Assembling
  <2>6. ASSUME Tells(w, t, g) PROVE Streamed(w, t, g, s \cup {e}, TakeChunk(c, ch))
    <3>1. Streamed(w, t, g, s, c)
      BY <1>2, <2>6 DEF Assembling
    <3> QED BY <2>1, <2>2, <2>3, <2>6, <3>1, StreamDelivered
  <2> QED BY <1>2, <2>5, <2>6 DEF Assembling, ch
<1>3. CASE ~Stream(w, g)
  <2>1. Voices(ch, w, t, g, s, e)
    <3>1. CASE g.whole
      <4>1. s = {} /\ e = Event("whole", 0, 0)
        BY <1>0, <3>1 DEF Events
      <4> QED BY <3>1, <4>1, WholeVoices
    <3>2. CASE ~g.whole
      <4>1. w = "gemini"
        BY <1>3, <3>2 DEF Stream
      <4> QED BY <1>0, <3>2, <4>1, PartVoices
    <3> QED BY <3>1, <3>2
  <2> HIDE DEF ch
  <2>2. Spoken(w, t, g, s \cup {e}, TakeChunk(c, ch))
    BY <1>0, <1>1, <2>1, SpokenStep DEF Assembling
  <2>3. ASSUME Tells(w, t, g) PROVE Shot(w, t, g, s \cup {e}, TakeChunk(c, ch))
    <3>1. Shot(w, t, g, s, c)
      BY <1>3, <2>3 DEF Assembling
    <3> QED BY <1>0, <1>3, <2>3, <3>1, ShotDelivered DEF ch
  <2> QED BY <1>3, <2>2, <2>3 DEF Assembling, ch
<1> QED BY <1>2, <1>3

\* A turn of which nothing was sent, and a collector that was given nothing.
LEMMA AssemblyStart ==
    ASSUME NEW t \in Turns, NEW g \in Gateways, NEW w \in Wires
    PROVE  Assembling(w, t, g, {}, NewCollector)
<1> DEFINE c == NewCollector
           none == {}
<1>1. /\ c.acc = <<>> /\ c.ids = <<>> /\ c.outs = <<>> /\ c.parked = <<>> /\ c.text = <<>>
      /\ c.think = <<>> /\ c.items = <<>> /\ c.final = <<>>
  BY DEF NewCollector
<1>2. DOMAIN <<>> = {} /\ Len(<<>>) = 0 /\ <<>> \in Seq(Nat)
  OBVIOUS
<1> HIDE DEF c
<1>3. Spoken(w, t, g, {}, c)
  <2>1. SentTexts(w, t, g, {}) = {} /\ SentThinks(w, t, g, {}) = {}
    BY DEF SentTexts, SentThinks
  <2> QED BY <1>1, <1>2, <2>1, InOrderJoins DEF Spoken
<1>4. Shot(w, t, g, {}, c)
  <2>1. Taken(w, t, g, {}) = {}
    BY DEF Taken
  <2> QED BY <1>1, <1>2, <2>1 DEF Shot
<1>5. \A x : Known(x, t, {}) = {}
  BY DEF Known
<1>6. Guided(w, t, g, {}, c) /\ Named(w, t, {}, c)
  <2>1. Guided(w, t, g, {}, c)
    BY <1>1, <1>2, <1>5 DEF Guided
  <2>2. Named(w, t, {}, c)
    BY <1>1, <1>2, <1>5 DEF Named
  <2> QED BY <2>1, <2>2
<1>7. ASSUME NEW p \in ToolPlaces(t), NEW snaps, NEW K
      PROVE  \E n : Earned(t, {}, p, n, snaps) /\ IsJoined(<<>>, Prefix(At(t, p), n), c.parked, K)
  <2>1. At(t, p) \in Tools
    BY TurnFacts
  <2>2. Len(Args(At(t, p))) \in Nat /\ Prefix(At(t, p), 0) = <<>>
    <3>1. Len(Args(At(t, p))) \in 0 .. Pieces /\ Prefix(At(t, p), 0) = <<>>
      BY <2>1, PrefixFacts
    <3> QED BY <3>1, PiecesAssumption
  <2>3. Earned(t, {}, p, 0, snaps)
    BY <2>2 DEF Earned
  <2>4. IsJoined(<<>>, Prefix(At(t, p), 0), c.parked, K)
    BY <1>1, <2>2, JoinedEmpty
  <2> QED BY <2>3, <2>4
<1>8. Stray(t, {}, c)
  <2>1. ASSUME NEW p \in ToolPlaces(t)
        PROVE  \E n : /\ Earned(t, {}, p, n, Repeats(t, p))
                      /\ IsJoined(<<>>, Prefix(At(t, p), n), c.parked, {NoId})
    BY <1>7
  <2>2. \A n \in 1 .. Len(c.parked) : FALSE
    BY <1>1, <1>2
  <2> QED BY <1>5, <2>1, <2>2 DEF Stray
<1>9. Waits(w, t, {}, c)
  <2>1. ASSUME NEW p \in Waiting(w, t, {})
        PROVE  \E n : /\ Earned(t, {}, p, n, Snaps(t, p))
                      /\ IsJoined(<<>>, Prefix(At(t, p), n), c.parked, {ItemId(At(t, p))})
    <3>1. p \in ToolPlaces(t)
      BY DEF Waiting
    <3> QED BY <1>7, <3>1
  <2>2. c.parked = <<>> /\ \A n \in 1 .. Len(c.parked) : FALSE
    BY <1>1, <1>2
  <2> QED BY <2>1, <2>2 DEF Waits
<1>10. Streamed(w, t, g, {}, c)
  BY <1>5, <1>6, <1>8, <1>9 DEF Streamed
<1> QED BY <1>3, <1>4, <1>10 DEF Assembling, c

\* The assembly of the turn begins with nothing.
LEMMA InitAssembly == Init => AssemblyInv
<1> SUFFICES ASSUME Init PROVE AssemblyInv
  OBVIOUS
<1>1. /\ wire \in Wires /\ gw \in Gateways /\ turn \in Turns /\ Speaks(wire, gw, turn)
      /\ sent = {} /\ col = NewCollector
  BY DEF Init
<1>2. Assembling(wire, turn, gw, {}, NewCollector)
  BY <1>1, AssemblyStart
<1> QED BY <1>1, <1>2 DEF AssemblyInv

\* Every step keeps the assembly of the turn.
LEMMA NextAssembly == Inv /\ AssemblyInv /\ [Next]_vars => AssemblyInv'
<1> SUFFICES ASSUME Inv, AssemblyInv, [Next]_vars PROVE AssemblyInv'
  OBVIOUS
<1>1. ASSUME NEW e \in Events(wire, turn, gw), NEW triggers, Deliver(e, triggers)
      PROVE  AssemblyInv'
  <2> DEFINE next == TakeChunk(col, Decode(wire, turn, gw, e))
  <2>1. /\ status = "open" /\ IsReady(wire, turn, gw, sent, e) /\ sent' = sent \cup {e}
        /\ wire' = wire /\ gw' = gw /\ turn' = turn
    BY <1>1 DEF Deliver, Ready, IsReady, Abort, fixed
  <2>2. status' = "loop" \/ col' = next
    BY <1>1 DEF Deliver, Abort
  <2>3. /\ wire \in Wires /\ gw \in Gateways /\ turn \in Turns
        /\ IsClosed(wire, turn, gw, sent) /\ Sound(col, Kin(turn))
    BY DEF Inv, CollectorOK
  <2>4. Speaks(wire, gw, turn) /\ Assembling(wire, turn, gw, sent, col)
    BY <2>1 DEF AssemblyInv
  <2>5. Assembling(wire, turn, gw, sent \cup {e}, next)
    BY <2>1, <2>3, <2>4, AssemblyDelivered
  <2> HIDE DEF next
  <2> QED BY <2>1, <2>2, <2>4, <2>5 DEF AssemblyInv
<1>2. ASSUME UNCHANGED <<wire, gw, turn, sent, col>>, status' # "loop" => status # "loop"
      PROVE  AssemblyInv'
  BY <1>2 DEF AssemblyInv
<1>3. CASE \E frame \in Frames : Check(frame)
  <2>1. UNCHANGED <<wire, gw, turn, sent, col>> /\ status = "open"
    BY <1>3 DEF Check, Abort, fixed
  <2> QED BY <1>2, <2>1
<1>4. CASE Close
  BY <1>2, <1>4 DEF Close, Finish, fixed
<1>5. CASE FallSilent
  BY <1>2, <1>5 DEF FallSilent, fixed
<1>6. CASE Break
  BY <1>2, <1>6 DEF Break, fixed
<1>7. CASE UNCHANGED vars
  BY <1>2, <1>7 DEF vars
<1> QED BY <1>1, <1>3, <1>4, <1>5, <1>6, <1>7 DEF Next, Done

\* The assembly goes on in every state of every stream.
LEMMA AssemblyInvariance == Spec => [](Inv /\ AssemblyInv)
<1>1. Init => Inv /\ AssemblyInv
  BY InitInv, InitAssembly
<1>2. Inv /\ AssemblyInv /\ [Next]_vars => (Inv /\ AssemblyInv)'
  BY NextInv, NextAssembly
<1> QED BY <1>1, <1>2, PTL DEF Spec

-----------------------------------------------------------------------------
(***************************************************************************)
(* The end of a stream: what is parked is salvaged.                        *)
(***************************************************************************)
\* An ascending list has its numbers in order.
LEMMA InOrderList ==
    ASSUME NEW list \in Seq(Nat), Ascending(list), NEW b \in Nat, NEW S \in SUBSET (0 .. b),
           S = {list[n] : n \in 1 .. Len(list)}
    PROVE  InOrder(S) = list
<1>1. InOrder(S) \in Seq(Nat) /\ Ascending(InOrder(S)) /\ Range(InOrder(S)) = S
  BY InOrderFacts
<1>2. Range(list) = S
  BY DEF Range
<1> QED BY <1>1, <1>2, AscendingUnique

\* Places among ascending positions give positions in order.
LEMMA PickCompose ==
    ASSUME NEW pos \in Seq(Nat), Ascending(pos), NEW B \in SUBSET (1 .. Len(pos)),
           NEW b \in Nat, NEW C \in SUBSET (0 .. b), C = {pos[m] : m \in B}
    PROVE  /\ InOrder(B) \in Seq(B) /\ InOrder(B) \in Seq(Nat)
           /\ InOrder(C) = [k \in 1 .. Len(InOrder(B)) |-> pos[InOrder(B)[k]]]
<1> DEFINE order == InOrder(B)
           list == [k \in 1 .. Len(order) |-> pos[order[k]]]
<1>1. order \in Seq(B) /\ order \in Seq(Nat) /\ Range(order) = B /\ Ascending(order)
  <2>1. B \in SUBSET (0 .. Len(pos)) /\ Len(pos) \in Nat
    OBVIOUS
  <2> QED BY <2>1, InOrderFacts
<1> HIDE DEF order
<1>2. Len(order) \in Nat /\ DOMAIN order = 1 .. Len(order)
      /\ \A k \in 1 .. Len(order) : order[k] \in B /\ order[k] \in 1 .. Len(pos) /\ order[k] \in Nat
  BY <1>1
<1>3. list \in Seq(Nat) /\ Len(list) = Len(order)
      /\ \A k \in 1 .. Len(order) : list[k] = pos[order[k]]
  BY <1>2
<1> HIDE DEF list
<1>4. Ascending(list)
  <2> SUFFICES ASSUME NEW i \in 1 .. Len(list), NEW j \in 1 .. Len(list), i < j
               PROVE  list[i] < list[j]
    BY DEF Ascending
  <2>1. order[i] < order[j]
    BY <1>1, <1>3 DEF Ascending
  <2>2. order[i] \in 1 .. Len(pos) /\ order[j] \in 1 .. Len(pos)
    BY <1>2, <1>3
  <2>3. pos[order[i]] < pos[order[j]]
    BY <2>1, <2>2 DEF Ascending
  <2> QED BY <1>3, <2>3
<1>5. C = {list[n] : n \in 1 .. Len(list)}
  <2>1. \A m \in B : \E k \in 1 .. Len(order) : order[k] = m
    BY <1>1, <1>2 DEF Range
  <2>2. ASSUME NEW x \in C PROVE \E k \in 1 .. Len(order) : x = list[k]
    <3>1. PICK m \in B : x = pos[m]
      OBVIOUS
    <3>2. PICK k \in 1 .. Len(order) : order[k] = m
      BY <2>1
    <3> QED BY <1>3, <3>1, <3>2
  <2>3. \A k \in 1 .. Len(order) : list[k] \in C
    BY <1>2, <1>3
  <2> QED BY <1>3, <2>2, <2>3
<1>6. InOrder(C) = list
  BY <1>3, <1>4, <1>5, InOrderList
<1> QED BY <1>1, <1>6 DEF order, list

\* Joined is the joining of all that is parked.
LEMMA JoinedAll ==
    ASSUME NEW Z, NEW parked \in Seq(Z), NEW K, NEW list, IsJoined(<<>>, list, parked, K),
           \A n \in 1 .. Len(parked) : Key(parked[n]) \in K
    PROVE  Joined(parked) = list
<1>1. PICK f : /\ f[0] = <<>> /\ f[Len(parked)] = list
               /\ \A n \in 1 .. Len(parked) : f[n] = JoinedOne(f[n - 1], K, parked[n])
  BY DEF IsJoined
<1> DEFINE len == Len(parked)
           Good(g) == g = [n \in 0 .. len |->
                             IF n = 0 THEN <<>> ELSE AppendFragment(g[n - 1], parked[n].args)]
           h == CHOOSE g : Good(g)
           g0 == [n \in 0 .. len |-> f[n]]
<1>2. len \in Nat
  OBVIOUS
<1>3. Good(g0)
  <2>1. ASSUME NEW n \in 0 .. len
        PROVE  f[n] = IF n = 0 THEN <<>> ELSE AppendFragment(g0[n - 1], parked[n].args)
    <3>1. CASE n = 0
      BY <1>1, <3>1
    <3>2. CASE n # 0
      <4>1. n \in 1 .. len /\ n - 1 \in 0 .. len
        BY <1>2, <3>2
      <4>2. f[n] = AppendFragment(f[n - 1], parked[n].args)
        BY <1>1, <4>1 DEF JoinedOne
      <4>3. g0[n - 1] = f[n - 1]
        BY <4>1
      <4> HIDE DEF g0
      <4> QED BY <3>2, <4>2, <4>3
    <3> QED BY <3>1, <3>2
  <2> QED BY <2>1
<1>4. Good(h)
  <2> HIDE DEF Good, g0
  <2> QED BY <1>3
<1>5. Joined(parked) = h[len]
  BY DEF Joined
<1> HIDE DEF h, g0
<1>6. h[0] = <<>> /\ \A n \in 1 .. len : h[n] = JoinedOne(h[n - 1], K, parked[n])
  <2>1. \A n \in 0 .. len :
           h[n] = IF n = 0 THEN <<>> ELSE AppendFragment(h[n - 1], parked[n].args)
    BY <1>4
  <2> QED BY <1>2, <2>1 DEF JoinedOne
<1>7. IsJoined(<<>>, h[len], parked, K)
  BY <1>6 DEF IsJoined
<1>8. h[len] = list
  BY <1>7, JoinedSame
<1> QED BY <1>5, <1>8

\* A salvaged collector: one client call without arguments may have been given
\* what was parked.
IsSalvaged(new, c) ==
    /\ DOMAIN new.acc = DOMAIN c.acc
    /\ \A i \in DOMAIN c.acc : /\ new.acc[i].name = c.acc[i].name /\ new.acc[i].kind = c.acc[i].kind
                               /\ new.acc[i].id = c.acc[i].id
    /\ new.text = c.text /\ new.think = c.think /\ new.items = c.items /\ new.final = c.final
    /\ IF c.parked # <<>> /\ \E i \in OpenCalls(c) : OpenCalls(c) = {i} /\ IsComplete(Joined(c.parked))
       THEN \A i \in DOMAIN c.acc :
               new.acc[i].args = IF i \in OpenCalls(c) THEN Joined(c.parked) ELSE c.acc[i].args
       ELSE \A i \in DOMAIN c.acc : new.acc[i].args = c.acc[i].args

\* That is what salvage_parked_fragments does.
LEMMA Salvaged ==
    ASSUME NEW c, NEW U, Sound(c, U)
    PROVE  IsSalvaged(Salvage(c), c)
<1> DEFINE new == Salvage(c)
           buffer == Joined(c.parked)
           open == OpenCalls(c)
           Fills == c.parked # <<>> /\ \E i \in open : open = {i} /\ IsComplete(buffer)
<1>1. /\ DOMAIN c = Fields
      /\ \A i \in DOMAIN c.acc : DOMAIN c.acc[i] = {"id", "name", "kind", "args"}
  BY DEF Sound, EntryOf
<1> HIDE DEF buffer
<1>2. CASE ~Fills
  <2>1. new = [c EXCEPT !.parked = <<>>]
    BY <1>2 DEF Salvage, buffer
  <2>2. /\ new.acc = c.acc /\ new.text = c.text /\ new.think = c.think /\ new.items = c.items
        /\ new.final = c.final
    BY <1>1, <2>1 DEF Fields
  <2> HIDE DEF new
  <2>3. IsSalvaged(new, c)
    BY <1>2, <2>2 DEF IsSalvaged, buffer
  <2> QED BY <2>3 DEF new
<1>3. CASE Fills
  <2>1. PICK i \in open : open = {i} /\ IsComplete(buffer)
    BY <1>3
  <2>2. (CHOOSE k \in open : TRUE) = i
    BY <2>1
  <2>3. new = [c EXCEPT !.acc[CHOOSE k \in open : TRUE].args = buffer, !.parked = <<>>]
    BY <1>3 DEF Salvage, buffer
  <2> DEFINE acc == [c.acc EXCEPT ![i].args = buffer]
  <2>4. i \in DOMAIN c.acc
    BY DEF OpenCalls
  <2> HIDE DEF new, open
  <2>5. new = [c EXCEPT !.acc[i].args = buffer, !.parked = <<>>]
    BY <2>2, <2>3
  <2>6. /\ new.acc = acc /\ new.text = c.text /\ new.think = c.think /\ new.items = c.items
        /\ new.final = c.final
    BY <1>1, <2>5 DEF Fields
  <2>7. /\ DOMAIN acc = DOMAIN c.acc
        /\ \A j \in DOMAIN c.acc : /\ acc[j].name = c.acc[j].name /\ acc[j].kind = c.acc[j].kind
                                   /\ acc[j].id = c.acc[j].id
                                   /\ acc[j].args = IF j = i THEN buffer ELSE c.acc[j].args
    BY <1>1, <2>4
  <2> HIDE DEF acc
  <2>8. \A j : j \in open <=> j = i
    BY <2>1
  <2>9. \A j \in DOMAIN c.acc : new.acc[j].args = IF j \in open THEN buffer ELSE c.acc[j].args
    BY <2>6, <2>7, <2>8
  <2>10. IsSalvaged(new, c)
    BY <1>3, <2>6, <2>7, <2>9 DEF IsSalvaged, buffer, open
  <2> QED BY <2>10 DEF new
<1> QED BY <1>2, <1>3

\* The arguments of a call were sent, in one way or the other, or there are
\* none.
Supplied(w, g, c) ==
    w # "responses" \/ g.deltas \/ g.done \/ KindOf[c] = "local_shell" \/ Args(c) = <<>>

\* The calls of a turn are collected, each at its position.
KindGiven(entry) == IF entry.kind = "" THEN "function" ELSE entry.kind
GatheredOne(w, t, g, p, entry) ==
    /\ entry.name = At(t, p) /\ KindGiven(entry) = KindOf[At(t, p)]
    /\ w = "responses" => entry.id = IdFor(At(t, p))
    /\ KindOf[At(t, p)] # "server" /\ Supplied(w, g, At(t, p)) => entry.args = Args(At(t, p))
Gathered(w, t, g, c) ==
    /\ DOMAIN c.acc = {Home(w, g, t, p) : p \in ToolPlaces(t)}
    /\ \A p \in ToolPlaces(t) : GatheredOne(w, t, g, p, c.acc[Home(w, g, t, p)])

\* The arguments of a local shell come with its item, and once more at its end.
LEMMA ShellSent ==
    ASSUME NEW t \in Turns, NEW g, NEW p \in ToolPlaces(t), KindOf[At(t, p)] = "local_shell"
    PROVE  Event("done", p, 0) \in StreamEvents("responses", t, g)
<1>1. p \in Positions(t) /\ At(t, p) \in Tools /\ At(t, p) \notin {"text", "think"}
  BY TurnFacts, StreamAssumption
<1>2. ItemEvents(t, g, p) = {Event(a, p, 0) : a \in {"added", "done"}}
  BY <1>1, SMT DEF ItemEvents
<1> QED BY <1>1, <1>2 DEF StreamEvents, ResponsesEvents

\* When all was sent, all fragments were earned.
LEMMA EarnedWhole ==
    ASSUME NEW t \in Turns, NEW g, NEW w \in {"responses", "chat", "messages"}, Speaks(w, g, t),
           NEW s, s = StreamEvents(w, t, g), NEW p \in ToolPlaces(t), KindOf[At(t, p)] # "server",
           Supplied(w, g, At(t, p)), NEW n, NEW snaps, Earned(t, s, p, n, snaps),
           \/ snaps = Snaps(t, p) \/ Args(At(t, p)) = <<>>
           \/ g.deltas /\ KindOf[At(t, p)] \in {"function", "custom_tool"}
    PROVE  n = Len(Args(At(t, p))) /\ Prefix(At(t, p), n) = Args(At(t, p))
<1> DEFINE c == At(t, p)
           len == Len(Args(c))
<1>0. c \in Tools /\ len \in 0 .. Pieces /\ Prefix(c, len) = Args(c) /\ Pieces \in Nat
  <2>1. c \in Tools
    BY TurnFacts
  <2> QED BY <2>1, PrefixFacts, PiecesAssumption
<1>1. KindOf[c] \in {"function", "custom_tool", "local_shell"}
  BY <1>0, KindFacts
<1>2. IsSent(w, t, g, s)
  BY StreamSends
<1> HIDE DEF len
<1>3. n \in 0 .. len /\ (snaps \cap s # {} => n = len)
      /\ \A k \in 1 .. Pieces : Event("args", p, k) \in s => k <= n
  BY DEF Earned, len
<1>4. CASE len = 0
  BY <1>0, <1>3, <1>4 DEF len
<1>5. ASSUME \A k \in 1 .. len : Event("args", p, k) \in s PROVE n = len
  <2>1. CASE len # 0
    <3>1. len \in 1 .. len /\ len \in 1 .. Pieces
      BY <1>0, <2>1
    <3>2. len <= n
      BY <1>3, <1>5, <3>1
    <3> QED BY <1>0, <1>3, <3>2
  <2> QED BY <1>3, <2>1
<1>6. CASE KindOf[c] \in {"function", "custom_tool"} /\ (w # "responses" \/ g.deltas)
  BY <1>0, <1>2, <1>5, <1>6 DEF IsSent, len
<1>7. CASE w # "responses"
  <2>1. KindOf[c] = "function"
    BY <1>0, <1>7, TurnFacts DEF Speaks, At
  <2> QED BY <1>6, <1>7, <2>1
<1>8. CASE w = "responses" /\ snaps = Snaps(t, p) /\ Event("done", p, 0) \in s
  BY <1>0, <1>3, <1>8 DEF Snaps, len
<1>9. KindOf[c] = "local_shell" /\ w = "responses" => Event("done", p, 0) \in s
  BY ShellSent
<1>10. KindOf[c] \in {"function", "custom_tool"} /\ w = "responses" /\ g.done => Event("done", p, 0) \in s
  BY <1>2 DEF IsSent
<1>11. Args(c) = <<>> => len = 0
  BY DEF len
<1> HIDE DEF c
<1>12. CASE w = "responses"
  <2>1. g.deltas \/ g.done \/ KindOf[c] = "local_shell" \/ len = 0
    BY <1>11, <1>12 DEF Supplied, c
  <2>2. \/ snaps = Snaps(t, p) \/ len = 0
        \/ g.deltas /\ KindOf[c] \in {"function", "custom_tool"}
    BY <1>11 DEF c
  <2> QED BY <1>1, <1>4, <1>6, <1>8, <1>9, <1>10, <1>12, <2>1, <2>2 DEF c
<1> QED BY <1>7, <1>12 DEF c

\* What all the fragments of a stream leave, when whose they are was told.
LEMMA TrackedGathered ==
    ASSUME NEW t \in Turns, NEW g \in Gateways, NEW w \in {"responses", "chat", "messages"}, ~g.whole,
           Speaks(w, g, t), ~Lost(w, t, g), NEW c, Sound(c, Kin(t)),
           Streamed(w, t, g, StreamEvents(w, t, g), c), NEW new, IsSalvaged(new, c)
    PROVE  Gathered(w, t, g, new)
<1> DEFINE s == StreamEvents(w, t, g)
<1>1. Known(w, t, s) = ToolPlaces(t) /\ Waiting(w, t, s) = {}
  BY StreamSends DEF IsSent, Known, Waiting
<1> HIDE DEF s
<1>2. /\ Named(w, t, s, c) /\ Waits(w, t, s, c)
      /\ \A p \in Known(w, t, s) : HasArgs(w, t, s, c, p)
  BY DEF Streamed, s
<1>3. c.parked = <<>>
  <2>1. ~(1 \in 1 .. Len(c.parked))
    BY <1>1, <1>2 DEF Waits
  <2>2. c.parked \in Seq(DeltaOf(Kin(t)))
    BY DEF Sound
  <2> QED BY <2>1, <2>2
<1>4. /\ DOMAIN new.acc = DOMAIN c.acc
      /\ \A i \in DOMAIN c.acc :
            /\ new.acc[i].name = c.acc[i].name /\ new.acc[i].kind = c.acc[i].kind
            /\ new.acc[i].id = c.acc[i].id /\ new.acc[i].args = c.acc[i].args
  BY <1>3 DEF IsSalvaged
<1>5. \A p : Home(w, g, t, p) = Place(w, t, p)
  BY DEF Home
<1>6. DOMAIN new.acc = {Home(w, g, t, p) : p \in ToolPlaces(t)}
  BY <1>1, <1>2, <1>4, <1>5 DEF Named
<1>7. ASSUME NEW p \in ToolPlaces(t) PROVE GatheredOne(w, t, g, p, new.acc[Home(w, g, t, p)])
  <2> DEFINE i == Home(w, g, t, p)
  <2>1. i = Place(w, t, p) /\ i \in DOMAIN c.acc
    BY <1>4, <1>5, <1>6
  <2> HIDE DEF i
  <2>2. /\ c.acc[i].name = At(t, p) /\ c.acc[i].id = IdFor(At(t, p))
        /\ c.acc[i].kind = KindFor(w, At(t, p))
    BY <1>1, <1>2, <2>1 DEF Named
  <2>3. KindGiven(new.acc[i]) = KindOf[At(t, p)]
    <3>1. At(t, p) \in Tools /\ p \in Positions(t)
      BY TurnFacts
    <3>2. KindOf[At(t, p)] # ""
      BY <3>1, KindFacts
    <3>3. w = "chat" => KindOf[At(t, p)] = "function"
      BY <3>1, TurnFacts DEF Speaks, At
    <3> QED BY <1>4, <2>1, <2>2, <3>2, <3>3 DEF KindGiven, KindFor
  <2>4. ASSUME KindOf[At(t, p)] # "server", Supplied(w, g, At(t, p))
        PROVE  new.acc[i].args = Args(At(t, p))
    <3>1. PICK n : Earned(t, s, p, n, Snaps(t, p)) /\ c.acc[i].args = Prefix(At(t, p), n)
      BY <1>1, <1>2, <2>1, <2>4 DEF HasArgs
    <3>2. Prefix(At(t, p), n) = Args(At(t, p))
      BY <2>4, <3>1, EarnedWhole DEF s
    <3> QED BY <1>4, <2>1, <3>1, <3>2
  <2>5. GatheredOne(w, t, g, p, new.acc[i])
    BY <1>4, <2>1, <2>2, <2>3, <2>4 DEF GatheredOne
  <2> QED BY <2>5 DEF i
<1> QED BY <1>6, <1>7 DEF Gathered

\* What they leave when nothing tells whose they are: the only call has them all
\* from its end, or they were parked and are salvaged.
LEMMA LostGathered ==
    ASSUME NEW t \in Turns, NEW g \in Gateways, NEW w \in {"responses", "chat", "messages"}, ~g.whole,
           Speaks(w, g, t), Tells(w, t, g), Lost(w, t, g), NEW c, Sound(c, Kin(t)),
           Streamed(w, t, g, StreamEvents(w, t, g), c), NEW new, IsSalvaged(new, c)
    PROVE  Gathered(w, t, g, new)
<1> DEFINE s == StreamEvents(w, t, g)
<1>1. w = "responses" /\ Lone(t)
      /\ \A p \in ToolPlaces(t) : KindOf[At(t, p)] \in {"function", "custom_tool"}
  BY LostFacts
<1>2. Known(w, t, s) = ToolPlaces(t) /\ IsSent(w, t, g, s)
  BY StreamSends DEF IsSent, Known
<1> HIDE DEF s
<1>3. Named(w, t, s, c) /\ Stray(t, s, c)
  BY DEF Streamed, s
<1>4. \A p : Home(w, g, t, p) = p /\ Place(w, t, p) = p
  BY <1>1 DEF Home, Place
<1>5. DOMAIN new.acc = {Home(w, g, t, p) : p \in ToolPlaces(t)} /\ DOMAIN c.acc = ToolPlaces(t)
      /\ DOMAIN new.acc = ToolPlaces(t)
  BY <1>2, <1>3, <1>4 DEF Named, IsSalvaged
<1>6. ASSUME NEW p \in ToolPlaces(t) PROVE GatheredOne(w, t, g, p, new.acc[p])
  <2> DEFINE name == At(t, p)
             len == Len(Args(name))
             buffer == Joined(c.parked)
             ended == Event("done", p, 0) \in s
  <2>1. /\ new.acc[p].name = name /\ new.acc[p].id = IdFor(name)
        /\ c.acc[p].kind = KindOf[name] /\ new.acc[p].kind = KindOf[name]
    BY <1>1, <1>2, <1>3, <1>4, <1>5 DEF Named, IsSalvaged, KindFor
  <2>2. name \in Tools /\ KindOf[name] \in {"function", "custom_tool"}
    BY <1>1, TurnFacts
  <2>3. len \in 0 .. Pieces /\ Pieces \in Nat \ {0} /\ Prefix(name, len) = Args(name)
        /\ (Args(name) # <<>> => len = Pieces)
    <3>1. /\ Args(name) \in Seq({name} \X (1 .. Pieces)) /\ len \in 0 .. Pieces
          /\ Prefix(name, len) = Args(name) /\ (len # 0 => len = Pieces)
      BY <2>2, PrefixFacts, ArgsFacts DEF Fragments
    <3>2. Args(name) # <<>> => len # 0
      BY <3>1
    <3> QED BY <3>1, <3>2, PiecesAssumption
  <2>4. c.acc[p].args = IF ended THEN Args(name) ELSE <<>>
    BY <1>1, <1>2, <1>3 DEF Stray
  <2>5. PICK n : /\ Earned(t, s, p, n, Repeats(t, p))
                 /\ IsJoined(<<>>, Prefix(name, n), c.parked, {NoId})
    BY <1>3 DEF Stray
  <2>6. buffer = Prefix(name, n) /\ n \in 0 .. len
    <3>1. c.parked \in Seq(DeltaOf(Kin(t)))
      BY DEF Sound
    <3>2. \A k \in 1 .. Len(c.parked) : Key(c.parked[k]) \in {NoId}
      BY <1>3 DEF Stray
    <3> QED BY <2>5, <3>1, <3>2, JoinedAll DEF Earned
  <2> HIDE DEF name, len, buffer, ended
  <2>7. \A q \in DOMAIN c.acc : q = p
    BY <1>1, <1>5, LoneSame
  <2>8. p \in OpenCalls(c) <=> c.acc[p].args = <<>>
    BY <1>5, <2>1, <2>2 DEF OpenCalls, IsPlaceholder
  <2>9. OpenCalls(c) \subseteq {p}
    BY <2>7 DEF OpenCalls
  <2>10. CASE Args(name) = <<>>
    <3>1. ~IsComplete(buffer)
      <4>1. Prefix(name, n) = <<>>
        <5>1. len = 0
          BY <2>10 DEF len
        <5>2. n = len
          BY <2>3, <2>6, <5>1
        <5> QED BY <2>3, <2>10, <5>2
      <4> QED BY <2>3, <2>6, <4>1 DEF IsComplete
    <3>2. new.acc[p].args = c.acc[p].args
      BY <1>5, <3>1 DEF IsSalvaged, buffer
    <3>3. new.acc[p].args = Args(name)
      BY <2>4, <2>10, <3>2
    <3> QED BY <2>1, <2>2, <3>3 DEF GatheredOne, KindGiven, name
  <2>11. CASE Args(name) # <<>> /\ ended
    <3>1. p \notin OpenCalls(c)
      BY <2>4, <2>8, <2>11
    <3>2. OpenCalls(c) = {}
      BY <2>9, <3>1
    <3>3. new.acc[p].args = c.acc[p].args
      BY <1>5, <3>2 DEF IsSalvaged
    <3>4. new.acc[p].args = Args(name)
      BY <2>4, <2>11, <3>3
    <3> QED BY <2>1, <2>2, <3>4 DEF GatheredOne, KindGiven, name
  <2>12. CASE Args(name) # <<>> /\ ~ended
    <3>1. ~g.done
      BY <1>1, <1>2, <2>2, <2>12 DEF IsSent, ended, name
    <3>2. ASSUME Supplied(w, g, name) PROVE new.acc[p].args = Args(name)
      <4>1. g.deltas
        BY <1>1, <2>2, <2>12, <3>1, <3>2 DEF Supplied
      <4>2. n = len /\ Prefix(name, n) = Args(name)
        <5>1. KindOf[At(t, p)] # "server" /\ Supplied(w, g, At(t, p))
              /\ KindOf[At(t, p)] \in {"function", "custom_tool"}
          BY <2>2, <3>2 DEF name
        <5>2. n = Len(Args(At(t, p))) /\ Prefix(At(t, p), n) = Args(At(t, p))
          BY <2>5, <4>1, <5>1, EarnedWhole DEF s
        <5> QED BY <5>2 DEF len, name
      <4>3. buffer = Args(name) /\ IsComplete(buffer)
        <5>1. n \in 0 .. Pieces /\ n = Pieces
          BY <2>3, <2>12, <4>2
        <5> QED BY <2>2, <2>6, <4>2, <5>1, PrefixComplete
      <4>4. c.parked # <<>>
        <5> SUFFICES ASSUME c.parked = <<>> PROVE FALSE
          OBVIOUS
        <5>1. <<>> \in Seq({}) /\ \A k \in 1 .. Len(<<>>) : Key(<<>>[k]) \in {NoId}
          OBVIOUS
        <5>2. IsJoined(<<>>, <<>>, <<>>, {NoId})
          BY JoinedEmpty
        <5>3. Joined(<<>>) = <<>>
          BY <5>1, <5>2, JoinedAll
        <5> QED BY <2>12, <4>3, <5>3 DEF buffer
      <4>5. p \in OpenCalls(c) /\ OpenCalls(c) = {p}
        BY <2>4, <2>8, <2>9, <2>12
      <4> QED BY <1>5, <4>3, <4>4, <4>5 DEF IsSalvaged, buffer
    <3> QED BY <2>1, <2>2, <3>2 DEF GatheredOne, KindGiven, name
  <2> QED BY <2>10, <2>11, <2>12
<1> QED BY <1>4, <1>5, <1>6 DEF Gathered

\* What calls leave that came whole.
LEMMA ShotGathered ==
    ASSUME NEW t \in Turns, NEW g \in Gateways, NEW w \in Wires, ~Stream(w, g),
           ~(g.whole /\ w = "responses"), Speaks(w, g, t), NEW c, Shot(w, t, g, Events(w, t, g), c),
           NEW new, IsSalvaged(new, c)
    PROVE  Gathered(w, t, g, new)
<1> DEFINE s == Events(w, t, g)
<1>1. w # "responses" /\ (w = "gemini" \/ g.whole)
  BY DEF Stream
<1>2. Taken(w, t, g, s) = ToolPlaces(t)
  <2>1. CASE g.whole
    <3>1. s # {}
      BY <2>1 DEF Events
    <3> QED BY <1>1, <2>1, <3>1 DEF Taken
  <2>2. CASE ~g.whole
    <3>1. \A p \in Positions(t) : Part(p) \in s
      BY <1>1, <2>2 DEF Events, Part
    <3>2. \A p \in ToolPlaces(t) : p \in Positions(t)
      BY DEF ToolPlaces
    <3> HIDE DEF s
    <3> QED BY <2>2, <3>1, <3>2 DEF Taken
  <2> QED BY <2>1, <2>2
<1> HIDE DEF s
<1>3. /\ DOMAIN c.acc = {Home(w, g, t, p) : p \in ToolPlaces(t)} /\ c.parked = <<>>
      /\ \A p \in ToolPlaces(t) :
            /\ c.acc[Home(w, g, t, p)].name = At(t, p)
            /\ c.acc[Home(w, g, t, p)].kind = "function"
            /\ c.acc[Home(w, g, t, p)].args = Args(At(t, p))
  BY <1>2 DEF Shot, s
<1>4. ASSUME NEW p \in ToolPlaces(t) PROVE GatheredOne(w, t, g, p, new.acc[Home(w, g, t, p)])
  <2> DEFINE i == Home(w, g, t, p)
  <2>1. i \in DOMAIN c.acc
    BY <1>3
  <2>2. c.acc[i].name = At(t, p) /\ c.acc[i].kind = "function" /\ c.acc[i].args = Args(At(t, p))
    BY <1>3
  <2> HIDE DEF i
  <2>3. new.acc[i].name = At(t, p) /\ new.acc[i].kind = "function" /\ new.acc[i].args = Args(At(t, p))
    BY <1>3, <2>1, <2>2 DEF IsSalvaged
  <2>4. KindOf[At(t, p)] = "function"
    <3>1. p \in Positions(t) /\ At(t, p) \in Tools /\ p + 1 \in 1 .. Len(t)
      BY TurnFacts
    <3> QED BY <1>1, <3>1 DEF Speaks, At
  <2>5. GatheredOne(w, t, g, p, new.acc[i])
    BY <1>1, <2>3, <2>4 DEF GatheredOne, KindGiven
  <2> QED BY <2>5 DEF i
<1> QED BY <1>3, <1>4 DEF Gathered, IsSalvaged

-----------------------------------------------------------------------------
(***************************************************************************)
(* The turn that is made of a collector: from the stream.                  *)
(***************************************************************************)
\* The model's turn is what a turn r holds.
KindPlaces(t, kinds) == {n \in DOMAIN t : t[n] \in Tools /\ KindOf[t[n]] \in kinds}
ClientKinds == {"function", "custom_tool", "local_shell"}
Holds(r, t) ==
    /\ CallNames(r.calls) = Pick(t, KindPlaces(t, ClientKinds))
    /\ CallNames(r.hosted) = Pick(t, KindPlaces(t, {"server"}))
    /\ \A n \in 1 .. Len(r.calls) : r.calls[n].args = Args(r.calls[n].name)
    /\ [n \in 1 .. Len(r.text) |-> t[r.text[n] + 1]] = Pick(t, {n \in DOMAIN t : t[n] = "text"})
    /\ (r.items # <<>>) = (\E n \in DOMAIN t : t[n] = "think")

\* The places of the calls of a turn, in their order.
Places(t) == InOrder(ToolPlaces(t))
\* They are the call places of the turn, each once, ascending.
LEMMA PlacesFacts ==
    ASSUME NEW t \in Turns
    PROVE  /\ Places(t) \in Seq(ToolPlaces(t)) /\ Places(t) \in Seq(Nat)
           /\ Ascending(Places(t)) /\ Range(Places(t)) = ToolPlaces(t)
           /\ Len(Places(t)) \in Nat /\ DOMAIN Places(t) = 1 .. Len(Places(t))
           /\ \A m \in 1 .. Len(Places(t)) :
                 /\ Places(t)[m] \in ToolPlaces(t) /\ Places(t)[m] \in Nat
                 /\ Places(t)[m] + 1 \in 1 .. Len(t) /\ At(t, Places(t)[m]) = t[Places(t)[m] + 1]
                 /\ At(t, Places(t)[m]) \in Tools
           /\ \A p \in ToolPlaces(t) : \E m \in 1 .. Len(Places(t)) : Places(t)[m] = p
<1>1. ToolPlaces(t) \in SUBSET (0 .. Len(t)) /\ Len(t) \in Nat
  BY TurnFacts DEF ToolPlaces, Positions
<1>2. /\ Places(t) \in Seq(ToolPlaces(t)) /\ Places(t) \in Seq(Nat)
      /\ Ascending(Places(t)) /\ Range(Places(t)) = ToolPlaces(t)
  BY <1>1, InOrderFacts DEF Places
<1>3. Len(Places(t)) \in Nat /\ DOMAIN Places(t) = 1 .. Len(Places(t))
      /\ \A m \in 1 .. Len(Places(t)) : Places(t)[m] \in ToolPlaces(t)
  BY <1>2
<1>4. \A p \in ToolPlaces(t) : \E m \in 1 .. Len(Places(t)) : Places(t)[m] = p
  BY <1>2, <1>3 DEF Range
<1>5. \A p \in ToolPlaces(t) : p \in Nat /\ p + 1 \in 1 .. Len(t) /\ At(t, p) = t[p + 1]
                               /\ At(t, p) \in Tools
  BY TurnFacts DEF At
<1> QED BY <1>2, <1>3, <1>4, <1>5

\* The calls of some kinds are those at some of these places.
OfKinds(t, kinds) == {m \in 1 .. Len(Places(t)) : KindOf[At(t, Places(t)[m])] \in kinds}
\* What the turn has at the places of these kinds is what it has at those
\* places.
LEMMA KindsPicked ==
    ASSUME NEW t \in Turns, NEW kinds
    PROVE  /\ InOrder(OfKinds(t, kinds)) \in Seq(OfKinds(t, kinds))
           /\ Pick(t, KindPlaces(t, kinds))
              = [k \in 1 .. Len(InOrder(OfKinds(t, kinds))) |->
                   At(t, Places(t)[InOrder(OfKinds(t, kinds))[k]])]
<1> DEFINE places == Places(t)
           pos == [m \in 1 .. Len(places) |-> places[m] + 1]
           B == OfKinds(t, kinds)
           C == KindPlaces(t, kinds)
           order == InOrder(B)
<1>1. /\ places \in Seq(Nat) /\ Ascending(places) /\ Len(places) \in Nat
      /\ \A m \in 1 .. Len(places) :
            /\ places[m] \in ToolPlaces(t) /\ places[m] \in Nat
            /\ places[m] + 1 \in 1 .. Len(t) /\ At(t, places[m]) = t[places[m] + 1]
            /\ At(t, places[m]) \in Tools
      /\ \A p \in ToolPlaces(t) : \E m \in 1 .. Len(places) : places[m] = p
  BY PlacesFacts
<1>2. Len(t) \in Nat /\ DOMAIN t = 1 .. Len(t)
  BY TurnFacts, StreamAssumption
<1>3. \A m : m \in B <=> m \in 1 .. Len(places) /\ KindOf[At(t, places[m])] \in kinds
  BY DEF OfKinds
<1> HIDE DEF places, B
<1>4. /\ pos \in Seq(Nat) /\ Len(pos) = Len(places)
      /\ \A m \in 1 .. Len(places) : pos[m] = places[m] + 1
  BY <1>1
<1> HIDE DEF pos
<1>5. Ascending(pos)
  <2> SUFFICES ASSUME NEW i \in 1 .. Len(pos), NEW j \in 1 .. Len(pos), i < j PROVE pos[i] < pos[j]
    BY DEF Ascending
  <2>1. places[i] < places[j] /\ places[i] \in Nat /\ places[j] \in Nat
    BY <1>1, <1>4 DEF Ascending
  <2> QED BY <1>4, <2>1
<1>6. B \in SUBSET (1 .. Len(pos))
  BY <1>3, <1>4
<1>7. C = {pos[m] : m \in B} /\ C \in SUBSET (0 .. Len(t))
  <2>1. ASSUME NEW m \in B PROVE pos[m] \in C
    <3>1. m \in 1 .. Len(places) /\ KindOf[At(t, places[m])] \in kinds
      BY <1>3
    <3>2. pos[m] \in 1 .. Len(t) /\ t[pos[m]] = At(t, places[m]) /\ At(t, places[m]) \in Tools
      BY <1>1, <1>4, <3>1
    <3> QED BY <1>2, <3>1, <3>2 DEF KindPlaces
  <2>2. ASSUME NEW n \in C PROVE \E m \in B : n = pos[m]
    <3>1. n \in 1 .. Len(t) /\ t[n] \in Tools /\ KindOf[t[n]] \in kinds
      BY <1>2 DEF KindPlaces
    <3>2. n - 1 \in Nat /\ n - 1 \in 0 .. Len(t) - 1 /\ (n - 1) + 1 = n
      BY <1>2, <3>1
    <3>3. n - 1 \in ToolPlaces(t) /\ At(t, n - 1) = t[n]
      BY <3>1, <3>2 DEF ToolPlaces, ToolAt, Positions, At
    <3>4. PICK m \in 1 .. Len(places) : places[m] = n - 1
      BY <1>1, <3>3
    <3>5. m \in B /\ pos[m] = n
      BY <1>3, <1>4, <3>1, <3>2, <3>3, <3>4
    <3> QED BY <3>5
  <2>3. C \in SUBSET (0 .. Len(t))
    BY <1>2 DEF KindPlaces
  <2> HIDE DEF C
  <2> QED BY <2>1, <2>2, <2>3
<1> HIDE DEF C
<1>8. order \in Seq(B) /\ InOrder(C) = [k \in 1 .. Len(order) |-> pos[order[k]]]
  BY <1>2, <1>4, <1>5, <1>6, <1>7, PickCompose
<1> HIDE DEF order
<1>9. Len(order) \in Nat /\ Len(InOrder(C)) = Len(order)
      /\ \A k \in 1 .. Len(order) : InOrder(C)[k] = pos[order[k]] /\ order[k] \in B
  BY <1>8
<1>10. \A k \in 1 .. Len(order) : t[InOrder(C)[k]] = At(t, places[order[k]])
  <2> SUFFICES ASSUME NEW k \in 1 .. Len(order) PROVE t[InOrder(C)[k]] = At(t, places[order[k]])
    OBVIOUS
  <2>1. order[k] \in 1 .. Len(places) /\ InOrder(C)[k] = pos[order[k]]
    BY <1>3, <1>9
  <2>2. pos[order[k]] = places[order[k]] + 1 /\ At(t, places[order[k]]) = t[places[order[k]] + 1]
    BY <1>1, <1>4, <2>1
  <2> QED BY <2>1, <2>2
<1>11. Pick(t, C) = [k \in 1 .. Len(order) |-> At(t, places[order[k]])]
  <2>1. Pick(t, C) = [k \in 1 .. Len(order) |-> t[InOrder(C)[k]]]
    BY <1>9 DEF Pick
  <2> QED BY <1>10, <2>1
<1> QED BY <1>8, <1>11 DEF C, B, order, places

\* The streamed calls are those of the turn, in its order.
Listed(w, t, g, streamed) ==
    /\ DOMAIN streamed = 1 .. Len(Places(t))
    /\ \A m \in 1 .. Len(Places(t)) :
          /\ streamed[m].name = At(t, Places(t)[m]) /\ streamed[m].kind = KindOf[At(t, Places(t)[m])]
          /\ w = "responses" => streamed[m].id = IdFor(At(t, Places(t)[m]))
          /\ KindOf[At(t, Places(t)[m])] # "server" /\ Supplied(w, g, At(t, Places(t)[m])) =>
                streamed[m].args = Args(At(t, Places(t)[m]))
Orderly(w, g, t) ==
    \A p, q \in ToolPlaces(t) :
       Home(w, g, t, p) \in Nat /\ (p < q => Home(w, g, t, p) < Home(w, g, t, q))
\* What was collected of all calls is listed in the order of the turn.
LEMMA StreamedListed ==
    ASSUME NEW t \in Turns, NEW g, NEW w, Orderly(w, g, t),
           NEW c, Entered(c), Gathered(w, t, g, c)
    PROVE  Listed(w, t, g, StreamedCalls(c))
<1> DEFINE places == Places(t)
           list == [m \in 1 .. Len(places) |-> Home(w, g, t, places[m])]
           S == {i \in DOMAIN c.acc : c.acc[i].name # NoName}
           streamed == StreamedCalls(c)
           of(e) == [e EXCEPT !.kind = KindGiven(e)]
<1>1. /\ Ascending(places) /\ Len(places) \in Nat
      /\ \A m \in 1 .. Len(places) : places[m] \in ToolPlaces(t)
      /\ \A p \in ToolPlaces(t) : \E m \in 1 .. Len(places) : places[m] = p
  BY PlacesFacts
<1> HIDE DEF places
<1>2. \A m \in 1 .. Len(places) : Home(w, g, t, places[m]) \in Nat
  BY <1>1 DEF Orderly
<1>3. /\ list \in Seq(Nat) /\ Len(list) = Len(places)
      /\ \A m \in 1 .. Len(places) : list[m] = Home(w, g, t, places[m])
  BY <1>1, <1>2
<1> HIDE DEF list
<1>4. Ascending(list)
  <2> SUFFICES ASSUME NEW i \in 1 .. Len(list), NEW j \in 1 .. Len(list), i < j PROVE list[i] < list[j]
    BY DEF Ascending
  <2>1. places[i] < places[j] /\ places[i] \in ToolPlaces(t) /\ places[j] \in ToolPlaces(t)
    BY <1>1, <1>3 DEF Ascending
  <2>2. Home(w, g, t, places[i]) < Home(w, g, t, places[j])
    BY <2>1 DEF Orderly
  <2> QED BY <1>3, <2>2
<1>5. DOMAIN c.acc = {Home(w, g, t, p) : p \in ToolPlaces(t)}
      /\ \A p \in ToolPlaces(t) : GatheredOne(w, t, g, p, c.acc[Home(w, g, t, p)])
  BY DEF Gathered
<1>6. S = {list[m] : m \in 1 .. Len(list)}
  <2>1. ASSUME NEW i \in DOMAIN c.acc
        PROVE  c.acc[i].name # NoName /\ \E m \in 1 .. Len(list) : i = list[m]
    <3>1. PICK p \in ToolPlaces(t) : i = Home(w, g, t, p)
      BY <1>5
    <3>2. c.acc[i].name # NoName
      BY <1>5, <3>1, TurnFacts DEF GatheredOne
    <3>3. PICK m \in 1 .. Len(places) : places[m] = p
      BY <1>1
    <3> QED BY <1>3, <3>1, <3>2, <3>3
  <2>2. \A m \in 1 .. Len(list) : list[m] \in DOMAIN c.acc
    BY <1>1, <1>3, <1>5
  <2> QED BY <2>1, <2>2
<1>7. PICK b \in Nat : S \in SUBSET (0 .. b)
  <2>1. PICK b \in Nat : DOMAIN c.acc \subseteq 0 .. b
    BY DEF Entered, Bounded
  <2> QED BY <2>1
<1>8. InOrder(S) = list
  <2> HIDE DEF S
  <2> QED BY <1>3, <1>4, <1>6, <1>7, InOrderList
<1>9. streamed = [m \in 1 .. Len(InOrder(S)) |-> of(c.acc[InOrder(S)[m]])]
  BY DEF StreamedCalls, KindGiven
<1> HIDE DEF streamed, S
<1>10. DOMAIN streamed = 1 .. Len(places)
       /\ \A m \in 1 .. Len(places) : streamed[m] = of(c.acc[list[m]])
  <2> HIDE DEF of
  <2> QED BY <1>3, <1>8, <1>9
<1>11. ASSUME NEW m \in 1 .. Len(places)
       PROVE  /\ streamed[m].name = At(t, places[m]) /\ streamed[m].kind = KindOf[At(t, places[m])]
              /\ w = "responses" => streamed[m].id = IdFor(At(t, places[m]))
              /\ KindOf[At(t, places[m])] # "server" /\ Supplied(w, g, At(t, places[m])) =>
                    streamed[m].args = Args(At(t, places[m]))
  <2> DEFINE e == c.acc[list[m]]
  <2>1. places[m] \in ToolPlaces(t) /\ list[m] = Home(w, g, t, places[m])
    BY <1>1, <1>3
  <2>2. GatheredOne(w, t, g, places[m], e) /\ list[m] \in DOMAIN c.acc
    BY <1>5, <2>1
  <2>3. DOMAIN e = {"id", "name", "kind", "args"} /\ streamed[m] = of(e)
    BY <1>10, <2>2 DEF Entered
  <2> HIDE DEF e
  <2>4. streamed[m].name = e.name /\ streamed[m].kind = KindGiven(e) /\ streamed[m].id = e.id
        /\ streamed[m].args = e.args
    BY <2>3
  <2> QED BY <2>2, <2>4 DEF GatheredOne
<1> QED BY <1>10, <1>11 DEF Listed, streamed, places

\* The streamed calls of some kinds are the model's.
IsPicked(list, w, t, g, kinds) ==
    /\ CallNames(list) = Pick(t, KindPlaces(t, kinds))
    /\ \A n \in 1 .. Len(list) : \E p \in ToolPlaces(t) :
          /\ list[n].name = At(t, p) /\ KindOf[At(t, p)] \in kinds
          /\ KindOf[At(t, p)] # "server" /\ Supplied(w, g, At(t, p)) => list[n].args = Args(At(t, p))
\* Picked from a list of the turn's calls, they have its names and arguments.
LEMMA StreamPicks ==
    ASSUME NEW t \in Turns, NEW g, NEW w, NEW streamed, Listed(w, t, g, streamed), NEW kinds,
           NEW list, list = Pick(streamed, {n \in DOMAIN streamed : streamed[n].kind \in kinds})
    PROVE  IsPicked(list, w, t, g, kinds)
<1> DEFINE places == Places(t)
           B == OfKinds(t, kinds)
           order == InOrder(B)
<1>1. \A m \in 1 .. Len(places) : places[m] \in ToolPlaces(t)
  BY PlacesFacts
<1>2. \A m : m \in B <=> m \in 1 .. Len(places) /\ KindOf[At(t, places[m])] \in kinds
  BY DEF OfKinds
<1>3. {n \in DOMAIN streamed : streamed[n].kind \in kinds} = B
  BY DEF OfKinds, Listed
<1>4. /\ order \in Seq(B)
      /\ Pick(t, KindPlaces(t, kinds)) = [k \in 1 .. Len(order) |-> At(t, places[order[k]])]
  BY KindsPicked
<1> HIDE DEF B, order
<1>5. Len(order) \in Nat /\ \A k \in 1 .. Len(order) : order[k] \in B
  BY <1>4
<1>6. list = [n \in 1 .. Len(order) |-> streamed[order[n]]]
  BY <1>3 DEF Pick, order
<1> DEFINE those == [n \in 1 .. Len(order) |-> streamed[order[n]]]
<1>7. Len(list) = Len(order) /\ \A n \in 1 .. Len(order) : list[n] = streamed[order[n]]
  <2>1. Len(those) = Len(order) /\ \A n \in 1 .. Len(order) : those[n] = streamed[order[n]]
    BY <1>5
  <2>2. list = those
    BY <1>6
  <2> HIDE DEF those
  <2> QED BY <2>1, <2>2
<1>8. ASSUME NEW n \in 1 .. Len(order)
      PROVE  /\ places[order[n]] \in ToolPlaces(t) /\ list[n].name = At(t, places[order[n]])
             /\ KindOf[At(t, places[order[n]])] \in kinds
             /\ KindOf[At(t, places[order[n]])] # "server" /\ Supplied(w, g, At(t, places[order[n]]))
                => list[n].args = Args(At(t, places[order[n]]))
  <2>1. order[n] \in 1 .. Len(places) /\ KindOf[At(t, places[order[n]])] \in kinds
        /\ list[n] = streamed[order[n]]
    BY <1>2, <1>5, <1>7
  <2> QED BY <1>1, <2>1 DEF Listed
<1>9. CallNames(list) = [k \in 1 .. Len(order) |-> At(t, places[order[k]])]
  <2>1. \A n \in 1 .. Len(order) : list[n].name = At(t, places[order[n]])
    BY <1>8
  <2> QED BY <1>7, <2>1 DEF CallNames
<1> QED BY <1>4, <1>7, <1>8, <1>9 DEF IsPicked

\* Streamed reasoning stands for an item, and changes nothing else.
LEMMA ReasoningHeld ==
    ASSUME NEW c, NEW i, NEW x, NEW h, NEW think, NEW r,
           r = WithReasoning([calls |-> c, hosted |-> h, items |-> i, text |-> x], think)
    PROVE  /\ r.calls = c /\ r.hosted = h /\ r.text = x
           /\ (r.items # <<>>) = (i # <<>> \/ think # <<>>)
<1> DEFINE old == [calls |-> c, hosted |-> h, items |-> i, text |-> x]
<1>1. CASE i = <<>> /\ think # <<>>
  <2>1. r = [calls |-> c, hosted |-> h, items |-> <<NoId>>, text |-> x]
    BY <1>1 DEF WithReasoning
  <2>2. <<NoId>> # <<>>
    OBVIOUS
  <2> QED BY <1>1, <2>1, <2>2
<1>2. CASE ~(i = <<>> /\ think # <<>>)
  <2>1. r = [calls |-> c, hosted |-> h, items |-> i, text |-> x]
    BY <1>2 DEF WithReasoning
  <2> QED BY <1>2, <2>1
<1> QED BY <1>1, <1>2

\* The texts of a turn are those at their places.
LEMMA TextsHeld ==
    ASSUME NEW t \in Turns, NEW text, text = InOrder(TextPlaces(t))
    PROVE  [n \in 1 .. Len(text) |-> t[text[n] + 1]] = Pick(t, {n \in DOMAIN t : t[n] = "text"})
<1> DEFINE P == TextPlaces(t)
           S == {n \in DOMAIN t : t[n] = "text"}
           list == [n \in 1 .. Len(text) |-> text[n] + 1]
<1>1. Len(t) \in Nat /\ DOMAIN t = 1 .. Len(t)
  BY TurnFacts, StreamAssumption
<1>2. P \in SUBSET (0 .. Len(t)) /\ \A p \in P : p \in Nat /\ p + 1 \in 1 .. Len(t) /\ t[p + 1] = "text"
  <2>1. \A p \in P : p \in Nat /\ p < Len(t) /\ p + 1 \in 1 .. Len(t) /\ t[p + 1] = "text"
    BY TurnFacts DEF TextPlaces, At
  <2> HIDE DEF P
  <2> QED BY <1>1, <2>1
<1>3. \A n \in S : n - 1 \in P /\ (n - 1) + 1 = n
  <2> SUFFICES ASSUME NEW n \in S PROVE n - 1 \in P /\ (n - 1) + 1 = n
    OBVIOUS
  <2>1. n \in 1 .. Len(t) /\ t[n] = "text" /\ (n - 1) + 1 = n /\ n - 1 \in 0 .. Len(t) - 1
    BY <1>1
  <2> QED BY <2>1 DEF TextPlaces, Positions, At
<1> HIDE DEF P
<1>4. text \in Seq(P) /\ text \in Seq(Nat) /\ Ascending(text) /\ Range(text) = P
  <2>1. text = InOrder(P)
    BY DEF P
  <2> QED BY <1>1, <1>2, <2>1, InOrderFacts
<1>5. Len(text) \in Nat /\ DOMAIN text = 1 .. Len(text)
      /\ \A n \in 1 .. Len(text) : text[n] \in P /\ text[n] \in Nat
  BY <1>4
<1>6. list \in Seq(Nat) /\ Len(list) = Len(text) /\ \A n \in 1 .. Len(text) : list[n] = text[n] + 1
  BY <1>5
<1> HIDE DEF list
<1>7. Ascending(list)
  <2> SUFFICES ASSUME NEW i \in 1 .. Len(list), NEW j \in 1 .. Len(list), i < j PROVE list[i] < list[j]
    BY DEF Ascending
  <2>1. text[i] < text[j] /\ text[i] \in Nat /\ text[j] \in Nat
    BY <1>4, <1>5, <1>6 DEF Ascending
  <2> QED BY <1>6, <2>1
<1>8. S = {list[n] : n \in 1 .. Len(list)} /\ S \in SUBSET (0 .. Len(t))
  <2>1. ASSUME NEW n \in 1 .. Len(list) PROVE list[n] \in S
    <3>1. list[n] = text[n] + 1 /\ text[n] \in P
      BY <1>5, <1>6
    <3> QED BY <1>1, <1>2, <3>1
  <2>2. ASSUME NEW m \in S PROVE \E n \in 1 .. Len(list) : m = list[n]
    <3>1. m - 1 \in P /\ (m - 1) + 1 = m
      BY <1>3
    <3>2. PICK n \in 1 .. Len(text) : text[n] = m - 1
      BY <1>4, <1>5, <3>1 DEF Range
    <3> QED BY <1>6, <3>1, <3>2
  <2>3. S \in SUBSET (0 .. Len(t))
    BY <1>1
  <2> HIDE DEF S
  <2> QED BY <2>1, <2>2, <2>3
<1> HIDE DEF S
<1>9. InOrder(S) = list
  BY <1>1, <1>6, <1>7, <1>8, InOrderList
<1>10. Pick(t, S) = [n \in 1 .. Len(list) |-> t[list[n]]]
  BY <1>9 DEF Pick
<1> QED BY <1>6, <1>10 DEF S

\* A turn has reasoning if one of its items is.
LEMMA ThinksHeld ==
    ASSUME NEW t \in Turns
    PROVE  (\E n \in DOMAIN t : t[n] = "think") = (ThinkPlaces(t) # {})
<1>1. Len(t) \in Nat /\ DOMAIN t = 1 .. Len(t)
  BY TurnFacts, StreamAssumption
<1>2. ASSUME NEW n \in DOMAIN t, t[n] = "think" PROVE ThinkPlaces(t) # {}
  <2>1. n \in 1 .. Len(t) /\ (n - 1) + 1 = n /\ n - 1 \in 0 .. Len(t) - 1
    BY <1>1
  <2>2. n - 1 \in ThinkPlaces(t)
    BY <1>2, <2>1 DEF ThinkPlaces, Positions, At
  <2> QED BY <2>2
<1>3. ASSUME NEW p \in ThinkPlaces(t) PROVE \E n \in DOMAIN t : t[n] = "think"
  <2>1. p + 1 \in 1 .. Len(t) /\ t[p + 1] = "think"
    BY TurnFacts DEF ThinkPlaces, At
  <2> QED BY <1>1, <2>1
<1> QED BY <1>2, <1>3

\* From the stream: the model's turn.
LEMMA StreamHolds ==
    ASSUME NEW t \in Turns, NEW g, NEW w, Orderly(w, g, t),
           NEW c, Entered(c), Gathered(w, t, g, c), c.final = <<>>,
           \A p \in ToolPlaces(t) : KindOf[At(t, p)] # "server" => Supplied(w, g, At(t, p)),
           c.text = InOrder(TextPlaces(t)),
           (c.items # <<>> \/ c.think # <<>>) = (ThinkPlaces(t) # {})
    PROVE  Holds(Finalize(c), t)
<1> DEFINE streamed == StreamedCalls(c)
           calls == Pick(streamed, {n \in DOMAIN streamed : streamed[n].kind # "server"})
           hosted == Pick(streamed, {n \in DOMAIN streamed : streamed[n].kind = "server"})
           old == [calls |-> calls, hosted |-> hosted, items |-> c.items, text |-> c.text]
           r == Finalize(c)
<1>1. Listed(w, t, g, streamed)
  BY StreamedListed
<1>2. r = WithReasoning(old, c.think)
  BY DEF Finalize, FromStream
<1> HIDE DEF streamed
<1>3. /\ {n \in DOMAIN streamed : streamed[n].kind # "server"}
         = {n \in DOMAIN streamed : streamed[n].kind \in ClientKinds}
      /\ {n \in DOMAIN streamed : streamed[n].kind = "server"}
         = {n \in DOMAIN streamed : streamed[n].kind \in {"server"}}
  <2>1. ASSUME NEW n \in DOMAIN streamed
        PROVE  streamed[n].kind # "server" <=> streamed[n].kind \in ClientKinds
    <3>1. At(t, Places(t)[n]) \in Tools /\ streamed[n].kind = KindOf[At(t, Places(t)[n])]
      BY <1>1, PlacesFacts DEF Listed
    <3> QED BY <3>1, KindFacts DEF ClientKinds
  <2> QED BY <2>1
<1>4. calls = Pick(streamed, {n \in DOMAIN streamed : streamed[n].kind \in ClientKinds})
      /\ hosted = Pick(streamed, {n \in DOMAIN streamed : streamed[n].kind \in {"server"}})
  BY <1>3
<1> HIDE DEF calls, hosted, r
<1>5. /\ r.calls = calls /\ r.hosted = hosted /\ r.text = c.text
      /\ (r.items # <<>>) = (c.items # <<>> \/ c.think # <<>>)
  BY <1>2, ReasoningHeld
<1>6. IsPicked(calls, w, t, g, ClientKinds)
  BY <1>1, <1>4, StreamPicks
<1>7. IsPicked(hosted, w, t, g, {"server"})
  BY <1>1, <1>4, StreamPicks
<1>8. \A n \in 1 .. Len(calls) : calls[n].args = Args(calls[n].name)
  <2> SUFFICES ASSUME NEW n \in 1 .. Len(calls) PROVE calls[n].args = Args(calls[n].name)
    OBVIOUS
  <2>1. PICK p \in ToolPlaces(t) :
            /\ calls[n].name = At(t, p) /\ KindOf[At(t, p)] \in ClientKinds
            /\ KindOf[At(t, p)] # "server" /\ Supplied(w, g, At(t, p)) =>
                  calls[n].args = Args(At(t, p))
    BY <1>6 DEF IsPicked
  <2>2. KindOf[At(t, p)] # "server"
    BY <2>1 DEF ClientKinds
  <2> QED BY <2>1, <2>2
<1>9. [n \in 1 .. Len(c.text) |-> t[c.text[n] + 1]] = Pick(t, {n \in DOMAIN t : t[n] = "text"})
  BY TextsHeld
<1>10. (r.items # <<>>) = (\E n \in DOMAIN t : t[n] = "think")
  BY <1>5, ThinksHeld
<1>11. Holds(r, t)
  BY <1>5, <1>6, <1>7, <1>8, <1>9, <1>10 DEF Holds, IsPicked
<1> QED BY <1>11 DEF r

-----------------------------------------------------------------------------
(***************************************************************************)
(* The turn that is made of a collector: from the terminal output.         *)
(***************************************************************************)
\* What an item of the terminal output of the turn t is.
IsItem(item, t, h, n) ==
    /\ t[n] \in Tools =>
          /\ DOMAIN item = {"kind", "id", "name", "args"}
          /\ item.kind = KindOf[t[n]] /\ item.id = IdFor(t[n]) /\ item.name = t[n]
          /\ item.args = IF h.final = "full" \/ KindOf[t[n]] # "function" THEN Args(t[n]) ELSE <<>>
    /\ t[n] = "text" => item.kind = "message" /\ item.args = <<n - 1>>
    /\ t[n] = "think" => item.kind = "reasoning"
    /\ t[n] \in Tools \cup {"text", "think"}
\* Each item of the terminal output is that of the item of the turn.
LEMMA OutputItem ==
    ASSUME NEW t \in Turns, NEW h, NEW n \in 1 .. Len(t)
    PROVE  IsItem(OutputItems(t, h)[n], t, h, n)
<1> DEFINE c == t[n]
           item == OutputItems(t, h)[n]
<1>1. c \in Tools \cup {"text", "think"} /\ "text" \notin Tools /\ "think" \notin Tools
  BY StreamAssumption
<1>2. CASE c = "text"
  <2>1. item = [kind |-> "message", id |-> NoId, name |-> NoName, args |-> <<n - 1>>]
    BY <1>1, <1>2 DEF OutputItems
  <2>2. item.kind = "message" /\ item.args = <<n - 1>>
    BY <2>1
  <2> HIDE DEF item
  <2> QED BY <1>1, <1>2, <2>2 DEF IsItem, item
<1>3. CASE c = "think"
  <2>1. item = [kind |-> "reasoning", id |-> ItemId(c), name |-> NoName, args |-> <<>>]
    BY <1>1, <1>3 DEF OutputItems
  <2>2. item.kind = "reasoning"
    BY <2>1
  <2> HIDE DEF item
  <2> QED BY <1>1, <1>3, <2>2 DEF IsItem, item
<1>4. CASE c \in Tools
  <2> DEFINE args == IF h.final = "full" \/ KindOf[c] # "function" THEN Args(c) ELSE <<>>
             id == IF KindOf[c] = "server" THEN ItemId(c) ELSE CallId(c)
  <2>1. item = [kind |-> KindOf[c], id |-> id, name |-> c, args |-> args]
    BY <1>1, <1>4 DEF OutputItems
  <2>2. id = IdFor(c)
    BY DEF IdFor
  <2> HIDE DEF args, id
  <2>3. DOMAIN item = {"kind", "id", "name", "args"}
        /\ item.kind = KindOf[c] /\ item.id = id /\ item.name = c /\ item.args = args
    BY <2>1
  <2> HIDE DEF item
  <2> QED BY <1>1, <1>4, <2>2, <2>3 DEF IsItem, item, args
<1> QED BY <1>1, <1>2, <1>3, <1>4

\* A placeholder in the terminal output is filled from the stream.
LEMMA PreferredArgs ==
    ASSUME NEW t \in Turns, NEW g, NEW h, NEW streamed,
           Listed("responses", t, g, streamed) \/ (DOMAIN streamed = {} /\ h.final = "full"),
           NEW n \in 1 .. Len(t), t[n] \in Tools, KindOf[t[n]] = "function",
           h.final = "full" \/ Supplied("responses", g, t[n]),
           NEW item, IsItem(item, t, h, n)
    PROVE  Preferred(item, streamed) = Args(t[n])
<1> DEFINE c == t[n]
           same == {m \in DOMAIN streamed : streamed[m].id = item.id}
<1>1. item.id = CallId(c) /\ item.args = IF h.final = "full" THEN Args(c) ELSE <<>>
  BY DEF IsItem, IdFor
<1>2. CASE item.args # <<>>
  BY <1>1, <1>2 DEF Preferred, IsPlaceholder
<1>3. CASE item.args = <<>> /\ DOMAIN streamed = {} /\ h.final = "full"
  BY <1>1, <1>3 DEF Preferred, IsPlaceholder
<1>4. CASE item.args = <<>> /\ Listed("responses", t, g, streamed)
  <2>1. Supplied("responses", g, c)
    BY <1>1, <1>4 DEF Supplied
  <2>2. n - 1 \in ToolPlaces(t) /\ At(t, n - 1) = c
    <3>1. Len(t) \in Nat /\ n - 1 \in 0 .. Len(t) - 1 /\ (n - 1) + 1 = n
      BY TurnFacts
    <3> QED BY <3>1 DEF ToolPlaces, ToolAt, Positions, At
  <2>3. DOMAIN streamed = 1 .. Len(Places(t)) /\ Len(Places(t)) \in Nat
    BY <1>4, PlacesFacts DEF Listed
  <2>4. ASSUME NEW m \in same PROVE streamed[m].args = Args(c)
    <3>1. m \in 1 .. Len(Places(t)) /\ streamed[m].id = CallId(c)
      BY <1>1, <2>3
    <3>2. streamed[m].id = IdFor(At(t, Places(t)[m]))
      BY <1>4, <3>1 DEF Listed
    <3>3. At(t, Places(t)[m]) = c
      BY <3>1, <3>2 DEF IdFor, CallId, ItemId
    <3> QED BY <1>4, <2>1, <3>1, <3>3 DEF Listed
  <2>5. same # {}
    <3>1. PICK m \in 1 .. Len(Places(t)) : Places(t)[m] = n - 1
      BY <2>2, PlacesFacts
    <3>2. streamed[m].id = IdFor(c)
      BY <1>4, <2>2, <3>1 DEF Listed
    <3>3. m \in same
      BY <1>1, <2>3, <3>1, <3>2 DEF IdFor
    <3> QED BY <3>3
  <2>6. Min(same) \in same
    <3>1. same \in SUBSET Nat
      BY <2>3
    <3>2. PICK m \in same : \A k \in same : m <= k
      BY <2>5, <3>1, LeastNatural
    <3> HIDE DEF same
    <3> QED BY <3>2 DEF Min
  <2>7. Preferred(item, streamed) = streamed[Min(same)].args
    BY <1>4, <2>5 DEF Preferred, IsPlaceholder
  <2> HIDE DEF same
  <2> QED BY <2>4, <2>6, <2>7
<1> QED BY <1>2, <1>3, <1>4

\* A picked list is empty if there is no place.
LEMMA PickEmpty ==
    ASSUME NEW seq, NEW b \in Nat, NEW S \in SUBSET (0 .. b)
    PROVE  Len(Pick(seq, S)) = 0 <=> S = {}
<1>1. IsPick(Pick(seq, S), seq, S)
  BY PickFacts
<1>2. InOrder(S) \in Seq(Nat) /\ Range(InOrder(S)) = S
  BY InOrderFacts
<1>3. Len(Pick(seq, S)) = Len(InOrder(S)) /\ Len(InOrder(S)) \in Nat
      /\ DOMAIN InOrder(S) = 1 .. Len(InOrder(S))
  BY <1>1, <1>2 DEF IsPick
<1>4. CASE Len(InOrder(S)) = 0
  <2>1. DOMAIN InOrder(S) = {}
    BY <1>3, <1>4
  <2>2. S = {}
    BY <1>2, <2>1 DEF Range
  <2> QED BY <1>3, <1>4, <2>2
<1>5. CASE Len(InOrder(S)) # 0
  <2>1. 1 \in DOMAIN InOrder(S)
    BY <1>3, <1>5
  <2>2. InOrder(S)[1] \in S
    BY <1>2, <2>1 DEF Range
  <2> QED BY <1>3, <1>5, <2>2
<1> QED BY <1>4, <1>5

\* From the terminal output: the model's turn.
LEMMA SnapshotHolds ==
    ASSUME NEW t \in Turns, NEW g, NEW h, NEW c, c.final = OutputItems(t, h), c.final # <<>>,
           Listed("responses", t, g, StreamedCalls(c))
              \/ (DOMAIN StreamedCalls(c) = {} /\ h.final = "full"),
           \A p \in ToolPlaces(t) : h.final = "full" \/ Supplied("responses", g, At(t, p)),
           c.think # <<>> => ThinkPlaces(t) # {}
    PROVE  Holds(Finalize(c), t)
<1> DEFINE final == c.final
           streamed == StreamedCalls(c)
           C == KindPlaces(t, ClientKinds)
           H == KindPlaces(t, {"server"})
           R == {n \in DOMAIN t : t[n] = "think"}
           M == {n \in DOMAIN final : final[n].kind \in {"message"}}
           clients == Pick(final, C)
           hosted == Pick(final, H)
           rs == Pick(final, R)
           one(item) == IF item.kind = "function" THEN [item EXCEPT !.args = Preferred(item, streamed)]
                        ELSE item
           calls == [n \in 1 .. Len(clients) |-> one(clients[n])]
           items == [n \in 1 .. Len(rs) |-> rs[n].id]
           text == [n \in 1 .. Len(Pick(final, M)) |-> Pick(final, M)[n].args[1]]
           r == Finalize(c)
<1>1. /\ Len(t) \in Nat /\ DOMAIN t = 1 .. Len(t) /\ DOMAIN final = 1 .. Len(t)
      /\ \A n \in 1 .. Len(t) : IsItem(final[n], t, h, n)
  <2>1. Len(t) \in Nat /\ DOMAIN t = 1 .. Len(t)
    BY TurnFacts, StreamAssumption
  <2>2. \A n \in 1 .. Len(t) : IsItem(final[n], t, h, n)
    BY OutputItem
  <2> QED BY <2>1, <2>2 DEF OutputItems
<1>2. "text" \notin Tools /\ "think" \notin Tools
  BY StreamAssumption
<1>3. ASSUME NEW n \in 1 .. Len(t)
      PROVE  /\ final[n].kind \in ClientKinds <=> t[n] \in Tools /\ KindOf[t[n]] \in ClientKinds
             /\ final[n].kind \in {"server"} <=> t[n] \in Tools /\ KindOf[t[n]] \in {"server"}
             /\ final[n].kind \in {"reasoning"} <=> t[n] = "think"
  <2>1. IsItem(final[n], t, h, n)
    BY <1>1
  <2> HIDE DEF final
  <2>2. CASE t[n] \in Tools
    <3>1. final[n].kind = KindOf[t[n]] /\ KindOf[t[n]] \in {"function", "custom_tool", "local_shell", "server"}
      BY <2>1, <2>2, KindFacts DEF IsItem
    <3> QED BY <1>2, <2>2, <3>1
  <2>3. CASE t[n] = "text"
    <3>1. final[n].kind = "message"
      BY <2>1, <2>3 DEF IsItem
    <3> QED BY <1>2, <2>3, <3>1 DEF ClientKinds
  <2>4. CASE t[n] = "think"
    <3>1. final[n].kind = "reasoning"
      BY <2>1, <2>4 DEF IsItem
    <3> QED BY <1>2, <2>4, <3>1 DEF ClientKinds
  <2> QED BY <2>1, <2>2, <2>3, <2>4 DEF IsItem
<1> HIDE DEF final
<1>4. /\ {n \in DOMAIN final : final[n].kind \in ClientKinds} = C
      /\ {n \in DOMAIN final : final[n].kind \in {"server"}} = H
      /\ {n \in DOMAIN final : final[n].kind \in {"reasoning"}} = R
      /\ C \in SUBSET (0 .. Len(t)) /\ H \in SUBSET (0 .. Len(t)) /\ R \in SUBSET (0 .. Len(t))
      /\ C \in SUBSET (1 .. Len(t)) /\ H \in SUBSET (1 .. Len(t))
  BY <1>1, <1>3 DEF KindPlaces
<1>5. r = WithReasoning([calls |-> calls, hosted |-> hosted, items |-> items, text |-> text], c.think)
  <2>1. final # <<>>
    BY DEF final
  <2>2. FromSnapshot(final, streamed)
        = [calls |-> calls, hosted |-> hosted, items |-> items, text |-> text]
    BY <1>4 DEF FromSnapshot, ClientKinds
  <2> HIDE DEF calls, hosted, items, text
  <2> QED BY <2>1, <2>2 DEF Finalize, final
<1> HIDE DEF C, H, R, M
<1>6. IsPick(clients, final, C) /\ IsPick(hosted, final, H) /\ IsPick(rs, final, R)
  BY <1>1, <1>4, PickFacts
<1>7. IsPick(Pick(t, C), t, C) /\ IsPick(Pick(t, H), t, H)
  BY <1>1, <1>4, PickFacts
<1>8. Len(rs) = 0 <=> R = {}
  BY <1>1, <1>4, PickEmpty
<1> HIDE DEF calls, items, text, streamed, r, clients, hosted, rs
<1>9. /\ r.calls = calls /\ r.hosted = hosted /\ r.text = text
      /\ (r.items # <<>>) = (items # <<>> \/ c.think # <<>>)
  BY <1>5, ReasoningHeld
<1>10. CallNames(hosted) = Pick(t, H)
  <2>1. ASSUME NEW n \in 1 .. Len(InOrder(H)) PROVE hosted[n].name = Pick(t, H)[n]
    <3>1. InOrder(H)[n] \in H /\ hosted[n] = final[InOrder(H)[n]] /\ Pick(t, H)[n] = t[InOrder(H)[n]]
      BY <1>6, <1>7 DEF IsPick
    <3>2. InOrder(H)[n] \in 1 .. Len(t) /\ t[InOrder(H)[n]] \in Tools
      BY <1>1, <1>4, <3>1 DEF H, KindPlaces
    <3> QED BY <1>1, <3>1, <3>2 DEF IsItem
  <2>2. CallNames(hosted) = [n \in 1 .. Len(InOrder(H)) |-> hosted[n].name]
    BY <1>6 DEF IsPick, CallNames
  <2>3. Pick(t, H) = [n \in 1 .. Len(InOrder(H)) |-> Pick(t, H)[n]]
    BY DEF Pick
  <2> QED BY <2>1, <2>2, <2>3
<1>11. ASSUME NEW n \in 1 .. Len(InOrder(C))
       PROVE  calls[n].name = Pick(t, C)[n] /\ calls[n].args = Args(calls[n].name)
  <2> DEFINE m == InOrder(C)[n]
             item == final[m]
  <2>1. m \in C /\ clients[n] = item /\ Pick(t, C)[n] = t[m] /\ n \in 1 .. Len(clients)
    BY <1>6, <1>7 DEF IsPick
  <2>2. m \in 1 .. Len(t) /\ t[m] \in Tools
    BY <1>1, <1>4, <2>1 DEF C, KindPlaces
  <2> HIDE DEF m
  <2>3. IsItem(item, t, h, m)
    BY <1>1, <2>2
  <2> HIDE DEF item
  <2>4. calls[n] = one(item)
    BY <2>1 DEF calls
  <2>5. DOMAIN item = {"kind", "id", "name", "args"} /\ item.name = t[m] /\ item.kind = KindOf[t[m]]
        /\ (KindOf[t[m]] # "function" => item.args = Args(t[m]))
    BY <2>2, <2>3 DEF IsItem
  <2>6. CASE KindOf[t[m]] = "function"
    <3>1. m - 1 \in ToolPlaces(t) /\ At(t, m - 1) = t[m]
      <4>1. m - 1 \in 0 .. Len(t) - 1 /\ (m - 1) + 1 = m
        BY <1>1, <2>2
      <4> QED BY <2>2, <4>1 DEF ToolPlaces, ToolAt, Positions, At
    <3>2. h.final = "full" \/ Supplied("responses", g, t[m])
      BY <3>1
    <3>3. Preferred(item, streamed) = Args(t[m])
      BY <2>2, <2>3, <2>6, <3>2, PreferredArgs DEF streamed
    <3>4. calls[n] = [item EXCEPT !.args = Args(t[m])]
      BY <2>4, <2>5, <2>6, <3>3
    <3> QED BY <2>1, <2>5, <3>4
  <2>7. CASE KindOf[t[m]] # "function"
    <3>1. calls[n] = item
      BY <2>4, <2>5, <2>7
    <3> QED BY <2>1, <2>5, <2>7, <3>1
  <2> QED BY <2>6, <2>7
<1>12. Len(clients) = Len(InOrder(C)) /\ Len(InOrder(C)) \in Nat /\ Len(calls) = Len(InOrder(C))
  <2>1. Len(clients) = Len(InOrder(C)) /\ Len(clients) \in Nat
    BY <1>6 DEF IsPick
  <2> QED BY <2>1 DEF calls
<1>13. CallNames(calls) = Pick(t, C)
  <2>1. CallNames(calls) = [n \in 1 .. Len(InOrder(C)) |-> calls[n].name]
    BY <1>12 DEF CallNames
  <2>2. Pick(t, C) = [n \in 1 .. Len(InOrder(C)) |-> Pick(t, C)[n]]
    BY DEF Pick
  <2> QED BY <1>11, <2>1, <2>2
<1>14. [n \in 1 .. Len(r.text) |-> t[r.text[n] + 1]] = Pick(t, {n \in DOMAIN t : t[n] = "text"})
  BY FinalizedSnapshot, TextsHeld DEF r
<1>15. (items # <<>>) = (R # {})
  <2>1. Len(rs) \in Nat
    BY <1>6 DEF IsPick
  <2>2. items \in Seq({rs[n].id : n \in 1 .. Len(rs)}) /\ Len(items) = Len(rs)
    BY <2>1 DEF items
  <2>3. (items = <<>>) = (Len(rs) = 0)
    BY <2>1, <2>2
  <2> QED BY <1>8, <2>3
<1>16. (r.items # <<>>) = (\E n \in DOMAIN t : t[n] = "think")
  <2>1. (R # {}) = (\E n \in DOMAIN t : t[n] = "think")
    BY DEF R
  <2>2. c.think # <<>> => \E n \in DOMAIN t : t[n] = "think"
    BY ThinksHeld
  <2> QED BY <1>9, <1>15, <2>1, <2>2
<1>17. Holds(r, t)
  BY <1>9, <1>10, <1>11, <1>12, <1>13, <1>14, <1>16 DEF Holds, C, H
<1> QED BY <1>17 DEF r

-----------------------------------------------------------------------------
(***************************************************************************)
(* A stream that was delivered whole.                                      *)
(***************************************************************************)
\* The positions of a collector are in the order of the turn.
LEMMA HomesOrdered ==
    ASSUME NEW t \in Turns, NEW g \in Gateways, NEW w \in Wires, Tells(w, t, g)
    PROVE  Orderly(w, g, t)
<1> SUFFICES ASSUME NEW p \in ToolPlaces(t), NEW q \in ToolPlaces(t)
             PROVE  Home(w, g, t, p) \in Nat /\ (p < q => Home(w, g, t, p) < Home(w, g, t, q))
  BY DEF Orderly
<1>1. CASE w = "gemini" /\ ~g.whole
  <2>1. ~Placed(w, g) /\ ~ById(w, g, t)
    BY <1>1 DEF Placed, ById
  <2>2. p = q /\ p \in Nat
    BY <2>1, LoneSame, TurnFacts DEF Tells
  <2> QED BY <1>1, <2>2 DEF Home
<1>2. CASE ~(w = "gemini" /\ ~g.whole)
  <2>1. Home(w, g, t, p) = Place(w, t, p) /\ Home(w, g, t, q) = Place(w, t, q)
    BY <1>2 DEF Home
  <2> QED BY <2>1, PlaceApart, PlaceOrder
<1> QED BY <1>1, <1>2

\* All texts, the reasoning and the terminal output were collected.
LEMMA AllSaid ==
    ASSUME NEW t \in Turns, NEW g \in Gateways, NEW w \in Wires,
           NEW c, Spoken(w, t, g, Events(w, t, g), c)
    PROVE  /\ c.final = FinalOf(w, t, g)
           /\ (~(g.whole /\ w = "responses") =>
                 /\ c.text = InOrder(TextPlaces(t))
                 /\ (c.items # <<>> \/ c.think # <<>>) = (ThinkPlaces(t) # {}))
           /\ c.think # <<>> => ThinkPlaces(t) # {}
<1> DEFINE s == Events(w, t, g)
<1>0. w \in {"responses", "chat", "messages", "gemini"} /\ g.whole \in BOOLEAN
  BY StreamAssumption
<1>1. /\ c.text = InOrder(SentTexts(w, t, g, s)) /\ (SentThinks(w, t, g, s) # {} => c.think # <<>>)
      /\ ThinkPlaces(t) = {} => c.think = <<>> /\ c.items = <<>>
      /\ c.final = IF LastEvent(t, g) \in s THEN FinalOf(w, t, g) ELSE <<>>
  BY DEF Spoken
<1>2. ASSUME SentTexts(w, t, g, s) = TextPlaces(t), SentThinks(w, t, g, s) = ThinkPlaces(t),
             LastEvent(t, g) \in s \/ FinalOf(w, t, g) = <<>>
      PROVE  /\ c.final = FinalOf(w, t, g) /\ c.text = InOrder(TextPlaces(t))
             /\ (c.items # <<>> \/ c.think # <<>>) = (ThinkPlaces(t) # {})
             /\ c.think # <<>> => ThinkPlaces(t) # {}
  <2> HIDE DEF s
  <2> QED BY <1>1, <1>2
<1>3. CASE g.whole
  <2>1. s = {Event("whole", 0, 0)} /\ s # {}
    BY <1>3 DEF Events
  <2>2. LastEvent(t, g) \in s
    BY <1>3, <2>1 DEF LastEvent
  <2> HIDE DEF s
  <2>3. CASE w = "responses"
    BY <1>1, <1>3, <2>2, <2>3
  <2>4. CASE w # "responses"
    <3>1. SentTexts(w, t, g, s) = TextPlaces(t) /\ SentThinks(w, t, g, s) = ThinkPlaces(t)
      BY <1>3, <2>1, <2>4 DEF SentTexts, SentThinks
    <3> QED BY <1>2, <2>2, <3>1
  <2> QED BY <2>3, <2>4
<1>4. CASE ~g.whole /\ w = "gemini"
  <2>1. \A p \in Positions(t) : Part(p) \in s
    BY <1>4 DEF Events, Part
  <2>2. FinalOf(w, t, g) = <<>>
    BY <1>4 DEF FinalOf
  <2> HIDE DEF s
  <2>3. SentTexts(w, t, g, s) = TextPlaces(t) /\ SentThinks(w, t, g, s) = ThinkPlaces(t)
    BY <1>4, <2>1 DEF SentTexts, SentThinks, SentPart, TextPlaces, ThinkPlaces
  <2> QED BY <1>2, <1>4, <2>2, <2>3
<1>5. CASE ~g.whole /\ w # "gemini"
  <2>1. s = StreamEvents(w, t, g) /\ w \in {"responses", "chat", "messages"}
    BY <1>0, <1>5 DEF Events, StreamEvents
  <2>2. IsSent(w, t, g, s)
    BY <2>1, StreamSends
  <2>3. LastEvent(t, g) \in s
    BY <1>5, <2>2 DEF IsSent, LastEvent
  <2> HIDE DEF s
  <2>4. /\ \A p \in TextPlaces(t) : SentPart(w, p, "text") \in s
        /\ \A p \in ThinkPlaces(t) : SentPart(w, p, "think") \in s
    BY <1>5, <2>2 DEF IsSent, SentPart
  <2>5. SentTexts(w, t, g, s) = TextPlaces(t) /\ SentThinks(w, t, g, s) = ThinkPlaces(t)
    BY <1>5, <2>4 DEF SentTexts, SentThinks
  <2> QED BY <1>2, <1>5, <2>3, <2>5
<1> QED BY <1>0, <1>3, <1>4, <1>5

\* All calls were collected, unless they come with the terminal output only.
LEMMA AllGathered ==
    ASSUME NEW t \in Turns, NEW g \in Gateways, NEW w \in Wires, Speaks(w, g, t), Tells(w, t, g),
           NEW c, Sound(c, Kin(t)), Assembling(w, t, g, Events(w, t, g), c),
           NEW new, IsSalvaged(new, c)
    PROVE  IF g.whole /\ w = "responses" THEN DOMAIN new.acc = {} ELSE Gathered(w, t, g, new)
<1>0. w \in {"responses", "chat", "messages", "gemini"} /\ g.whole \in BOOLEAN
  BY StreamAssumption
<1>1. CASE Stream(w, g)
  <2>1. ~g.whole /\ w \in {"responses", "chat", "messages"} /\ Events(w, t, g) = StreamEvents(w, t, g)
    BY <1>0, <1>1 DEF Stream, Events, StreamEvents
  <2>2. Streamed(w, t, g, StreamEvents(w, t, g), c)
    BY <1>1, <2>1 DEF Assembling
  <2>3. Gathered(w, t, g, new)
    BY <2>1, <2>2, TrackedGathered, LostGathered
  <2> QED BY <2>1, <2>3
<1>2. CASE ~Stream(w, g)
  <2>1. Shot(w, t, g, Events(w, t, g), c)
    BY <1>2 DEF Assembling
  <2>2. CASE g.whole /\ w = "responses"
    <3>1. Taken(w, t, g, Events(w, t, g)) = {}
      BY <2>2 DEF Taken
    <3>2. DOMAIN c.acc = {}
      BY <2>1, <3>1 DEF Shot
    <3>3. DOMAIN new.acc = {}
      BY <3>2 DEF IsSalvaged
    <3> QED BY <2>2, <3>3
  <2>3. CASE ~(g.whole /\ w = "responses")
    BY <1>2, <2>1, <2>3, ShotGathered
  <2> QED BY <2>2, <2>3
<1> QED BY <1>1, <1>2

\* No entries, no streamed calls.
LEMMA StreamedNone ==
    ASSUME NEW c, DOMAIN c.acc = {}
    PROVE  DOMAIN StreamedCalls(c) = {}
<1> DEFINE S == {i \in DOMAIN c.acc : c.acc[i].name # NoName}
<1>1. S = {}
  OBVIOUS
<1>2. InOrder(S) = <<>>
  BY <1>1, InOrderJoins
<1>3. DOMAIN StreamedCalls(c) = 1 .. Len(InOrder(S))
  BY DEF StreamedCalls
<1> HIDE DEF S
<1>4. 1 .. Len(<<>>) = {}
  OBVIOUS
<1> QED BY <1>2, <1>3, <1>4

\* Nothing said, nothing in the terminal output.
LEMMA OutputNone ==
    ASSUME NEW t \in Turns, NEW h, OutputItems(t, h) = <<>>
    PROVE  ToolPlaces(t) = {} /\ TextPlaces(t) = {} /\ ThinkPlaces(t) = {}
<1>1. DOMAIN OutputItems(t, h) = 1 .. Len(t)
  BY DEF OutputItems
<1>2. DOMAIN <<>> = {} /\ Len(t) \in Nat
  BY TurnFacts
<1>3. Len(t) = 0
  <2>1. 1 .. Len(t) = {}
    BY <1>1, <1>2
  <2>2. ~(1 \in 1 .. Len(t))
    BY <2>1
  <2> QED BY <1>2, <2>2
<1>4. Positions(t) = {}
  BY <1>3 DEF Positions
<1> QED BY <1>4 DEF ToolPlaces, TextPlaces, ThinkPlaces

\* The arguments of a call were sent, if not with the terminal output.
Sending(g) == g.deltas \/ g.done \/ g.final = "full" \/ g.whole

\* Salvaged and finalized, what was collected is the model's turn.
LEMMA TurnHolds ==
    ASSUME NEW t \in Turns, NEW g \in Gateways, NEW w \in Wires, Speaks(w, g, t), Tells(w, t, g),
           Sending(g), NEW c, Sound(c, Kin(t)), Assembling(w, t, g, Events(w, t, g), c),
           NEW new, IsSalvaged(new, c), Entered(new)
    PROVE  Holds(Finalize(new), t)
<1> DEFINE h == IF g.whole THEN [g EXCEPT !.final = "full"] ELSE g
<1>0. /\ g.whole \in BOOLEAN /\ h.final = IF g.whole THEN "full" ELSE g.final
      /\ Spoken(w, t, g, Events(w, t, g), c)
  <2>1. g.whole \in BOOLEAN /\ "final" \in DOMAIN g
    BY StreamAssumption
  <2> QED BY <2>1 DEF Assembling
<1>1. /\ new.text = c.text /\ new.think = c.think /\ new.items = c.items /\ new.final = c.final
  BY DEF IsSalvaged
<1>2. /\ new.final = FinalOf(w, t, g)
      /\ (~(g.whole /\ w = "responses") =>
            /\ new.text = InOrder(TextPlaces(t))
            /\ (new.items # <<>> \/ new.think # <<>>) = (ThinkPlaces(t) # {}))
      /\ new.think # <<>> => ThinkPlaces(t) # {}
  BY <1>0, <1>1, AllSaid
<1>3. Orderly(w, g, t)
  BY HomesOrdered
<1>4. IF g.whole /\ w = "responses" THEN DOMAIN new.acc = {} ELSE Gathered(w, t, g, new)
  BY AllGathered
<1>5. FinalOf(w, t, g) = IF w # "responses" \/ (~g.whole /\ g.final = "none") THEN <<>>
                         ELSE OutputItems(t, h)
  BY DEF FinalOf
<1> HIDE DEF h
<1>6. CASE new.final = <<>> /\ ~(g.whole /\ w = "responses")
  <2>1. \A p \in ToolPlaces(t) : KindOf[At(t, p)] # "server" => Supplied(w, g, At(t, p))
    <3>1. CASE w # "responses"
      BY <3>1 DEF Supplied
    <3>2. CASE w = "responses" /\ ~g.whole /\ g.final = "none"
      BY <3>2 DEF Supplied, Sending
    <3>3. CASE OutputItems(t, h) = <<>>
      BY <3>3, OutputNone
    <3> QED BY <1>2, <1>5, <1>6, <3>1, <3>2, <3>3
  <2> QED BY <1>2, <1>3, <1>4, <1>6, <2>1, StreamHolds
<1>7. CASE new.final = <<>> /\ g.whole /\ w = "responses"
  <2>1. OutputItems(t, h) = <<>>
    BY <1>2, <1>5, <1>7
  <2>2. ToolPlaces(t) = {} /\ TextPlaces(t) = {} /\ ThinkPlaces(t) = {}
    BY <2>1, OutputNone
  <2>3. Gathered(w, t, g, new)
    BY <1>4, <1>7, <2>2 DEF Gathered
  <2>4. new.text = InOrder(TextPlaces(t))
    <3>1. SentTexts(w, t, g, Events(w, t, g)) = {}
      BY <1>7 DEF SentTexts
    <3> QED BY <1>0, <1>1, <2>2, <3>1 DEF Spoken
  <2>5. (new.items # <<>> \/ new.think # <<>>) = (ThinkPlaces(t) # {})
    BY <1>0, <1>1, <2>2 DEF Spoken
  <2>6. \A p \in ToolPlaces(t) : KindOf[At(t, p)] # "server" => Supplied(w, g, At(t, p))
    BY <2>2
  <2> QED BY <1>3, <1>7, <2>3, <2>4, <2>5, <2>6, StreamHolds
<1>8. CASE new.final # <<>>
  <2>1. w = "responses" /\ new.final = OutputItems(t, h)
    BY <1>2, <1>5, <1>8
  <2>2. \A p \in ToolPlaces(t) : h.final = "full" \/ Supplied("responses", g, At(t, p))
    BY <1>0 DEF Supplied, Sending
  <2>3. \/ Listed("responses", t, g, StreamedCalls(new))
        \/ DOMAIN StreamedCalls(new) = {} /\ h.final = "full"
    <3>1. CASE g.whole
      BY <1>0, <1>4, <2>1, <3>1, StreamedNone
    <3>2. CASE ~g.whole
      BY <1>3, <1>4, <2>1, <3>2, StreamedListed
    <3> QED BY <3>1, <3>2
  <2> QED BY <1>2, <1>8, <2>1, <2>2, <2>3, SnapshotHolds
<1> QED BY <1>6, <1>7, <1>8

\* What a gateway tells is whose each fragment is.
LEMMA AttributableTells ==
    ASSUME gw \in Gateways, wire \in Wires, Attributable
    PROVE  Tells(wire, turn, gw)
<1>1. ToolPositions = ToolPlaces(turn)
  BY DEF ToolPositions, ToolPlaces
<1>2. wire \in {"responses", "chat", "messages", "gemini"} /\ gw.whole \in BOOLEAN
  BY StreamAssumption
<1>3. gw.early => gw.ids /\ \A p \in ToolPlaces(turn) : KindOf[At(turn, p)] # "custom_tool"
  BY <1>1 DEF Attributable, NoCustomTool
<1>4. Lone(turn) \/ Placed(wire, gw) \/ ById(wire, gw, turn)
  BY <1>1, <1>2 DEF Attributable, Placed, ById, NoCustomTool, Lone
<1> QED BY <1>3, <1>4 DEF Tells

\* The invariant gives the model's turn at the end of a whole stream.
LEMMA InvTurnAssembled == Inv /\ AssemblyInv => TurnAssembled
<1> SUFFICES ASSUME Inv, AssemblyInv, status = "ok", Whole, Attributable, Sends PROVE Assembled
  BY DEF TurnAssembled
<1>1. /\ wire \in Wires /\ gw \in Gateways /\ turn \in Turns /\ Sound(col, Kin(turn))
      /\ IsClosed(wire, turn, gw, sent) /\ result = Finalize(Salvage(col))
  BY DEF Inv, CollectorOK
<1>2. sent = Events(wire, turn, gw)
  BY <1>1 DEF Whole, IsClosed
<1>3. Speaks(wire, gw, turn) /\ Assembling(wire, turn, gw, Events(wire, turn, gw), col)
  BY <1>2 DEF AssemblyInv
<1>4. Tells(wire, turn, gw)
  BY <1>1, AttributableTells
<1>5. Entered(Salvage(col)) /\ IsSalvaged(Salvage(col), col)
  BY <1>1, SalvageFacts, Salvaged
<1>6. Sending(gw)
  BY DEF Sends, Sending
<1>7. Holds(result, turn)
  BY <1>1, <1>3, <1>4, <1>5, <1>6, TurnHolds
<1>8. ToolsOf({"function", "custom_tool", "local_shell"}) = KindPlaces(turn, ClientKinds)
      /\ ToolsOf({"server"}) = KindPlaces(turn, {"server"})
      /\ TextsOf = {n \in DOMAIN turn : turn[n] = "text"}
  BY DEF ToolsOf, KindPlaces, ClientKinds, TextsOf
<1> QED BY <1>7, <1>8 DEF Holds, Assembled

\* A stream that was delivered whole, by a gateway that says whose each fragment
\* is, gives the model's turn, whatever is repeated, reordered, renumbered or
\* left out.
THEOREM TurnWhole == Spec => []TurnAssembled
BY AssemblyInvariance, InvTurnAssembled, PTL
=============================================================================
