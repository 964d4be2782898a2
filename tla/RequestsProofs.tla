--------------------------- MODULE RequestsProofs ---------------------------
(***************************************************************************)
(* What every provider is sent, for sessions of any length, any slots and  *)
(* any number of failovers: the whole conversation, its calls answered,    *)
(* and no reasoning but the provider's own.                                *)
(***************************************************************************)
EXTENDS Requests, FiniteSetTheorems, SequenceTheorems, WellFoundedInduction, TLAPS

-----------------------------------------------------------------------------
(* Sequences of sequences.                                                 *)

\* Induction on the naturals, over a set instead of a predicate.
LEMMA SetInduction ==
    ASSUME NEW S \in SUBSET Nat, 0 \in S, \A n \in S : n + 1 \in S
    PROVE  S = Nat
<1> SUFFICES ASSUME Nat \ S # {} PROVE FALSE
  OBVIOUS
<1> DEFINE T == Nat \ S
<1>1. T \subseteq Nat /\ T # {}
  OBVIOUS
<1> HIDE DEF T
<1>2. PICK x \in T : \A y \in T : <<y, x>> \notin OpToRel(<, Nat)
  BY <1>1, NatLessThanWellFounded, WFMin
<1>3. x \in Nat /\ x \notin S
  BY <1>1 DEF T
<1>4. x - 1 \in Nat
  BY <1>3
<1>5. \A y \in Nat : <<y, x>> \notin OpToRel(<, Nat) => x <= y
  BY <1>3 DEF OpToRel
<1>6. \A y \in T : x <= y
  BY <1>1, <1>2, <1>5
<1>7. x - 1 \notin T
  BY <1>3, <1>4, <1>6
<1>8. QED
  BY <1>3, <1>4, <1>7 DEF T

\* f[n] is what the first n sequences of s are together.
Joins(f, n, s) == f = [i \in 1 .. n |-> IF i = 1 THEN s[i] ELSE f[i - 1] \o s[i]]

\* The function that FlattenSeq is defined with exists.
LEMMA JoinExists ==
    ASSUME NEW s, NEW n \in Nat
    PROVE  \E f : Joins(f, n, s)
<1> DEFINE N == {m \in Nat : \E f : Joins(f, m, s)}
<1>1. 0 \in N
  <2> DEFINE f == [i \in 1 .. 0 |-> s[i]]
  <2>1. f = [i \in 1 .. 0 |-> IF i = 1 THEN s[i] ELSE f[i - 1] \o s[i]]
    OBVIOUS
  <2>2. Joins(f, 0, s)
    BY <2>1 DEF Joins
  <2>3. QED BY <2>2
<1>2. ASSUME NEW m \in N PROVE m + 1 \in N
  <2>1. PICK f : Joins(f, m, s)
    OBVIOUS
  <2> DEFINE g == [i \in 1 .. m + 1 |-> IF i <= m THEN f[i]
                                        ELSE IF i = 1 THEN s[i] ELSE f[m] \o s[i]]
  <2>2. m \in Nat
    OBVIOUS
  <2>3. \A i \in 1 .. m : f[i] = IF i = 1 THEN s[i] ELSE f[i - 1] \o s[i]
    BY <2>1, <2>2 DEF Joins
  <2>4. ASSUME NEW i \in 1 .. m + 1
        PROVE  g[i] = IF i = 1 THEN s[i] ELSE g[i - 1] \o s[i]
    <3>1. CASE i = 1
      BY <2>2, <2>3, <3>1
    <3>2. CASE i \in 2 .. m
      <4>1. g[i] = f[i] /\ g[i - 1] = f[i - 1] /\ i \in 1 .. m /\ i # 1
        BY <2>2, <3>2
      <4> HIDE DEF g
      <4>2. QED BY <2>3, <4>1
    <3>3. CASE i = m + 1 /\ i # 1
      <4>1. m \in 1 .. m + 1 /\ i - 1 = m /\ ~(i <= m) /\ i # 1
        BY <2>2, <3>3
      <4>2. g[i] = f[m] \o s[i]
        BY <4>1
      <4>3. g[m] = f[m]
        BY <2>2, <4>1
      <4> HIDE DEF g
      <4>4. QED BY <4>1, <4>2, <4>3
    <3>4. QED BY <2>2, <3>1, <3>2, <3>3
  <2>5. Joins(g, m + 1, s)
    BY <2>4 DEF Joins
  <2>6. QED BY <2>2, <2>5
<1>3. N = Nat
  <2> HIDE DEF N
  <2>1. N \subseteq Nat
    BY DEF N
  <2>2. QED BY <1>1, <1>2, <2>1, SetInduction
<1>4. QED BY <1>3

\* What the first n sequences of s are together.
UpTo(s, n) == FlattenSeq([i \in 1 .. n |-> s[i]])

\* One more of the sequences follows those before it.
LEMMA OneMore ==
    ASSUME NEW s, NEW n \in Nat
    PROVE  /\ UpTo(s, 0) = <<>>
           /\ UpTo(s, 1) = s[1]
           /\ n > 0 => UpTo(s, n + 1) = UpTo(s, n) \o s[n + 1]
<1> DEFINE Pre(m) == [i \in 1 .. m |-> s[i]]
           F(m) == CHOOSE f : Joins(f, Len(Pre(m)), Pre(m))
<1>1. ASSUME NEW m \in Nat
      PROVE  /\ Len(Pre(m)) = m
             /\ UpTo(s, m) = IF m = 0 THEN <<>> ELSE F(m)[m]
  <2>1. Len(Pre(m)) = m
    OBVIOUS
  <2>2. m = 0 => Pre(m) = <<>>
    OBVIOUS
  <2>3. UpTo(s, m) = IF Len(Pre(m)) = 0 THEN Pre(m) ELSE F(m)[Len(Pre(m))]
    BY DEF UpTo, FlattenSeq, Joins
  <2>4. QED BY <2>1, <2>2, <2>3
<1>2. ASSUME NEW m \in Nat
      PROVE  \A i \in 1 .. m : F(m)[i] = IF i = 1 THEN s[i] ELSE F(m)[i - 1] \o s[i]
  <2>1. Joins(F(m), Len(Pre(m)), Pre(m))
    BY <1>1, JoinExists
  <2>2. Joins(F(m), m, Pre(m))
    BY <1>1, <2>1
  <2> DEFINE f == F(m)
  <2> HIDE DEF F
  <2>3. \A i \in 1 .. m : f[i] = IF i = 1 THEN Pre(m)[i] ELSE f[i - 1] \o Pre(m)[i]
    BY <2>2 DEF Joins
  <2>4. QED BY <2>3
<1>3. ASSUME NEW m \in Nat
      PROVE  \A i \in 1 .. m : F(m)[i] = F(m + 1)[i]
  <2> DEFINE f == F(m)
             g == F(m + 1)
  <2>1. \A i \in 1 .. m : f[i] = IF i = 1 THEN s[i] ELSE f[i - 1] \o s[i]
    BY <1>2
  <2>2. \A i \in 1 .. m + 1 : g[i] = IF i = 1 THEN s[i] ELSE g[i - 1] \o s[i]
    <3>1. m + 1 \in Nat
      OBVIOUS
    <3> HIDE DEF F
    <3>2. QED BY <1>2, <3>1
  <2> HIDE DEF F, f, g
  <2> DEFINE N == {k \in Nat : k \in 1 .. m => f[k] = g[k]}
  <2>3. 0 \in N
    OBVIOUS
  <2>4. ASSUME NEW k \in N PROVE k + 1 \in N
    <3>1. k \in Nat
      OBVIOUS
    <3>2. CASE k = 0
      BY <2>1, <2>2, <3>2
    <3>3. CASE k > 0 /\ k + 1 <= m
      <4>1. k + 1 \in 1 .. m /\ k + 1 \in 1 .. m + 1 /\ k + 1 # 1 /\ k + 1 - 1 = k /\ k \in 1 .. m
        BY <3>1, <3>3
      <4>2. f[k] = g[k]
        BY <4>1
      <4>3. f[k + 1] = g[k + 1]
        BY <2>1, <2>2, <4>1, <4>2
      <4>4. QED BY <3>1, <4>3
    <3>4. QED BY <3>1, <3>2, <3>3
  <2>5. N = Nat
    <3> HIDE DEF N
    <3>1. N \subseteq Nat
      BY DEF N
    <3>2. QED BY <2>3, <2>4, <3>1, SetInduction
  <2>6. \A i \in 1 .. m : f[i] = g[i]
    BY <2>5
  <2>7. QED BY <2>6 DEF f, g
<1> HIDE DEF F, Pre
<1>4. UpTo(s, 0) = <<>>
  BY <1>1
<1>5. UpTo(s, 1) = s[1]
  <2>1. UpTo(s, 1) = F(1)[1]
    BY <1>1
  <2>2. F(1)[1] = s[1]
    BY <1>2
  <2>3. QED BY <2>1, <2>2
<1>6. ASSUME n > 0 PROVE UpTo(s, n + 1) = UpTo(s, n) \o s[n + 1]
  <2>1. UpTo(s, n + 1) = F(n + 1)[n + 1] /\ UpTo(s, n) = F(n)[n]
    BY <1>1, <1>6
  <2>2. F(n + 1)[n + 1] = F(n + 1)[n] \o s[n + 1]
    <3>1. n + 1 \in Nat /\ n + 1 \in 1 .. n + 1 /\ n + 1 # 1 /\ n + 1 - 1 = n
      BY <1>6
    <3> DEFINE g == F(n + 1)
    <3>2. \A i \in 1 .. n + 1 : g[i] = IF i = 1 THEN s[i] ELSE g[i - 1] \o s[i]
      BY <1>2, <3>1
    <3> HIDE DEF g
    <3>3. PICK k : k = n + 1
      OBVIOUS
    <3>4. k \in 1 .. n + 1 /\ k # 1 /\ k - 1 = n
      BY <3>1, <3>3
    <3>5. g[k] = g[k - 1] \o s[k]
      BY <3>2, <3>4, Zenon
    <3>6. QED BY <3>3, <3>4, <3>5 DEF g
  <2>3. F(n)[n] = F(n + 1)[n]
    <3>1. n \in 1 .. n
      BY <1>6
    <3>2. QED BY <1>3, <3>1
  <2>4. QED BY <2>1, <2>2, <2>3
<1>7. QED BY <1>4, <1>5, <1>6

JoinedSoFar(T, s, n, m) == m <= n => UpTo(s, m) \in Seq(T)

\* Sequences of T joined are a sequence of T.
LEMMA JoinedType ==
    ASSUME NEW T, NEW n \in Nat, NEW s, \A i \in 1 .. n : s[i] \in Seq(T)
    PROVE  /\ UpTo(s, n) \in Seq(T)
           /\ \A m \in 0 .. n - 1 : /\ UpTo(s, m) \in Seq(T)
                                    /\ UpTo(s, m + 1) = UpTo(s, m) \o s[m + 1]
<1>1. ASSUME NEW m \in 0 .. n - 1, UpTo(s, m) \in Seq(T)
      PROVE  /\ UpTo(s, m + 1) = UpTo(s, m) \o s[m + 1]
             /\ UpTo(s, m + 1) \in Seq(T)
  <2>1. s[m + 1] \in Seq(T)
    <3>1. m + 1 \in 1 .. n
      OBVIOUS
    <3>2. QED BY <3>1
  <2>2. UpTo(s, m + 1) = UpTo(s, m) \o s[m + 1]
    <3>1. CASE m = 0
      <4>1. <<>> \o s[1] = s[1]
        BY <2>1, <3>1, ConcatEmptySeq
      <4>2. UpTo(s, 0) = <<>> /\ UpTo(s, 1) = s[1]
        BY OneMore
      <4>3. m + 1 = 1
        BY <3>1
      <4>4. QED BY <3>1, <4>1, <4>2, <4>3, Zenon
    <3>2. CASE m > 0
      <4>1. m \in Nat
        OBVIOUS
      <4>2. QED BY <3>2, <4>1, OneMore
    <3>3. QED BY <3>1, <3>2
  <2>3. QED BY <1>1, <2>1, <2>2, ConcatProperties, Zenon
<1> DEFINE N == {m \in Nat : JoinedSoFar(T, s, n, m)}
<1>2. 0 \in N
  <2>1. UpTo(s, 0) \in Seq(T)
    BY OneMore, EmptySeq, Zenon
  <2>2. QED BY <2>1 DEF JoinedSoFar
<1>3. ASSUME NEW m \in N PROVE m + 1 \in N
  <2>1. m \in Nat /\ JoinedSoFar(T, s, n, m)
    OBVIOUS
  <2>2. CASE m + 1 <= n
    <3>1. m \in 0 .. n - 1 /\ UpTo(s, m) \in Seq(T)
      BY <2>1, <2>2 DEF JoinedSoFar
    <3>2. QED BY <1>1, <2>1, <3>1 DEF JoinedSoFar
  <2>3. CASE ~(m + 1 <= n)
    BY <2>1, <2>3 DEF JoinedSoFar
  <2>4. QED BY <2>2, <2>3
<1>4. N = Nat
  <2> HIDE DEF N
  <2>1. N \subseteq Nat
    BY DEF N
  <2>2. QED BY <1>2, <1>3, <2>1, SetInduction
<1>5. \A m \in Nat : JoinedSoFar(T, s, n, m)
  BY <1>4
<1>6. \A m \in 0 .. n : UpTo(s, m) \in Seq(T)
  BY <1>5 DEF JoinedSoFar
<1>7. ASSUME NEW m \in 0 .. n - 1
      PROVE  UpTo(s, m) \in Seq(T) /\ UpTo(s, m + 1) = UpTo(s, m) \o s[m + 1]
  <2>1. m \in 0 .. n
    OBVIOUS
  <2>2. QED BY <1>1, <1>6, <2>1
<1>8. n \in 0 .. n
  OBVIOUS
<1>9. QED BY <1>6, <1>7, <1>8

-----------------------------------------------------------------------------
(* Short sequences.                                                        *)

LEMMA ShortConcats ==
    ASSUME NEW a, NEW b, NEW c
    PROVE  /\ <<>> \o <<>> = <<>>
           /\ <<>> \o <<a>> = <<a>> /\ <<a>> \o <<>> = <<a>>
           /\ <<a>> \o <<b>> = <<a, b>> /\ <<a, b>> \o <<c>> = <<a, b, c>>
           /\ <<a, b>> \o <<>> = <<a, b>>
<1> DEFINE S == {a, b, c}
<1>1. /\ <<>> \in Seq(S) /\ <<a>> \in Seq(S) /\ <<b>> \in Seq(S) /\ <<c>> \in Seq(S)
      /\ <<a, b>> \in Seq(S) /\ <<a, b, c>> \in Seq(S)
  OBVIOUS
<1> HIDE DEF S
<1>2. /\ <<>> \o <<>> = <<>>
      /\ <<>> \o <<a>> = <<a>> /\ <<a>> \o <<>> = <<a>>
      /\ <<a, b>> \o <<>> = <<a, b>>
  BY <1>1, ConcatEmptySeq
<1>3. <<a>> \o <<b>> = <<a, b>>
  <2> DEFINE u == <<a>>
             v == <<b>>
             w == <<a, b>>
  <2>1. Len(u) = 1 /\ Len(v) = 1 /\ Len(w) = 2 /\ u[1] = a /\ v[1] = b /\ w[1] = a /\ w[2] = b
    OBVIOUS
  <2>2. u \in Seq(S) /\ v \in Seq(S) /\ w \in Seq(S)
    BY <1>1
  <2> HIDE DEF u, v, w
  <2>3. u \o v \in Seq(S) /\ Len(u \o v) = 2 /\ (u \o v)[1] = a /\ (u \o v)[2] = b
    BY <2>1, <2>2, ConcatProperties
  <2>4. u \o v = w
    BY <2>1, <2>2, <2>3, SeqEqual
  <2>5. QED BY <2>4 DEF u, v, w
<1>4. <<a, b>> \o <<c>> = <<a, b, c>>
  <2> DEFINE u == <<a, b>>
             v == <<c>>
             w == <<a, b, c>>
  <2>1. /\ Len(u) = 2 /\ Len(v) = 1 /\ Len(w) = 3
        /\ u[1] = a /\ u[2] = b /\ v[1] = c /\ w[1] = a /\ w[2] = b /\ w[3] = c
    OBVIOUS
  <2>2. u \in Seq(S) /\ v \in Seq(S) /\ w \in Seq(S)
    BY <1>1
  <2> HIDE DEF u, v, w
  <2>3. /\ u \o v \in Seq(S) /\ Len(u \o v) = 3
        /\ (u \o v)[1] = a /\ (u \o v)[2] = b /\ (u \o v)[3] = c
    <3> DEFINE x == u \o v
    <3>1. /\ x \in Seq(S) /\ Len(x) = Len(u) + Len(v)
          /\ \A i \in 1 .. Len(u) + Len(v) :
                 x[i] = IF i <= Len(u) THEN u[i] ELSE v[i - Len(u)]
      BY <2>2, ConcatProperties, Zenon
    <3> HIDE DEF x
    <3>2. Len(x) = 3 /\ \A i \in 1 .. 3 : x[i] = IF i <= 2 THEN u[i] ELSE v[i - 2]
      BY <2>1, <3>1
    <3>3. x[1] = u[1] /\ x[2] = u[2] /\ x[3] = v[1]
      BY <3>2
    <3>4. QED BY <2>1, <3>1, <3>2, <3>3 DEF x
  <2>4. u \o v = w
    BY <2>1, <2>2, <2>3, SeqEqual
  <2>5. QED BY <2>4 DEF u, v, w
<1>5. QED BY <1>2, <1>3, <1>4

KeepPiece(x, T) == IF x \in T THEN <<x>> ELSE <<>>

\* What is kept of a sequence is the pieces kept of it, together.
LEMMA KeepIsJoined ==
    ASSUME NEW s, NEW T, Len(s) \in Nat
    PROVE  Keep(s, T) = UpTo([i \in 1 .. Len(s) |-> KeepPiece(s[i], T)], Len(s))
<1> DEFINE pieces == [i \in 1 .. Len(s) |-> KeepPiece(s[i], T)]
<1>1. pieces = [i \in 1 .. Len(s) |-> IF s[i] \in T THEN <<s[i]>> ELSE <<>>]
  BY DEF KeepPiece
<1>2. [i \in 1 .. Len(s) |-> pieces[i]] = pieces
  OBVIOUS
<1> HIDE DEF pieces
<1>3. Keep(s, T) = FlattenSeq(pieces)
  BY <1>1 DEF Keep
<1>4. UpTo(pieces, Len(s)) = FlattenSeq(pieces)
  BY <1>2 DEF UpTo
<1>5. QED BY <1>3, <1>4 DEF pieces

LEMMA KeepShort ==
    ASSUME NEW T, NEW s, Len(s) \in Nat
    PROVE  /\ Len(s) = 1 => Keep(s, T) = KeepPiece(s[1], T)
           /\ Len(s) = 2 => Keep(s, T) = KeepPiece(s[1], T) \o KeepPiece(s[2], T)
           /\ Len(s) = 3 => Keep(s, T) = (KeepPiece(s[1], T) \o KeepPiece(s[2], T))
                                            \o KeepPiece(s[3], T)
<1> DEFINE p == [i \in 1 .. Len(s) |-> KeepPiece(s[i], T)]
<1>1. Keep(s, T) = UpTo(p, Len(s))
  BY KeepIsJoined
<1> HIDE DEF p
<1>2. UpTo(p, 1) = p[1]
  BY OneMore
<1>3. UpTo(p, 2) = UpTo(p, 1) \o p[2]
  <2>1. 1 \in Nat /\ 1 > 0 /\ 1 + 1 = 2
    OBVIOUS
  <2>2. 1 > 0 => UpTo(p, 1 + 1) = UpTo(p, 1) \o p[1 + 1]
    BY <2>1, OneMore, Zenon
  <2>3. QED BY <2>1, <2>2
<1>4. UpTo(p, 3) = UpTo(p, 2) \o p[3]
  <2>1. 2 \in Nat /\ 2 > 0 /\ 2 + 1 = 3
    OBVIOUS
  <2>2. 2 > 0 => UpTo(p, 2 + 1) = UpTo(p, 2) \o p[2 + 1]
    BY <2>1, OneMore, Zenon
  <2>3. QED BY <2>1, <2>2
<1>5. \A i \in 1 .. Len(s) : p[i] = KeepPiece(s[i], T)
  BY DEF p
<1>6. /\ Len(s) = 1 => p[1] = KeepPiece(s[1], T)
      /\ Len(s) = 2 => p[1] = KeepPiece(s[1], T) /\ p[2] = KeepPiece(s[2], T)
      /\ Len(s) = 3 => p[1] = KeepPiece(s[1], T) /\ p[2] = KeepPiece(s[2], T)
                         /\ p[3] = KeepPiece(s[3], T)
  BY <1>5
<1>7. QED BY <1>1, <1>2, <1>3, <1>4, <1>6

LEMMA KeepOne == ASSUME NEW a, NEW T PROVE Keep(<<a>>, T) = KeepPiece(a, T)
<1> DEFINE s == <<a>>
<1>1. Len(s) = 1 /\ s[1] = a
  OBVIOUS
<1> HIDE DEF s
<1>2. Keep(s, T) = KeepPiece(a, T)
  BY <1>1, KeepShort
<1>3. QED BY <1>2 DEF s

LEMMA KeepTwo ==
    ASSUME NEW a, NEW b, NEW T
    PROVE  Keep(<<a, b>>, T) = KeepPiece(a, T) \o KeepPiece(b, T)
<1> DEFINE s == <<a, b>>
<1>1. Len(s) = 2 /\ s[1] = a /\ s[2] = b
  OBVIOUS
<1> HIDE DEF s
<1>2. Keep(s, T) = KeepPiece(a, T) \o KeepPiece(b, T)
  BY <1>1, KeepShort, SMTT(30)
<1>3. QED BY <1>2 DEF s

ThreePieces(x, y, z, S) == (KeepPiece(x, S) \o KeepPiece(y, S)) \o KeepPiece(z, S)

LEMMA KeepThree ==
    ASSUME NEW x, NEW y, NEW z, NEW S
    PROVE  Keep(<<x, y, z>>, S) = ThreePieces(x, y, z, S)
<1> DEFINE s == <<x, y, z>>
<1>1. Len(s) = 3 /\ s[1] = x /\ s[2] = y /\ s[3] = z
  OBVIOUS
<1> HIDE DEF s
<1>4. Keep(s, S) = (KeepPiece(s[1], S) \o KeepPiece(s[2], S)) \o KeepPiece(s[3], S)
  <2>1. Len(s) \in Nat /\ Len(s) = 3
    BY <1>1
  <2>2. QED BY <2>1, KeepShort
<1>2. Keep(s, S) = (KeepPiece(x, S) \o KeepPiece(y, S)) \o KeepPiece(z, S)
  BY <1>1, <1>4
<1>3. QED BY <1>2 DEF s, ThreePieces

-----------------------------------------------------------------------------
(* What a history is made of.                                              *)

CallIds == Int \X Int
Calls == [id : CallIds, kind : {"function", "custom_tool"}, signed : BOOLEAN]
Shapes == {"text", "image", "audio", "broken"}
TextParts == {"text"} \X Int
Thoughts == {"none", "text", "sealed"}
Keys == {""} \cup {s.key : s \in Slots}

Made(kind, parts, calls, think) ==
    [k : {kind}, n : Int, parts : parts, calls : calls, think : {think}, origin : {""}]

SystemItems    == Made("system", {<<>>}, {<<>>}, "none")
UserItems      == Made("user", Seq(Shapes), {<<>>}, "none")
ReasoningItems == Made("reasoning", {<<>>}, {<<>>}, "text")
HostedItems    == Made("hosted", {<<>>}, {<<>>}, "none")
ResultItems    == Made("result", {<<>>}, {<<id>> : id \in CallIds}, "none")
AssistantItems ==
    [k : {"assistant"}, n : Int, parts : Seq(TextParts), calls : Seq(Calls), think : Thoughts,
     origin : Keys]
Items == SystemItems \cup UserItems \cup ReasoningItems \cup HostedItems \cup ResultItems
           \cup AssistantItems

Kinds == {"system", "user", "reasoning", "hosted", "result", "assistant"}

\* Reasoning and hosted calls stand before the assistant of their answer.
Grouped(h) ==
    \A i \in 1 .. Len(h) :
        /\ h[i].k = "reasoning" => /\ i < Len(h)
                                   /\ h[i + 1].k \in {"hosted", "assistant"}
                                   /\ h[i + 1].n = h[i].n
        /\ h[i].k = "hosted" => /\ i < Len(h)
                                /\ h[i + 1].k = "assistant"
                                /\ h[i + 1].n = h[i].n

\* An answer is known by its number, and a call by its answer's number and its own.
Numbered(h, b) ==
    /\ \A i, j \in 1 .. Len(h) :
          h[i].k = "assistant" /\ h[j].k = "assistant" /\ h[i].n = h[j].n => i = j
    /\ \A i \in 1 .. Len(h) : h[i].k = "assistant" =>
          /\ h[i].n <= b
          /\ \A c \in 1 .. Len(h[i].calls) : h[i].calls[c].id[1] = h[i].n
          /\ \A c, d \in 1 .. Len(h[i].calls) :
                h[i].calls[c].id = h[i].calls[d].id => c = d

\* An assistant's calls are answered right after it, one by one; the last one's
\* may yet have to be.
AnsweredAt(h, i) ==
    /\ i + Len(h[i].calls) <= Len(h)
    /\ \A c \in 1 .. Len(h[i].calls) :
          h[i + c].k = "result" /\ h[i + c].calls = <<h[i].calls[c].id>>
Paired(h, open) ==
    /\ \A i \in 1 .. Len(h) : h[i].k = "assistant" =>
          \/ AnsweredAt(h, i)
          \/ open /\ i = Len(h)
    /\ \A j \in 1 .. Len(h) : h[j].k = "result" =>
          \E i \in 1 .. j - 1 : h[i].k = "assistant" /\ j - i <= Len(h[i].calls)

History(h, b, open) ==
    /\ h \in Seq(Items)
    /\ Grouped(h) /\ Numbered(h, b) /\ Paired(h, open)

Phases == {"idle", "request", "sent", "tools"}

HistoryInv ==
    /\ born \in Nat /\ phase \in Phases
    /\ History(saved, born, FALSE)
    /\ History(history, born, phase = "tools")
    /\ phase = "tools" => history # <<>> /\ history[Len(history)].k = "assistant"
    /\ sent.slot \in Slots \/ sent = NothingSent

\* The fields of an item tell what it is.
LEMMA ItemKinds ==
    ASSUME NEW x \in Items
    PROVE  /\ x.k \in Kinds /\ x.n \in Int
           /\ x.k = "system" <=> x \in SystemItems
           /\ x.k = "user" <=> x \in UserItems
           /\ x.k = "reasoning" <=> x \in ReasoningItems
           /\ x.k = "hosted" <=> x \in HostedItems
           /\ x.k = "result" <=> x \in ResultItems
           /\ x.k = "assistant" <=> x \in AssistantItems
<1>1. \A y \in SystemItems : y.k = "system" /\ y.n \in Int
  BY DEF SystemItems, Made
<1>2. \A y \in UserItems : y.k = "user" /\ y.n \in Int
  BY DEF UserItems, Made
<1>3. \A y \in ReasoningItems : y.k = "reasoning" /\ y.n \in Int
  BY DEF ReasoningItems, Made
<1>4. \A y \in HostedItems : y.k = "hosted" /\ y.n \in Int
  BY DEF HostedItems, Made
<1>5. \A y \in ResultItems : y.k = "result" /\ y.n \in Int
  BY DEF ResultItems, Made
<1>6. \A y \in AssistantItems : y.k = "assistant" /\ y.n \in Int
  BY DEF AssistantItems
<1>7. QED
  BY <1>1, <1>2, <1>3, <1>4, <1>5, <1>6 DEF Items, Kinds

\* What the fields of an item hold.
LEMMA ItemFields ==
    ASSUME NEW x \in Items
    PROVE  /\ x.k \in {"system", "reasoning", "hosted"} =>
                x.parts = <<>> /\ x.calls = <<>>
           /\ x.k = "user" => x.parts \in Seq(Shapes) /\ x.calls = <<>>
           /\ x.k = "result" => \E id \in CallIds : x.calls = <<id>>
           /\ x.k = "assistant" => /\ x.parts \in Seq(TextParts) /\ x.calls \in Seq(Calls)
                                   /\ x.think \in Thoughts /\ x.origin \in Keys
<1>1. \A y \in SystemItems : y.parts = <<>> /\ y.calls = <<>>
  BY DEF SystemItems, Made
<1>2. \A y \in UserItems : y.parts \in Seq(Shapes) /\ y.calls = <<>>
  BY DEF UserItems, Made
<1>3. \A y \in ReasoningItems : y.parts = <<>> /\ y.calls = <<>>
  BY DEF ReasoningItems, Made
<1>4. \A y \in HostedItems : y.parts = <<>> /\ y.calls = <<>>
  BY DEF HostedItems, Made
<1>5. \A y \in ResultItems : \E id \in CallIds : y.calls = <<id>>
  BY DEF ResultItems, Made
<1>6. \A y \in AssistantItems : /\ y.parts \in Seq(TextParts) /\ y.calls \in Seq(Calls)
                                /\ y.think \in Thoughts /\ y.origin \in Keys
  BY DEF AssistantItems
<1>7. QED
  BY ItemKinds, <1>1, <1>2, <1>3, <1>4, <1>5, <1>6

-----------------------------------------------------------------------------
(* An answer.                                                              *)

\* What an answer leaves in the history: its own reasoning and hosted calls, and then
\* its one assistant.
Group(g, n) ==
    /\ g \in Seq(Items) /\ g # <<>>
    /\ \A i \in 1 .. Len(g) : /\ g[i].n = n
                              /\ g[i].k = "assistant" <=> i = Len(g)
                              /\ i < Len(g) => g[i].k \in {"reasoning", "hosted"}
    /\ \A i \in 1 .. Len(g) - 1 : g[i].k = "hosted" => i + 1 = Len(g)
    /\ \A i \in 1 .. Len(g) - 1 : g[i].k = "reasoning" => g[i + 1].k # "reasoning"
    /\ \A c \in 1 .. Len(g[Len(g)].calls) : g[Len(g)].calls[c].id[1] = n
    /\ \A c, d \in 1 .. Len(g[Len(g)].calls) :
          g[Len(g)].calls[c].id = g[Len(g)].calls[d].id => c = d

\* The greatest of a set of numbers that has one.
LEMMA MaxIs ==
    ASSUME NEW S \in SUBSET Int, NEW m \in S, \A x \in S : x <= m
    PROVE  Max(S) = m
<1>1. \E x \in S : \A y \in S : x >= y
  OBVIOUS
<1>2. PICK y : y = Max(S)
  OBVIOUS
<1>3. y \in S /\ \A x \in S : y >= x
  BY <1>1, <1>2, Zenon DEF Max
<1>4. y = m
  BY <1>3
<1>5. QED BY <1>2, <1>4

\* The least of a set of numbers that has one.
LEMMA MinIs ==
    ASSUME NEW S \in SUBSET Int, NEW m \in S, \A x \in S : m <= x
    PROVE  Min(S) = m
<1>1. \E x \in S : \A y \in S : x <= y
  OBVIOUS
<1>2. PICK y : y = Min(S)
  OBVIOUS
<1>3. y \in S /\ \A x \in S : y <= x
  BY <1>1, <1>2, Zenon DEF Min
<1>4. y = m
  BY <1>3
<1>5. QED BY <1>2, <1>4

Asked(n, kinds, signed) == [i \in 1 .. Len(kinds) |-> Call(n, i, kinds[i], signed)]
AskedKinds == {<<>>, <<"function", "custom_tool">>, <<"function", "function">>}

\* The calls of an answer have ids of their own, a salvaged search among them.
LEMMA AskedCalls ==
    ASSUME NEW n \in Int, NEW kinds \in AskedKinds, NEW signed \in BOOLEAN
    PROVE  /\ Asked(n, kinds, signed) \in Seq(Calls)
           /\ \A c \in 1 .. Len(Asked(n, kinds, signed)) :
                 Asked(n, kinds, signed)[c].id = <<n, c>>
<1> DEFINE calls == Asked(n, kinds, signed)
<1>1. Len(kinds) \in Nat /\ \A i \in 1 .. Len(kinds) : kinds[i] \in {"function", "custom_tool"}
  BY DEF AskedKinds
<1>2. \A i \in 1 .. Len(kinds) : Call(n, i, kinds[i], signed) \in Calls
  BY <1>1 DEF Call, Calls, CallIds
<1>3. calls = [i \in 1 .. Len(kinds) |-> Call(n, i, kinds[i], signed)]
  BY DEF Asked
<1>4. calls \in [1 .. Len(kinds) -> Calls] /\ Len(calls) = Len(kinds)
  BY <1>1, <1>2, <1>3
<1>5. calls \in Seq(Calls)
  BY <1>1, <1>4
<1>6. ASSUME NEW c \in 1 .. Len(calls) PROVE calls[c].id = <<n, c>>
  <2>1. calls[c] = Call(n, c, kinds[c], signed)
    BY <1>3, <1>4, <1>6
  <2>2. QED BY <2>1 DEF Call
<1>7. QED BY <1>5, <1>6

\* What the assistant of an answer is, and what a salvaged search makes of it.
Answering(n, calls, think, key) ==
    [AssistantItem(n, <<<<"text", n>>>>, calls, think) EXCEPT !.origin = key]
SearchCall(n) == Call(n, 0, "function", FALSE)

LEMMA AnsweringFields ==
    ASSUME NEW n \in Int, NEW calls \in Seq(Calls), NEW think \in Thoughts, NEW key \in Keys
    PROVE  LET a == Answering(n, calls, think, key) IN
           /\ a \in AssistantItems /\ a \in Items
           /\ a.k = "assistant" /\ a.n = n /\ a.calls = calls
<1>1. <<"text", n>> \in TextParts
  BY DEF TextParts
<1>2. <<<<"text", n>>>> \in Seq(TextParts)
  BY <1>1
<1>3. Answering(n, calls, think, key) =
        [k |-> "assistant", n |-> n, parts |-> <<<<"text", n>>>>, calls |-> calls,
         think |-> think, origin |-> key]
  <2> DEFINE a == AssistantItem(n, <<<<"text", n>>>>, calls, think)
  <2>1. a = [k |-> "assistant", n |-> n, parts |-> <<<<"text", n>>>>, calls |-> calls,
             think |-> think, origin |-> ""]
    BY DEF AssistantItem, Item
  <2>2. Answering(n, calls, think, key) = [a EXCEPT !.origin = key]
    BY DEF Answering
  <2> HIDE DEF a
  <2>3. QED BY <2>1, <2>2
<1>4. QED BY <1>2, <1>3 DEF AssistantItems, Items

\* The reasoning and hosted call of an answer.
LEMMA LeadItems ==
    ASSUME NEW n \in Int
    PROVE  /\ ReasoningItem(n) \in Items
           /\ ReasoningItem(n).k = "reasoning" /\ ReasoningItem(n).n = n
           /\ HostedItem(n, FALSE) \in Items
           /\ \A open \in BOOLEAN :
                 HostedItem(n, open).k = "hosted" /\ HostedItem(n, open).n = n
<1>1. ReasoningItem(n) \in ReasoningItems
  BY DEF ReasoningItem, Item, ReasoningItems, Made
<1>2. HostedItem(n, FALSE) \in HostedItems
  BY DEF HostedItem, Item, HostedItems, Made
<1>3. QED BY <1>1, <1>2 DEF Items, ReasoningItem, HostedItem, Item

OwnCalls(calls, n) ==
    /\ calls \in Seq(Calls)
    /\ \A c \in 1 .. Len(calls) : calls[c].id[1] = n
    /\ \A c, d \in 1 .. Len(calls) : calls[c].id = calls[d].id => c = d

\* The four forms of an answer.
LEMMA GroupForms ==
    ASSUME NEW n \in Int, NEW r \in Items, r.k = "reasoning", r.n = n,
           NEW h \in Items, h.k = "hosted", h.n = n,
           NEW a \in Items, a.k = "assistant", a.n = n, OwnCalls(a.calls, n)
    PROVE  /\ Group(<<a>>, n) /\ Group(<<r, a>>, n)
           /\ Group(<<h, a>>, n) /\ Group(<<r, h, a>>, n)
<1>1. \A c \in 1 .. Len(a.calls) : a.calls[c].id[1] = n
  BY DEF OwnCalls
<1>2. \A c, d \in 1 .. Len(a.calls) : a.calls[c].id = a.calls[d].id => c = d
  BY DEF OwnCalls
<1>4. Group(<<a>>, n)
  <2> DEFINE g == <<a>>
  <2>1. g # <<>> /\ g \in Seq(Items) /\ Len(g) = 1 /\ g[1] = a
    OBVIOUS
  <2> HIDE DEF g
  <2>2. \A i \in 1 .. Len(g) : /\ g[i].n = n
                                /\ g[i].k = "assistant" <=> i = Len(g)
                                /\ i < Len(g) => g[i].k \in {"reasoning", "hosted"}
    BY <2>1
  <2>3. \A i \in 1 .. Len(g) - 1 : g[i].k = "hosted" => i + 1 = Len(g)
    BY <2>1
  <2>4. \A i \in 1 .. Len(g) - 1 : g[i].k = "reasoning" => g[i + 1].k # "reasoning"
    BY <2>1
  <2>5. g # <<>> /\ g[Len(g)] = a
    BY <2>1
  <2>6. Group(g, n)
    BY <1>1, <1>2, <2>1, <2>2, <2>3, <2>4, <2>5 DEF Group
  <2>7. QED BY <2>6 DEF g
<1>5. Group(<<r, a>>, n)
  <2> DEFINE g == <<r, a>>
  <2>1. g # <<>> /\ g \in Seq(Items) /\ Len(g) = 2 /\ g[1] = r /\ g[2] = a
    OBVIOUS
  <2> HIDE DEF g
  <2>2. \A i \in 1 .. Len(g) : /\ g[i].n = n
                                /\ g[i].k = "assistant" <=> i = Len(g)
                                /\ i < Len(g) => g[i].k \in {"reasoning", "hosted"}
    BY <2>1
  <2>3. \A i \in 1 .. Len(g) - 1 : g[i].k = "hosted" => i + 1 = Len(g)
    BY <2>1
  <2>4. \A i \in 1 .. Len(g) - 1 : g[i].k = "reasoning" => g[i + 1].k # "reasoning"
    BY <2>1
  <2>5. g # <<>> /\ g[Len(g)] = a
    BY <2>1
  <2>6. Group(g, n)
    BY <1>1, <1>2, <2>1, <2>2, <2>3, <2>4, <2>5 DEF Group
  <2>7. QED BY <2>6 DEF g
<1>6. Group(<<h, a>>, n)
  <2> DEFINE g == <<h, a>>
  <2>1. g # <<>> /\ g \in Seq(Items) /\ Len(g) = 2 /\ g[1] = h /\ g[2] = a
    OBVIOUS
  <2> HIDE DEF g
  <2>2. \A i \in 1 .. Len(g) : /\ g[i].n = n
                                /\ g[i].k = "assistant" <=> i = Len(g)
                                /\ i < Len(g) => g[i].k \in {"reasoning", "hosted"}
    BY <2>1
  <2>3. \A i \in 1 .. Len(g) - 1 : g[i].k = "hosted" => i + 1 = Len(g)
    BY <2>1
  <2>4. \A i \in 1 .. Len(g) - 1 : g[i].k = "reasoning" => g[i + 1].k # "reasoning"
    BY <2>1
  <2>5. g # <<>> /\ g[Len(g)] = a
    BY <2>1
  <2>6. Group(g, n)
    BY <1>1, <1>2, <2>1, <2>2, <2>3, <2>4, <2>5 DEF Group
  <2>7. QED BY <2>6 DEF g
<1>7. Group(<<r, h, a>>, n)
  <2> DEFINE g == <<r, h, a>>
  <2>1. g # <<>> /\ g \in Seq(Items) /\ Len(g) = 3 /\ g[1] = r /\ g[2] = h /\ g[3] = a
    OBVIOUS
  <2> HIDE DEF g
  <2>2. \A i \in 1 .. Len(g) : /\ g[i].n = n
                                /\ g[i].k = "assistant" <=> i = Len(g)
                                /\ i < Len(g) => g[i].k \in {"reasoning", "hosted"}
    BY <2>1
  <2>3. \A i \in 1 .. Len(g) - 1 : g[i].k = "hosted" => i + 1 = Len(g)
    BY <2>1
  <2>4. \A i \in 1 .. Len(g) - 1 : g[i].k = "reasoning" => g[i + 1].k # "reasoning"
    BY <2>1
  <2>5. g # <<>> /\ g[Len(g)] = a
    BY <2>1
  <2>6. Group(g, n)
    BY <1>1, <1>2, <2>1, <2>2, <2>3, <2>4, <2>5 DEF Group
  <2>7. QED BY <2>6 DEF g
<1>8. QED BY <1>4, <1>5, <1>6, <1>7

\* Where the assistant is the last item, it is marked.
LEMMA StampedLast ==
    ASSUME NEW s, Len(s) \in Nat \ {0},
           \A i \in 1 .. Len(s) : s[i].k = "assistant" <=> i = Len(s), NEW key
    PROVE  Stamped(s, key) = [s EXCEPT ![Len(s)].origin = key]
<1> DEFINE S == {i \in 1 .. Len(s) : s[i].k = "assistant"}
<1>1. S \in SUBSET Int /\ Len(s) \in S /\ \A x \in S : x <= Len(s)
  OBVIOUS
<1> HIDE DEF S
<1>2. Max(S) = Len(s)
  BY <1>1, MaxIs
<1>3. QED BY <1>2 DEF Stamped, S

LEMMA StampedForms ==
    ASSUME NEW r, r.k # "assistant", NEW h, h.k # "assistant",
           NEW a, a.k = "assistant", NEW key
    PROVE  LET b == [a EXCEPT !.origin = key] IN
           /\ Stamped(<<a>>, key) = <<b>> /\ Stamped(<<r, a>>, key) = <<r, b>>
           /\ Stamped(<<r, h, a>>, key) = <<r, h, b>>
<1> DEFINE b == [a EXCEPT !.origin = key]
<1>1. Stamped(<<a>>, key) = <<b>>
  <2> DEFINE s == <<a>>
  <2>1. Len(s) = 1 /\ s[1] = a /\ [s EXCEPT ![1].origin = key] = <<b>>
    OBVIOUS
  <2> HIDE DEF s, b
  <2>2. \A i \in 1 .. Len(s) : s[i].k = "assistant" <=> i = Len(s)
    BY <2>1
  <2>3. Stamped(s, key) = [s EXCEPT ![Len(s)].origin = key]
    <3>1. Len(s) \in Nat \ {0}
      BY <2>1
    <3>2. QED BY <2>2, <3>1, StampedLast, Zenon
  <2>4. QED BY <2>1, <2>3 DEF s
<1>2. Stamped(<<r, a>>, key) = <<r, b>>
  <2> DEFINE s == <<r, a>>
  <2>1. Len(s) = 2 /\ s[1] = r /\ s[2] = a /\ [s EXCEPT ![2].origin = key] = <<r, b>>
    OBVIOUS
  <2> HIDE DEF s, b
  <2>2. \A i \in 1 .. Len(s) : s[i].k = "assistant" <=> i = Len(s)
    BY <2>1
  <2>3. Stamped(s, key) = [s EXCEPT ![Len(s)].origin = key]
    <3>1. Len(s) \in Nat \ {0}
      BY <2>1
    <3>2. QED BY <2>2, <3>1, StampedLast, Zenon
  <2>4. QED BY <2>1, <2>3 DEF s
<1>3. Stamped(<<r, h, a>>, key) = <<r, h, b>>
  <2> DEFINE s == <<r, h, a>>
  <2>1. /\ Len(s) = 3 /\ s[1] = r /\ s[2] = h /\ s[3] = a
        /\ [s EXCEPT ![3].origin = key] = <<r, h, b>>
    OBVIOUS
  <2> HIDE DEF s, b
  <2>2. \A i \in 1 .. Len(s) : s[i].k = "assistant" <=> i = Len(s)
    BY <2>1
  <2>3. Stamped(s, key) = [s EXCEPT ![Len(s)].origin = key]
    <3>1. Len(s) \in Nat \ {0}
      BY <2>1
    <3>2. QED BY <2>2, <3>1, StampedLast, Zenon
  <2>4. QED BY <2>1, <2>3 DEF s
<1>4. QED BY <1>1, <1>2, <1>3

\* salvage_unfinished_hosted_searches, where every search has finished.
LEMMA SalvagedDone ==
    ASSUME NEW r, NEW h, NEW a, ~Unfinished(r), ~Unfinished(h), ~Unfinished(a)
    PROVE  /\ Salvaged(<<a>>) = <<a>> /\ Salvaged(<<r, a>>) = <<r, a>>
           /\ Salvaged(<<h, a>>) = <<h, a>> /\ Salvaged(<<r, h, a>>) = <<r, h, a>>
<1>1. ASSUME NEW s, {x \in Range(s) : Unfinished(x)} = {}, Keep(s, {}) = <<>>
      PROVE  Salvaged(s) = s
  BY <1>1 DEF Salvaged
<1>2. \A x : KeepPiece(x, {}) = <<>>
  BY DEF KeepPiece
<1>3. /\ Keep(<<a>>, {}) = <<>> /\ Keep(<<r, a>>, {}) = <<>>
      /\ Keep(<<h, a>>, {}) = <<>> /\ Keep(<<r, h, a>>, {}) = <<>>
  <2>1. Keep(<<a>>, {}) = <<>>
    BY <1>2, KeepOne, Zenon
  <2>2. Keep(<<r, a>>, {}) = <<>> \o <<>> /\ Keep(<<h, a>>, {}) = <<>> \o <<>>
    <3>1. /\ Keep(<<r, a>>, {}) = KeepPiece(r, {}) \o KeepPiece(a, {})
          /\ Keep(<<h, a>>, {}) = KeepPiece(h, {}) \o KeepPiece(a, {})
      BY KeepTwo
    <3>2. QED BY <1>2, <3>1
  <2>3. Keep(<<r, h, a>>, {}) = (<<>> \o <<>>) \o <<>>
    <3>1. Keep(<<r, h, a>>, {}) = ThreePieces(r, h, a, {})
      BY KeepThree
    <3>2. QED BY <1>2, <3>1 DEF ThreePieces
  <2>4. QED BY <2>1, <2>2, <2>3, ShortConcats
<1>4. /\ Range(<<a>>) = {a} /\ Range(<<r, a>>) = {r, a}
      /\ Range(<<h, a>>) = {h, a} /\ Range(<<r, h, a>>) = {r, h, a}
  BY DEF Range
<1>5. Salvaged(<<a>>) = <<a>> /\ Salvaged(<<r, a>>) = <<r, a>>
  <2>1. /\ {x \in {a} : Unfinished(x)} = {} /\ {x \in {r, a} : Unfinished(x)} = {}
    OBVIOUS
  <2>2. QED BY <1>1, <1>3, <1>4, <2>1, Zenon
<1>6. Salvaged(<<h, a>>) = <<h, a>> /\ Salvaged(<<r, h, a>>) = <<r, h, a>>
  <2>1. /\ {x \in {h, a} : Unfinished(x)} = {} /\ {x \in {r, h, a} : Unfinished(x)} = {}
    OBVIOUS
  <2>2. QED BY <1>1, <1>3, <1>4, <2>1, Zenon
<1>7. QED BY <1>5, <1>6

Salvaging(a, n) == [a EXCEPT !.calls = @ \o <<SearchCall(n)>>]

\* ... and where one has not.
LEMMA SalvagedOpen ==
    ASSUME NEW r, NEW h, NEW a, ~Unfinished(r), Unfinished(h), ~Unfinished(a)
    PROVE  /\ Salvaged(<<h, a>>) = <<Salvaging(a, h.n)>>
           /\ Salvaged(<<r, h, a>>) = <<r, Salvaging(a, h.n)>>
<1>1. h # r /\ h # a
  OBVIOUS
<1>2. ASSUME NEW s, {x \in Range(s) : Unfinished(x)} = {h}, Keep(s, {h}) = <<h>>,
             NEW rest, Keep(s, Range(s) \ {h}) = rest
      PROVE  Salvaged(s) = [rest EXCEPT ![Len(rest)].calls = @ \o <<SearchCall(h.n)>>]
  <2>1. <<h>> # <<>>
    OBVIOUS
  <2>2. [i \in 1 .. Len(<<h>>) |-> Call(<<h>>[i].n, 0, "function", FALSE)] = <<SearchCall(h.n)>>
    <3> DEFINE g == <<h>>
               x == SearchCall(h.n)
               f == [i \in 1 .. Len(g) |-> Call(g[i].n, 0, "function", FALSE)]
               y == <<x>>
    <3>1. Len(g) = 1 /\ g[1] = h
      OBVIOUS
    <3> HIDE DEF g
    <3>2. f = [i \in 1 .. 1 |-> Call(g[i].n, 0, "function", FALSE)]
      BY <3>1
    <3>3. \A i \in 1 .. 1 : Call(g[i].n, 0, "function", FALSE) = x
      <4>1. \A i \in 1 .. 1 : g[i] = h
        BY <3>1
      <4>2. QED BY <4>1 DEF SearchCall, x
    <3> HIDE DEF f, x
    <3>4. f = [i \in 1 .. 1 |-> x]
      BY <3>2, <3>3
    <3>5. y = [i \in 1 .. 1 |-> x]
      OBVIOUS
    <3>7. f = y
      BY <3>4, <3>5
    <3>6. QED BY <3>7 DEF f, g, x, y
  <2>3. QED BY <1>2, <2>1, <2>2, ZenonT(40) DEF Salvaged
<1>3. Range(<<h, a>>) = {h, a} /\ Range(<<r, h, a>>) = {r, h, a}
  BY DEF Range
<1>4. /\ {x \in {h, a} : Unfinished(x)} = {h} /\ {x \in {r, h, a} : Unfinished(x)} = {h}
      /\ {h, a} \ {h} = {a} /\ {r, h, a} \ {h} = {r, a}
  BY <1>1
<1>5. /\ KeepPiece(r, {h}) = <<>> /\ KeepPiece(h, {h}) = <<h>> /\ KeepPiece(a, {h}) = <<>>
      /\ KeepPiece(h, {a}) = <<>> /\ KeepPiece(a, {a}) = <<a>>
      /\ KeepPiece(r, {r, a}) = <<r>> /\ KeepPiece(h, {r, a}) = <<>>
      /\ KeepPiece(a, {r, a}) = <<a>>
  BY <1>1 DEF KeepPiece
<1>6. Keep(<<h, a>>, {h}) = <<h>> /\ Keep(<<h, a>>, {a}) = <<a>>
  <2>1. Keep(<<h, a>>, {h}) = <<h>> \o <<>> /\ Keep(<<h, a>>, {a}) = <<>> \o <<a>>
    <3>1. /\ Keep(<<h, a>>, {h}) = KeepPiece(h, {h}) \o KeepPiece(a, {h})
          /\ Keep(<<h, a>>, {a}) = KeepPiece(h, {a}) \o KeepPiece(a, {a})
      BY KeepTwo
    <3>2. QED BY <1>5, <3>1
  <2>2. QED BY <2>1, ShortConcats
<1>7. Keep(<<r, h, a>>, {h}) = <<h>> /\ Keep(<<r, h, a>>, {r, a}) = <<r, a>>
  <2>1. /\ Keep(<<r, h, a>>, {h}) = (<<>> \o <<h>>) \o <<>>
        /\ Keep(<<r, h, a>>, {r, a}) = (<<r>> \o <<>>) \o <<a>>
    <3>1. /\ Keep(<<r, h, a>>, {h}) = ThreePieces(r, h, a, {h})
          /\ Keep(<<r, h, a>>, {r, a}) = ThreePieces(r, h, a, {r, a})
      BY KeepThree
    <3>2. QED BY <1>5, <3>1 DEF ThreePieces
  <2>2. /\ <<>> \o <<h>> = <<h>> /\ <<h>> \o <<>> = <<h>> /\ <<r>> \o <<>> = <<r>>
        /\ <<r>> \o <<a>> = <<r, a>>
    BY ShortConcats
  <2>3. QED BY <2>1, <2>2, Zenon
<1>8. Salvaged(<<h, a>>) = <<Salvaging(a, h.n)>>
  <2> DEFINE rest == <<a>>
             s == <<h, a>>
             x == <<SearchCall(h.n)>>
  <2>1. [rest EXCEPT ![1].calls = @ \o x] = <<[a EXCEPT !.calls = @ \o x]>> /\ Len(rest) = 1
    <3>1. rest[1] = a /\ Len(rest) = 1
      OBVIOUS
    <3>2. PICK y : y = [a EXCEPT !.calls = @ \o x]
      OBVIOUS
    <3>3. [rest EXCEPT ![1] = y] = <<y>>
      OBVIOUS
    <3>4. [rest EXCEPT ![1].calls = @ \o x] = [rest EXCEPT ![1] = [rest[1] EXCEPT !.calls = @ \o x]]
      OBVIOUS
    <3>5. QED BY <3>1, <3>2, <3>3, <3>4, Zenon
  <2>2. {y \in Range(s) : Unfinished(y)} = {h} /\ Range(s) \ {h} = {a}
    BY <1>3, <1>4
  <2>3. Keep(s, {h}) = <<h>> /\ Keep(s, Range(s) \ {h}) = rest
    BY <1>6, <2>2
  <2> HIDE DEF s, rest
  <2>4. Salvaged(s) = [rest EXCEPT ![Len(rest)].calls = @ \o <<SearchCall(h.n)>>]
    BY <1>2, <2>2, <2>3, Zenon
  <2>5. QED BY <2>1, <2>4, Zenon DEF s, Salvaging
<1>9. Salvaged(<<r, h, a>>) = <<r, Salvaging(a, h.n)>>
  <2> DEFINE rest == <<r, a>>
             s == <<r, h, a>>
             x == <<SearchCall(h.n)>>
  <2>1. /\ [rest EXCEPT ![2].calls = @ \o x] = <<r, [a EXCEPT !.calls = @ \o x]>>
        /\ Len(rest) = 2
    <3> HIDE DEF x
    <3>1. rest[2] = a /\ Len(rest) = 2
      OBVIOUS
    <3>2. PICK y : y = [a EXCEPT !.calls = @ \o x]
      OBVIOUS
    <3>3. [rest EXCEPT ![2] = y] = <<r, y>>
      OBVIOUS
    <3>4. [rest EXCEPT ![2].calls = @ \o x] = [rest EXCEPT ![2] = [rest[2] EXCEPT !.calls = @ \o x]]
      OBVIOUS
    <3>5. QED BY <3>1, <3>2, <3>3, <3>4, Zenon
  <2>2. {y \in Range(s) : Unfinished(y)} = {h} /\ Range(s) \ {h} = {r, a}
    BY <1>3, <1>4
  <2>3. Keep(s, {h}) = <<h>> /\ Keep(s, Range(s) \ {h}) = rest
    BY <1>7, <2>2
  <2> HIDE DEF s, rest
  <2>4. Salvaged(s) = [rest EXCEPT ![Len(rest)].calls = @ \o <<SearchCall(h.n)>>]
    BY <1>2, <2>2, <2>3, Zenon
  <2>5. QED BY <2>1, <2>4, Zenon DEF s, Salvaging
<1>10. QED BY <1>8, <1>9

\* What an answer leaves in the history is a group of its own number.
LEMMA AnswerIsGroup ==
    ASSUME NEW n \in Int, NEW wire, NEW think \in Thoughts,
           NEW hosted \in {"no", "done", "open"}, NEW kinds \in AskedKinds, NEW key \in Keys
    PROVE  Group(Salvaged(Stamped(AnswerItems(n, wire, think, hosted, kinds), key)), n)
<1> DEFINE calls == Asked(n, kinds, wire = "gemini")
           r  == ReasoningItem(n)
           hs == HostedItem(n, FALSE)
           ho == HostedItem(n, TRUE)
           a0 == AssistantItem(n, <<<<"text", n>>>>, calls, think)
           a  == Answering(n, calls, think, key)
           more == calls \o <<SearchCall(n)>>
           b  == Salvaging(a, n)
<1>1. /\ calls \in Seq(Calls)
      /\ \A c \in 1 .. Len(calls) : calls[c].id = <<n, c>>
  BY AskedCalls
<1>2. OwnCalls(calls, n)
  BY <1>1 DEF OwnCalls
<1>3. OwnCalls(more, n)
  <2> DEFINE v == <<SearchCall(n)>>
  <2>1. SearchCall(n) \in Calls /\ SearchCall(n).id = <<n, 0>>
    BY DEF SearchCall, Call, Calls, CallIds
  <2>2. v \in Seq(Calls) /\ Len(v) = 1 /\ v[1].id = <<n, 0>>
    BY <2>1
  <2> HIDE DEF v, calls
  <2> DEFINE w == calls \o v
  <2>3. /\ w \in Seq(Calls) /\ Len(w) = Len(calls) + Len(v)
        /\ \A i \in 1 .. Len(calls) + Len(v) :
              w[i] = IF i <= Len(calls) THEN calls[i] ELSE v[i - Len(calls)]
    BY <1>1, <2>2, ConcatProperties, Zenon
  <2> HIDE DEF w
  <2>4. Len(calls) \in Nat
    BY <1>1
  <2>5. \A i \in 1 .. Len(w) : \/ i <= Len(calls) /\ w[i].id = <<n, i>>
                               \/ i = Len(calls) + 1 /\ w[i].id = <<n, 0>>
    <3>1. SUFFICES ASSUME NEW i \in 1 .. Len(w)
                   PROVE  \/ i <= Len(calls) /\ w[i].id = <<n, i>>
                          \/ i = Len(calls) + 1 /\ w[i].id = <<n, 0>>
      OBVIOUS
    <3>2. QED
      <4>1. i <= Len(calls) \/ i = Len(calls) + 1
        BY <2>2, <2>3, <2>4
      <4>2. i \in 1 .. Len(calls) + Len(v)
        BY <2>3
      <4>3. CASE i <= Len(calls)
        <5>1. w[i] = calls[i] /\ i \in 1 .. Len(calls)
          BY <2>3, <2>4, <4>2, <4>3
        <5>2. QED BY <1>1, <4>3, <5>1
      <4>4. CASE i = Len(calls) + 1
        <5>1. ~(i <= Len(calls)) /\ i - Len(calls) = 1
          BY <2>4, <4>4
        <5>2. w[i] = v[1]
          BY <2>3, <4>2, <5>1, Zenon
        <5>3. QED BY <2>2, <4>4, <5>2
      <4>5. QED BY <4>1, <4>3, <4>4
  <2>6. \A i \in 1 .. Len(w) : w[i].id[1] = n
    BY <2>5
  <2>7. \A i, j \in 1 .. Len(w) : w[i].id = w[j].id => i = j
    <3>1. SUFFICES ASSUME NEW i \in 1 .. Len(w), NEW j \in 1 .. Len(w), w[i].id = w[j].id
                   PROVE  i = j
      OBVIOUS
    <3>2. i > 0 /\ j > 0
      OBVIOUS
    <3>3. QED BY <2>4, <2>5, <3>1, <3>2
  <2>8. OwnCalls(w, n)
    BY <2>3, <2>6, <2>7 DEF OwnCalls
  <2>9. QED BY <2>8 DEF w, v
<1>4. a \in AssistantItems /\ a \in Items /\ a.k = "assistant" /\ a.n = n /\ a.calls = calls
  <2> HIDE DEF calls
  <2>1. QED BY <1>1, AnsweringFields
<1>5. b \in Items /\ b.k = "assistant" /\ b.n = n /\ b.calls = more
  <2>1. more \in Seq(Calls)
    BY <1>3 DEF OwnCalls
  <2> HIDE DEF a, calls
  <2>2. b = [a EXCEPT !.calls = more]
    BY <1>4 DEF Salvaging
  <2> HIDE DEF more, b
  <2>3. b \in AssistantItems /\ b.k = a.k /\ b.n = a.n /\ b.calls = more
    BY <1>4, <2>1, <2>2 DEF AssistantItems
  <2>4. QED BY <1>4, <2>3 DEF Items
<1>6. /\ r \in Items /\ r.k = "reasoning" /\ r.n = n
      /\ hs \in Items /\ hs.k = "hosted" /\ hs.n = n
      /\ ho.k = "hosted" /\ ho.n = n
  BY LeadItems
<1>7. /\ Group(<<a>>, n) /\ Group(<<r, a>>, n) /\ Group(<<hs, a>>, n) /\ Group(<<r, hs, a>>, n)
      /\ Group(<<b>>, n) /\ Group(<<r, b>>, n)
  <2> HIDE DEF a, b, r, hs, calls, more
  <2>1. QED BY <1>2, <1>3, <1>4, <1>5, <1>6, GroupForms
<1>8. ~Unfinished(r) /\ ~Unfinished(hs) /\ Unfinished(ho) /\ ~Unfinished(a)
  <2>1. ~Unfinished(r) /\ ~Unfinished(a)
    BY <1>4, <1>6 DEF Unfinished
  <2>2. hs.parts = <<>> /\ ho.parts = <<"open">>
    BY DEF HostedItem, Item
  <2> HIDE DEF r, a, hs, ho
  <2>3. Len(hs.parts) = 0 /\ Len(ho.parts) = 1 /\ ho.parts[1] = "open"
    BY <2>2
  <2>4. QED BY <1>6, <2>1, <2>3 DEF Unfinished, Has
<1>9. a0.k = "assistant" /\ a = [a0 EXCEPT !.origin = key]
  BY DEF AssistantItem, Item, Answering
<1> DEFINE items == AnswerItems(n, wire, think, hosted, kinds)
<1>10. items = ((IF think = "text" THEN <<r>> ELSE <<>>)
                  \o (IF hosted = "no" THEN <<>> ELSE <<HostedItem(n, hosted = "open")>>))
                  \o <<a0>>
  BY DEF AnswerItems, Asked
<1> HIDE DEF a, b, r, hs, ho, a0, calls, more, items
<1>15. /\ Stamped(<<a0>>, key) = <<a>> /\ Stamped(<<r, a0>>, key) = <<r, a>>
       /\ Stamped(<<hs, a0>>, key) = <<hs, a>> /\ Stamped(<<r, hs, a0>>, key) = <<r, hs, a>>
       /\ Stamped(<<ho, a0>>, key) = <<ho, a>> /\ Stamped(<<r, ho, a0>>, key) = <<r, ho, a>>
  <2>1. r.k # "assistant" /\ hs.k # "assistant" /\ ho.k # "assistant"
    BY <1>6
  <2>2. ASSUME NEW x, x.k # "assistant", NEW y, y.k # "assistant"
        PROVE  /\ Stamped(<<a0>>, key) = <<a>> /\ Stamped(<<x, a0>>, key) = <<x, a>>
               /\ Stamped(<<x, y, a0>>, key) = <<x, y, a>>
    BY <1>9, <2>2, StampedForms
  <2>3. QED BY <2>1, <2>2
<1>16. /\ Salvaged(<<a>>) = <<a>> /\ Salvaged(<<r, a>>) = <<r, a>>
       /\ Salvaged(<<hs, a>>) = <<hs, a>> /\ Salvaged(<<r, hs, a>>) = <<r, hs, a>>
  BY <1>8, SalvagedDone
<1>17. Salvaged(<<ho, a>>) = <<b>> /\ Salvaged(<<r, ho, a>>) = <<r, b>>
  BY <1>6, <1>8, SalvagedOpen DEF b
<1>18. /\ <<>> \o <<>> = <<>> /\ <<>> \o <<a0>> = <<a0>>
       /\ <<r>> \o <<>> = <<r>> /\ <<r>> \o <<a0>> = <<r, a0>>
       /\ <<>> \o <<hs>> = <<hs>> /\ <<hs>> \o <<a0>> = <<hs, a0>>
       /\ <<r>> \o <<hs>> = <<r, hs>> /\ <<r, hs>> \o <<a0>> = <<r, hs, a0>>
       /\ <<>> \o <<ho>> = <<ho>> /\ <<ho>> \o <<a0>> = <<ho, a0>>
       /\ <<r>> \o <<ho>> = <<r, ho>> /\ <<r, ho>> \o <<a0>> = <<r, ho, a0>>
  BY ShortConcats
<1>11. CASE hosted = "no"
  <2>1. items = IF think = "text" THEN <<r, a0>> ELSE <<a0>>
    BY <1>10, <1>11, <1>18
  <2>2. Salvaged(Stamped(items, key)) = IF think = "text" THEN <<r, a>> ELSE <<a>>
    BY <1>15, <1>16, <2>1
  <2>3. QED BY <1>7, <2>2 DEF items
<1>12. CASE hosted = "done"
  <2>1. HostedItem(n, hosted = "open") = hs
    BY <1>12 DEF hs
  <2>2. items = IF think = "text" THEN <<r, hs, a0>> ELSE <<hs, a0>>
    BY <1>10, <1>12, <1>18, <2>1
  <2>3. Salvaged(Stamped(items, key)) = IF think = "text" THEN <<r, hs, a>> ELSE <<hs, a>>
    BY <1>15, <1>16, <2>2
  <2>4. QED BY <1>7, <2>3 DEF items
<1>13. CASE hosted = "open"
  <2>1. HostedItem(n, hosted = "open") = ho
    BY <1>13 DEF ho
  <2>2. items = IF think = "text" THEN <<r, ho, a0>> ELSE <<ho, a0>>
    BY <1>10, <1>13, <1>18, <2>1
  <2>3. Salvaged(Stamped(items, key)) = IF think = "text" THEN <<r, b>> ELSE <<b>>
    BY <1>15, <1>17, <2>2
  <2>4. QED BY <1>7, <2>3 DEF items
<1>14. QED BY <1>11, <1>12, <1>13

-----------------------------------------------------------------------------
(* Histories grow.                                                         *)

\* A sequence followed by another, position by position.
LEMMA Followed ==
    ASSUME NEW T, NEW s \in Seq(T), NEW t \in Seq(T)
    PROVE  /\ s \o t \in Seq(T) /\ Len(s \o t) = Len(s) + Len(t)
           /\ \A i \in 1 .. Len(s) : (s \o t)[i] = s[i]
           /\ \A j \in 1 .. Len(t) : (s \o t)[Len(s) + j] = t[j]
           /\ \A i \in 1 .. Len(s \o t) : i <= Len(s) \/ i - Len(s) \in 1 .. Len(t)
<1> DEFINE u == s \o t
<1>1. /\ u \in Seq(T) /\ Len(u) = Len(s) + Len(t)
      /\ \A i \in 1 .. Len(s) + Len(t) : u[i] = IF i <= Len(s) THEN s[i] ELSE t[i - Len(s)]
  BY ConcatProperties, Zenon
<1>2. Len(s) \in Nat /\ Len(t) \in Nat
  OBVIOUS
<1> HIDE DEF u
<1>3. \A i \in 1 .. Len(s) : u[i] = s[i]
  BY <1>1, <1>2
<1>4. ASSUME NEW j \in 1 .. Len(t) PROVE u[Len(s) + j] = t[j]
  <2>1. PICK i : i = Len(s) + j
    OBVIOUS
  <2>2. i \in 1 .. Len(s) + Len(t) /\ ~(i <= Len(s)) /\ i - Len(s) = j
    BY <1>2, <2>1
  <2>3. u[i] = t[j]
    BY <1>1, <2>2, Zenon
  <2>4. QED BY <2>1, <2>3
<1>5. \A i \in 1 .. Len(u) : i <= Len(s) \/ i - Len(s) \in 1 .. Len(t)
  BY <1>1, <1>2
<1>6. QED BY <1>1, <1>3, <1>4, <1>5 DEF u

\* What is true of a history stays so when numbers grow.
LEMMA HistoryLater ==
    ASSUME NEW h, NEW b \in Int, History(h, b, FALSE)
    PROVE  History(h, b + 1, FALSE)
<1>1. \A i \in 1 .. Len(h) : h[i].n \in Int
  BY ItemKinds, ElementOfSeq DEF History
<1>2. Numbered(h, b + 1)
  BY <1>1 DEF History, Numbered
<1>3. QED BY <1>2 DEF History

\* The user's turn, or a nudge.
LEMMA AppendPlain ==
    ASSUME NEW h, NEW b, History(h, b, FALSE), NEW x \in Items, x.k \in {"user", "system"}
    PROVE  History(Append(h, x), b, FALSE)
<1> DEFINE s == Append(h, x)
           L == Len(h)
<1>1. h \in Seq(Items) /\ Grouped(h) /\ Numbered(h, b) /\ Paired(h, FALSE) /\ L \in Nat
  <2>1. h \in Seq(Items) /\ Grouped(h) /\ Numbered(h, b) /\ Paired(h, FALSE)
    BY DEF History
  <2>2. QED BY <2>1, LenProperties
<1>2. /\ s \in Seq(Items) /\ Len(s) = L + 1 /\ s[L + 1] = x
      /\ \A i \in 1 .. L : s[i] = h[i]
  BY <1>1, AppendProperties
<1>3. x.k \notin {"reasoning", "hosted", "assistant", "result"}
  OBVIOUS
<1>4. \A i \in 1 .. L + 1 : i \in 1 .. L \/ i = L + 1
  BY <1>1
<1> HIDE DEF s, L
<1>5. Grouped(s)
  <2> SUFFICES ASSUME NEW i \in 1 .. Len(s)
               PROVE  /\ s[i].k = "reasoning" => /\ i < Len(s)
                                                 /\ s[i + 1].k \in {"hosted", "assistant"}
                                                 /\ s[i + 1].n = s[i].n
                      /\ s[i].k = "hosted" => /\ i < Len(s)
                                              /\ s[i + 1].k = "assistant"
                                              /\ s[i + 1].n = s[i].n
    BY DEF Grouped
  <2>1. CASE i = L + 1
    BY <1>2, <1>3, <2>1
  <2>2. CASE i \in 1 .. L
    <3>1. s[i] = h[i] /\ (i < L => i + 1 \in 1 .. L /\ s[i + 1] = h[i + 1])
      BY <1>1, <1>2, <2>2
    <3>2. i < L => i < Len(s)
      BY <1>1, <1>2, <2>2
    <3>3. /\ h[i].k = "reasoning" => i < L /\ h[i + 1].k \in {"hosted", "assistant"}
                                           /\ h[i + 1].n = h[i].n
          /\ h[i].k = "hosted" => i < L /\ h[i + 1].k = "assistant" /\ h[i + 1].n = h[i].n
      BY <1>1, <2>2 DEF Grouped, L
    <3>4. QED BY <3>1, <3>2, <3>3
  <2>3. QED BY <1>2, <1>4, <2>1, <2>2
<1>6. Numbered(s, b)
  <2>1. \A i \in 1 .. Len(s) : s[i].k = "assistant" => i \in 1 .. Len(h) /\ s[i] = h[i]
    BY <1>2, <1>3, <1>4 DEF L
  <2>2. QED BY <1>1, <2>1, SMTT(30) DEF Numbered
<1>7. Paired(s, FALSE)
  <2>1. ASSUME NEW i \in 1 .. Len(s), s[i].k = "assistant" PROVE AnsweredAt(s, i)
    <3>1. i \in 1 .. L /\ s[i] = h[i]
      BY <1>2, <1>3, <1>4, <2>1
    <3>2. AnsweredAt(h, i)
      BY <1>1, <2>1, <3>1 DEF Paired, L
    <3>3. Len(h[i].calls) \in Nat
      BY <1>1, <2>1, <3>1, ElementOfSeq, ItemFields DEF L
    <3>4. \A c \in 1 .. Len(h[i].calls) : i + c \in 1 .. L
      BY <1>1, <3>1, <3>2, <3>3 DEF AnsweredAt, L
    <3>5. \A c \in 1 .. Len(h[i].calls) : s[i + c] = h[i + c]
      BY <1>2, <3>4
    <3>6. i + Len(h[i].calls) <= Len(s)
      BY <1>1, <1>2, <3>1, <3>2, <3>3 DEF AnsweredAt, L
    <3>7. QED BY <3>1, <3>2, <3>5, <3>6 DEF AnsweredAt
  <2>2. ASSUME NEW j \in 1 .. Len(s), s[j].k = "result"
        PROVE  \E i \in 1 .. j - 1 : s[i].k = "assistant" /\ j - i <= Len(s[i].calls)
    <3>1. j \in 1 .. L /\ s[j] = h[j]
      BY <1>2, <1>3, <1>4, <2>2
    <3>2. PICK i \in 1 .. j - 1 : h[i].k = "assistant" /\ j - i <= Len(h[i].calls)
      BY <1>1, <2>2, <3>1 DEF Paired, L
    <3>3. s[i] = h[i]
      BY <1>1, <1>2, <3>1, <3>2
    <3>4. QED BY <3>2, <3>3
  <2>3. QED BY <2>1, <2>2 DEF Paired
<1>8. QED BY <1>2, <1>5, <1>6, <1>7 DEF History, s

Extends(s, h) == Len(s) >= Len(h) /\ \A i \in 1 .. Len(h) : s[i] = h[i]

\* What a history says of its items is true of them in every history that extends it.
LEMMA GroupedStays ==
    ASSUME NEW h \in Seq(Items), NEW s \in Seq(Items), Grouped(h), Extends(s, h),
           NEW i \in 1 .. Len(h)
    PROVE  /\ s[i].k = "reasoning" => /\ i < Len(s)
                                      /\ s[i + 1].k \in {"hosted", "assistant"}
                                      /\ s[i + 1].n = s[i].n
           /\ s[i].k = "hosted" => /\ i < Len(s)
                                   /\ s[i + 1].k = "assistant"
                                   /\ s[i + 1].n = s[i].n
<1>1. Len(h) \in Nat /\ Len(s) \in Nat
  BY LenProperties
<1>2. s[i] = h[i] /\ (i < Len(h) => i + 1 \in 1 .. Len(h))
  BY <1>1 DEF Extends
<1>3. i < Len(h) => i < Len(s) /\ s[i + 1] = h[i + 1]
  BY <1>1, <1>2 DEF Extends
<1>4. /\ h[i].k = "reasoning" => i < Len(h) /\ h[i + 1].k \in {"hosted", "assistant"}
                                             /\ h[i + 1].n = h[i].n
      /\ h[i].k = "hosted" => i < Len(h) /\ h[i + 1].k = "assistant" /\ h[i + 1].n = h[i].n
  BY DEF Grouped
<1>5. QED BY <1>2, <1>3, <1>4

LEMMA AnsweredStays ==
    ASSUME NEW h \in Seq(Items), NEW s \in Seq(Items), Extends(s, h),
           NEW i \in 1 .. Len(h), h[i].k = "assistant", AnsweredAt(h, i)
    PROVE  AnsweredAt(s, i)
<1>1. Len(h) \in Nat /\ Len(s) \in Nat /\ s[i] = h[i]
  BY LenProperties DEF Extends
<1>2. Len(h[i].calls) \in Nat
  <2>1. h[i] \in Items
    BY ElementOfSeq
  <2>2. h[i].calls \in Seq(Calls)
    BY <2>1, ItemFields
  <2>3. QED BY <2>2, LenProperties
<1>3. \A c \in 1 .. Len(h[i].calls) : i + c \in 1 .. Len(h)
  BY <1>1, <1>2 DEF AnsweredAt
<1>4. \A c \in 1 .. Len(h[i].calls) : s[i + c] = h[i + c]
  BY <1>3 DEF Extends
<1>5. i + Len(h[i].calls) <= Len(s)
  BY <1>1, <1>2 DEF AnsweredAt, Extends
<1>6. QED BY <1>1, <1>4, <1>5 DEF AnsweredAt

LEMMA ResultStays ==
    ASSUME NEW h \in Seq(Items), NEW s \in Seq(Items), Extends(s, h), NEW open,
           Paired(h, open), NEW j \in 1 .. Len(h), s[j].k = "result"
    PROVE  \E i \in 1 .. j - 1 : s[i].k = "assistant" /\ j - i <= Len(s[i].calls)
<1>1. Len(h) \in Nat /\ s[j] = h[j]
  BY LenProperties DEF Extends
<1>2. PICK i \in 1 .. j - 1 : h[i].k = "assistant" /\ j - i <= Len(h[i].calls)
  BY <1>1 DEF Paired
<1>3. i \in 1 .. Len(h)
  BY <1>1
<1>4. s[i] = h[i]
  BY <1>3 DEF Extends
<1>5. QED BY <1>2, <1>4

\* An answer.
LEMMA AppendGroup ==
    ASSUME NEW h, NEW b \in Int, History(h, b, FALSE), NEW g, Group(g, b + 1)
    PROVE  /\ History(h \o g, b + 1, TRUE)
           /\ g[Len(g)].calls = <<>> => History(h \o g, b + 1, FALSE)
           /\ h \o g # <<>> /\ (h \o g)[Len(h \o g)] = g[Len(g)] /\ g[Len(g)].k = "assistant"
<1> DEFINE s == h \o g
           L == Len(h)
           M == Len(g)
<1>1. h \in Seq(Items) /\ Grouped(h) /\ Numbered(h, b) /\ Paired(h, FALSE)
  BY DEF History
<1>2. g \in Seq(Items) /\ g # <<>>
  BY DEF Group
<1>3. L \in Nat /\ M \in Nat \ {0}
  BY <1>1, <1>2, LenProperties, EmptySeq
<1>4. /\ s \in Seq(Items) /\ Len(s) = L + M
      /\ \A i \in 1 .. L : s[i] = h[i]
      /\ \A j \in 1 .. M : s[L + j] = g[j]
  <2> HIDE DEF L, M, s
  <2>1. PICK u : u = s
    OBVIOUS
  <2>2. /\ h \o g \in Seq(Items) /\ Len(h \o g) = Len(h) + Len(g)
        /\ \A i \in 1 .. Len(h) : (h \o g)[i] = h[i]
        /\ \A j \in 1 .. Len(g) : (h \o g)[Len(h) + j] = g[j]
    BY <1>1, <1>2, Followed
  <2>3. QED BY <2>2, Zenon DEF s, L, M
<1> HIDE DEF s, L, M
<1>5. \A i \in 1 .. Len(s) : i \in 1 .. L \/ \E j \in 1 .. M : i = L + j
  <2>1. ASSUME NEW i \in 1 .. Len(s), ~(i \in 1 .. L)
        PROVE  i - L \in 1 .. M /\ i = L + (i - L)
    BY <1>3, <1>4, <2>1
  <2>2. QED BY <2>1
<1>6. Extends(s, h)
  BY <1>3, <1>4 DEF Extends, L
<1>7. /\ \A j \in 1 .. M : /\ g[j].n = b + 1
                           /\ g[j].k = "assistant" <=> j = M
                           /\ j < M => g[j].k \in {"reasoning", "hosted"}
      /\ \A j \in 1 .. M - 1 : g[j].k = "hosted" => j + 1 = M
      /\ \A j \in 1 .. M - 1 : g[j].k = "reasoning" => g[j + 1].k # "reasoning"
  BY DEF Group, M
<1>8. Grouped(s)
  <2> SUFFICES ASSUME NEW i \in 1 .. Len(s)
               PROVE  /\ s[i].k = "reasoning" => /\ i < Len(s)
                                                 /\ s[i + 1].k \in {"hosted", "assistant"}
                                                 /\ s[i + 1].n = s[i].n
                      /\ s[i].k = "hosted" => /\ i < Len(s)
                                              /\ s[i + 1].k = "assistant"
                                              /\ s[i + 1].n = s[i].n
    BY DEF Grouped
  <2>1. CASE i \in 1 .. L
    BY <1>1, <1>4, <1>6, <2>1, GroupedStays DEF L
  <2>2. ASSUME NEW j \in 1 .. M, i = L + j
        PROVE  /\ s[i].k = "reasoning" => /\ i < Len(s)
                                          /\ s[i + 1].k \in {"hosted", "assistant"}
                                          /\ s[i + 1].n = s[i].n
               /\ s[i].k = "hosted" => /\ i < Len(s)
                                       /\ s[i + 1].k = "assistant"
                                       /\ s[i + 1].n = s[i].n
    <3>1. s[i] = g[j]
      BY <1>4, <2>2
    <3>2. CASE j = M
      BY <1>7, <3>1, <3>2
    <3>3. CASE j < M
      <4>1. j + 1 \in 1 .. M /\ j \in 1 .. M - 1 /\ i + 1 = L + (j + 1) /\ i < Len(s)
        BY <1>3, <1>4, <2>2, <3>3
      <4>2. s[i + 1] = g[j + 1]
        BY <1>4, <4>1
      <4>3. /\ g[j].n = b + 1 /\ g[j + 1].n = b + 1
            /\ g[j + 1].k \in {"reasoning", "hosted", "assistant"}
        <5>1. j + 1 = M \/ j + 1 < M
          BY <1>3, <4>1
        <5>2. QED BY <1>7, <4>1, <5>1
      <4>4. /\ g[j].k = "hosted" => g[j + 1].k = "assistant"
            /\ g[j].k = "reasoning" => g[j + 1].k # "reasoning"
        BY <1>3, <1>7, <4>1
      <4>5. QED BY <3>1, <4>1, <4>2, <4>3, <4>4
    <3>4. QED BY <1>3, <3>2, <3>3
  <2>3. QED BY <1>5, <2>1, <2>2
<1>9. ASSUME NEW i \in 1 .. Len(s), s[i].k = "assistant"
      PROVE  (i \in 1 .. L /\ s[i] = h[i]) \/ (i = L + M /\ s[i] = g[M])
  <2>1. CASE i \in 1 .. L
    BY <1>4, <2>1
  <2>2. ASSUME NEW j \in 1 .. M, i = L + j PROVE i = L + M /\ s[i] = g[M]
    <3>1. s[i] = g[j]
      BY <1>4, <2>2
    <3>2. j = M
      BY <1>7, <1>9, <3>1
    <3>3. QED BY <2>2, <3>1, <3>2
  <2>3. QED BY <1>5, <2>1, <2>2
<1>10. \A i \in 1 .. L : h[i].n \in Int /\ (h[i].k = "assistant" => h[i].n <= b)
  BY <1>1, ItemKinds, ElementOfSeq DEF Numbered, L
<1>11. Numbered(s, b + 1)
  <2>1. ASSUME NEW i \in 1 .. Len(s), NEW j \in 1 .. Len(s), s[i].k = "assistant",
               s[j].k = "assistant", s[i].n = s[j].n
        PROVE  i = j
    <3>1. g[M].n = b + 1
      BY <1>3, <1>7
    <3>2. CASE i \in 1 .. L /\ s[i] = h[i] /\ j \in 1 .. L /\ s[j] = h[j]
      BY <1>1, <2>1, <3>2 DEF Numbered, L
    <3>3. CASE i = L + M /\ j = L + M
      BY <3>3
    <3>4. CASE i \in 1 .. L /\ s[i] = h[i] /\ s[j] = g[M]
      BY <1>10, <2>1, <3>1, <3>4
    <3>5. CASE j \in 1 .. L /\ s[j] = h[j] /\ s[i] = g[M]
      BY <1>10, <2>1, <3>1, <3>5
    <3>6. QED BY <1>9, <2>1, <3>2, <3>3, <3>4, <3>5
  <2>2. ASSUME NEW i \in 1 .. Len(s), s[i].k = "assistant"
        PROVE  /\ s[i].n <= b + 1
               /\ \A c \in 1 .. Len(s[i].calls) : s[i].calls[c].id[1] = s[i].n
               /\ \A c, d \in 1 .. Len(s[i].calls) :
                     s[i].calls[c].id = s[i].calls[d].id => c = d
    <3>1. CASE i \in 1 .. L /\ s[i] = h[i]
      <4>1. /\ h[i].n <= b /\ h[i].n \in Int
            /\ \A c \in 1 .. Len(h[i].calls) : h[i].calls[c].id[1] = h[i].n
            /\ \A c, d \in 1 .. Len(h[i].calls) :
                  h[i].calls[c].id = h[i].calls[d].id => c = d
        BY <1>1, <1>10, <2>2, <3>1 DEF Numbered, L
      <4>2. QED BY <3>1, <4>1, SMTT(30)
    <3>2. CASE s[i] = g[M]
      <4>1. /\ g[M].n = b + 1
            /\ \A c \in 1 .. Len(g[M].calls) : g[M].calls[c].id[1] = b + 1
            /\ \A c, d \in 1 .. Len(g[M].calls) :
                  g[M].calls[c].id = g[M].calls[d].id => c = d
        BY <1>3, <1>7 DEF Group, M
      <4>2. QED BY <3>2, <4>1
    <3>3. QED BY <1>9, <2>2, <3>1, <3>2
  <2>3. QED BY <2>1, <2>2 DEF Numbered
<1>12. ASSUME NEW j \in 1 .. Len(s), s[j].k = "result"
       PROVE  \E i \in 1 .. j - 1 : s[i].k = "assistant" /\ j - i <= Len(s[i].calls)
  <2>1. CASE j \in 1 .. L
    BY <1>1, <1>4, <1>6, <1>12, <2>1, ResultStays DEF L
  <2>2. ASSUME NEW m \in 1 .. M, j = L + m PROVE FALSE
    <3>1. s[j] = g[m]
      BY <1>4, <2>2
    <3>2. g[m].k \in {"reasoning", "hosted", "assistant"}
      BY <1>3, <1>7
    <3>3. QED BY <1>12, <3>1, <3>2
  <2>3. QED BY <1>5, <2>1, <2>2
<1>13. ASSUME NEW i \in 1 .. Len(s), s[i].k = "assistant"
       PROVE  AnsweredAt(s, i) \/ (i = Len(s) /\ s[i] = g[M])
  <2>1. CASE i \in 1 .. L /\ s[i] = h[i]
    <3>1. AnsweredAt(h, i)
      BY <1>1, <1>13, <2>1 DEF Paired, L
    <3>2. h[i].k = "assistant"
      BY <1>13, <2>1
    <3>3. AnsweredAt(s, i)
      BY <1>1, <1>4, <1>6, <2>1, <3>1, <3>2, AnsweredStays DEF L
    <3>4. QED BY <3>3
  <2>2. CASE i = L + M /\ s[i] = g[M]
    BY <1>4, <2>2
  <2>3. QED BY <1>9, <1>13, <2>1, <2>2
<1>14. Paired(s, TRUE)
  BY <1>12, <1>13 DEF Paired
<1>15. ASSUME g[M].calls = <<>> PROVE Paired(s, FALSE)
  <2>1. \A i \in 1 .. Len(s) : s[i] = g[M] /\ i = Len(s) => AnsweredAt(s, i)
    <3>1. Len(g[M].calls) = 0
      BY <1>15
    <3>2. ASSUME NEW i \in 1 .. Len(s), s[i] = g[M], i = Len(s) PROVE AnsweredAt(s, i)
      <4>1. Len(s[i].calls) = 0 /\ Len(s) \in Nat
        BY <1>3, <1>4, <3>1, <3>2
      <4>2. i + 0 <= Len(s)
        BY <3>2, <4>1
      <4>3. QED BY <4>1, <4>2 DEF AnsweredAt
    <3>3. QED BY <3>2
  <2>2. \A i \in 1 .. Len(s) : s[i].k = "assistant" => AnsweredAt(s, i)
    BY <1>13, <2>1
  <2>3. QED BY <1>12, <2>2 DEF Paired
<1>16. s # <<>> /\ s[Len(s)] = g[M] /\ g[M].k = "assistant"
  <2>1. M \in 1 .. M
    BY <1>3
  <2>2. s[Len(s)] = g[M] /\ g[M].k = "assistant"
    BY <1>4, <1>7, <2>1
  <2>3. Len(s) # 0
    BY <1>3, <1>4
  <2>4. s # <<>>
    BY <2>3, EmptySeq
  <2>5. QED BY <2>2, <2>4
<1>17. History(s, b + 1, TRUE) /\ (g[M].calls = <<>> => History(s, b + 1, FALSE))
  BY <1>4, <1>8, <1>11, <1>14, <1>15 DEF History
<1>18. QED BY <1>16, <1>17 DEF s, M

Results(calls, n) == [i \in 1 .. Len(calls) |-> ResultItem(n, calls[i].id)]

LEMMA ResultsAre ==
    ASSUME NEW n \in Int, NEW calls \in Seq(Calls)
    PROVE  /\ Results(calls, n) \in Seq(Items) /\ Len(Results(calls, n)) = Len(calls)
           /\ \A i \in 1 .. Len(calls) : /\ Results(calls, n)[i].k = "result"
                                         /\ Results(calls, n)[i].calls = <<calls[i].id>>
<1>1. Len(calls) \in Nat
  BY LenProperties
<1>2. ASSUME NEW i \in 1 .. Len(calls)
      PROVE  /\ ResultItem(n, calls[i].id) \in Items
             /\ ResultItem(n, calls[i].id).k = "result"
             /\ ResultItem(n, calls[i].id).calls = <<calls[i].id>>
  <2>1. calls[i] \in Calls
    BY ElementOfSeq
  <2>2. calls[i].id \in CallIds
    BY <2>1 DEF Calls
  <2>3. QED BY <2>2 DEF ResultItem, Item, Items, ResultItems, Made
<1>3. \A i \in 1 .. Len(calls) : ResultItem(n, calls[i].id) \in Items
  BY <1>2
<1>4. Results(calls, n) \in Seq(Items) /\ Len(Results(calls, n)) = Len(calls)
  BY <1>1, <1>3 DEF Results
<1>5. \A i \in 1 .. Len(calls) : Results(calls, n)[i] = ResultItem(n, calls[i].id)
  BY DEF Results
<1>6. QED BY <1>2, <1>4, <1>5

\* The answers of the calls that were open.
LEMMA AppendResults ==
    ASSUME NEW h, NEW b \in Int, History(h, b, TRUE), NEW n \in Int,
           h # <<>>, h[Len(h)].k = "assistant"
    PROVE  History(h \o Results(h[Len(h)].calls, n), b, FALSE)
<1> DEFINE L == Len(h)
           calls == h[L].calls
           g == Results(calls, n)
           M == Len(calls)
           s == h \o g
<1>1. h \in Seq(Items) /\ Grouped(h) /\ Numbered(h, b) /\ Paired(h, TRUE)
  BY DEF History
<1>2. L \in Nat \ {0}
  BY <1>1, LenProperties, EmptySeq
<1>3. h[L] \in Items
  BY <1>1, <1>2, ElementOfSeq
<1>4. calls \in Seq(Calls) /\ M \in Nat
  <2>1. calls \in Seq(Calls)
    BY <1>3, ItemFields
  <2>2. QED BY <2>1, LenProperties
<1>5. /\ g \in Seq(Items) /\ Len(g) = M
      /\ \A i \in 1 .. M : g[i].k = "result" /\ g[i].calls = <<calls[i].id>>
  <2> HIDE DEF calls
  <2>1. QED BY <1>4, ResultsAre
<1> HIDE DEF g
<1>6. /\ s \in Seq(Items) /\ Len(s) = L + M
      /\ \A i \in 1 .. L : s[i] = h[i]
      /\ \A j \in 1 .. M : s[L + j] = g[j]
  <2> HIDE DEF L, M, s, calls
  <2>1. /\ h \o g \in Seq(Items) /\ Len(h \o g) = Len(h) + Len(g)
        /\ \A i \in 1 .. Len(h) : (h \o g)[i] = h[i]
        /\ \A j \in 1 .. Len(g) : (h \o g)[Len(h) + j] = g[j]
    <3>1. h \in Seq(Items) /\ g \in Seq(Items)
      BY <1>1, <1>5
    <3>2. QED BY <3>1, Followed
  <2>2. QED BY <1>5, <2>1, Zenon DEF s, L
<1>7. h[L].k = "assistant" /\ calls = h[L].calls
  OBVIOUS
<1>20. M = Len(calls)
  OBVIOUS
<1> HIDE DEF s, L, M, calls
<1>8. \A i \in 1 .. Len(s) : i \in 1 .. L \/ \E j \in 1 .. M : i = L + j
  <2>1. ASSUME NEW i \in 1 .. Len(s), ~(i \in 1 .. L)
        PROVE  i - L \in 1 .. M /\ i = L + (i - L)
    BY <1>2, <1>4, <1>6, <2>1
  <2>2. QED BY <2>1
<1>9. Extends(s, h)
  BY <1>2, <1>4, <1>6 DEF Extends, L
<1>10. \A i \in 1 .. Len(s) : s[i].k # "result" => i \in 1 .. L
  BY <1>5, <1>6, <1>8
<1>11. Grouped(s)
  <2> SUFFICES ASSUME NEW i \in 1 .. Len(s)
               PROVE  /\ s[i].k = "reasoning" => /\ i < Len(s)
                                                 /\ s[i + 1].k \in {"hosted", "assistant"}
                                                 /\ s[i + 1].n = s[i].n
                      /\ s[i].k = "hosted" => /\ i < Len(s)
                                              /\ s[i + 1].k = "assistant"
                                              /\ s[i + 1].n = s[i].n
    BY DEF Grouped
  <2>1. CASE i \in 1 .. L
    BY <1>1, <1>6, <1>9, <2>1, GroupedStays DEF L
  <2>2. CASE s[i].k = "result"
    BY <2>2
  <2>3. QED BY <1>10, <2>1, <2>2
<1>12. Numbered(s, b)
  <2>1. \A i \in 1 .. Len(s) : s[i].k = "assistant" => i \in 1 .. Len(h) /\ s[i] = h[i]
    BY <1>6, <1>10 DEF L
  <2>2. QED BY <1>1, <2>1, SMTT(30) DEF Numbered
<1>13. AnsweredAt(s, L)
  <2>1. s[L] = h[L] /\ Len(s[L].calls) = M
    BY <1>2, <1>6, <1>7, <1>20
  <2>2. L + M <= Len(s)
    BY <1>2, <1>4, <1>6
  <2>3. \A c \in 1 .. M : s[L + c].k = "result" /\ s[L + c].calls = <<calls[c].id>>
    BY <1>5, <1>6
  <2>4. s[L].calls = calls
    BY <1>7, <2>1
  <2>5. QED BY <2>1, <2>2, <2>3, <2>4 DEF AnsweredAt
<1>14. ASSUME NEW i \in 1 .. Len(s), s[i].k = "assistant" PROVE AnsweredAt(s, i)
  <2>1. i \in 1 .. L /\ h[i].k = "assistant"
    BY <1>6, <1>10, <1>14
  <2>2. CASE i = L
    BY <1>13, <2>2
  <2>3. CASE i # L
    <3>1. AnsweredAt(h, i)
      BY <1>1, <2>1, <2>3 DEF Paired, L
    <3>2. QED BY <1>1, <1>6, <1>9, <2>1, <3>1, AnsweredStays DEF L
  <2>4. QED BY <2>2, <2>3
<1>15. ASSUME NEW j \in 1 .. Len(s), s[j].k = "result"
       PROVE  \E i \in 1 .. j - 1 : s[i].k = "assistant" /\ j - i <= Len(s[i].calls)
  <2>1. CASE j \in 1 .. L
    BY <1>1, <1>6, <1>9, <1>15, <2>1, ResultStays DEF L
  <2>2. ASSUME NEW c \in 1 .. M, j = L + c
        PROVE  \E i \in 1 .. j - 1 : s[i].k = "assistant" /\ j - i <= Len(s[i].calls)
    <3>1. L \in 1 .. j - 1 /\ j - L <= M
      BY <1>2, <1>4, <2>2
    <3>2. L \in 1 .. L
      BY <1>2
    <3>4. s[L] = h[L]
      BY <1>6, <3>2
    <3>5. s[L].k = "assistant" /\ Len(s[L].calls) = M
      BY <1>7, <1>20, <3>4
    <3>3. QED BY <3>1, <3>5
  <2>3. QED BY <1>8, <2>1, <2>2
<1>16. Paired(s, FALSE)
  BY <1>14, <1>15 DEF Paired
<1>17. History(s, b, FALSE)
  BY <1>6, <1>11, <1>12, <1>16 DEF History
<1>18. QED BY <1>17 DEF s, g, calls, L

-----------------------------------------------------------------------------
(* Every history is one.                                                   *)

\* The history a session written before origins were kept has.
LEMMA LegacyIsHistory == History(Legacy, 0, FALSE) /\ History(<<>>, 0, FALSE)
<1> DEFINE u == UserItem(-2, <<"text">>)
           r == ReasoningItem(-1)
           a == AssistantItem(-1, <<<<"text", -1>>>>, <<>>, "text")
           g == <<r, a>>
<1>1. History(<<>>, 0, FALSE)
  BY DEF History, Grouped, Numbered, Paired
<1>2. u \in Items /\ u.k = "user"
  <2>1. <<"text">> \in Seq(Shapes)
    BY DEF Shapes
  <2>2. u.k = "user"
    BY DEF UserItem, Item
  <2>3. u \in UserItems
    BY <2>1 DEF UserItem, Item, UserItems, Made
  <2>4. QED BY <2>2, <2>3 DEF Items
<1>3. r \in Items /\ r.k = "reasoning" /\ r.n = -1
  <2>1. -1 \in Int
    OBVIOUS
  <2>2. QED BY <2>1, LeadItems
<1>4. a \in Items /\ a.k = "assistant" /\ a.n = -1 /\ a.calls = <<>>
  <2>1. <<"text", -1>> \in TextParts
    BY DEF TextParts
  <2>2. <<<<"text", -1>>>> \in Seq(TextParts)
    BY <2>1
  <2>3. a = [k |-> "assistant", n |-> -1, parts |-> <<<<"text", -1>>>>, calls |-> <<>>,
             think |-> "text", origin |-> ""]
    BY DEF AssistantItem, Item
  <2>4. "" \in Keys /\ "text" \in Thoughts /\ <<>> \in Seq(Calls) /\ -1 \in Int
    BY DEF Keys, Thoughts
  <2> HIDE DEF a
  <2>5. a \in AssistantItems
    BY <2>2, <2>3, <2>4 DEF AssistantItems
  <2>6. QED BY <2>3, <2>5 DEF Items
<1>5. OwnCalls(a.calls, -1)
  <2>1. <<>> \in Seq(Calls) /\ Len(<<>>) = 0
    OBVIOUS
  <2> HIDE DEF a
  <2>2. a.calls \in Seq(Calls) /\ Len(a.calls) = 0
    BY <1>4, <2>1
  <2>3. QED BY <2>2 DEF OwnCalls
<1>6. HostedItem(-1, FALSE) \in Items /\ HostedItem(-1, FALSE).k = "hosted"
                                     /\ HostedItem(-1, FALSE).n = -1
  <2>1. -1 \in Int
    OBVIOUS
  <2>2. QED BY <2>1, LeadItems
<1> HIDE DEF u, r, a
<1>7. Group(g, -1)
  <2>1. -1 \in Int
    OBVIOUS
  <2>2. QED BY <1>3, <1>4, <1>5, <1>6, <2>1, GroupForms
<1>8. g[Len(g)].calls = <<>> /\ g \in Seq(Items)
  BY <1>3, <1>4
<1>9. History(Append(<<>>, u), -2, FALSE)
  <2>1. History(<<>>, -2, FALSE)
    BY DEF History, Grouped, Numbered, Paired
  <2>2. QED BY <1>2, <2>1, AppendPlain
<1>10. Append(<<>>, u) = <<u>>
  OBVIOUS
<1>11. History(<<u>> \o g, -1, FALSE)
  <2>1. -2 + 1 = -1 /\ -2 \in Int
    OBVIOUS
  <2>2. History(<<u>>, -2, FALSE)
    BY <1>9, <1>10
  <2>3. Group(g, -2 + 1)
    BY <1>7, <2>1
  <2>4. History(<<u>> \o g, -2 + 1, FALSE)
    BY <1>8, <2>1, <2>2, <2>3, AppendGroup
  <2>5. QED BY <2>1, <2>4
<1>12. <<u>> \o g = <<u, r, a>>
  <2>1. <<u>> \in Seq(Items) /\ <<u, r, a>> \in Seq(Items)
    BY <1>2, <1>3, <1>4
  <2> DEFINE x == <<u>>
             y == <<u, r, a>>
  <2>2. /\ Len(x) = 1 /\ Len(g) = 2 /\ Len(y) = 3 /\ x[1] = u /\ g[1] = r /\ g[2] = a
        /\ y[1] = u /\ y[2] = r /\ y[3] = a
    OBVIOUS
  <2> HIDE DEF x, g
  <2>3. /\ x \o g \in Seq(Items) /\ Len(x \o g) = Len(x) + Len(g)
        /\ \A i \in 1 .. Len(x) : (x \o g)[i] = x[i]
        /\ \A j \in 1 .. Len(g) : (x \o g)[Len(x) + j] = g[j]
    BY <1>8, <2>1, Followed DEF x
  <2> DEFINE w == x \o g
  <2> HIDE DEF w, y
  <2>4. w \in Seq(Items) /\ Len(w) = 3 /\ w[1] = u /\ w[1 + 1] = r /\ w[1 + 2] = a
    BY <2>2, <2>3 DEF w
  <2>5. w = y
    BY <2>1, <2>2, <2>4, SeqEqual DEF y
  <2>6. QED BY <2>5 DEF w, x, y
<1>13. History(Legacy, -1, FALSE)
  BY <1>11, <1>12 DEF Legacy, u, r, a, g
<1>14. History(Legacy, 0, FALSE)
  <2>1. -1 + 1 = 0 /\ -1 \in Int
    OBVIOUS
  <2>2. History(Legacy, -1 + 1, FALSE)
    BY <1>13, <2>1, HistoryLater
  <2>3. QED BY <2>1, <2>2
<1>15. QED BY <1>1, <1>14

\* A history starts as one,
LEMMA InitHistory == Init => HistoryInv
<1>1. SUFFICES ASSUME Init PROVE HistoryInv
  OBVIOUS
<1>2. History(saved, 0, FALSE) /\ History(history, 0, FALSE)
  BY <1>1, LegacyIsHistory DEF Init
<1>3. QED BY <1>1, <1>2 DEF Init, HistoryInv, Phases

\* and every action leaves one.
LEMMA NextHistory == HistoryInv /\ [Next]_vars => HistoryInv'
<1> SUFFICES ASSUME HistoryInv, [Next]_vars PROVE HistoryInv'
  OBVIOUS
<1>1. /\ born \in Nat /\ phase \in Phases
      /\ History(saved, born, FALSE) /\ History(history, born, phase = "tools")
      /\ phase = "tools" => history # <<>> /\ history[Len(history)].k = "assistant"
      /\ sent.slot \in Slots \/ sent = NothingSent
  BY DEF HistoryInv
<1>0. born \in Int /\ born + 1 \in Int /\ born + 1 \in Nat
  BY <1>1
<1>2. History(saved, born + 1, FALSE)
  BY <1>0, <1>1, HistoryLater
<1>3. CASE UNCHANGED vars
  BY <1>1, <1>3 DEF vars, HistoryInv
<1>4. ASSUME NEW parts \in Inputs, UserTurn(parts) PROVE HistoryInv'
  <2>1. /\ born' = born + 1 /\ history' = Append(saved, UserItem(born + 1, parts))
        /\ phase' = "request" /\ saved' = saved /\ sent' = sent
    BY <1>4 DEF UserTurn
  <2>2. UserItem(born + 1, parts) \in Items /\ UserItem(born + 1, parts).k = "user"
    <3>1. parts \in Seq(Shapes)
      BY SlotAssumption DEF Shapes
    <3>2. UserItem(born + 1, parts) \in UserItems
      BY <1>1, <3>1 DEF UserItem, Item, UserItems, Made
    <3>3. UserItem(born + 1, parts).k = "user"
      BY DEF UserItem, Item
    <3>4. QED BY <3>2, <3>3 DEF Items
  <2>3. History(history', born', FALSE)
    <3> DEFINE x == UserItem(born + 1, parts)
    <3>1. x \in Items /\ x.k \in {"user", "system"}
      BY <2>2
    <3> HIDE DEF x
    <3>2. History(Append(saved, x), born + 1, FALSE)
      BY <1>2, <3>1, AppendPlain
    <3>3. QED BY <2>1, <3>2 DEF x
  <2>4. /\ born' \in Nat /\ phase' \in Phases /\ (phase' = "tools") = FALSE
        /\ sent' = sent /\ History(saved', born', FALSE)
    BY <1>0, <1>2, <2>1 DEF Phases
  <2>5. QED BY <1>1, <2>3, <2>4 DEF HistoryInv
<1>5. ASSUME NEW slot \in Slots, Request(slot) PROVE HistoryInv'
  <2>1. /\ born' = born /\ history' = history /\ saved' = saved /\ phase' = "sent"
        /\ sent'.slot = slot /\ phase \in {"request", "sent"}
    BY <1>5 DEF Request
  <2>2. QED BY <1>1, <2>1 DEF HistoryInv, Phases
<1>6. ASSUME NEW think \in {"none", "text", "sealed"}, NEW hosted \in {"no", "done", "open"},
             NEW kinds \in UNION {CallKinds(w) : w \in {"responses", "chat"}},
             Answer(think, hosted, kinds)
      PROVE  HistoryInv'
  <2> DEFINE items == Salvaged(Stamped(
               AnswerItems(born + 1, sent.slot.wire, think, hosted, kinds), sent.slot.key))
             calls == Last(items).calls
  <2>1. /\ history' = history \o items
        /\ phase' = IF calls = <<>> THEN "idle" ELSE "tools"
        /\ saved' = IF calls = <<>> THEN history' ELSE saved
        /\ born' = born + 1 /\ sent' = NothingSent /\ phase = "sent"
    BY <1>6 DEF Answer
  <2>2. Group(items, born + 1)
    <3>1. sent.slot.key \in Keys
      <4>1. CASE sent.slot \in Slots
        BY <4>1 DEF Keys
      <4>2. CASE sent = NothingSent
        BY <4>2 DEF Keys, NothingSent, NoSlot
      <4>3. QED BY <1>1, <4>1, <4>2
    <3>2. think \in Thoughts /\ kinds \in AskedKinds
      BY DEF Thoughts, AskedKinds, CallKinds
    <3>3. QED BY <1>0, <3>1, <3>2, AnswerIsGroup
  <2> HIDE DEF items
  <2>3. History(history, born, FALSE)
    <3>1. (phase = "tools") = FALSE
      BY <2>1
    <3>2. QED BY <1>1, <3>1
  <2>4. /\ History(history', born', TRUE)
        /\ items[Len(items)].calls = <<>> => History(history', born', FALSE)
        /\ history' # <<>> /\ history'[Len(history')] = items[Len(items)]
        /\ items[Len(items)].k = "assistant"
    <3>1. /\ History(history \o items, born + 1, TRUE)
          /\ items[Len(items)].calls = <<>> => History(history \o items, born + 1, FALSE)
          /\ history \o items # <<>>
          /\ (history \o items)[Len(history \o items)] = items[Len(items)]
          /\ items[Len(items)].k = "assistant"
      BY <1>0, <2>2, <2>3, AppendGroup
    <3>2. QED BY <2>1, <3>1, Zenon
  <2>5. calls = items[Len(items)].calls
    BY DEF Last
  <2> HIDE DEF calls
  <2>6. CASE calls = <<>>
    <3>1. History(history', born', FALSE) /\ History(saved', born', FALSE)
      BY <2>1, <2>4, <2>5, <2>6
    <3>2. /\ born' \in Nat /\ phase' \in Phases /\ (phase' = "tools") = FALSE
          /\ sent' = NothingSent
      BY <1>0, <2>1, <2>6 DEF Phases
    <3>3. QED BY <3>1, <3>2 DEF HistoryInv
  <2>7. CASE calls # <<>>
    <3>1. phase' = "tools" /\ saved' = saved /\ (phase' = "tools") = TRUE
      BY <2>1, <2>7
    <3>2. History(history', born', phase' = "tools")
      BY <2>4, <3>1
    <3>3. history' # <<>> /\ history'[Len(history')].k = "assistant"
      BY <2>4
    <3>4. born' \in Nat /\ phase' \in Phases /\ sent' = NothingSent
      BY <1>0, <2>1, <3>1 DEF Phases
    <3>5. History(saved', born', FALSE)
      BY <1>2, <2>1, <3>1
    <3>6. QED BY <3>2, <3>3, <3>4, <3>5 DEF HistoryInv
  <2>8. QED BY <2>6, <2>7
<1>7. ASSUME NEW nudged \in BOOLEAN, ToolsReturn(nudged) PROVE HistoryInv'
  <2> DEFINE results == Results(Last(history).calls, born + 1)
             nudge == SystemItem(born + 1)
  <2>1. /\ history' = (history \o results) \o (IF nudged THEN <<nudge>> ELSE <<>>)
        /\ saved' = history' /\ born' = born + 1 /\ phase' = "request" /\ sent' = sent
        /\ phase = "tools"
    BY <1>7 DEF ToolsReturn, Results
  <2>2. /\ History(history, born, TRUE) /\ history # <<>>
        /\ history[Len(history)].k = "assistant"
    <3>1. (phase = "tools") = TRUE
      BY <2>1
    <3>2. QED BY <1>1, <3>1, <2>1
  <2>3. History(history \o results, born, FALSE)
    <3>1. History(history \o Results(history[Len(history)].calls, born + 1), born, FALSE)
      BY <1>0, <2>2, AppendResults
    <3>2. QED BY <3>1 DEF Last
  <2> HIDE DEF results
  <2>4. History(history \o results, born + 1, FALSE)
    BY <1>0, <2>3, HistoryLater
  <2>5. history \o results \in Seq(Items)
    BY <2>3 DEF History
  <2>6. nudge \in Items /\ nudge.k = "system"
    <3>1. nudge \in SystemItems
      BY <1>1 DEF SystemItem, Item, SystemItems, Made
    <3>2. nudge.k = "system"
      BY DEF SystemItem, Item
    <3>3. QED BY <3>1, <3>2 DEF Items
  <2> DEFINE h == history \o results
  <2> HIDE DEF nudge, h
  <2>7. History(history', born + 1, FALSE)
    <3>1. CASE nudged
      <4>1. history' = Append(h, nudge)
        <5>1. history' = h \o <<nudge>>
          BY <2>1, <3>1 DEF h
        <5>2. h \in Seq(Items)
          BY <2>5 DEF h
        <5>3. QED BY <2>6, <5>1, <5>2, AppendIsConcat
      <4>2. QED BY <2>4, <2>6, <4>1, AppendPlain DEF h
    <3>2. CASE ~nudged
      <4>1. history' = h \o <<>>
        BY <2>1, <3>2 DEF h
      <4>2. h \o <<>> = h
        BY <2>5, ConcatEmptySeq DEF h
      <4>3. QED BY <2>4, <4>1, <4>2 DEF h
    <3>3. QED BY <3>1, <3>2
  <2>8. /\ born' \in Nat /\ phase' \in Phases /\ (phase' = "tools") = FALSE
        /\ sent' = sent /\ History(history', born', FALSE) /\ History(saved', born', FALSE)
    BY <1>0, <2>1, <2>7 DEF Phases
  <2>9. QED BY <1>1, <2>8 DEF HistoryInv
<1>8. ASSUME Fail PROVE HistoryInv'
  <2>1. /\ history' = saved /\ saved' = saved /\ born' = born /\ phase' = "idle"
        /\ sent' = NothingSent
    BY <1>8 DEF Fail
  <2>2. QED BY <1>1, <2>1 DEF HistoryInv, Phases
<1>9. ASSUME NEW i \in 1 .. Len(history), FileLost(i) PROVE HistoryInv'
  <2>1. /\ history' = history /\ saved' = saved /\ born' = born /\ phase' = phase
        /\ sent' = sent
    BY <1>9 DEF FileLost
  <2>2. QED BY <1>1, <2>1 DEF HistoryInv
<1>10. QED BY <1>3, <1>4, <1>5, <1>6, <1>7, <1>8, <1>9 DEF Next

\* Whatever is done to a session, its history is made of the user's turns, answers
\* under their makers' keys and the results of their calls, each in its place: what the
\* file holds is always complete, and a turn in progress lacks the last results at most.
THEOREM HistorySound == Spec => []HistoryInv
<1>1. QED BY InitHistory, NextHistory, PTL DEF Spec

-----------------------------------------------------------------------------
(* The loops over the items.                                               *)

LEMMA Concats ==
    ASSUME NEW T
    PROVE  /\ \A a, b \in Seq(T) : a \o b \in Seq(T)
           /\ \A a, b, c \in Seq(T) : (a \o b) \o c = a \o (b \o c)
           /\ \A a \in Seq(T) : a \o <<>> = a /\ <<>> \o a = a
           /\ <<>> \in Seq(T)
<1>1. \A a, b \in Seq(T) : a \o b \in Seq(T)
  BY ConcatProperties
<1>2. \A a, b, c \in Seq(T) : (a \o b) \o c = a \o (b \o c)
  BY ConcatAssociative
<1>3. \A a \in Seq(T) : a \o <<>> = a /\ <<>> \o a = a
  BY ConcatEmptySeq
<1>4. QED BY <1>1, <1>2, <1>3, EmptySeq

LEMMA JoinConcat ==
    ASSUME NEW T, NEW s \in Seq(Seq(T)), NEW t \in Seq(Seq(T))
    PROVE  /\ FlattenSeq(s) \in Seq(T)
           /\ FlattenSeq(s \o t) = FlattenSeq(s) \o FlattenSeq(t)
<1> DEFINE L == Len(s)
           M == Len(t)
           u == s \o t
<1>1. L \in Nat /\ M \in Nat
  BY LenProperties
<1>2. /\ u \in Seq(Seq(T)) /\ Len(u) = L + M
      /\ \A i \in 1 .. L : u[i] = s[i]
      /\ \A j \in 1 .. M : u[L + j] = t[j]
  BY Followed
<1> HIDE DEF u
<1>3. ASSUME NEW v \in Seq(Seq(T))
      PROVE  /\ FlattenSeq(v) = UpTo(v, Len(v)) /\ UpTo(v, Len(v)) \in Seq(T)
             /\ \A m \in 0 .. Len(v) - 1 : /\ UpTo(v, m) \in Seq(T)
                                           /\ UpTo(v, m + 1) = UpTo(v, m) \o v[m + 1]
  <2>1. [i \in 1 .. Len(v) |-> v[i]] = v
    OBVIOUS
  <2>2. Len(v) \in Nat /\ \A i \in 1 .. Len(v) : v[i] \in Seq(T)
    BY LenProperties, ElementOfSeq
  <2>3. QED BY <2>1, <2>2, JoinedType, ZenonT(40) DEF UpTo
<1>4. UpTo(u, L) = UpTo(s, L)
  <2>1. [i \in 1 .. L |-> u[i]] = [i \in 1 .. L |-> s[i]]
    BY <1>2
  <2>2. QED BY <2>1 DEF UpTo
<1> DEFINE N == {m \in Nat : m <= M => UpTo(u, L + m) = UpTo(s, L) \o UpTo(t, m)}
<1>5. 0 \in N
  <2>1. UpTo(t, 0) = <<>>
    BY OneMore
  <2>2. UpTo(s, L) \o <<>> = UpTo(s, L) /\ L + 0 = L
    BY <1>1, <1>3, ConcatEmptySeq
  <2>3. QED BY <1>4, <2>1, <2>2
<1>6. ASSUME NEW m \in N PROVE m + 1 \in N
  <2> SUFFICES ASSUME m + 1 <= M PROVE UpTo(u, L + (m + 1)) = UpTo(s, L) \o UpTo(t, m + 1)
    OBVIOUS
  <2>1. m \in Nat /\ m \in 0 .. M - 1 /\ L + m \in 0 .. Len(u) - 1 /\ m + 1 \in 1 .. M
    BY <1>1, <1>2, SMTT(30)
  <2>2. UpTo(u, L + m) = UpTo(s, L) \o UpTo(t, m)
    BY <2>1
  <2>3. UpTo(t, m) \in Seq(T) /\ UpTo(t, m + 1) = UpTo(t, m) \o t[m + 1]
    BY <1>3, <2>1
  <2>4. u[L + (m + 1)] = t[m + 1] /\ t[m + 1] \in Seq(T)
    BY <1>2, <2>1, ElementOfSeq
  <2>5. UpTo(u, (L + m) + 1) = UpTo(u, L + m) \o u[(L + m) + 1]
    BY <1>2, <1>3, <2>1
  <2>6. (L + m) + 1 = L + (m + 1)
    BY <1>1, <2>1
  <2>7. UpTo(u, L + (m + 1)) = (UpTo(s, L) \o UpTo(t, m)) \o t[m + 1]
    BY <2>2, <2>4, <2>5, <2>6
  <2>8. UpTo(s, L) \in Seq(T)
    BY <1>3
  <2>9. (UpTo(s, L) \o UpTo(t, m)) \o t[m + 1] = UpTo(s, L) \o (UpTo(t, m) \o t[m + 1])
    <3> DEFINE x == UpTo(s, L)
               y == UpTo(t, m)
               z == t[m + 1]
    <3>1. x \in Seq(T) /\ y \in Seq(T) /\ z \in Seq(T)
      BY <2>3, <2>4, <2>8
    <3>2. \A a, b, c \in Seq(T) : (a \o b) \o c = a \o (b \o c)
      BY Concats
    <3> HIDE DEF x, y, z
    <3>3. (x \o y) \o z = x \o (y \o z)
      BY <3>1, <3>2, Zenon
    <3>4. QED BY <3>3 DEF x, y, z
  <2>10. QED BY <2>3, <2>7, <2>9
<1>7. N = Nat
  <2> HIDE DEF N
  <2>1. N \subseteq Nat
    BY DEF N
  <2>2. QED BY <1>5, <1>6, <2>1, SetInduction
<1>8. UpTo(u, L + M) = UpTo(s, L) \o UpTo(t, M)
  <2>1. \A m \in Nat : m <= M => UpTo(u, L + m) = UpTo(s, L) \o UpTo(t, m)
    BY <1>7
  <2>2. QED BY <1>1, <2>1
<1>9. FlattenSeq(u) = UpTo(u, L + M) /\ FlattenSeq(s) = UpTo(s, L) /\ FlattenSeq(t) = UpTo(t, M)
  <2>1. FlattenSeq(u) = UpTo(u, Len(u))
    BY <1>2, <1>3
  <2>2. FlattenSeq(s) = UpTo(s, Len(s)) /\ FlattenSeq(t) = UpTo(t, Len(t))
    BY <1>3
  <2>3. QED BY <1>2, <2>1, <2>2
<1>10. FlattenSeq(s) \in Seq(T)
  BY <1>3
<1>11. QED BY <1>8, <1>9, <1>10 DEF u

\* f[n] is the payload after the first n items of s.
Runs(f, w, p, s, n) ==
    f = [i \in 0 .. n |-> IF i = 0 THEN p ELSE WireStep(w, f[i - 1], s[i])]

LEMMA RunExists ==
    ASSUME NEW w, NEW p, NEW s, NEW n \in Nat
    PROVE  \E f : Runs(f, w, p, s, n)
<1> DEFINE N == {m \in Nat : \E f : Runs(f, w, p, s, m)}
<1>1. 0 \in N
  <2> DEFINE f == [i \in 0 .. 0 |-> p]
  <2>1. f = [i \in 0 .. 0 |-> IF i = 0 THEN p ELSE WireStep(w, f[i - 1], s[i])]
    <3>1. \A i \in 0 .. 0 : i = 0
      OBVIOUS
    <3>2. QED BY <3>1
  <2>2. Runs(f, w, p, s, 0)
    BY <2>1 DEF Runs
  <2>3. QED BY <2>2
<1>2. ASSUME NEW m \in N PROVE m + 1 \in N
  <2>1. PICK f : Runs(f, w, p, s, m)
    OBVIOUS
  <2> DEFINE g == [i \in 0 .. m + 1 |-> IF i <= m THEN f[i] ELSE WireStep(w, f[m], s[i])]
  <2>2. m \in Nat
    OBVIOUS
  <2>3. \A i \in 0 .. m : f[i] = IF i = 0 THEN p ELSE WireStep(w, f[i - 1], s[i])
    BY <2>1, <2>2 DEF Runs
  <2>4. ASSUME NEW i \in 0 .. m + 1
        PROVE  g[i] = IF i = 0 THEN p ELSE WireStep(w, g[i - 1], s[i])
    <3>1. CASE i = 0
      BY <2>2, <2>3, <3>1
    <3>2. CASE i \in 1 .. m
      <4>1. g[i] = f[i] /\ g[i - 1] = f[i - 1] /\ i \in 0 .. m /\ i # 0
        BY <2>2, <3>2
      <4> HIDE DEF g
      <4>2. QED BY <2>3, <4>1
    <3>3. CASE i = m + 1
      <4>1. m \in 0 .. m + 1 /\ i - 1 = m /\ ~(i <= m) /\ i # 0
        BY <2>2, <3>3
      <4>2. g[i] = WireStep(w, f[m], s[i])
        BY <4>1
      <4>3. g[m] = f[m]
        BY <2>2, <4>1
      <4> HIDE DEF g
      <4>4. QED BY <4>1, <4>2, <4>3
    <3>4. QED BY <2>2, <3>1, <3>2, <3>3
  <2>5. Runs(g, w, p, s, m + 1)
    BY <2>4 DEF Runs
  <2>6. QED BY <2>2, <2>5
<1>3. N = Nat
  <2> HIDE DEF N
  <2>1. N \subseteq Nat
    BY DEF N
  <2>2. QED BY <1>1, <1>2, <2>1, SetInduction
<1>4. QED BY <1>3

\* The run that Written chooses.
Run(w, p, s) == CHOOSE f : Runs(f, w, p, s, Len(s))

\* One item more is one step more.
LEMMA OneMoreItem ==
    ASSUME NEW w, NEW p, NEW T, NEW s \in Seq(T), NEW x \in T
    PROVE  /\ Written(w, p, <<>>) = p
           /\ Written(w, p, Append(s, x)) = WireStep(w, Written(w, p, s), x)
<1>1. ASSUME NEW v, Len(v) \in Nat
      PROVE  /\ Written(w, p, v) = Run(w, p, v)[Len(v)]
             /\ \A i \in 0 .. Len(v) :
                   Run(w, p, v)[i] = IF i = 0 THEN p ELSE WireStep(w, Run(w, p, v)[i - 1], v[i])
  <2>1. Written(w, p, v) = Run(w, p, v)[Len(v)]
    BY DEF Written, Run, Runs
  <2>2. Runs(Run(w, p, v), w, p, v, Len(v))
    BY <1>1, RunExists DEF Run
  <2>3. PICK f : f = Run(w, p, v)
    OBVIOUS
  <2>4. \A i \in 0 .. Len(v) : f[i] = IF i = 0 THEN p ELSE WireStep(w, f[i - 1], v[i])
    BY <2>2, <2>3 DEF Runs
  <2>5. QED BY <2>1, <2>3, <2>4
<1>2. Written(w, p, <<>>) = p
  <2>1. Len(<<>>) = 0 /\ 0 \in 0 .. 0
    OBVIOUS
  <2>2. Run(w, p, <<>>)[0] = p
    BY <1>1, <2>1
  <2>3. QED BY <1>1, <2>1, <2>2
<1> DEFINE u == Append(s, x)
           L == Len(s)
<1>3. Len(u) = L + 1 /\ u[L + 1] = x /\ (\A i \in 1 .. L : u[i] = s[i]) /\ L \in Nat
  BY AppendProperties, LenProperties
<1> HIDE DEF u, L
<1> DEFINE f == Run(w, p, s)
           g == Run(w, p, u)
<1>4. /\ Written(w, p, s) = f[L]
      /\ \A i \in 0 .. L : f[i] = IF i = 0 THEN p ELSE WireStep(w, f[i - 1], s[i])
  BY <1>1, <1>3 DEF L
<1>5. /\ Written(w, p, u) = g[L + 1]
      /\ \A i \in 0 .. L + 1 : g[i] = IF i = 0 THEN p ELSE WireStep(w, g[i - 1], u[i])
  <2>1. Len(u) \in Nat
    BY <1>3
  <2>2. /\ Written(w, p, u) = g[Len(u)]
        /\ \A i \in 0 .. Len(u) : g[i] = IF i = 0 THEN p ELSE WireStep(w, g[i - 1], u[i])
    BY <1>1, <2>1
  <2>3. QED BY <1>3, <2>2
<1> HIDE DEF f, g
<1> DEFINE N == {i \in Nat : i <= L => f[i] = g[i]}
<1>6. 0 \in N
  BY <1>3, <1>4, <1>5
<1>7. ASSUME NEW i \in N PROVE i + 1 \in N
  <2> SUFFICES ASSUME i + 1 <= L PROVE f[i + 1] = g[i + 1]
    OBVIOUS
  <2>1. /\ i + 1 \in 0 .. L /\ i + 1 \in 0 .. L + 1 /\ i + 1 # 0 /\ (i + 1) - 1 = i
        /\ i + 1 \in 1 .. L /\ f[i] = g[i]
    BY <1>3
  <2>2. s[i + 1] = u[i + 1]
    BY <1>3, <2>1
  <2>3. PICK j : j = i + 1
    OBVIOUS
  <2>4. f[j] = WireStep(w, f[j - 1], s[j]) /\ g[j] = WireStep(w, g[j - 1], u[j])
    BY <1>4, <1>5, <2>1, <2>3
  <2>5. QED BY <2>1, <2>2, <2>3, <2>4
<1>8. N = Nat
  <2> HIDE DEF N
  <2>1. N \subseteq Nat
    BY DEF N
  <2>2. QED BY <1>6, <1>7, <2>1, SetInduction
<1>9. f[L] = g[L]
  <2>1. \A i \in Nat : i <= L => f[i] = g[i]
    BY <1>8
  <2>2. QED BY <1>3, <2>1
<1>10. g[L + 1] = WireStep(w, g[L], x)
  <2>1. L + 1 \in 0 .. L + 1 /\ L + 1 # 0 /\ (L + 1) - 1 = L
    BY <1>3
  <2>2. PICK j : j = L + 1
    OBVIOUS
  <2>3. g[j] = WireStep(w, g[j - 1], u[j])
    BY <1>5, <2>1, <2>2
  <2>4. QED BY <1>3, <2>1, <2>2, <2>3
<1>11. QED BY <1>2, <1>4, <1>5, <1>9, <1>10 DEF u

-----------------------------------------------------------------------------
(* What an encoder keeps.                                                  *)

\* Payloads whose parts are all of a set G.
Roles == {"system", "user", "model"}
Messages(G) == [role : Roles, parts : Seq(G)]
Payloads(G) ==
    [system : Seq(Int), out : Seq(Messages(G)), model : Seq(G), user : Seq(G),
     custom : SUBSET CallIds, named : SUBSET CallIds]

\* What an encoder may say of an item is in G.
Answered(id) == {<<"answer", id>>, <<"custom_answer", id>>, <<"unknown_answer", id>>}
Sayable(y, G) ==
    /\ y.n \in Int /\ y.k \in Kinds
    /\ y.k = "system" => <<"system", y.n>> \in G
    /\ y.k = "user" => UserContent(y) \in Seq(G) /\ TextContent(y) \in Seq(G)
    /\ y.k = "reasoning" => <<"think", y.n>> \in G
    /\ y.k = "hosted" => <<"hosted", y.n>> \in G /\ <<"summary", y.n>> \in G
    /\ y.k = "result" => Answered(y.calls[1]) \subseteq G
    /\ y.k = "assistant" =>
          /\ y.parts \in Seq(G) /\ CallsOf(y) \in Seq(G) /\ SignedCallsOf(y) \in Seq(G)
          /\ Len(y.calls) \in Nat
          /\ \A c \in 1 .. Len(y.calls) : <<CallTag(y.calls[c]), y.calls[c].id>> \in G
          /\ y.think # "none" => <<"think", y.n>> \in G

LEMMA SayTyped ==
    ASSUME NEW G, NEW st \in Payloads(G), NEW parts \in Seq(G), NEW role \in Roles
    PROVE  /\ Message(role, parts) \in Messages(G)
           /\ Say(st, role, parts) \in Payloads(G)
           /\ Say(st, role, parts) = [st EXCEPT !.out = Append(@, Message(role, parts))]
           /\ Pend(st, parts) \in Payloads(G)
           /\ Pend(st, parts) = [st EXCEPT !.model = @ \o parts]
<1>1. Message(role, parts) \in Messages(G)
  BY DEF Message, Messages
<1>2. st.out \in Seq(Messages(G)) /\ st.model \in Seq(G)
  BY DEF Payloads
<1> DEFINE m == Message(role, parts)
           o == Append(st.out, m)
           v == st.model \o parts
<1>3. o \in Seq(Messages(G)) /\ v \in Seq(G)
  <2> HIDE DEF m
  <2>1. QED BY <1>1, <1>2, AppendProperties, Concats DEF m
<1>4. /\ Say(st, role, parts) = [st EXCEPT !.out = o]
      /\ Pend(st, parts) = [st EXCEPT !.model = v]
  BY DEF Say, Pend
<1> HIDE DEF o, v, m
<1>5. Say(st, role, parts) \in Payloads(G) /\ Pend(st, parts) \in Payloads(G)
  BY <1>3, <1>4 DEF Payloads
<1>6. QED BY <1>1, <1>5 DEF Say, Pend

LEMMA FlushTyped ==
    ASSUME NEW G, NEW st \in Payloads(G)
    PROVE  /\ FlushModel(st) \in Payloads(G) /\ FlushModel(st).model = <<>>
           /\ FlushModel(st) = IF st.model = <<>> THEN st
                               ELSE [Say(st, "model", st.model) EXCEPT !.model = <<>>]
           /\ FlushUser(st) \in Payloads(G) /\ FlushUser(st).user = <<>>
           /\ FlushUser(st) = IF st.user = <<>> THEN st
                              ELSE [Say(st, "user", st.user) EXCEPT !.user = <<>>]
           /\ FlushAll(st) \in Payloads(G)
<1>1. ASSUME NEW s \in Payloads(G)
      PROVE  /\ FlushModel(s) \in Payloads(G) /\ FlushModel(s).model = <<>>
             /\ FlushModel(s) = IF s.model = <<>> THEN s
                                ELSE [Say(s, "model", s.model) EXCEPT !.model = <<>>]
             /\ FlushUser(s) \in Payloads(G) /\ FlushUser(s).user = <<>>
             /\ FlushUser(s) = IF s.user = <<>> THEN s
                               ELSE [Say(s, "user", s.user) EXCEPT !.user = <<>>]
  <2>1. s.model \in Seq(G) /\ s.user \in Seq(G) /\ <<>> \in Seq(G)
    BY DEF Payloads
  <2>2. /\ Say(s, "model", s.model) \in Payloads(G)
        /\ Say(s, "user", s.user) \in Payloads(G)
    BY <2>1, SayTyped DEF Roles
  <2>3. /\ FlushModel(s) = IF s.model = <<>> THEN s
                           ELSE [Say(s, "model", s.model) EXCEPT !.model = <<>>]
        /\ FlushUser(s) = IF s.user = <<>> THEN s
                          ELSE [Say(s, "user", s.user) EXCEPT !.user = <<>>]
    BY DEF FlushModel, FlushUser, Say, Payloads
  <2> DEFINE x == Say(s, "model", s.model)
             y == Say(s, "user", s.user)
  <2> HIDE DEF x, y
  <2>4. x \in Payloads(G) /\ y \in Payloads(G)
    BY <2>2 DEF x, y
  <2>5. /\ [x EXCEPT !.model = <<>>] \in Payloads(G)
        /\ [x EXCEPT !.model = <<>>].model = <<>>
        /\ [y EXCEPT !.user = <<>>] \in Payloads(G)
        /\ [y EXCEPT !.user = <<>>].user = <<>>
    BY <2>1, <2>4 DEF Payloads
  <2>6. /\ FlushModel(s) = IF s.model = <<>> THEN s ELSE [x EXCEPT !.model = <<>>]
        /\ FlushUser(s) = IF s.user = <<>> THEN s ELSE [y EXCEPT !.user = <<>>]
    BY <2>3 DEF x, y
  <2>7. QED BY <2>3, <2>5, <2>6
<1>2. FlushAll(st) \in Payloads(G)
  BY <1>1 DEF FlushAll
<1>3. QED BY <1>1, <1>2

LEMMA NoteTyped ==
    ASSUME NEW G, NEW st \in Payloads(G)
    PROVE  /\ \A y : y.n \in Int => Apart(st, y) \in Payloads(G)
           /\ \A p \in G : [st EXCEPT !.user = Append(@, p)] \in Payloads(G)
           /\ [st EXCEPT !.model = <<>>] \in Payloads(G)
<1>1. st.system \in Seq(Int) /\ st.user \in Seq(G) /\ <<>> \in Seq(G)
  BY DEF Payloads
<1>2. ASSUME NEW y, y.n \in Int PROVE Apart(st, y) \in Payloads(G)
  <2>1. Append(st.system, y.n) \in Seq(Int)
    BY <1>1, <1>2, AppendProperties
  <2>2. QED BY <2>1 DEF Apart, Payloads
<1>3. ASSUME NEW p \in G PROVE [st EXCEPT !.user = Append(@, p)] \in Payloads(G)
  <2>1. Append(st.user, p) \in Seq(G)
    BY <1>1, AppendProperties
  <2>2. QED BY <2>1 DEF Payloads
<1>4. [st EXCEPT !.model = <<>>] \in Payloads(G)
  BY <1>1 DEF Payloads
<1>5. QED BY <1>2, <1>3, <1>4

\* A step writes what may be said of its item, and nothing else.
LEMMA StepTyped ==
    ASSUME NEW G, NEW st \in Payloads(G), NEW y, Sayable(y, G), NEW w
    PROVE  WireStep(w, st, y) \in Payloads(G)
<1>1. y.n \in Int /\ y.k \in Kinds
  BY DEF Sayable
<1>2. \A s \in Payloads(G) : \A parts \in Seq(G) :
         /\ Say(s, "model", parts) \in Payloads(G) /\ Say(s, "user", parts) \in Payloads(G)
         /\ Say(s, "system", parts) \in Payloads(G) /\ Pend(s, parts) \in Payloads(G)
  BY SayTyped DEF Roles
<1>3. \A s \in Payloads(G) : /\ FlushModel(s) \in Payloads(G) /\ FlushUser(s) \in Payloads(G)
                             /\ FlushAll(s) \in Payloads(G)
  BY FlushTyped
<1>4. \A s \in Payloads(G) : /\ Apart(s, y) \in Payloads(G)
                             /\ \A p \in G : [s EXCEPT !.user = Append(@, p)] \in Payloads(G)
                             /\ [s EXCEPT !.model = <<>>] \in Payloads(G)
  BY <1>1, NoteTyped
<1>5. \A p \in G : <<p>> \in Seq(G)
  OBVIOUS
<1>6. \A u, v \in Seq(G) : u \o v \in Seq(G)
  BY Concats
<1>17. <<>> \in Seq(G)
  OBVIOUS
<1>7. CASE y.k = "system"
  <2>1. <<<<"system", y.n>>>> \in Seq(G)
    BY <1>5, <1>7 DEF Sayable
  <2>2. /\ ResponsesStep(st, y) = Apart(st, y) /\ MessagesStep(st, y) = Apart(FlushAll(st), y)
        /\ GeminiStep(st, y) = Apart(st, y)
        /\ ChatStep(st, y) = Say(FlushModel(st), "system", <<<<"system", y.n>>>>)
    BY <1>7 DEF ResponsesStep, MessagesStep, GeminiStep, ChatStep
  <2>3. Apart(st, y) \in Payloads(G) /\ Apart(FlushAll(st), y) \in Payloads(G)
    BY <1>3, <1>4
  <2>4. Say(FlushModel(st), "system", <<<<"system", y.n>>>>) \in Payloads(G)
    BY <1>2, <1>3, <2>1
  <2>5. QED BY <2>2, <2>3, <2>4 DEF WireStep
<1>8. CASE y.k = "user"
  <2>1. UserContent(y) \in Seq(G) /\ ChatUser(y) \in Seq(G)
    BY <1>8 DEF Sayable, ChatUser
  <2>2. /\ ResponsesStep(st, y) = Say(st, "user", UserContent(y))
        /\ MessagesStep(st, y) = Say(FlushAll(st), "user", UserContent(y))
        /\ GeminiStep(st, y) = Say(FlushAll(st), "user", UserContent(y))
        /\ ChatStep(st, y) = Say(FlushModel(st), "user", ChatUser(y))
    BY <1>8 DEF ResponsesStep, MessagesStep, GeminiStep, ChatStep
  <2>3. QED BY <1>2, <1>3, <2>1, <2>2 DEF WireStep
<1>9. CASE y.k = "reasoning"
  <2>1. <<<<"think", y.n>>>> \in Seq(G)
    BY <1>5, <1>9 DEF Sayable
  <2>2. /\ ResponsesStep(st, y) = Say(st, "model", <<<<"think", y.n>>>>)
        /\ MessagesStep(st, y) = Pend(FlushUser(st), <<<<"think", y.n>>>>)
        /\ GeminiStep(st, y) = st /\ ChatStep(st, y) = st
    BY <1>9 DEF ResponsesStep, MessagesStep, GeminiStep, ChatStep
  <2>3. QED BY <1>2, <1>3, <2>1, <2>2 DEF WireStep
<1>10. CASE y.k = "hosted"
  <2>1. <<<<"hosted", y.n>>>> \in Seq(G) /\ <<<<"summary", y.n>>>> \in Seq(G)
    BY <1>5, <1>10 DEF Sayable
  <2>2. /\ ResponsesStep(st, y) = Say(st, "model", <<<<"hosted", y.n>>>>)
        /\ MessagesStep(st, y) = Pend(FlushUser(st), <<<<"summary", y.n>>>>)
        /\ GeminiStep(st, y) = Pend(FlushUser(st), <<<<"summary", y.n>>>>)
        /\ ChatStep(st, y) = Pend(st, <<<<"summary", y.n>>>>)
    BY <1>10 DEF ResponsesStep, MessagesStep, GeminiStep, ChatStep
  <2>3. QED BY <1>2, <1>3, <2>1, <2>2 DEF WireStep
<1>11. CASE y.k = "result"
  <2> DEFINE id == y.calls[1]
             rp == <<IF id \in st.custom THEN "custom_answer" ELSE "answer", id>>
             gp == <<IF id \in st.named THEN "answer" ELSE "unknown_answer", id>>
  <2>1. rp \in G /\ gp \in G /\ <<"answer", id>> \in G
    BY <1>11 DEF Sayable, Answered
  <2>2. ResponsesStep(st, y) = Say(st, "user", <<rp>>)
    BY <1>11 DEF ResponsesStep
  <2>3. GeminiStep(st, y) = [FlushModel(st) EXCEPT !.user = Append(@, gp)]
    BY <1>11 DEF GeminiStep
  <2>4. MessagesStep(st, y) = [FlushModel(st) EXCEPT !.user = Append(@, <<"answer", id>>)]
    BY <1>11 DEF MessagesStep
  <2>5. ChatStep(st, y) = Say(FlushModel(st), "user", <<<<"answer", id>>>>)
    BY <1>11 DEF ChatStep
  <2> HIDE DEF rp, gp, id
  <2>6. <<rp>> \in Seq(G) /\ <<<<"answer", id>>>> \in Seq(G)
    BY <1>5, <2>1
  <2>7. FlushModel(st) \in Payloads(G)
    BY <1>3
  <2>8. GeminiStep(st, y) \in Payloads(G) /\ MessagesStep(st, y) \in Payloads(G)
    BY <1>4, <2>1, <2>3, <2>4, <2>7
  <2>9. ResponsesStep(st, y) \in Payloads(G) /\ ChatStep(st, y) \in Payloads(G)
    BY <1>2, <2>2, <2>5, <2>6, <2>7
  <2>10. QED BY <2>8, <2>9 DEF WireStep
<1>12. CASE y.k = "assistant"
  <2>1. /\ y.parts \in Seq(G) /\ CallsOf(y) \in Seq(G) /\ SignedCallsOf(y) \in Seq(G)
        /\ Len(y.calls) \in Nat
        /\ \A c \in 1 .. Len(y.calls) : <<CallTag(y.calls[c]), y.calls[c].id>> \in G
        /\ y.think # "none" => <<<<"think", y.n>>>> \in Seq(G)
    BY <1>5, <1>12 DEF Sayable
  <2>2. ResponsesStep(st, y) \in Payloads(G)
    <3> DEFINE said == IF y.parts = <<>> THEN st ELSE Say(st, "model", y.parts)
               more == [i \in 1 .. Len(y.calls) |->
                          Message("model", <<<<CallTag(y.calls[i]), y.calls[i].id>>>>)]
    <3>1. said \in Payloads(G)
      BY <1>2, <2>1
    <3>2. \A i \in 1 .. Len(y.calls) :
             Message("model", <<<<CallTag(y.calls[i]), y.calls[i].id>>>>) \in Messages(G)
      BY <1>5, <2>1 DEF Message, Messages, Roles
    <3>3. more \in Seq(Messages(G))
      BY <2>1, <3>2
    <3>4. ResponsesStep(st, y) = [said EXCEPT !.out = @ \o more]
      BY <1>12 DEF ResponsesStep
    <3> HIDE DEF said, more
    <3>5. said.out \o more \in Seq(Messages(G))
      <4>1. said.out \in Seq(Messages(G))
        BY <3>1 DEF Payloads
      <4>2. QED BY <3>3, <4>1, Concats
    <3>6. QED BY <3>1, <3>4, <3>5 DEF Payloads
  <2>3. MessagesStep(st, y) \in Payloads(G)
    <3> DEFINE hasThinking == \E i \in 1 .. Len(FlushUser(st).model) :
                                 st.model[i][1] = "think"
               own == IF y.think # "none" /\ ~(\E i \in 1 .. Len(st.model) :
                                                  st.model[i][1] = "think")
                      THEN <<<<"think", y.n>>>> ELSE <<>>
    <3>1. own \in Seq(G)
      BY <1>17, <2>1
    <3>2. MessagesStep(st, y) = FlushModel(Pend(FlushUser(st), own \o y.parts \o CallsOf(y)))
      BY <1>12 DEF MessagesStep, MessagesAssistant
    <3> HIDE DEF own
    <3>3. own \o y.parts \o CallsOf(y) \in Seq(G)
      BY <1>6, <2>1, <3>1
    <3>4. QED BY <1>2, <1>3, <3>2, <3>3
  <2>4. GeminiStep(st, y) \in Payloads(G)
    <3>1. GeminiStep(st, y) = FlushModel(Pend(FlushUser(st), y.parts \o SignedCallsOf(y)))
      BY <1>12 DEF GeminiStep
    <3>2. y.parts \o SignedCallsOf(y) \in Seq(G)
      BY <1>6, <2>1
    <3>3. QED BY <1>2, <1>3, <3>1, <3>2
  <2>5. ChatStep(st, y) \in Payloads(G)
    <3> DEFINE own == IF y.think = "text" THEN <<<<"think", y.n>>>> ELSE <<>>
               empty == [st EXCEPT !.model = <<>>]
    <3>1. own \in Seq(G) /\ empty \in Payloads(G) /\ st.model \in Seq(G)
      BY <1>4, <1>17, <2>1 DEF Payloads
    <3>2. ChatStep(st, y) = Say(empty, "model", own \o st.model \o y.parts \o CallsOf(y))
      BY <1>12 DEF ChatStep
    <3> HIDE DEF own, empty
    <3>3. own \o st.model \o y.parts \o CallsOf(y) \in Seq(G)
      BY <1>6, <2>1, <3>1
    <3>4. QED BY <1>2, <3>1, <3>2, <3>3
  <2>6. QED BY <2>2, <2>3, <2>4, <2>5 DEF WireStep
<1>13. QED BY <1>1, <1>7, <1>8, <1>9, <1>10, <1>11, <1>12 DEF Kinds

\* The payload of any sequence of items that may be said.
LEMMA WrittenTyped ==
    ASSUME NEW G, NEW p \in Payloads(G), NEW T, \A y \in T : Sayable(y, G), NEW s \in Seq(T),
           NEW w
    PROVE  Written(w, p, s) \in Payloads(G)
<1> DEFINE N == {n \in Nat : \A v \in Seq(T) : Len(v) = n => Written(w, p, v) \in Payloads(G)}
<1>1. 0 \in N
  <2>1. ASSUME NEW v \in Seq(T), Len(v) = 0 PROVE Written(w, p, v) \in Payloads(G)
    <3>1. v = <<>>
      BY <2>1, EmptySeq
    <3>2. CASE T = {}
      <4>1. <<>> \in Seq({1}) /\ 1 \in {1}
        OBVIOUS
      <4>2. Written(w, p, <<>>) = p
        BY <4>1, OneMoreItem
      <4>3. QED BY <3>1, <4>2
    <3>3. CASE T # {}
      <4>1. PICK x : x \in T
        BY <3>3
      <4>2. Written(w, p, <<>>) = p
        BY <3>1, <4>1, OneMoreItem
      <4>3. QED BY <3>1, <4>2
    <3>4. QED BY <3>2, <3>3
  <2>2. QED BY <2>1
<1>2. ASSUME NEW n \in N PROVE n + 1 \in N
  <2> SUFFICES ASSUME NEW v \in Seq(T), Len(v) = n + 1 PROVE Written(w, p, v) \in Payloads(G)
    OBVIOUS
  <2>1. n \in Nat /\ \A u \in Seq(T) : Len(u) = n => Written(w, p, u) \in Payloads(G)
    OBVIOUS
  <2> DEFINE u == SubSeq(v, 1, n)
             x == v[n + 1]
  <2>2. u \in Seq(T) /\ Len(u) = n /\ x \in T /\ \A i \in 1 .. n : u[i] = v[i]
    <3>1. \A i \in 1 .. n : v[i] \in T
      BY <2>1, ElementOfSeq
    <3>2. u \in Seq(T) /\ Len(u) = n /\ \A i \in 1 .. n - 1 + 1 : u[i] = v[1 + i - 1]
      BY <2>1, <3>1, SubSeqProperties
    <3>3. n + 1 \in 1 .. Len(v)
      BY <2>1
    <3>4. x \in T
      BY <3>3, ElementOfSeq
    <3> HIDE DEF u, x
    <3>5. \A i \in 1 .. n : i \in 1 .. n - 1 + 1 /\ 1 + i - 1 = i
      BY <2>1
    <3>6. QED BY <3>2, <3>4, <3>5
  <2>3. v = Append(u, x)
    <3>1. x = v[n + 1]
      OBVIOUS
    <3> HIDE DEF u, x
    <3>2. /\ Append(u, x) \in Seq(T) /\ Len(Append(u, x)) = n + 1
          /\ \A i \in 1 .. n : Append(u, x)[i] = u[i]
          /\ Append(u, x)[n + 1] = x
      BY <2>2, AppendProperties
    <3> DEFINE z == Append(u, x)
    <3> HIDE DEF z
    <3>3. /\ z \in Seq(T) /\ Len(z) = n + 1
          /\ \A i \in 1 .. n : z[i] = v[i]
          /\ z[n + 1] = v[n + 1]
      BY <2>2, <3>1, <3>2 DEF z
    <3>4. \A i \in 1 .. n + 1 : z[i] = v[i]
      BY <2>1, <3>3
    <3>5. z = v
      BY <3>3, <3>4, SeqEqual
    <3>6. QED BY <3>5 DEF z
  <2> HIDE DEF u, x
  <2>4. Written(w, p, v) = WireStep(w, Written(w, p, u), x)
    BY <2>2, <2>3, OneMoreItem
  <2>5. Written(w, p, u) \in Payloads(G)
    BY <2>1, <2>2
  <2>6. QED BY <2>2, <2>4, <2>5, StepTyped
<1>3. N = Nat
  <2> HIDE DEF N
  <2>1. N \subseteq Nat
    BY DEF N
  <2>2. QED BY <1>1, <1>2, <2>1, SetInduction
<1>4. \A n \in Nat : \A v \in Seq(T) : Len(v) = n => Written(w, p, v) \in Payloads(G)
  BY <1>3
<1>5. Len(s) \in Nat
  BY LenProperties
<1>6. QED BY <1>4, <1>5

-----------------------------------------------------------------------------
(* What a slot's request is made from.                                     *)

\* The history behind the engine's own prompt.
Prompt(h) == <<SystemItem(0)>> \o h

LEMMA PromptIs ==
    ASSUME NEW h, NEW b, History(h, b, FALSE)
    PROVE  /\ History(Prompt(h), b, FALSE)
           /\ Len(Prompt(h)) = Len(h) + 1 /\ Prompt(h)[1] = SystemItem(0)
           /\ \A j \in 1 .. Len(h) : Prompt(h)[j + 1] = h[j]
           /\ \A i \in 1 .. Len(Prompt(h)) : i = 1 \/ i - 1 \in 1 .. Len(h)
<1> DEFINE x == SystemItem(0)
           g == <<x>>
           s == g \o h
           L == Len(h)
<1>1. h \in Seq(Items) /\ Grouped(h) /\ Numbered(h, b) /\ Paired(h, FALSE) /\ L \in Nat
  <2>1. h \in Seq(Items) /\ Grouped(h) /\ Numbered(h, b) /\ Paired(h, FALSE)
    BY DEF History
  <2>2. QED BY <2>1, LenProperties
<1>2. x \in Items /\ x.k = "system"
  <2>1. x \in SystemItems
    BY DEF SystemItem, Item, SystemItems, Made
  <2>2. x.k = "system"
    BY DEF SystemItem, Item
  <2>3. QED BY <2>1, <2>2 DEF Items
<1> HIDE DEF x
<1>3. g \in Seq(Items) /\ Len(g) = 1 /\ g[1] = x
  BY <1>2
<1> HIDE DEF g
<1>4. /\ s \in Seq(Items) /\ Len(s) = 1 + L
      /\ \A i \in 1 .. 1 : s[i] = g[i]
      /\ \A j \in 1 .. L : s[1 + j] = h[j]
  <2>1. /\ g \o h \in Seq(Items) /\ Len(g \o h) = Len(g) + Len(h)
        /\ \A i \in 1 .. Len(g) : (g \o h)[i] = g[i]
        /\ \A j \in 1 .. Len(h) : (g \o h)[Len(g) + j] = h[j]
    BY <1>1, <1>3, Followed
  <2> HIDE DEF s, L
  <2>2. QED BY <1>3, <2>1, Zenon DEF s, L
<1> HIDE DEF s, L
<1>5. s[1] = x
  BY <1>3, <1>4
<1>6. ASSUME NEW j \in 1 .. L PROVE s[j + 1] = h[j]
  <2>1. 1 + j = j + 1
    BY <1>1
  <2>2. s[1 + j] = h[j]
    BY <1>4
  <2>3. QED BY <2>1, <2>2
<1>7. \A i \in 1 .. Len(s) : i = 1 \/ (i - 1 \in 1 .. L /\ s[i] = h[i - 1])
  <2> SUFFICES ASSUME NEW i \in 1 .. Len(s), i # 1
               PROVE  i - 1 \in 1 .. L /\ s[i] = h[i - 1]
    OBVIOUS
  <2>1. i - 1 \in 1 .. L /\ (i - 1) + 1 = i
    BY <1>1, <1>4
  <2>2. QED BY <1>6, <2>1
<1>8. Grouped(s)
  <2> SUFFICES ASSUME NEW i \in 1 .. Len(s)
               PROVE  /\ s[i].k = "reasoning" => /\ i < Len(s)
                                                 /\ s[i + 1].k \in {"hosted", "assistant"}
                                                 /\ s[i + 1].n = s[i].n
                      /\ s[i].k = "hosted" => /\ i < Len(s)
                                              /\ s[i + 1].k = "assistant"
                                              /\ s[i + 1].n = s[i].n
    BY DEF Grouped
  <2>1. CASE i = 1
    BY <1>2, <1>5, <2>1
  <2>2. CASE i # 1
    <3>1. i - 1 \in 1 .. L /\ s[i] = h[i - 1]
      BY <1>7, <2>2
    <3>2. PICK j : j = i - 1
      OBVIOUS
    <3>3. j \in 1 .. L /\ i = j + 1 /\ s[i] = h[j]
      BY <1>1, <3>1, <3>2
    <3>4. /\ h[j].k = "reasoning" => j < L /\ h[j + 1].k \in {"hosted", "assistant"}
                                           /\ h[j + 1].n = h[j].n
          /\ h[j].k = "hosted" => j < L /\ h[j + 1].k = "assistant" /\ h[j + 1].n = h[j].n
      BY <1>1, <3>3 DEF Grouped, L
    <3>5. j < L => s[i + 1] = h[j + 1] /\ i < Len(s)
      <4>1. j < L => j + 1 \in 1 .. L /\ (j + 1) + 1 = i + 1 /\ i < Len(s)
        BY <1>1, <1>4, <3>3
      <4>2. QED BY <1>6, <4>1
    <3>6. QED BY <3>3, <3>4, <3>5
  <2>3. QED BY <2>1, <2>2
<1>9. \A i \in 1 .. Len(s) : s[i].k # "system" => i - 1 \in 1 .. L /\ s[i] = h[i - 1]
  BY <1>2, <1>5, <1>7
<1>10. Numbered(s, b)
  <2>1. ASSUME NEW i \in 1 .. Len(s), NEW j \in 1 .. Len(s), s[i].k = "assistant",
               s[j].k = "assistant", s[i].n = s[j].n
        PROVE  i = j
    <3>1. i - 1 \in 1 .. L /\ s[i] = h[i - 1] /\ j - 1 \in 1 .. L /\ s[j] = h[j - 1]
      BY <1>9, <2>1
    <3>2. i - 1 = j - 1
      BY <1>1, <2>1, <3>1 DEF Numbered, L
    <3>3. QED BY <3>2
  <2>2. ASSUME NEW i \in 1 .. Len(s), s[i].k = "assistant"
        PROVE  /\ s[i].n <= b
               /\ \A c \in 1 .. Len(s[i].calls) : s[i].calls[c].id[1] = s[i].n
               /\ \A c, d \in 1 .. Len(s[i].calls) :
                     s[i].calls[c].id = s[i].calls[d].id => c = d
    <3>1. i - 1 \in 1 .. L /\ s[i] = h[i - 1]
      BY <1>9, <2>2
    <3>2. PICK j : j = i - 1
      OBVIOUS
    <3>3. j \in 1 .. Len(h) /\ h[j].k = "assistant" /\ s[i] = h[j]
      BY <2>2, <3>1, <3>2 DEF L
    <3>4. /\ h[j].n <= b
          /\ \A c \in 1 .. Len(h[j].calls) : h[j].calls[c].id[1] = h[j].n
          /\ \A c, d \in 1 .. Len(h[j].calls) :
                h[j].calls[c].id = h[j].calls[d].id => c = d
      BY <1>1, <3>3 DEF Numbered
    <3>5. QED BY <3>3, <3>4
  <2>3. QED BY <2>1, <2>2 DEF Numbered
<1>11. Paired(s, FALSE)
  <2>1. ASSUME NEW i \in 1 .. Len(s), s[i].k = "assistant" PROVE AnsweredAt(s, i)
    <3>1. i - 1 \in 1 .. L /\ s[i] = h[i - 1]
      BY <1>9, <2>1
    <3>2. PICK j : j = i - 1
      OBVIOUS
    <3>3. j \in 1 .. L /\ h[j].k = "assistant" /\ s[i] = h[j] /\ i = j + 1
      BY <1>1, <2>1, <3>1, <3>2
    <3>4. AnsweredAt(h, j)
      BY <1>1, <3>3 DEF Paired, L
    <3>5. Len(h[j].calls) \in Nat
      <4>1. h[j] \in Items
        BY <1>1, <3>3, ElementOfSeq DEF L
      <4>2. h[j].calls \in Seq(Calls)
        BY <3>3, <4>1, ItemFields
      <4>3. QED BY <4>2, LenProperties
    <3>6. ASSUME NEW c \in 1 .. Len(h[j].calls)
          PROVE  s[i + c].k = "result" /\ s[i + c].calls = <<h[j].calls[c].id>>
      <4>1. j + c \in 1 .. L /\ (j + c) + 1 = i + c
        BY <1>1, <3>3, <3>4, <3>5 DEF AnsweredAt, L
      <4>2. s[i + c] = h[j + c]
        BY <1>6, <4>1
      <4>3. h[j + c].k = "result" /\ h[j + c].calls = <<h[j].calls[c].id>>
        BY <3>4 DEF AnsweredAt
      <4>4. QED BY <4>2, <4>3
    <3>7. i + Len(h[j].calls) <= Len(s)
      <4>1. j + Len(h[j].calls) <= L
        BY <3>4 DEF AnsweredAt, L
      <4>2. PICK m : m = Len(h[j].calls)
        OBVIOUS
      <4>3. m \in Nat /\ j + m <= L
        BY <3>5, <4>1, <4>2
      <4>4. i + m <= Len(s)
        BY <1>1, <1>4, <3>3, <4>3
      <4>5. QED BY <4>2, <4>4
    <3>8. QED BY <3>3, <3>6, <3>7 DEF AnsweredAt
  <2>2. ASSUME NEW j \in 1 .. Len(s), s[j].k = "result"
        PROVE  \E i \in 1 .. j - 1 : s[i].k = "assistant" /\ j - i <= Len(s[i].calls)
    <3>1. j - 1 \in 1 .. L /\ s[j] = h[j - 1]
      BY <1>9, <2>2
    <3>2. PICK m : m = j - 1
      OBVIOUS
    <3>3. m \in 1 .. L /\ h[m].k = "result" /\ j = m + 1
      BY <1>1, <2>2, <3>1, <3>2
    <3>4. PICK i \in 1 .. m - 1 : h[i].k = "assistant" /\ m - i <= Len(h[i].calls)
      BY <1>1, <3>3 DEF Paired, L
    <3>5. i + 1 \in 1 .. j - 1 /\ j - (i + 1) = m - i /\ i \in 1 .. L
      BY <1>1, <3>3
    <3>6. s[i + 1] = h[i]
      BY <1>6, <3>5
    <3>7. QED BY <3>4, <3>5, <3>6
  <2>3. QED BY <2>1, <2>2 DEF Paired
<1>12. History(s, b, FALSE)
  BY <1>4, <1>8, <1>10, <1>11 DEF History
<1>13. Prompt(h) = s
  BY DEF Prompt, s, g, x
<1>14. Len(s) = L + 1
  BY <1>1, <1>4
<1>15. QED BY <1>5, <1>6, <1>7, <1>12, <1>13, <1>14 DEF x, L

\* turn_groups: the assistant that reasoning and hosted calls belong to.
LEMMA GroupEnds ==
    ASSUME NEW s \in Seq(Items), Grouped(s), NEW i \in 1 .. Len(s)
    PROVE  /\ s[i].k \notin {"reasoning", "hosted"} => GroupEnd(s, i) = i
           /\ s[i].k = "hosted" => GroupEnd(s, i) = i + 1
           /\ s[i].k = "reasoning" =>
                 GroupEnd(s, i) = IF s[i + 1].k = "hosted" THEN i + 2 ELSE i + 1
           /\ s[i].k \in {"reasoning", "hosted"} =>
                 /\ GroupEnd(s, i) \in i + 1 .. Len(s)
                 /\ s[GroupEnd(s, i)].k = "assistant"
                 /\ s[GroupEnd(s, i)].n = s[i].n
<1> DEFINE L == Len(s)
           S == {j \in i .. L : s[j].k \notin {"reasoning", "hosted"}} \cup {L}
<1>1. L \in Nat
  BY LenProperties
<1> HIDE DEF L
<1>20. i \in 1 .. L
  BY DEF L
<1>2. S \in SUBSET Int /\ \A x \in S : i <= x
  BY <1>1, <1>20
<1>3. ASSUME NEW e \in i .. L, s[e].k \notin {"reasoning", "hosted"},
             \A j \in i .. e - 1 : s[j].k \in {"reasoning", "hosted"}
      PROVE  GroupEnd(s, i) = e
  <2>1. e \in S
    BY <1>3
  <2>2. \A x \in S : e <= x
    BY <1>1, <1>3, <1>20
  <2> HIDE DEF S
  <2>3. Min(S) = e
    BY <1>2, <2>1, <2>2, MinIs
  <2>4. QED BY <2>3 DEF GroupEnd, S, L
<1> HIDE DEF S
<1>4. \A j \in 1 .. L :
         /\ s[j].k = "reasoning" => j < L /\ s[j + 1].k \in {"hosted", "assistant"}
                                          /\ s[j + 1].n = s[j].n
         /\ s[j].k = "hosted" => j < L /\ s[j + 1].k = "assistant" /\ s[j + 1].n = s[j].n
  BY DEF Grouped, L
<1>5. CASE s[i].k \notin {"reasoning", "hosted"}
  <2>1. i \in i .. L /\ \A j \in i .. i - 1 : FALSE
    BY <1>1, <1>20
  <2>2. GroupEnd(s, i) = i
    BY <1>3, <1>5, <2>1
  <2>3. QED BY <1>5, <2>2
<1>6. CASE s[i].k = "hosted"
  <2>1. i + 1 \in i + 1 .. L /\ s[i + 1].k = "assistant" /\ s[i + 1].n = s[i].n
    BY <1>1, <1>4, <1>6, <1>20
  <2>2. \A j \in i .. (i + 1) - 1 : j = i
    BY <1>20
  <2>3. i + 1 \in i .. L
    BY <1>1, <1>20, <2>1
  <2>4. GroupEnd(s, i) = i + 1
    BY <1>3, <1>6, <2>1, <2>2, <2>3
  <2>5. QED BY <1>6, <2>1, <2>4 DEF L
<1>7. CASE s[i].k = "reasoning"
  <2>1. /\ i + 1 \in 1 .. L /\ i + 1 \in i .. L /\ i + 1 \in i + 1 .. L
        /\ s[i + 1].k \in {"hosted", "assistant"} /\ s[i + 1].n = s[i].n
    BY <1>1, <1>4, <1>7, <1>20
  <2>2. CASE s[i + 1].k = "assistant"
    <3>1. \A j \in i .. (i + 1) - 1 : j = i
      BY <1>20
    <3>2. GroupEnd(s, i) = i + 1
      BY <1>3, <1>7, <2>1, <2>2, <3>1
    <3>3. QED BY <1>7, <2>1, <2>2, <3>2 DEF L
  <2>3. CASE s[i + 1].k = "hosted"
    <3>1. PICK m : m = i + 1
      OBVIOUS
    <3>2. m + 1 \in 1 .. L /\ s[m + 1].k = "assistant" /\ s[m + 1].n = s[m].n
      BY <1>1, <1>4, <2>1, <2>3, <3>1
    <3>3. m + 1 = i + 2 /\ i + 2 \in i .. L /\ i + 2 \in i + 1 .. L
      BY <1>1, <1>20, <3>1, <3>2
    <3>4. \A j \in i .. (i + 2) - 1 : j = i \/ j = i + 1
      BY <1>20
    <3>5. s[i + 2].k = "assistant" /\ s[i + 2].n = s[i].n
      BY <2>1, <3>1, <3>2, <3>3
    <3>6. GroupEnd(s, i) = i + 2
      <4>1. \A j \in i .. (i + 2) - 1 : s[j].k \in {"reasoning", "hosted"}
        BY <1>7, <2>3, <3>4
      <4>2. QED BY <1>3, <3>3, <3>5, <4>1
    <3>7. QED BY <1>7, <2>3, <3>3, <3>5, <3>6 DEF L
  <2>4. QED BY <2>1, <2>2, <2>3
<1>8. QED BY <1>5, <1>6, <1>7

\* Everything an encoder can say, and what any provider may be told of it.
Tags == {"system", "text", "image", "audio", "think", "hosted", "summary"}
           \cup {"call", "signed_call", "custom_call", "answer", "custom_answer", "unknown_answer"}
PartSet == Tags \X (Int \cup CallIds)
PlainParts == {p \in PartSet : p[1] \notin {"think", "hosted", "signed_call"}}
SaidParts == {"text", "summary"} \X Int

SentAssistants ==
    [k : {"assistant"}, n : Int, parts : Seq(SaidParts), calls : Seq(Calls), think : Thoughts,
     origin : Keys]
SentItems == Items \cup SentAssistants

LEMMA KeepTyped ==
    ASSUME NEW S, NEW s \in Seq(S), NEW T
    PROVE  Keep(s, T) \in Seq(S \cap T)
<1> DEFINE p == [i \in 1 .. Len(s) |-> KeepPiece(s[i], T)]
<1>1. Len(s) \in Nat
  BY LenProperties
<1>2. \A i \in 1 .. Len(s) : p[i] \in Seq(S \cap T)
  <2>1. ASSUME NEW i \in 1 .. Len(s) PROVE KeepPiece(s[i], T) \in Seq(S \cap T)
    <3>1. s[i] \in S
      BY ElementOfSeq
    <3>2. s[i] \in T => <<s[i]>> \in Seq(S \cap T)
      BY <3>1
    <3>3. <<>> \in Seq(S \cap T)
      OBVIOUS
    <3>4. QED BY <3>2, <3>3 DEF KeepPiece
  <2>2. QED BY <2>1
<1>3. Keep(s, T) = UpTo(p, Len(s))
  BY <1>1, KeepIsJoined
<1> HIDE DEF p
<1> DEFINE U == S \cap T
<1>4. \A i \in 1 .. Len(s) : p[i] \in Seq(U)
  BY <1>2
<1> HIDE DEF U
<1>5. UpTo(p, Len(s)) \in Seq(U)
  BY <1>1, <1>4, JoinedType
<1>6. QED BY <1>3, <1>5 DEF U

\* The fields of what is sent.
LEMMA SentFields ==
    ASSUME NEW y \in SentItems
    PROVE  /\ y.k \in Kinds /\ y.n \in Int
           /\ y.k = "user" => y.parts \in Seq(Shapes)
           /\ y.k = "result" => y.calls[1] \in CallIds
           /\ y.k = "assistant" => /\ y.parts \in Seq(SaidParts) /\ y.calls \in Seq(Calls)
                                   /\ y.think \in Thoughts
<1>1. ASSUME y \in SentAssistants
      PROVE  /\ y.k = "assistant" /\ y.n \in Int
             /\ y.parts \in Seq(SaidParts) /\ y.calls \in Seq(Calls) /\ y.think \in Thoughts
  BY <1>1 DEF SentAssistants
<1>2. ASSUME y \in Items
      PROVE  /\ y.k = "user" => y.parts \in Seq(Shapes)
             /\ y.k = "result" => y.calls[1] \in CallIds
             /\ y.k = "assistant" => /\ y.parts \in Seq(SaidParts) /\ y.calls \in Seq(Calls)
                                     /\ y.think \in Thoughts
  <2>1. /\ y.k = "user" => y.parts \in Seq(Shapes)
        /\ y.k = "result" => \E id \in CallIds : y.calls = <<id>>
        /\ y.k = "assistant" => /\ y.parts \in Seq(TextParts) /\ y.calls \in Seq(Calls)
                                /\ y.think \in Thoughts
    BY <1>2, ItemFields
  <2>2. TextParts \subseteq SaidParts
    BY DEF TextParts, SaidParts
  <2>3. Seq(TextParts) \subseteq Seq(SaidParts)
    BY <2>2, SeqMonotonic
  <2>4. QED BY <2>1, <2>3
<1>3. y \in Items => y.k \in Kinds /\ y.n \in Int
  BY ItemKinds
<1>4. QED BY <1>1, <1>2, <1>3 DEF SentItems, Kinds

\* What may be said of an item, given that what only its maker can read may be.
LEMMA Says ==
    ASSUME NEW y \in SentItems, NEW G, PlainParts \subseteq G,
           y.k = "reasoning" => <<"think", y.n>> \in G,
           y.k = "hosted" => <<"hosted", y.n>> \in G,
           y.k = "assistant" =>
               /\ y.think # "none" => <<"think", y.n>> \in G
               /\ \A c \in 1 .. Len(y.calls) : y.calls[c].signed =>
                     <<"signed_call", y.calls[c].id>> \in G
    PROVE  Sayable(y, G)
<1>1. /\ y.k \in Kinds /\ y.n \in Int
      /\ y.k = "user" => y.parts \in Seq(Shapes)
      /\ y.k = "result" => y.calls[1] \in CallIds
      /\ y.k = "assistant" => y.parts \in Seq(SaidParts) /\ y.calls \in Seq(Calls)
  BY SentFields
<1>2. \A n \in Int : <<"system", n>> \in PlainParts /\ <<"summary", n>> \in PlainParts
  BY DEF PlainParts, PartSet, Tags
<1>3. \A id \in CallIds :
         /\ <<"answer", id>> \in PlainParts /\ <<"custom_answer", id>> \in PlainParts
         /\ <<"unknown_answer", id>> \in PlainParts /\ <<"call", id>> \in PlainParts
         /\ <<"custom_call", id>> \in PlainParts
  BY DEF PlainParts, PartSet, Tags
<1>4. ASSUME NEW S, NEW parts \in Seq(S \cap {"text", "image", "audio"})
      PROVE  Tagged(parts, y.n) \in Seq(G)
  <2>1. Len(parts) \in Nat
    BY LenProperties
  <2>2. ASSUME NEW i \in 1 .. Len(parts) PROVE <<parts[i], y.n>> \in G
    <3>1. parts[i] \in {"text", "image", "audio"}
      BY ElementOfSeq
    <3>2. <<parts[i], y.n>> \in PlainParts
      BY <1>1, <3>1 DEF PlainParts, PartSet, Tags
    <3>3. QED BY <3>2
  <2>3. QED BY <2>1, <2>2 DEF Tagged
<1>5. y.k = "user" => UserContent(y) \in Seq(G) /\ TextContent(y) \in Seq(G)
  <2> SUFFICES ASSUME y.k = "user"
               PROVE  UserContent(y) \in Seq(G) /\ TextContent(y) \in Seq(G)
    OBVIOUS
  <2> DEFINE T == Shapes \cap {"text", "image", "audio"}
             m == Keep(y.parts, Media)
             t == Keep(y.parts, {"text"})
  <2>1. m \in Seq(Shapes \cap Media) /\ t \in Seq(Shapes \cap {"text"})
    BY <1>1, KeepTyped
  <2>2. Shapes \cap Media \subseteq T /\ Shapes \cap {"text"} \subseteq T
    BY DEF Media
  <2>3. Seq(Shapes \cap Media) \subseteq Seq(T) /\ Seq(Shapes \cap {"text"}) \subseteq Seq(T)
    BY <2>2, SeqMonotonic
  <2> HIDE DEF m, t
  <2>4. m \in Seq(T) /\ t \in Seq(T) /\ m \o t \in Seq(T)
    BY <2>1, <2>3, Concats
  <2>5. Tagged(t, y.n) \in Seq(G) /\ Tagged(m \o t, y.n) \in Seq(G)
    BY <1>4, <2>4
  <2>6. QED BY <2>5 DEF UserContent, TextContent, NormalizedParts, m, t
<1>6. y.k = "assistant" =>
         /\ y.parts \in Seq(G) /\ CallsOf(y) \in Seq(G) /\ SignedCallsOf(y) \in Seq(G)
         /\ Len(y.calls) \in Nat
         /\ \A c \in 1 .. Len(y.calls) : <<CallTag(y.calls[c]), y.calls[c].id>> \in G
  <2> SUFFICES ASSUME y.k = "assistant"
               PROVE  /\ y.parts \in Seq(G) /\ CallsOf(y) \in Seq(G)
                      /\ SignedCallsOf(y) \in Seq(G) /\ Len(y.calls) \in Nat
                      /\ \A c \in 1 .. Len(y.calls) :
                            <<CallTag(y.calls[c]), y.calls[c].id>> \in G
    OBVIOUS
  <2>1. y.parts \in Seq(G)
    <3>1. SaidParts \subseteq G
      BY DEF SaidParts, PlainParts, PartSet, Tags
    <3>2. Seq(SaidParts) \subseteq Seq(G)
      BY <3>1, SeqMonotonic
    <3>3. QED BY <1>1, <3>2
  <2>2. y.calls \in Seq(Calls)
    BY <1>1
  <2>3. Len(y.calls) \in Nat
    BY <2>2, LenProperties
  <2>4. \A c \in 1 .. Len(y.calls) : y.calls[c].id \in CallIds
    <3>1. ASSUME NEW c \in 1 .. Len(y.calls) PROVE y.calls[c].id \in CallIds
      <4>1. y.calls[c] \in Calls
        BY <2>2, ElementOfSeq
      <4>2. QED BY <4>1 DEF Calls
    <3>2. QED BY <3>1
  <2>5. \A c \in 1 .. Len(y.calls) : /\ <<"call", y.calls[c].id>> \in G
                                     /\ <<"custom_call", y.calls[c].id>> \in G
    BY <1>3, <2>4
  <2>6. CallsOf(y) \in Seq(G)
    <3>1. \A c \in 1 .. Len(y.calls) : <<"call", y.calls[c].id>> \in G
      BY <2>5
    <3>2. QED BY <2>3, <3>1 DEF CallsOf
  <2>7. \A c \in 1 .. Len(y.calls) :
           <<IF y.calls[c].signed THEN "signed_call" ELSE "call", y.calls[c].id>> \in G
    BY <2>5
  <2>8. SignedCallsOf(y) \in Seq(G)
    BY <2>3, <2>7 DEF SignedCallsOf
  <2>9. \A c \in 1 .. Len(y.calls) : <<CallTag(y.calls[c]), y.calls[c].id>> \in G
    BY <2>5 DEF CallTag
  <2>10. QED BY <2>1, <2>3, <2>6, <2>8, <2>9
<1>7. y.k = "result" => Answered(y.calls[1]) \subseteq G
  BY <1>1, <1>3 DEF Answered
<1>8. QED BY <1>1, <1>2, <1>5, <1>6, <1>7 DEF Sayable

\* What sanitizing leaves of the item at i.
LEMMA PortionIs ==
    ASSUME NEW s \in Seq(Items), Grouped(s), NEW i \in 1 .. Len(s), NEW t, NEW pr
    PROVE  LET a == Strip(s[i], Summaries(s, i)) IN
           /\ Portion(s, i, t, pr) \in Seq(SentItems)
           /\ ~Foreign(s, i, t, pr) => Portion(s, i, t, pr) = <<s[i]>>
           /\ Foreign(s, i, t, pr) /\ s[i].k = "assistant" =>
                 /\ Portion(s, i, t, pr) = <<a>> /\ a \in SentItems
                 /\ a.k = "assistant" /\ a.n = s[i].n /\ a.think = "none"
                 /\ a.parts = Summaries(s, i) \o s[i].parts
                 /\ a.calls = Unsigned(s[i].calls)
           /\ Foreign(s, i, t, pr) /\ s[i].k # "assistant" =>
                 /\ Portion(s, i, t, pr) = <<>> /\ s[i].k \in {"reasoning", "hosted"}
<1> DEFINE y == s[i]
           w == Summaries(s, i)
           a == Strip(y, w)
<1>1. y \in Items
  BY ElementOfSeq
<1>2. w \in Seq(SaidParts)
  <2> DEFINE p == [j \in 1 .. i |-> IF GroupEnd(s, j) = i /\ s[j].k = "hosted"
                                    THEN <<<<"summary", s[j].n>>>> ELSE <<>>]
  <2>1. Len(s) \in Nat
    BY LenProperties
  <2>2. i \in Nat /\ \A j \in 1 .. i : j \in 1 .. Len(s)
    BY <2>1
  <2>3. \A j \in 1 .. i : s[j].n \in Int
    <3>1. ASSUME NEW j \in 1 .. i PROVE s[j].n \in Int
      <4>1. s[j] \in Items
        BY <2>2, ElementOfSeq
      <4>2. QED BY <4>1, ItemKinds
    <3>2. QED BY <3>1
  <2>4. \A j \in 1 .. i : p[j] \in Seq(SaidParts)
    <3>1. \A j \in 1 .. i : <<"summary", s[j].n>> \in SaidParts
      BY <2>3 DEF SaidParts
    <3>2. \A j \in 1 .. i : <<<<"summary", s[j].n>>>> \in Seq(SaidParts)
      BY <3>1
    <3>3. <<>> \in Seq(SaidParts)
      OBVIOUS
    <3>4. QED BY <3>2, <3>3
  <2>5. [j \in 1 .. i |-> p[j]] = p
    OBVIOUS
  <2>6. w = FlattenSeq(p)
    BY DEF Summaries
  <2> HIDE DEF p, w
  <2>7. UpTo(p, i) = w
    BY <2>5, <2>6 DEF UpTo
  <2>8. UpTo(p, i) \in Seq(SaidParts)
    BY <2>2, <2>4, JoinedType
  <2>9. QED BY <2>7, <2>8
<1> HIDE DEF w
<1>3. ASSUME y.k = "assistant"
      PROVE  /\ a \in SentAssistants /\ a.k = "assistant" /\ a.n = y.n /\ a.think = "none"
             /\ a.parts = w \o y.parts /\ a.calls = Unsigned(y.calls)
  <2>1. /\ y.parts \in Seq(TextParts) /\ y.calls \in Seq(Calls) /\ y \in AssistantItems
    BY <1>1, <1>3, ItemKinds, ItemFields
  <2>2. w \o y.parts \in Seq(SaidParts)
    <3>1. TextParts \subseteq SaidParts
      BY DEF TextParts, SaidParts
    <3>2. y.parts \in Seq(SaidParts)
      BY <2>1, <3>1, SeqMonotonic
    <3>3. QED BY <1>2, <3>2, Concats
  <2>3. Unsigned(y.calls) \in Seq(Calls)
    <3>1. Len(y.calls) \in Nat
      BY <2>1, LenProperties
    <3>2. \A c \in 1 .. Len(y.calls) : y.calls[c] \in Calls
      BY <2>1, ElementOfSeq
    <3>3. \A c \in 1 .. Len(y.calls) : [y.calls[c] EXCEPT !.signed = FALSE] \in Calls
      BY <3>2 DEF Calls
    <3>4. QED BY <3>1, <3>3 DEF Unsigned
  <2>4. a = [y EXCEPT !.parts = w \o y.parts, !.think = "none", !.calls = Unsigned(y.calls)]
    BY DEF Strip
  <2> DEFINE u == w \o y.parts
             v == Unsigned(y.calls)
  <2>5. u \in Seq(SaidParts) /\ v \in Seq(Calls)
    BY <2>2, <2>3
  <2> HIDE DEF a, y, u, v
  <2>6. a = [y EXCEPT !.parts = u, !.think = "none", !.calls = v]
    BY <2>4 DEF u, v
  <2>7. /\ a \in SentAssistants /\ a.k = "assistant" /\ a.n = y.n /\ a.think = "none"
        /\ a.parts = u /\ a.calls = v
    BY <2>1, <2>5, <2>6 DEF SentAssistants, AssistantItems, Thoughts
  <2>8. QED BY <2>7 DEF u, v
<1>4. ASSUME Foreign(s, i, t, pr), y.k # "assistant" PROVE y.k \in {"reasoning", "hosted"}
  <2>1. y.k \notin {"reasoning", "hosted"} => GroupEnd(s, i) = i
    BY GroupEnds
  <2>2. QED BY <1>4, <2>1 DEF Foreign
<1>5. /\ Foreign(s, i, t, pr) /\ y.k = "assistant" => Portion(s, i, t, pr) = <<a>>
      /\ Foreign(s, i, t, pr) /\ y.k # "assistant" => Portion(s, i, t, pr) = <<>>
      /\ ~Foreign(s, i, t, pr) => Portion(s, i, t, pr) = <<y>>
  BY DEF Portion, w
<1> HIDE DEF a
<1>6. Portion(s, i, t, pr) \in Seq(SentItems)
  <2>1. <<>> \in Seq(SentItems) /\ <<y>> \in Seq(SentItems)
    BY <1>1 DEF SentItems
  <2>2. a \in SentAssistants => <<a>> \in Seq(SentItems)
    BY DEF SentItems
  <2>3. QED BY <1>3, <1>5, <2>1, <2>2
<1>7. QED BY <1>3, <1>4, <1>5, <1>6 DEF a, w, SentItems

-----------------------------------------------------------------------------
(* Whose an item is.                                                       *)

LEMMA MakerIs ==
    ASSUME NEW b, History(history, b, FALSE), NEW i \in 1 .. Len(history),
           history[i].k = "assistant"
    PROVE  Maker(history[i].n) = IF history[i].origin = "" THEN Primary ELSE history[i].origin
<1> DEFINE S == {j \in 1 .. Len(history) : history[j].k = "assistant"
                                             /\ history[j].n = history[i].n}
<1>1. S = {i}
  BY DEF History, Numbered
<1>2. S \in SUBSET Int
  OBVIOUS
<1> HIDE DEF S
<1>5. i \in S /\ \A x \in S : x <= i
  BY <1>1, <1>2
<1>3. Max(S) = i
  BY <1>2, <1>5, MaxIs
<1>4. QED BY <1>3 DEF Maker, S

\* What the owner of a key may be told.
OwnParts(key) ==
    {p \in PartSet : /\ p[1] \in {"think", "hosted"} => Maker(p[2]) = key
                     /\ p[1] = "signed_call" => Maker(p[2][1]) = key}
OwnItems(key) == {y \in SentItems : Sayable(y, OwnParts(key))}

\* Sanitizing leaves a provider what is its own.
LEMMA PortionOwn ==
    ASSUME NEW b, History(history, b, FALSE), NEW i \in 1 .. Len(Prompt(history)), NEW key
    PROVE  Portion(Prompt(history), i, key, Primary) \in Seq(OwnItems(key))
<1> DEFINE s == Prompt(history)
           y == s[i]
           G == OwnParts(key)
<1>1. /\ History(s, b, FALSE) /\ Len(s) = Len(history) + 1 /\ s[1] = SystemItem(0)
      /\ \A j \in 1 .. Len(history) : s[j + 1] = history[j]
      /\ \A j \in 1 .. Len(s) : j = 1 \/ j - 1 \in 1 .. Len(history)
  BY PromptIs
<1> HIDE DEF s
<1>2. s \in Seq(Items) /\ Grouped(s) /\ Numbered(s, b) /\ i \in 1 .. Len(s)
  BY <1>1 DEF History, s
<1>3. y \in Items
  BY <1>2, ElementOfSeq
<1>4. ASSUME NEW e \in 1 .. Len(s), s[e].k = "assistant",
             ~ShouldStrip(s[e].origin, key, Primary)
      PROVE  Maker(s[e].n) = key
  <2>1. SystemItem(0).k = "system"
    BY DEF SystemItem, Item
  <2>2. e # 1
    BY <1>1, <1>4, <2>1
  <2>3. PICK j : j = e - 1
    OBVIOUS
  <2>4. j \in 1 .. Len(history) /\ e = j + 1
    BY <1>1, <2>2, <2>3
  <2>5. s[e] = history[j]
    BY <1>1, <2>4
  <2>6. Maker(history[j].n) = IF history[j].origin = "" THEN Primary ELSE history[j].origin
    BY <1>4, <2>4, <2>5, MakerIs
  <2>7. QED BY <1>4, <2>5, <2>6 DEF ShouldStrip
<1>5. PlainParts \subseteq G
  BY DEF PlainParts, OwnParts
<1>6. CASE ~Foreign(s, i, key, Primary)
  <2> DEFINE e == GroupEnd(s, i)
  <2>1. s[e].k = "assistant" => ~ShouldStrip(s[e].origin, key, Primary)
    BY <1>6 DEF Foreign
  <2>2. /\ y.k \notin {"reasoning", "hosted"} => e = i
        /\ y.k \in {"reasoning", "hosted"} =>
              e \in i + 1 .. Len(s) /\ s[e].k = "assistant" /\ s[e].n = y.n
    BY <1>2, GroupEnds
  <2> HIDE DEF e
  <2>3. y.k \in {"reasoning", "hosted"} => Maker(y.n) = key
    <3>1. y.k \in {"reasoning", "hosted"} => e \in 1 .. Len(s)
      BY <1>2, <2>2
    <3>2. QED BY <1>4, <2>1, <2>2, <3>1
  <2>4. y.k = "assistant" => Maker(y.n) = key
    BY <1>2, <1>4, <2>1, <2>2
  <2>5. y.n \in Int
    BY <1>3, ItemKinds
  <2>6. y.k \in {"reasoning", "hosted", "assistant"} =>
          <<"think", y.n>> \in G /\ <<"hosted", y.n>> \in G
    BY <2>3, <2>4, <2>5 DEF OwnParts, PartSet, Tags
  <2>7. ASSUME y.k = "assistant", NEW c \in 1 .. Len(y.calls)
        PROVE  <<"signed_call", y.calls[c].id>> \in G
    <3>1. y.calls[c].id[1] = y.n
      BY <1>2, <2>7 DEF Numbered
    <3>2. y.calls[c].id \in CallIds
      <4>1. y.calls \in Seq(Calls)
        BY <1>3, <2>7, ItemFields
      <4>2. y.calls[c] \in Calls
        BY <4>1, ElementOfSeq
      <4>3. QED BY <4>2 DEF Calls
    <3>3. QED BY <2>4, <2>7, <3>1, <3>2 DEF OwnParts, PartSet, Tags
  <2>8. y \in SentItems
    BY <1>3 DEF SentItems
  <2>9. Sayable(y, G)
    <3> HIDE DEF y, G
    <3>1. QED BY <1>5, <2>6, <2>7, <2>8, Says
  <2>10. Portion(s, i, key, Primary) = <<y>>
    BY <1>2, <1>6, PortionIs
  <2>11. y \in OwnItems(key)
    BY <2>8, <2>9 DEF OwnItems
  <2> HIDE DEF y
  <2>12. <<y>> \in Seq(OwnItems(key))
    BY <2>11
  <2>13. QED BY <2>10, <2>12 DEF s
<1>7. CASE Foreign(s, i, key, Primary) /\ y.k = "assistant"
  <2> DEFINE a == Strip(y, Summaries(s, i))
  <2>1. /\ Portion(s, i, key, Primary) = <<a>> /\ a \in SentItems /\ a.k = "assistant"
        /\ a.think = "none" /\ a.calls = Unsigned(y.calls)
    BY <1>2, <1>7, PortionIs
  <2>2. Len(y.calls) \in Nat
    <3>1. y.calls \in Seq(Calls)
      BY <1>3, <1>7, ItemFields
    <3>2. QED BY <3>1, LenProperties
  <2>3. \A c \in 1 .. Len(a.calls) : ~a.calls[c].signed
    <3>1. \A c \in 1 .. Len(y.calls) : y.calls[c] \in Calls
      <4>1. y.calls \in Seq(Calls)
        BY <1>3, <1>7, ItemFields
      <4>2. QED BY <4>1, ElementOfSeq
    <3> DEFINE u == Unsigned(y.calls)
    <3>2. Len(u) = Len(y.calls)
      BY <2>2 DEF Unsigned
    <3>3. \A c \in 1 .. Len(y.calls) : u[c] = [y.calls[c] EXCEPT !.signed = FALSE]
      BY DEF Unsigned
    <3> HIDE DEF u
    <3>4. \A c \in 1 .. Len(y.calls) : u[c].signed = FALSE
      BY <3>1, <3>3 DEF Calls
    <3> HIDE DEF a
    <3>5. QED BY <2>1, <3>2, <3>4 DEF u
  <2> HIDE DEF a
  <2>4. Sayable(a, G)
    <3> HIDE DEF G
    <3>1. QED BY <1>5, <2>1, <2>3, Says
  <2>5. a \in OwnItems(key)
    BY <2>1, <2>4 DEF OwnItems
  <2>6. <<a>> \in Seq(OwnItems(key))
    BY <2>5
  <2>7. QED BY <2>1, <2>6 DEF s
<1>8. CASE Foreign(s, i, key, Primary) /\ y.k # "assistant"
  <2>1. Portion(s, i, key, Primary) = <<>>
    BY <1>2, <1>8, PortionIs
  <2>2. QED BY <2>1 DEF s
<1>9. QED BY <1>6, <1>7, <1>8

Portions(s, t, pr) == [i \in 1 .. Len(s) |-> Portion(s, i, t, pr)]

LEMMA SanitizeOwn ==
    ASSUME NEW b, History(history, b, FALSE), NEW key
    PROVE  Sanitize(Prompt(history), key, Primary) \in Seq(OwnItems(key))
<1> DEFINE s == Prompt(history)
           p == Portions(s, key, Primary)
           T == OwnItems(key)
<1>1. Len(s) \in Nat
  <2>1. s \in Seq(Items)
    BY PromptIs DEF History
  <2>2. QED BY <2>1, LenProperties
<1>2. \A i \in 1 .. Len(s) : p[i] \in Seq(T)
  BY PortionOwn DEF Portions
<1>3. Sanitize(s, key, Primary) = UpTo(p, Len(s))
  <2>1. [i \in 1 .. Len(s) |-> p[i]] = p
    BY DEF Portions
  <2>2. QED BY <2>1 DEF Sanitize, UpTo, Portions
<1> HIDE DEF s, p, T
<1>4. UpTo(p, Len(s)) \in Seq(T)
  BY <1>1, <1>2, JoinedType
<1>5. QED BY <1>3, <1>4 DEF s, T

\* A set of positions has a first.
LEMMA MinOf ==
    ASSUME NEW S \in SUBSET Nat, S # {}
    PROVE  Min(S) \in S
<1>1. PICK x \in S : \A y \in S : <<y, x>> \notin OpToRel(<, Nat)
  BY NatLessThanWellFounded, WFMin
<1>5. x \in Nat /\ \A y \in Nat : <<y, x>> \notin OpToRel(<, Nat) => x <= y
  BY DEF OpToRel
<1>2. \A y \in S : x <= y
  BY <1>1, <1>5
<1>3. Min(S) = x
  <2>1. S \in SUBSET Int
    OBVIOUS
  <2>2. QED BY <1>2, <2>1, MinIs
<1>4. QED BY <1>3

\* One round of trim_history_to_window.
Dropped(out, keepFrom, budget) ==
    IF TotalTokens(out) <= budget \/ Droppable(out, keepFrom) = {} THEN out
    ELSE RemoveAt(out, Min(Droppable(out, keepFrom)))
Trims(f, items, keepFrom, budget, n) ==
    f = [i \in 0 .. n |-> IF i = 0 THEN items ELSE Dropped(f[i - 1], keepFrom, budget)]

LEMMA TrimExists ==
    ASSUME NEW items, NEW keepFrom, NEW budget, NEW n \in Nat
    PROVE  \E f : Trims(f, items, keepFrom, budget, n)
<1> DEFINE N == {m \in Nat : \E f : Trims(f, items, keepFrom, budget, m)}
           D(out) == Dropped(out, keepFrom, budget)
<1> HIDE DEF D
<1>1. 0 \in N
  <2> DEFINE f == [i \in 0 .. 0 |-> items]
  <2>1. f = [i \in 0 .. 0 |-> IF i = 0 THEN items ELSE Dropped(f[i - 1], keepFrom, budget)]
    <3>1. \A i \in 0 .. 0 : i = 0
      OBVIOUS
    <3>2. QED BY <3>1
  <2>2. Trims(f, items, keepFrom, budget, 0)
    BY <2>1 DEF Trims
  <2>3. QED BY <2>2
<1>2. ASSUME NEW m \in N PROVE m + 1 \in N
  <2>1. PICK f : Trims(f, items, keepFrom, budget, m)
    OBVIOUS
  <2> DEFINE g == [i \in 0 .. m + 1 |-> IF i <= m THEN f[i]
                                        ELSE Dropped(f[m], keepFrom, budget)]
  <2>2. m \in Nat
    OBVIOUS
  <2>3. \A i \in 0 .. m : f[i] = IF i = 0 THEN items ELSE Dropped(f[i - 1], keepFrom, budget)
    BY <2>1, <2>2 DEF Trims
  <2>4. ASSUME NEW i \in 0 .. m + 1
        PROVE  g[i] = IF i = 0 THEN items ELSE Dropped(g[i - 1], keepFrom, budget)
    <3>1. CASE i = 0
      BY <2>2, <2>3, <3>1
    <3>2. CASE i \in 1 .. m
      <4>1. g[i] = f[i] /\ g[i - 1] = f[i - 1] /\ i \in 0 .. m /\ i # 0
        BY <2>2, <3>2
      <4> HIDE DEF g
      <4>2. QED BY <2>3, <4>1
    <3>3. CASE i = m + 1
      <4>1. m \in 0 .. m + 1 /\ i - 1 = m /\ ~(i <= m) /\ i # 0
        BY <2>2, <3>3
      <4>2. g[i] = Dropped(f[m], keepFrom, budget)
        BY <4>1
      <4>3. g[m] = f[m]
        BY <2>2, <4>1
      <4> HIDE DEF g
      <4>4. QED BY <4>1, <4>2, <4>3
    <3>4. QED BY <2>2, <3>1, <3>2, <3>3
  <2>5. Trims(g, items, keepFrom, budget, m + 1)
    BY <2>4 DEF Trims
  <2>6. QED BY <2>2, <2>5
<1>3. N = Nat
  <2> HIDE DEF N
  <2>1. N \subseteq Nat
    BY DEF N
  <2>2. QED BY <1>1, <1>2, <2>1, SetInduction
<1>4. QED BY <1>3

\* Trimming leaves nothing but what it was given.
LEMMA TrimTyped ==
    ASSUME NEW T, NEW items \in Seq(T), NEW budget
    PROVE  Trim(items, budget) \in Seq(T) \cup {TooLong}
<1> DEFINE keepFrom == ProtectedFrom(items)
           L == Len(items)
           f == CHOOSE f : Trims(f, items, keepFrom, budget, L)
<1>1. L \in Nat
  BY LenProperties
<1>2. Trim(items, budget) = IF TotalTokens(f[L]) <= budget THEN f[L] ELSE TooLong
  BY DEF Trim, Trims, Dropped
<1>3. Trims(f, items, keepFrom, budget, L)
  BY <1>1, TrimExists
<1> HIDE DEF f, keepFrom, L
<1>4. \A i \in 0 .. L : f[i] = IF i = 0 THEN items ELSE Dropped(f[i - 1], keepFrom, budget)
  BY <1>1, <1>3 DEF Trims
<1>5. ASSUME NEW out \in Seq(T) PROVE Dropped(out, keepFrom, budget) \in Seq(T)
  <2> DEFINE S == Droppable(out, keepFrom)
             m == Min(S)
  <2>1. Len(out) \in Nat /\ S \in SUBSET Nat /\ \A x \in S : x \in 1 .. Len(out)
    BY LenProperties DEF Droppable
  <2> HIDE DEF S
  <2>2. ASSUME S # {} PROVE RemoveAt(out, m) \in Seq(T)
    <3>1. m \in S
      BY <2>1, <2>2, MinOf
    <3> HIDE DEF m
    <3>2. m \in 1 .. Len(out)
      BY <2>1, <3>1
    <3>3. \A i \in 1 .. Len(out) : out[i] \in T
      BY ElementOfSeq
    <3>4. \A i \in 1 .. m - 1 : out[i] \in T
      BY <2>1, <3>2, <3>3
    <3>5. \A i \in m + 1 .. Len(out) : out[i] \in T
      BY <2>1, <3>2, <3>3
    <3>6. SubSeq(out, 1, m - 1) \in Seq(T)
      <4>1. m - 1 \in Int
        BY <2>1, <3>2
      <4>2. QED BY <3>4, <4>1, SubSeqProperties
    <3>7. SubSeq(out, m + 1, Len(out)) \in Seq(T)
      <4>1. m + 1 \in Int /\ Len(out) \in Int
        BY <2>1, <3>2
      <4>2. QED BY <3>5, <4>1, SubSeqProperties
    <3>8. SubSeq(out, 1, m - 1) \o SubSeq(out, m + 1, Len(out)) \in Seq(T)
      BY <3>6, <3>7, Concats
    <3>9. QED BY <3>8 DEF RemoveAt
  <2>3. QED BY <2>2 DEF Dropped, S
<1> DEFINE N == {i \in Nat : i <= L => f[i] \in Seq(T)}
<1>6. 0 \in N
  BY <1>1, <1>4
<1>7. ASSUME NEW i \in N PROVE i + 1 \in N
  <2> SUFFICES ASSUME i + 1 <= L PROVE f[i + 1] \in Seq(T)
    OBVIOUS
  <2>1. i + 1 \in 0 .. L /\ i + 1 # 0 /\ (i + 1) - 1 = i /\ f[i] \in Seq(T)
    BY <1>1
  <2>2. PICK j : j = i + 1
    OBVIOUS
  <2>3. f[j] = Dropped(f[j - 1], keepFrom, budget)
    BY <1>4, <2>1, <2>2
  <2>4. QED BY <1>5, <2>1, <2>2, <2>3
<1>8. N = Nat
  <2> HIDE DEF N
  <2>1. N \subseteq Nat
    BY DEF N
  <2>2. QED BY <1>6, <1>7, <2>1, SetInduction
<1>9. f[L] \in Seq(T)
  <2>1. \A i \in Nat : i <= L => f[i] \in Seq(T)
    BY <1>8
  <2>2. QED BY <1>1, <2>1
<1>10. QED BY <1>2, <1>9

-----------------------------------------------------------------------------
(* What is on its way.                                                     *)

\* The request is made from the history as it is.
Requested(slot, body) ==
    body.error = "none" =>
        LET items == Rewrite(Prompt(history), slot, Primary, FALSE) IN
        /\ items # TooLong
        /\ slot.wire = "chat" => ~ChatRejects(items)
        /\ body = Encoded(Written(slot.wire, NewPayload(items), items))

RequestInv ==
    /\ HistoryInv
    /\ phase = "sent" => sent.slot \in Slots /\ Requested(sent.slot, sent.body)

\* However often a request fails over, what was sent last is the whole history as it
\* stands, rewritten for the slot that was visited last.
THEOREM RequestsCurrent == Spec => []RequestInv
<1>1. Init => RequestInv
  <2>1. Init => HistoryInv
    BY InitHistory
  <2>2. QED BY <2>1 DEF Init, RequestInv
<1>2. RequestInv /\ [Next]_vars => RequestInv'
  <2> SUFFICES ASSUME RequestInv, [Next]_vars PROVE RequestInv'
    OBVIOUS
  <2>1. HistoryInv' /\ HistoryInv
    BY NextHistory DEF RequestInv
  <2>2. CASE UNCHANGED vars
    BY <2>1, <2>2 DEF RequestInv, Requested, vars
  <2>3. ASSUME NEW slot \in Slots, Request(slot) PROVE RequestInv'
    <3> DEFINE items == Rewrite(Prompt(history), slot, Primary, FALSE)
    <3>1. /\ sent'.slot = slot /\ history' = history
          /\ sent'.body = IF MediaMissing(history) THEN Refused("AttachmentMissing")
                          ELSE IF items = TooLong THEN Refused("LocalContextExceeded")
                          ELSE Encode(slot.wire, items)
      BY <2>3 DEF Request, Prompt
    <3>2. \A why : Refused(why).error = why
      BY DEF Refused
    <3> HIDE DEF items
    <3>3. ASSUME Encode(slot.wire, items).error = "none"
          PROVE  /\ slot.wire = "chat" => ~ChatRejects(items)
                 /\ Encode(slot.wire, items) =
                       Encoded(Written(slot.wire, NewPayload(items), items))
      BY <3>2, <3>3 DEF Encode
    <3>4. ASSUME sent'.body.error = "none"
          PROVE  /\ items # TooLong
                 /\ slot.wire = "chat" => ~ChatRejects(items)
                 /\ sent'.body = Encoded(Written(slot.wire, NewPayload(items), items))
      <4>1. sent'.body = Encode(slot.wire, items) /\ items # TooLong
        BY <3>1, <3>2, <3>4
      <4>2. QED BY <3>3, <3>4, <4>1
    <3>5. items = Rewrite(Prompt(history'), slot, Primary, FALSE)
      BY <3>1 DEF items
    <3>6. Requested(sent.slot, sent.body)'
      BY <3>1, <3>4, <3>5 DEF Requested, Primary
    <3>7. QED BY <2>1, <3>1, <3>6 DEF RequestInv
  <2>4. ASSUME phase' # "sent" PROVE RequestInv'
    BY <2>1, <2>4 DEF RequestInv
  <2>5. ASSUME NEW parts \in Inputs, UserTurn(parts) PROVE phase' # "sent"
    BY <2>5 DEF UserTurn
  <2>6. ASSUME NEW think \in {"none", "text", "sealed"}, NEW hosted \in {"no", "done", "open"},
               NEW kinds \in UNION {CallKinds(w) : w \in {"responses", "chat"}},
               Answer(think, hosted, kinds)
        PROVE  phase' # "sent"
    BY <2>6 DEF Answer
  <2>7. ASSUME NEW nudged \in BOOLEAN, ToolsReturn(nudged) PROVE phase' # "sent"
    BY <2>7 DEF ToolsReturn
  <2>8. ASSUME Fail PROVE phase' # "sent"
    BY <2>8 DEF Fail
  <2>9. ASSUME NEW i \in 1 .. Len(history), FileLost(i) PROVE phase' # "sent"
    BY <2>9 DEF FileLost
  <2>10. QED BY <2>2, <2>3, <2>4, <2>5, <2>6, <2>7, <2>8, <2>9 DEF Next
<1>3. QED BY <1>1, <1>2, PTL DEF Spec

\* The calls an encoder can look up.
LEMMA NewPayloadTyped ==
    ASSUME NEW items \in Seq(SentItems), NEW G
    PROVE  NewPayload(items) \in Payloads(G)
<1>1. ASSUME NEW kinds PROVE IdsOf(items, kinds) \subseteq CallIds
  <2> SUFFICES ASSUME NEW id \in IdsOf(items, kinds) PROVE id \in CallIds
    OBVIOUS
  <2>1. PICK i \in 1 .. Len(items) :
           items[i].k = "assistant" /\ \E c \in Range(items[i].calls) : id = c.id
    BY DEF IdsOf
  <2>5. PICK c \in Range(items[i].calls) : id = c.id
    BY <2>1
  <2>2. items[i] \in SentItems
    BY ElementOfSeq
  <2>3. items[i].calls \in Seq(Calls)
    BY <2>1, <2>2, SentFields
  <2>4. c \in Calls
    BY <2>3, <2>5, ElementOfSeq DEF Range
  <2>6. QED BY <2>4, <2>5 DEF Calls
<1>2. <<>> \in Seq(Int) /\ <<>> \in Seq(G) /\ <<>> \in Seq(Messages(G))
  OBVIOUS
<1>3. QED BY <1>1, <1>2 DEF NewPayload, Payloads

\* What is on its way to a provider holds nothing that another must read.
LEMMA SentOwn ==
    ASSUME RequestInv, Delivered
    PROVE  sent.body.out \in Seq(Messages(OwnParts(sent.slot.key)))
<1> DEFINE slot == sent.slot
           key == slot.key
           items == Rewrite(Prompt(history), slot, Primary, FALSE)
           T == OwnItems(key)
           G == OwnParts(key)
           st == Written(slot.wire, NewPayload(items), items)
<1>1. /\ sent.slot \in Slots /\ Requested(sent.slot, sent.body)
      /\ History(history, born, FALSE)
  <2>1. phase = "sent" /\ (phase = "tools") = FALSE
    BY DEF Delivered
  <2>2. QED BY <2>1 DEF RequestInv, HistoryInv
<1>2. items # TooLong /\ sent.body = Encoded(st)
  BY <1>1 DEF Requested, Delivered
<1>3. Sanitize(Prompt(history), key, Primary) \in Seq(T)
  BY <1>1, SanitizeOwn
<1>4. items \in Seq(T)
  <2> DEFINE own == Sanitize(Prompt(history), key, Primary)
  <2>1. items = IF slot.window = 0 THEN own ELSE Trim(own, slot.window)
    BY DEF Rewrite
  <2> HIDE DEF own, T
  <2>2. own \in Seq(T) /\ Trim(own, slot.window) \in Seq(T) \cup {TooLong}
    BY <1>3, TrimTyped DEF own
  <2> HIDE DEF items
  <2>3. QED BY <1>2, <2>1, <2>2
<1>5. T \subseteq SentItems /\ \A y \in T : Sayable(y, G)
  BY DEF OwnItems
<1> HIDE DEF items, T, G, st
<1>6. NewPayload(items) \in Payloads(G)
  <2>1. items \in Seq(SentItems)
    BY <1>4, <1>5, SeqMonotonic
  <2>2. QED BY <2>1, NewPayloadTyped
<1>7. st \in Payloads(G)
  BY <1>4, <1>5, <1>6, WrittenTyped DEF st
<1>8. FlushAll(st) \in Payloads(G)
  BY <1>7, FlushTyped
<1>9. sent.body.out = FlushAll(st).out
  BY <1>2 DEF Encoded
<1>10. QED BY <1>8, <1>9 DEF Payloads, G

-----------------------------------------------------------------------------
(* What is said, message by message.                                       *)

\* Sequences of one element each joined are the sequence of those elements.
LEMMA Singles ==
    ASSUME NEW T, NEW r \in Seq(T)
    PROVE  FlattenSeq([i \in 1 .. Len(r) |-> <<r[i]>>]) = r
<1> DEFINE L == Len(r)
           p == [i \in 1 .. L |-> <<r[i]>>]
<1>1. L \in Nat /\ \A i \in 1 .. L : r[i] \in T
  BY LenProperties, ElementOfSeq
<1>2. \A i \in 1 .. L : p[i] \in Seq(T) /\ p[i] = <<r[i]>>
  <2>1. \A i \in 1 .. L : <<r[i]>> \in Seq(T)
    BY <1>1
  <2>2. QED BY <2>1
<1>3. [i \in 1 .. L |-> p[i]] = p
  OBVIOUS
<1> HIDE DEF p, L
<1>4. FlattenSeq(p) = UpTo(p, L)
  BY <1>3 DEF UpTo
<1>5. \A m \in 0 .. L - 1 : UpTo(p, m) \in Seq(T) /\ UpTo(p, m + 1) = UpTo(p, m) \o p[m + 1]
  BY <1>1, <1>2, JoinedType
<1> DEFINE Same(m) == Len(UpTo(p, m)) = m /\ \A i \in 1 .. m : UpTo(p, m)[i] = r[i]
           N == {m \in Nat : m <= L => Same(m)}
<1>6. 0 \in N
  <2>1. UpTo(p, 0) = <<>>
    BY OneMore
  <2>2. QED BY <2>1
<1>7. ASSUME NEW m \in N PROVE m + 1 \in N
  <2> SUFFICES ASSUME m + 1 <= L PROVE Same(m + 1)
    OBVIOUS
  <2>1. m \in Nat /\ m \in 0 .. L - 1 /\ m + 1 \in 1 .. L
    BY <1>1
  <2>2. Same(m)
    BY <1>1, <2>1
  <2> DEFINE u == UpTo(p, m)
             v == <<r[m + 1]>>
             w == UpTo(p, m + 1)
  <2>3. u \in Seq(T) /\ w = u \o p[m + 1] /\ p[m + 1] = v /\ v \in Seq(T)
    BY <1>2, <1>5, <2>1
  <2>4. Len(v) = 1 /\ v[1] = r[m + 1]
    OBVIOUS
  <2>5. Len(u) = m /\ \A i \in 1 .. m : u[i] = r[i]
    BY <2>2
  <2>6. w = u \o v
    BY <2>3
  <2> HIDE DEF u, v, w
  <2>7. /\ Len(u \o v) = Len(u) + Len(v)
        /\ \A i \in 1 .. Len(u) : (u \o v)[i] = u[i]
        /\ \A j \in 1 .. Len(v) : (u \o v)[Len(u) + j] = v[j]
    BY <2>3, Followed
  <2>8. Len(w) = m + 1 /\ (\A i \in 1 .. m : w[i] = r[i]) /\ w[m + 1] = r[m + 1]
    BY <2>1, <2>4, <2>5, <2>6, <2>7
  <2>9. \A i \in 1 .. m + 1 : i \in 1 .. m \/ i = m + 1
    BY <2>1
  <2>10. \A i \in 1 .. m + 1 : w[i] = r[i]
    BY <2>8, <2>9
  <2>11. QED BY <2>8, <2>10 DEF w
<1>8. N = Nat
  <2> HIDE DEF N
  <2>1. N \subseteq Nat
    BY DEF N
  <2>2. QED BY <1>6, <1>7, <2>1, SetInduction
<1>9. Same(L)
  <2> HIDE DEF Same
  <2>1. \A m \in Nat : m <= L => Same(m)
    BY <1>8
  <2>2. QED BY <1>1, <2>1
<1>10. UpTo(p, L) \in Seq(T)
  BY <1>1, <1>2, JoinedType
<1>11. UpTo(p, L) = r
  <2> DEFINE z == UpTo(p, L)
  <2>1. z \in Seq(T) /\ Len(z) = L /\ \A i \in 1 .. L : z[i] = r[i]
    BY <1>9, <1>10
  <2> HIDE DEF z
  <2>2. z = r
    BY <2>1, SeqEqual DEF L
  <2>3. QED BY <2>2 DEF z
<1>12. QED BY <1>4, <1>11 DEF p, L

\* Nothing joined is nothing.
LEMMA Empties ==
    ASSUME NEW p, NEW n \in Nat, \A i \in 1 .. n : p[i] = <<>>
    PROVE  UpTo(p, n) = <<>>
<1>1. \A i \in 1 .. n : p[i] \in Seq({})
  <2>1. <<>> \in Seq({})
    OBVIOUS
  <2>2. QED BY <2>1
<1>2. UpTo(p, n) \in Seq({})
  BY <1>1, JoinedType
<1>3. \A u \in Seq({}) : u = <<>>
  OBVIOUS
<1>4. QED BY <1>2, <1>3

PartsOf(out) == [i \in 1 .. Len(out) |-> out[i].parts]
Flatten(out) == FlattenSeq(PartsOf(out))

\* Messages say what their parts say, one after the other.
LEMMA FlattenMore ==
    ASSUME NEW G, NEW out \in Seq(Messages(G)), NEW more \in Seq(Messages(G))
    PROVE  /\ Flatten(out) \in Seq(G)
           /\ Flatten(out \o more) = Flatten(out) \o Flatten(more)
           /\ \A m \in Messages(G) : Flatten(Append(out, m)) = Flatten(out) \o m.parts
           /\ Flatten(<<>>) = <<>>
<1>1. ASSUME NEW s \in Seq(Messages(G))
      PROVE  /\ PartsOf(s) \in Seq(Seq(G)) /\ Len(PartsOf(s)) = Len(s)
             /\ \A i \in 1 .. Len(s) : PartsOf(s)[i] = s[i].parts
  <2>1. Len(s) \in Nat /\ \A i \in 1 .. Len(s) : s[i] \in Messages(G)
    BY LenProperties, ElementOfSeq
  <2>2. \A i \in 1 .. Len(s) : s[i].parts \in Seq(G)
    BY <2>1 DEF Messages
  <2>3. QED BY <2>1, <2>2 DEF PartsOf
<1>2. ASSUME NEW s \in Seq(Messages(G)), NEW t \in Seq(Messages(G))
      PROVE  Flatten(s \o t) = Flatten(s) \o Flatten(t)
  <2> DEFINE u == s \o t
             a == PartsOf(s)
             b == PartsOf(t)
             c == PartsOf(u)
  <2>1. /\ u \in Seq(Messages(G)) /\ Len(u) = Len(s) + Len(t)
        /\ \A i \in 1 .. Len(s) : u[i] = s[i]
        /\ \A j \in 1 .. Len(t) : u[Len(s) + j] = t[j]
        /\ \A i \in 1 .. Len(u) : i <= Len(s) \/ i - Len(s) \in 1 .. Len(t)
    BY Followed
  <2> HIDE DEF u
  <2>2. /\ a \in Seq(Seq(G)) /\ Len(a) = Len(s) /\ \A i \in 1 .. Len(s) : a[i] = s[i].parts
        /\ b \in Seq(Seq(G)) /\ Len(b) = Len(t) /\ \A i \in 1 .. Len(t) : b[i] = t[i].parts
        /\ c \in Seq(Seq(G)) /\ Len(c) = Len(u) /\ \A i \in 1 .. Len(u) : c[i] = u[i].parts
    BY <1>1, <2>1
  <2>3. Len(s) \in Nat /\ Len(t) \in Nat
    BY LenProperties
  <2> HIDE DEF a, b, c
  <2> DEFINE d == a \o b
  <2>4. /\ d \in Seq(Seq(G)) /\ Len(d) = Len(a) + Len(b)
        /\ \A i \in 1 .. Len(a) : d[i] = a[i]
        /\ \A j \in 1 .. Len(b) : d[Len(a) + j] = b[j]
    <3>1. a \in Seq(Seq(G)) /\ b \in Seq(Seq(G))
      BY <2>2
    <3>2. QED BY <3>1, Followed
  <2> HIDE DEF d
  <2>5. ASSUME NEW i \in 1 .. Len(u) PROVE c[i] = d[i]
    <3>1. c[i] = u[i].parts
      BY <2>2
    <3>2. ASSUME i \in 1 .. Len(s) PROVE c[i] = d[i]
      <4>1. u[i] = s[i] /\ a[i] = s[i].parts
        BY <2>1, <2>2, <3>2
      <4>2. d[i] = a[i]
        BY <2>2, <2>4, <3>2
      <4>3. QED BY <3>1, <4>1, <4>2
    <3>3. ASSUME NEW j \in 1 .. Len(t), i = Len(s) + j PROVE c[i] = d[i]
      <4>1. u[i] = t[j] /\ b[j] = t[j].parts
        BY <2>1, <2>2, <3>3
      <4>2. d[i] = b[j]
        BY <2>2, <2>4, <3>3
      <4>3. QED BY <3>1, <4>1, <4>2
    <3>4. i \in 1 .. Len(s) \/ \E j \in 1 .. Len(t) : i = Len(s) + j
      <4>1. i \in Nat /\ i >= 1 /\ i <= Len(s) + Len(t)
        BY <2>1, <2>3
      <4>2. CASE i <= Len(s)
        BY <2>3, <4>1, <4>2
      <4>3. CASE ~(i <= Len(s))
        <5>1. (i - Len(s)) \in 1 .. Len(t) /\ i = Len(s) + (i - Len(s))
          BY <2>3, <4>1, <4>3
        <5>2. QED BY <5>1
      <4>4. QED BY <4>2, <4>3
    <3>5. QED BY <3>2, <3>3, <3>4
  <2>6. c = d
    BY <2>1, <2>2, <2>4, <2>5, SeqEqual
  <2>7. FlattenSeq(a \o b) = FlattenSeq(a) \o FlattenSeq(b)
    BY <2>2, JoinConcat
  <2>8. QED BY <2>6, <2>7 DEF Flatten, a, b, c, d, u
<1>3. ASSUME NEW m \in Messages(G) PROVE Flatten(<<m>>) = m.parts /\ <<m>> \in Seq(Messages(G))
  <2> DEFINE s == <<m>>
  <2>1. s \in Seq(Messages(G)) /\ Len(s) = 1 /\ s[1] = m
    OBVIOUS
  <2> HIDE DEF s
  <2>2. PartsOf(s) = [i \in 1 .. 1 |-> m.parts]
    BY <2>1 DEF PartsOf
  <2>3. [i \in 1 .. 1 |-> PartsOf(s)[i]] = PartsOf(s) /\ PartsOf(s)[1] = m.parts
    BY <2>2
  <2>4. UpTo(PartsOf(s), 1) = m.parts
    BY <2>3, OneMore
  <2>5. QED BY <2>1, <2>3, <2>4 DEF Flatten, UpTo, s
<1>4. \A m \in Messages(G) : Flatten(Append(out, m)) = Flatten(out) \o m.parts
  <2>1. \A m \in Messages(G) : Append(out, m) = out \o <<m>>
    BY AppendIsConcat
  <2>2. QED BY <1>2, <1>3, <2>1
<1>5. Flatten(out) \in Seq(G)
  BY <1>1, JoinConcat DEF Flatten
<1>6. Flatten(<<>>) = <<>>
  <2>1. PartsOf(<<>>) = <<>>
    BY DEF PartsOf
  <2>2. FlattenSeq(<<>>) = <<>>
    <3>1. UpTo(<<>>, 0) = <<>>
      BY OneMore
    <3>2. [i \in 1 .. 0 |-> <<>>[i]] = <<>>
      OBVIOUS
    <3>3. QED BY <3>1, <3>2 DEF UpTo
  <2>3. QED BY <2>1, <2>2 DEF Flatten
<1>7. QED BY <1>2, <1>4, <1>5, <1>6

\* Calls written one to a message.
LEMMA FlattenSingles ==
    ASSUME NEW G, NEW cs \in Seq(G)
    PROVE  LET more == [i \in 1 .. Len(cs) |-> Message("model", <<cs[i]>>)] IN
           /\ more \in Seq(Messages(G)) /\ Flatten(more) = cs
<1> DEFINE more == [i \in 1 .. Len(cs) |-> Message("model", <<cs[i]>>)]
<1>1. Len(cs) \in Nat /\ \A i \in 1 .. Len(cs) : cs[i] \in G
  BY LenProperties, ElementOfSeq
<1>2. \A i \in 1 .. Len(cs) : /\ Message("model", <<cs[i]>>) \in Messages(G)
                              /\ Message("model", <<cs[i]>>).parts = <<cs[i]>>
  <2>1. \A i \in 1 .. Len(cs) : <<cs[i]>> \in Seq(G)
    BY <1>1
  <2>2. QED BY <2>1 DEF Message, Messages, Roles
<1>3. more \in Seq(Messages(G)) /\ Len(more) = Len(cs)
  BY <1>1, <1>2
<1>4. PartsOf(more) = [i \in 1 .. Len(cs) |-> <<cs[i]>>]
  BY <1>1, <1>2, <1>3 DEF PartsOf
<1>5. Flatten(more) = cs
  BY <1>4, Singles DEF Flatten
<1>6. QED BY <1>3, <1>5

-----------------------------------------------------------------------------
(* The request of a whole history, item by item.                           *)

\* What an encoder has written when it has passed the first n items of the history,
\* the engine's prompt among them.
Start(key) == NewPayload(Sanitize(Prompt(history), key, Primary))
After(w, key, n) == Written(w, Start(key), UpTo(Portions(Prompt(history), key, Primary), n))

LEMMA AfterSteps ==
    ASSUME NEW b, History(history, b, FALSE), NEW key, NEW w
    PROVE  LET s == Prompt(history) IN
           /\ Len(s) \in Nat
           /\ After(w, key, 0) = Start(key) /\ Start(key) \in Payloads(OwnParts(key))
           /\ \A n \in 0 .. Len(s) : After(w, key, n) \in Payloads(OwnParts(key))
           /\ After(w, key, Len(s)) = Written(w, Start(key), Sanitize(s, key, Primary))
           /\ \A n \in 0 .. Len(s) - 1 :
                 /\ Portion(s, n + 1, key, Primary) = <<>> =>
                       After(w, key, n + 1) = After(w, key, n)
                 /\ \A y : Portion(s, n + 1, key, Primary) = <<y>> =>
                       /\ y \in OwnItems(key)
                       /\ After(w, key, n + 1) = WireStep(w, After(w, key, n), y)
<1> DEFINE s == Prompt(history)
           p == Portions(s, key, Primary)
           T == OwnItems(key)
           G == OwnParts(key)
           L == Len(s)
           q == Start(key)
           u(n) == UpTo(p, n)
<1>1. s \in Seq(Items) /\ L \in Nat
  <2>1. s \in Seq(Items)
    BY PromptIs DEF History
  <2>2. QED BY <2>1, LenProperties
<1>2. \A i \in 1 .. L : p[i] = Portion(s, i, key, Primary) /\ p[i] \in Seq(T)
  BY PortionOwn DEF Portions
<1>3. Sanitize(s, key, Primary) = UpTo(p, L) /\ Sanitize(s, key, Primary) \in Seq(T)
  <2>1. [i \in 1 .. L |-> p[i]] = p
    BY DEF Portions
  <2>2. QED BY <2>1, SanitizeOwn DEF Sanitize, UpTo, Portions
<1>4. T \subseteq SentItems /\ \A y \in T : Sayable(y, G)
  BY DEF OwnItems
<1>5. q \in Payloads(G)
  <2> HIDE DEF T, G
  <2>1. Sanitize(s, key, Primary) \in Seq(SentItems)
    BY <1>3, <1>4, SeqMonotonic
  <2>2. QED BY <2>1, NewPayloadTyped DEF Start
<1>6. \A n : After(w, key, n) = Written(w, q, u(n))
  BY DEF After
<1> HIDE DEF s, p, T, G, L, q, u
<1>7. /\ \A n \in 0 .. L : u(n) \in Seq(T)
      /\ \A n \in 0 .. L - 1 : u(n + 1) = u(n) \o p[n + 1]
      /\ u(0) = <<>>
  <2>1. \A i \in 1 .. L : p[i] \in Seq(T)
    BY <1>2
  <2>2. /\ UpTo(p, L) \in Seq(T)
        /\ \A m \in 0 .. L - 1 : /\ UpTo(p, m) \in Seq(T)
                                 /\ UpTo(p, m + 1) = UpTo(p, m) \o p[m + 1]
    BY <1>1, <2>1, JoinedType
  <2>3. \A n \in 0 .. L : n = L \/ n \in 0 .. L - 1
    BY <1>1
  <2>4. UpTo(p, 0) = <<>>
    BY OneMore
  <2>5. QED BY <2>2, <2>3, <2>4 DEF u
<1>8. Written(w, q, <<>>) = q
  <2>1. <<>> \in Seq({1}) /\ 1 \in {1}
    OBVIOUS
  <2>2. QED BY <2>1, OneMoreItem
<1>9. \A n \in 0 .. L : Written(w, q, u(n)) \in Payloads(G)
  BY <1>4, <1>5, <1>7, WrittenTyped
<1>10. ASSUME NEW n \in 0 .. L - 1, Portion(s, n + 1, key, Primary) = <<>>
       PROVE  u(n + 1) = u(n)
  <2>1. n + 1 \in 1 .. L /\ n \in 0 .. L
    BY <1>1
  <2>2. u(n + 1) = u(n) \o <<>> /\ u(n) \in Seq(T)
    BY <1>2, <1>7, <1>10, <2>1
  <2>3. QED BY <2>2, Concats
<1>11. ASSUME NEW n \in 0 .. L - 1, NEW y, Portion(s, n + 1, key, Primary) = <<y>>
       PROVE  y \in T /\ Written(w, q, u(n + 1)) = WireStep(w, Written(w, q, u(n)), y)
  <2>1. n + 1 \in 1 .. L /\ n \in 0 .. L
    BY <1>1
  <2>2. u(n + 1) = u(n) \o <<y>> /\ u(n) \in Seq(T) /\ <<y>> \in Seq(T)
    BY <1>2, <1>7, <1>11, <2>1
  <2>3. y \in T
    <3>1. Len(<<y>>) = 1 /\ <<y>>[1] = y /\ 1 \in 1 .. 1
      OBVIOUS
    <3> DEFINE z == <<y>>
    <3> HIDE DEF z
    <3>2. z \in Seq(T) /\ Len(z) = 1 /\ z[1] = y
      BY <2>2, <3>1 DEF z
    <3>3. z[1] \in T
      BY <3>1, <3>2, ElementOfSeq
    <3>4. QED BY <3>2, <3>3
  <2>4. u(n + 1) = Append(u(n), y)
    <3>1. \A v \in Seq(T) : Append(v, y) = v \o <<y>>
      BY <2>3, AppendIsConcat
    <3>2. QED BY <2>2, <3>1
  <2>5. \A v \in Seq(T) : Written(w, q, Append(v, y)) = WireStep(w, Written(w, q, v), y)
    BY <2>3, OneMoreItem
  <2>6. QED BY <2>2, <2>3, <2>4, <2>5
<1>12. 0 \in 0 .. L
  BY <1>1
<1>13. QED BY <1>1, <1>3, <1>5, <1>6, <1>7, <1>8, <1>9, <1>10, <1>11, <1>12
           DEF s, T, G, L, q, u

\* The three ways an item of the history reaches the encoder: as it is, stripped, or not.
LEMMA AfterCases ==
    ASSUME NEW b, History(history, b, FALSE), NEW key, NEW w,
           NEW n \in 0 .. Len(Prompt(history)) - 1
    PROVE  LET s == Prompt(history)
               y == s[n + 1]
               a == Strip(y, Summaries(s, n + 1))
           IN  /\ y \in Items /\ n \in Nat /\ n + 1 \in 1 .. Len(s)
               /\ \/ /\ ~Foreign(s, n + 1, key, Primary)
                     /\ y \in OwnItems(key)
                     /\ After(w, key, n + 1) = WireStep(w, After(w, key, n), y)
                  \/ /\ Foreign(s, n + 1, key, Primary) /\ y.k = "assistant"
                     /\ a \in OwnItems(key)
                     /\ a.k = "assistant" /\ a.n = y.n /\ a.think = "none"
                     /\ a.parts = Summaries(s, n + 1) \o y.parts
                     /\ a.calls = Unsigned(y.calls)
                     /\ After(w, key, n + 1) = WireStep(w, After(w, key, n), a)
                  \/ /\ Foreign(s, n + 1, key, Primary) /\ y.k \in {"reasoning", "hosted"}
                     /\ After(w, key, n + 1) = After(w, key, n)
<1> DEFINE s == Prompt(history)
           i == n + 1
           P == Portion(s, i, key, Primary)
           y == s[i]
           a == Strip(y, Summaries(s, i))
<1>1. /\ Len(s) \in Nat
      /\ P = <<>> => After(w, key, i) = After(w, key, n)
      /\ \A x : P = <<x>> => x \in OwnItems(key)
                             /\ After(w, key, i) = WireStep(w, After(w, key, n), x)
  BY AfterSteps
<1>2. s \in Seq(Items) /\ Grouped(s)
  BY PromptIs DEF History
<1>3. n \in Nat /\ i \in 1 .. Len(s)
  BY <1>1
<1>4. y \in Items
  BY <1>2, <1>3, ElementOfSeq
<1> HIDE DEF s, i
<1>7. ~Foreign(s, i, key, Primary) => P = <<y>>
  BY <1>2, <1>3, PortionIs
<1>8. Foreign(s, i, key, Primary) /\ y.k = "assistant" => P = <<a>>
  BY <1>2, <1>3, PortionIs
<1>9. Foreign(s, i, key, Primary) /\ y.k = "assistant" =>
         /\ a.k = "assistant" /\ a.n = y.n /\ a.think = "none"
         /\ a.parts = Summaries(s, i) \o y.parts
         /\ a.calls = Unsigned(y.calls)
  BY <1>2, <1>3, PortionIs
<1>10. Foreign(s, i, key, Primary) /\ y.k # "assistant" =>
         P = <<>> /\ y.k \in {"reasoning", "hosted"}
  BY <1>2, <1>3, PortionIs
<1> HIDE DEF P, a, y
<1>6. QED BY <1>1, <1>3, <1>4, <1>7, <1>8, <1>9, <1>10 DEF a, y, s, i

UserParts == {"text", "image", "audio"} \X Int

LEMMA UserSays ==
    ASSUME NEW y \in SentItems, y.k = "user"
    PROVE  UserContent(y) \in Seq(UserParts) /\ TextContent(y) \in Seq(UserParts)
<1>1. y.n \in Int /\ y.parts \in Seq(Shapes)
  BY SentFields
<1> DEFINE T == {"text", "image", "audio"}
           m == Keep(y.parts, Media)
           t == Keep(y.parts, {"text"})
<1>2. ASSUME NEW parts \in Seq(T) PROVE Tagged(parts, y.n) \in Seq(UserParts)
  <2>1. Len(parts) \in Nat
    BY LenProperties
  <2>2. ASSUME NEW i \in 1 .. Len(parts) PROVE <<parts[i], y.n>> \in UserParts
    <3>1. parts[i] \in T
      BY ElementOfSeq
    <3>2. QED BY <1>1, <3>1 DEF UserParts
  <2>3. QED BY <2>1, <2>2 DEF Tagged
<1>3. m \in Seq(Shapes \cap Media) /\ t \in Seq(Shapes \cap {"text"})
  BY <1>1, KeepTyped
<1>4. Shapes \cap Media \subseteq T /\ Shapes \cap {"text"} \subseteq T
  BY DEF Media
<1>5. Seq(Shapes \cap Media) \subseteq Seq(T) /\ Seq(Shapes \cap {"text"}) \subseteq Seq(T)
  BY <1>4, SeqMonotonic
<1> HIDE DEF m, t, T
<1>6. m \in Seq(T) /\ t \in Seq(T) /\ m \o t \in Seq(T)
  BY <1>3, <1>5, Concats
<1>7. Tagged(t, y.n) \in Seq(UserParts) /\ Tagged(m \o t, y.n) \in Seq(UserParts)
  BY <1>2, <1>6
<1>8. QED BY <1>7 DEF UserContent, TextContent, NormalizedParts, m, t

LEMMA AssistantSays ==
    ASSUME NEW y \in SentItems, y.k = "assistant"
    PROVE  /\ y.parts \in Seq(SaidParts) /\ y.calls \in Seq(Calls) /\ Len(y.calls) \in Nat
           /\ \A c \in 1 .. Len(y.calls) : y.calls[c] \in Calls /\ y.calls[c].id \in CallIds
           /\ CallsOf(y) \in Seq({"call"} \X CallIds)
           /\ SignedCallsOf(y) \in Seq({"call", "signed_call"} \X CallIds)
           /\ Len(CallsOf(y)) = Len(y.calls) /\ Len(SignedCallsOf(y)) = Len(y.calls)
           /\ \A c \in 1 .. Len(y.calls) : /\ CallsOf(y)[c] = <<"call", y.calls[c].id>>
                                           /\ SignedCallsOf(y)[c][1] \in {"call", "signed_call"}
                                           /\ SignedCallsOf(y)[c][2] = y.calls[c].id
<1>1. y.parts \in Seq(SaidParts) /\ y.calls \in Seq(Calls)
  BY SentFields
<1>2. Len(y.calls) \in Nat /\ \A c \in 1 .. Len(y.calls) : y.calls[c] \in Calls
  BY <1>1, LenProperties, ElementOfSeq
<1>3. \A c \in 1 .. Len(y.calls) : y.calls[c].id \in CallIds
  BY <1>2 DEF Calls
<1>4. \A c \in 1 .. Len(y.calls) :
         /\ <<"call", y.calls[c].id>> \in {"call"} \X CallIds
         /\ <<IF y.calls[c].signed THEN "signed_call" ELSE "call", y.calls[c].id>>
               \in {"call", "signed_call"} \X CallIds
  BY <1>3
<1>5. CallsOf(y) \in Seq({"call"} \X CallIds) /\ Len(CallsOf(y)) = Len(y.calls)
  <2>1. \A c \in 1 .. Len(y.calls) : <<"call", y.calls[c].id>> \in {"call"} \X CallIds
    BY <1>4
  <2>2. Len(y.calls) \in Nat
    BY <1>2
  <2>3. QED BY <2>1, <2>2 DEF CallsOf
<1>6. /\ SignedCallsOf(y) \in Seq({"call", "signed_call"} \X CallIds)
      /\ Len(SignedCallsOf(y)) = Len(y.calls)
  <2> DEFINE e(c) == <<IF y.calls[c].signed THEN "signed_call" ELSE "call", y.calls[c].id>>
  <2>1. \A c \in 1 .. Len(y.calls) : e(c) \in {"call", "signed_call"} \X CallIds
    BY <1>4
  <2>2. Len(y.calls) \in Nat
    BY <1>2
  <2>3. SignedCallsOf(y) = [c \in 1 .. Len(y.calls) |-> e(c)]
    BY DEF SignedCallsOf
  <2> HIDE DEF e
  <2>4. QED BY <2>1, <2>2, <2>3
<1>7. \A c \in 1 .. Len(y.calls) :
         /\ CallsOf(y)[c] = <<"call", y.calls[c].id>>
         /\ SignedCallsOf(y)[c] = <<IF y.calls[c].signed THEN "signed_call" ELSE "call",
                                    y.calls[c].id>>
  BY DEF CallsOf, SignedCallsOf
<1>8. \A c \in 1 .. Len(y.calls) : /\ SignedCallsOf(y)[c][1] \in {"call", "signed_call"}
                                   /\ SignedCallsOf(y)[c][2] = y.calls[c].id
  BY <1>7
<1>9. QED BY <1>1, <1>2, <1>3, <1>5, <1>6, <1>7, <1>8

-----------------------------------------------------------------------------
(* Where thinking stands in what Anthropic is sent.                        *)

ThinkOk(parts) ==
    \A p, q \in 1 .. Len(parts) : parts[p][1] = "think" =>
        /\ parts[q][1] = "think" => p = q
        /\ q <= p => parts[q][1] \notin CallTags
Thinkless(parts) == \A i \in 1 .. Len(parts) : parts[i][1] # "think"
LeadOk(model) ==
    \A i \in 1 .. Len(model) : /\ model[i][1] \in {"think", "summary"}
                               /\ model[i][1] = "think" => i = 1
ThinksOk(out) == \A m \in 1 .. Len(out) : ThinkOk(out[m].parts)
ThinkInv(st) == ThinksOk(st.out) /\ Thinkless(st.user) /\ LeadOk(st.model)

\* What has no thinking, or only its lead, is in order.
LEMMA ThinkShapes ==
    ASSUME NEW G, NEW u \in Seq(G), NEW v \in Seq(G)
    PROVE  /\ Thinkless(u) => ThinkOk(u)
           /\ LeadOk(u) => ThinkOk(u)
           /\ Thinkless(u) /\ Thinkless(v) => Thinkless(u \o v)
           /\ ThinkOk(u) /\ Thinkless(v) => ThinkOk(u \o v)
<1>1. /\ u \o v \in Seq(G) /\ Len(u \o v) = Len(u) + Len(v)
      /\ \A i \in 1 .. Len(u) : (u \o v)[i] = u[i]
      /\ \A j \in 1 .. Len(v) : (u \o v)[Len(u) + j] = v[j]
      /\ \A i \in 1 .. Len(u \o v) : i <= Len(u) \/ i - Len(u) \in 1 .. Len(v)
  BY Followed
<1>2. Len(u) \in Nat /\ Len(v) \in Nat
  BY LenProperties
<1> DEFINE w == u \o v
<1> HIDE DEF w
<1>3. /\ Len(w) = Len(u) + Len(v)
      /\ \A i \in 1 .. Len(u) : w[i] = u[i]
      /\ \A j \in 1 .. Len(v) : w[Len(u) + j] = v[j]
  BY <1>1 DEF w
<1>4. ASSUME NEW i \in 1 .. Len(w)
      PROVE  i \in 1 .. Len(u) \/ \E j \in 1 .. Len(v) : i = Len(u) + j /\ w[i] = v[j]
  <2>1. i \in Nat /\ 1 <= i /\ i <= Len(u) + Len(v)
    BY <1>2, <1>3
  <2>2. CASE ~(i <= Len(u))
    <3>1. i - Len(u) \in 1 .. Len(v) /\ i = Len(u) + (i - Len(u))
      BY <1>2, <2>1, <2>2
    <3>2. QED BY <1>3, <3>1
  <2>3. QED BY <1>2, <2>1, <2>2
<1>5. Thinkless(u) => ThinkOk(u)
  BY DEF Thinkless, ThinkOk
<1>6. LeadOk(u) => ThinkOk(u)
  BY <1>2 DEF LeadOk, ThinkOk, CallTags
<1>7. ASSUME Thinkless(u), Thinkless(v) PROVE Thinkless(w)
  <2> SUFFICES ASSUME NEW i \in 1 .. Len(w) PROVE w[i][1] # "think"
    BY DEF Thinkless
  <2>1. CASE i \in 1 .. Len(u)
    BY <1>3, <1>7, <2>1 DEF Thinkless
  <2>2. CASE \E j \in 1 .. Len(v) : i = Len(u) + j /\ w[i] = v[j]
    BY <1>7, <2>2 DEF Thinkless
  <2>3. QED BY <1>4, <2>1, <2>2
<1>8. ASSUME ThinkOk(u), Thinkless(v) PROVE ThinkOk(w)
  <2> SUFFICES ASSUME NEW p \in 1 .. Len(w), NEW q \in 1 .. Len(w), w[p][1] = "think"
               PROVE  /\ w[q][1] = "think" => p = q
                      /\ q <= p => w[q][1] \notin CallTags
    BY DEF ThinkOk
  <2>6. ASSUME NEW i \in 1 .. Len(w), w[i][1] = "think"
        PROVE  i \in 1 .. Len(u) /\ u[i][1] = "think"
    <3>1. CASE i \in 1 .. Len(u)
      BY <1>3, <2>6, <3>1
    <3>2. ASSUME NEW j \in 1 .. Len(v), w[i] = v[j] PROVE FALSE
      <4>1. v[j][1] # "think"
        BY <1>8 DEF Thinkless
      <4>2. QED BY <2>6, <3>2, <4>1
    <3>3. QED BY <1>4, <3>1, <3>2
  <2>1. p \in 1 .. Len(u) /\ u[p][1] = "think"
    BY <2>6
  <2>2. w[q][1] = "think" => q \in 1 .. Len(u) /\ u[q][1] = "think"
    BY <2>6
  <2>3. w[q][1] = "think" => p = q
    BY <1>8, <2>1, <2>2 DEF ThinkOk
  <2>4. q <= p => q \in 1 .. Len(u) /\ w[q] = u[q]
    BY <1>2, <1>3, <2>1
  <2>5. QED BY <1>8, <2>1, <2>3, <2>4 DEF ThinkOk
<1>9. QED BY <1>5, <1>6, <1>7, <1>8 DEF w

LEMMA ThinkSay ==
    ASSUME NEW G, NEW st \in Payloads(G), ThinkInv(st), NEW role \in Roles,
           NEW parts \in Seq(G), ThinkOk(parts)
    PROVE  ThinkInv(Say(st, role, parts))
<1> DEFINE x == Message(role, parts)
           o == Append(st.out, x)
<1>1. st.out \in Seq(Messages(G)) /\ x \in Messages(G) /\ x.parts = parts
  BY SayTyped DEF Payloads, Message
<1> HIDE DEF x
<1>2. Len(st.out) \in Nat
  BY <1>1, LenProperties
<1>3. /\ Len(o) = Len(st.out) + 1 /\ o[Len(st.out) + 1] = x
      /\ \A m \in 1 .. Len(st.out) : o[m] = st.out[m]
  BY <1>1, AppendProperties
<1> HIDE DEF o
<1>4. \A m \in 1 .. Len(o) : m \in 1 .. Len(st.out) \/ m = Len(st.out) + 1
  BY <1>2, <1>3
<1>5. ThinksOk(o)
  BY <1>1, <1>3, <1>4 DEF ThinkInv, ThinksOk
<1>6. /\ Say(st, role, parts).out = o /\ Say(st, role, parts).user = st.user
      /\ Say(st, role, parts).model = st.model
  BY DEF Say, Payloads, o, x
<1>7. QED BY <1>5, <1>6 DEF ThinkInv

LEMMA ThinkFlush ==
    ASSUME NEW G, NEW st \in Payloads(G), ThinkInv(st)
    PROVE  /\ ThinkInv(FlushModel(st)) /\ ThinkInv(FlushUser(st)) /\ ThinkInv(FlushAll(st))
           /\ FlushUser(st).model = st.model /\ FlushAll(st).model = <<>>
<1>1. ASSUME NEW s \in Payloads(G), ThinkInv(s)
      PROVE  ThinkInv(FlushModel(s)) /\ ThinkInv(FlushUser(s)) /\ FlushUser(s).model = s.model
  <2>1. s.model \in Seq(G) /\ s.user \in Seq(G)
    BY DEF Payloads
  <2>2. ThinkOk(s.model) /\ ThinkOk(s.user)
    BY <1>1, <2>1, ThinkShapes DEF ThinkInv
  <2> DEFINE x == Say(s, "model", s.model)
             y == Say(s, "user", s.user)
  <2>3. ThinkInv(x) /\ ThinkInv(y) /\ x \in Payloads(G) /\ y \in Payloads(G)
    BY <1>1, <2>1, <2>2, ThinkSay, SayTyped DEF Roles
  <2>4. y.model = s.model
    BY DEF Say, Payloads
  <2>5. /\ FlushModel(s) = IF s.model = <<>> THEN s ELSE [x EXCEPT !.model = <<>>]
        /\ FlushUser(s) = IF s.user = <<>> THEN s ELSE [y EXCEPT !.user = <<>>]
    BY FlushTyped
  <2> HIDE DEF x, y
  <2>6. LeadOk(<<>>) /\ Thinkless(<<>>)
    BY DEF LeadOk, Thinkless
  <2>7. ThinkInv([x EXCEPT !.model = <<>>])
    BY <2>3, <2>6 DEF ThinkInv, Payloads
  <2>8. ThinkInv([y EXCEPT !.user = <<>>]) /\ [y EXCEPT !.user = <<>>].model = s.model
    BY <2>3, <2>4, <2>6 DEF ThinkInv, Payloads
  <2>9. QED BY <1>1, <2>5, <2>7, <2>8
<1>2. FlushModel(st) \in Payloads(G) /\ FlushModel(st).model = <<>>
  BY FlushTyped
<1>3. QED BY <1>1, <1>2 DEF FlushAll

\* One item more, where reasoning comes first of its answer.
LEMMA ThinkStep ==
    ASSUME NEW G, NEW st \in Payloads(G), ThinkInv(st), NEW y \in SentItems, Sayable(y, G),
           y.k = "reasoning" => st.model = <<>>
    PROVE  /\ ThinkInv(MessagesStep(st, y))
           /\ y.k \notin {"reasoning", "hosted"} => MessagesStep(st, y).model = <<>>
<1>1. y.n \in Int /\ y.k \in Kinds
  BY SentFields
<1> DEFINE fu == FlushUser(st)
           fm == FlushModel(st)
           fa == FlushAll(st)
<1>2. /\ fu \in Payloads(G) /\ fm \in Payloads(G) /\ fa \in Payloads(G)
      /\ ThinkInv(fu) /\ ThinkInv(fm) /\ ThinkInv(fa)
      /\ fu.model = st.model /\ fm.model = <<>> /\ fa.model = <<>>
  BY FlushTyped, ThinkFlush
<1>3. CASE y.k = "system"
  <2>1. MessagesStep(st, y) = Apart(fa, y)
    BY <1>3 DEF MessagesStep
  <2> HIDE DEF fa
  <2>2. Apart(fa, y).out = fa.out /\ Apart(fa, y).user = fa.user /\ Apart(fa, y).model = fa.model
    BY <1>2 DEF Apart, Payloads
  <2>3. QED BY <1>2, <2>1, <2>2 DEF ThinkInv
<1>4. CASE y.k = "user"
  <2>1. MessagesStep(st, y) = Say(fa, "user", UserContent(y))
    BY <1>4 DEF MessagesStep
  <2>2. UserContent(y) \in Seq(UserParts) /\ UserContent(y) \in Seq(G)
    BY <1>4, UserSays DEF Sayable
  <2>3. Thinkless(UserContent(y))
    <3>1. \A i \in 1 .. Len(UserContent(y)) : UserContent(y)[i] \in UserParts
      BY <2>2, ElementOfSeq
    <3>2. QED BY <3>1 DEF Thinkless, UserParts
  <2>4. ThinkOk(UserContent(y))
    BY <2>2, <2>3, ThinkShapes
  <2> HIDE DEF fa
  <2>5. ThinkInv(Say(fa, "user", UserContent(y)))
    BY <1>2, <2>2, <2>4, ThinkSay DEF Roles
  <2>6. Say(fa, "user", UserContent(y)).model = fa.model
    BY <1>2 DEF Say, Payloads
  <2>7. QED BY <1>2, <2>1, <2>5, <2>6
<1>5. ASSUME NEW p \in G, p[1] \in {"think", "summary"}, p[1] = "think" => st.model = <<>>
      PROVE  ThinkInv(Pend(fu, <<p>>))
  <2> DEFINE v == <<p>>
             w == st.model \o v
  <2>1. /\ v \in Seq(G) /\ Len(v) = 1 /\ v[1] = p /\ st.model \in Seq(G)
    BY <1>5 DEF Payloads
  <2> HIDE DEF v
  <2>2. st.model \in Seq(G) /\ v \in Seq(G)
    BY <2>1
  <2>3. /\ Len(w) = Len(st.model) + Len(v)
        /\ \A i \in 1 .. Len(st.model) : w[i] = st.model[i]
        /\ \A j \in 1 .. Len(v) : w[Len(st.model) + j] = v[j]
    BY <2>2, Followed
  <2> HIDE DEF w
  <2>4. Len(st.model) \in Nat
    BY <2>1, LenProperties
  <2>5. \A i \in 1 .. Len(w) : i \in 1 .. Len(st.model) \/ i = Len(st.model) + 1
    BY <2>1, <2>3, <2>4
  <2>6. w[Len(st.model) + 1] = p
    BY <2>1, <2>3
  <2>7. st.model = <<>> => Len(st.model) + 1 = 1
    OBVIOUS
  <2>8. LeadOk(w)
    BY <1>5, <2>3, <2>5, <2>6, <2>7 DEF LeadOk, ThinkInv
  <2> HIDE DEF fu
  <2>9. /\ Pend(fu, v).out = fu.out /\ Pend(fu, v).user = fu.user
        /\ Pend(fu, v).model = w
    BY <1>2 DEF Pend, Payloads, w
  <2>10. QED BY <1>2, <2>8, <2>9 DEF ThinkInv, v
<1>6. CASE y.k = "reasoning"
  <2>1. <<"think", y.n>> \in G
    BY <1>6 DEF Sayable
  <2>2. MessagesStep(st, y) = Pend(fu, <<<<"think", y.n>>>>)
    BY <1>6 DEF MessagesStep
  <2> DEFINE p == <<"think", y.n>>
  <2>3. p[1] = "think" /\ p \in G
    BY <2>1
  <2> HIDE DEF p, fu
  <2>4. ThinkInv(Pend(fu, <<p>>))
    BY <1>5, <1>6, <2>3
  <2>5. QED BY <1>6, <2>2, <2>4 DEF p
<1>7. CASE y.k = "hosted"
  <2>1. <<"summary", y.n>> \in G
    BY <1>7 DEF Sayable
  <2>2. MessagesStep(st, y) = Pend(fu, <<<<"summary", y.n>>>>)
    BY <1>7 DEF MessagesStep
  <2> DEFINE p == <<"summary", y.n>>
  <2>3. p[1] = "summary" /\ p \in G
    BY <2>1
  <2> HIDE DEF p, fu
  <2>4. ThinkInv(Pend(fu, <<p>>))
    BY <1>5, <2>3
  <2>5. QED BY <1>7, <2>2, <2>4 DEF p
<1>8. CASE y.k = "result"
  <2> DEFINE p == <<"answer", y.calls[1]>>
             x == [fm EXCEPT !.user = Append(@, p)]
  <2>1. MessagesStep(st, y) = x
    BY <1>8 DEF MessagesStep
  <2>2. p \in G /\ p[1] # "think"
    BY <1>8 DEF Sayable, Answered
  <2> HIDE DEF fm, p
  <2>3. fm.user \in Seq(G)
    BY <1>2 DEF Payloads
  <2>4. Thinkless(Append(fm.user, p))
    <3>1. Append(fm.user, p) = fm.user \o <<p>> /\ <<p>> \in Seq(G)
      BY <2>2, <2>3, AppendIsConcat
    <3>2. Thinkless(<<p>>)
      BY <2>2 DEF Thinkless
    <3>3. QED BY <1>2, <2>3, <3>1, <3>2, ThinkShapes DEF ThinkInv
  <2>5. x.out = fm.out /\ x.user = Append(fm.user, p) /\ x.model = fm.model
    BY <1>2 DEF Payloads
  <2> HIDE DEF x
  <2>6. QED BY <1>2, <2>1, <2>4, <2>5 DEF ThinkInv
<1>9. CASE y.k = "assistant"
  <2> DEFINE has == \E i \in 1 .. Len(fu.model) : fu.model[i][1] = "think"
             own == IF y.think # "none" /\ ~has THEN <<<<"think", y.n>>>> ELSE <<>>
             lead == st.model \o own
             rest == y.parts \o CallsOf(y)
             x == Pend(fu, own \o y.parts \o CallsOf(y))
  <2>1. MessagesStep(st, y) = FlushModel(x)
    <3>1. has <=> \E i \in 1 .. Len(st.model) : st.model[i][1] = "think"
      BY <1>2
    <3>2. QED BY <1>9, <3>1 DEF MessagesStep, MessagesAssistant
  <2>2. /\ y.parts \in Seq(G) /\ CallsOf(y) \in Seq(G) /\ st.model \in Seq(G)
        /\ <<>> \in Seq(G)
        /\ y.think # "none" => <<<<"think", y.n>>>> \in Seq(G)
    BY <1>9 DEF Sayable, Payloads
  <2>3. own \in Seq(G)
    BY <2>2
  <2>4. ThinkOk(lead)
    <3>1. CASE own = <<>>
      <4>1. lead = st.model
        BY <2>2, <3>1, Concats
      <4> HIDE DEF lead
      <4>2. QED BY <2>2, <4>1, ThinkShapes DEF ThinkInv
    <3>2. CASE own # <<>>
      <4>1. ~has /\ Len(own) = 1 /\ own[1][1] = "think"
        BY <3>2
      <4>2. \A i \in 1 .. Len(st.model) : st.model[i][1] = "summary"
        BY <1>2, <4>1 DEF ThinkInv, LeadOk
      <4> HIDE DEF own
      <4>3. st.model \in Seq(G) /\ own \in Seq(G)
        BY <2>2, <2>3
      <4>4. /\ Len(lead) = Len(st.model) + Len(own)
            /\ \A i \in 1 .. Len(st.model) : lead[i] = st.model[i]
            /\ \A j \in 1 .. Len(own) : lead[Len(st.model) + j] = own[j]
        BY <4>3, Followed
      <4> HIDE DEF lead
      <4>5. Len(st.model) \in Nat
        BY <2>2, LenProperties
      <4>6. \A i \in 1 .. Len(lead) : i \in 1 .. Len(st.model) \/ i = Len(st.model) + 1
        BY <4>1, <4>4, <4>5
      <4>7. lead[Len(st.model) + 1] = own[1]
        BY <4>1, <4>4
      <4>8. /\ \A i \in 1 .. Len(st.model) : lead[i][1] = "summary"
            /\ lead[Len(st.model) + 1][1] = "think"
        BY <4>1, <4>2, <4>4, <4>7
      <4>9. QED BY <4>6, <4>8 DEF ThinkOk, CallTags
    <3>3. QED BY <3>1, <3>2
  <2>5. Thinkless(rest) /\ rest \in Seq(G)
    <3>1. y.parts \in Seq(SaidParts) /\ CallsOf(y) \in Seq({"call"} \X CallIds)
      BY <1>9, AssistantSays
    <3>2. Thinkless(y.parts)
      <4>1. \A i \in 1 .. Len(y.parts) : y.parts[i] \in SaidParts
        BY <3>1, ElementOfSeq
      <4>2. QED BY <4>1 DEF Thinkless, SaidParts
    <3>3. Thinkless(CallsOf(y))
      <4>1. \A i \in 1 .. Len(CallsOf(y)) : CallsOf(y)[i] \in {"call"} \X CallIds
        BY <3>1, ElementOfSeq
      <4>2. QED BY <4>1 DEF Thinkless
    <3>4. QED BY <2>2, <3>2, <3>3, ThinkShapes, Concats
  <2>6. lead \in Seq(G)
    BY <2>2, <2>3, Concats
  <2>7. ThinkOk(lead \o rest)
    <3> HIDE DEF lead, rest
    <3>1. QED BY <2>4, <2>5, <2>6, ThinkShapes
  <2>8. x.model = lead \o rest /\ x.out = fu.out /\ x.user = fu.user
    <3> DEFINE more == own \o y.parts \o CallsOf(y)
    <3>1. st.model \o more = lead \o rest
      <4> HIDE DEF own
      <4>2. /\ st.model \in Seq(G) /\ own \in Seq(G) /\ y.parts \in Seq(G)
            /\ CallsOf(y) \in Seq(G)
        BY <2>2, <2>3
      <4>3. st.model \o ((own \o y.parts) \o CallsOf(y))
               = (st.model \o own) \o (y.parts \o CallsOf(y))
        <5> DEFINE before == st.model
                   said == y.parts
                   asked == CallsOf(y)
        <5>1. /\ before \in Seq(G) /\ own \in Seq(G) /\ said \in Seq(G)
              /\ asked \in Seq(G)
          BY <4>2
        <5> HIDE DEF before, said, asked, lead, rest, x, more
        <5>2. \A u, v, z \in Seq(G) : (u \o v) \o z = u \o (v \o z)
          BY Concats
        <5> DEFINE tail == said \o asked
        <5>3. (own \o said) \o asked = own \o tail /\ tail \in Seq(G)
          BY <5>1, <5>2, Concats, SMTT(30)
        <5> HIDE DEF tail
        <5>4. (before \o own) \o tail = before \o (own \o tail)
          BY <5>1, <5>2, <5>3
        <5>5. QED BY <5>3, <5>4 DEF before, said, asked, tail
      <4>4. QED BY <4>3
    <3>2. x = Pend(fu, more)
      OBVIOUS
    <3> HIDE DEF more, lead, rest, x, fu
    <3>3. x.model = fu.model \o more /\ x.out = fu.out /\ x.user = fu.user
      BY <1>2, <3>2 DEF Pend, Payloads
    <3>4. QED BY <1>2, <3>1, <3>3
  <2>9. x \in Payloads(G)
    <3> DEFINE more == own \o y.parts \o CallsOf(y)
    <3>1. more \in Seq(G)
      <4> HIDE DEF own
      <4>1. QED BY <2>2, <2>3, Concats
    <3> HIDE DEF more
    <3>2. Pend(fu, more) \in Payloads(G)
      <4> HIDE DEF fu
      <4>1. "model" \in Roles
        BY DEF Roles
      <4>2. QED BY <1>2, <3>1, <4>1, SayTyped
    <3>3. QED BY <3>2 DEF more
  <2> HIDE DEF x, lead, rest, fu
  <2>10. /\ Say(x, "model", x.model) \in Payloads(G)
         /\ ThinkInv([Say(x, "model", x.model) EXCEPT !.model = <<>>])
    <3> DEFINE m == x.model
               e == [x EXCEPT !.model = <<>>]
    <3>1. m \in Seq(G) /\ e.model = <<>> /\ e.out = x.out /\ e.user = x.user
      BY <2>9 DEF Payloads
    <3>8. e \in Payloads(G)
      BY <2>9, NoteTyped
    <3>2. Say(x, "model", m) \in Payloads(G)
      BY <2>9, <3>1, SayTyped DEF Roles
    <3>3. ThinkInv(e)
      <4>1. LeadOk(<<>>)
        BY DEF LeadOk
      <4> HIDE DEF e
      <4>2. QED BY <1>2, <2>8, <3>1, <4>1 DEF ThinkInv
    <3>4. [Say(x, "model", m) EXCEPT !.model = <<>>] = Say(e, "model", m)
      BY <2>9 DEF Say, Payloads
    <3>5. ThinkOk(m)
      BY <2>7, <2>8
    <3> HIDE DEF m, e
    <3>6. ThinkInv(Say(e, "model", m))
      BY <3>1, <3>3, <3>5, <3>8, ThinkSay DEF Roles
    <3>7. QED BY <3>2, <3>4, <3>6 DEF m
  <2>11. /\ FlushModel(x).model = <<>>
         /\ FlushModel(x) = IF x.model = <<>> THEN x
                            ELSE [Say(x, "model", x.model) EXCEPT !.model = <<>>]
    BY <2>9, FlushTyped
  <2>12. x.model = <<>> => ThinkInv(x)
    <3>1. LeadOk(<<>>)
      BY DEF LeadOk
    <3>2. QED BY <1>2, <2>8, <3>1 DEF ThinkInv
  <2>13. QED BY <2>1, <2>10, <2>11, <2>12
<1>10. QED BY <1>1, <1>3, <1>4, <1>6, <1>7, <1>8, <1>9 DEF Kinds

LEMMA ThinkAfter ==
    ASSUME NEW b, History(history, b, FALSE), NEW key
    PROVE  ThinkInv(After("messages", key, Len(Prompt(history))))
<1> DEFINE s == Prompt(history)
           L == Len(s)
           A(n) == After("messages", key, n)
           Fine(n) == /\ ThinkInv(A(n))
                      /\ n = 0 \/ s[n].k \notin {"reasoning", "hosted"} => A(n).model = <<>>
           N == {n \in Nat : n <= L => Fine(n)}
           G == OwnParts(key)
<1>1. /\ L \in Nat /\ A(0) = Start(key)
      /\ \A n \in 0 .. L : A(n) \in Payloads(G)
  BY AfterSteps
<1>2. s \in Seq(Items) /\ Grouped(s)
  BY PromptIs DEF History
<1>3. 0 \in N
  <2>1. Start(key).out = <<>> /\ Start(key).user = <<>> /\ Start(key).model = <<>>
    BY DEF Start, NewPayload
  <2>2. ThinksOk(<<>>) /\ Thinkless(<<>>) /\ LeadOk(<<>>)
    BY DEF ThinksOk, Thinkless, LeadOk
  <2> HIDE DEF A
  <2>3. QED BY <1>1, <2>1, <2>2 DEF ThinkInv
<1>4. ASSUME NEW n \in N PROVE n + 1 \in N
  <2> SUFFICES ASSUME n + 1 <= L PROVE Fine(n + 1)
    OBVIOUS
  <2> DEFINE y == s[n + 1]
             a == Strip(y, Summaries(s, n + 1))
  <2>1. n \in Nat /\ n \in 0 .. L - 1 /\ n \in 0 .. L /\ n + 1 # 0 /\ Fine(n)
    BY <1>1
  <2>2. /\ y \in Items /\ n + 1 \in 1 .. L
        /\ \/ /\ y \in OwnItems(key)
              /\ A(n + 1) = WireStep("messages", A(n), y)
           \/ /\ y.k = "assistant" /\ a \in OwnItems(key) /\ a.k = "assistant"
              /\ A(n + 1) = WireStep("messages", A(n), a)
           \/ /\ y.k \in {"reasoning", "hosted"}
              /\ A(n + 1) = A(n)
    BY <2>1, AfterCases
  <2> HIDE DEF A, a, s, L, G
  <2>3. \A st, x : WireStep("messages", st, x) = MessagesStep(st, x)
    BY DEF WireStep
  <2>4. \A x \in OwnItems(key) : x \in SentItems /\ Sayable(x, G)
    BY DEF OwnItems, G
  <2>5. A(n) \in Payloads(G) /\ ThinkInv(A(n))
    BY <1>1, <2>1
  <2>6. ASSUME NEW x \in OwnItems(key), x.k = "reasoning" => A(n).model = <<>>
        PROVE  /\ ThinkInv(MessagesStep(A(n), x))
               /\ x.k \notin {"reasoning", "hosted"} => MessagesStep(A(n), x).model = <<>>
    BY <2>4, <2>5, <2>6, ThinkStep
  <2>7. CASE y \in OwnItems(key) /\ A(n + 1) = WireStep("messages", A(n), y)
    <3>1. y.k = "reasoning" => A(n).model = <<>>
      <4> SUFFICES ASSUME y.k = "reasoning" PROVE A(n).model = <<>>
        OBVIOUS
      <4>1. CASE n = 0
        BY <2>1, <4>1
      <4>2. CASE n # 0
        <5>1. n \in 1 .. L
          BY <1>1, <2>1, <4>2
        <5>2. s[n].k \notin {"reasoning", "hosted"}
          BY <1>2, <5>1 DEF Grouped, L
        <5>3. QED BY <2>1, <5>2
      <4>3. QED BY <4>1, <4>2
    <3>2. QED BY <2>1, <2>3, <2>6, <2>7, <3>1
  <2>8. CASE y.k = "assistant" /\ a \in OwnItems(key) /\ a.k = "assistant"
             /\ A(n + 1) = WireStep("messages", A(n), a)
    BY <2>1, <2>3, <2>6, <2>8
  <2>9. CASE y.k \in {"reasoning", "hosted"} /\ A(n + 1) = A(n)
    BY <2>1, <2>9
  <2>10. QED BY <2>2, <2>7, <2>8, <2>9
<1>5. N = Nat
  <2> HIDE DEF N
  <2>1. N \subseteq Nat
    BY DEF N
  <2>2. QED BY <1>3, <1>4, <2>1, SetInduction
<1>6. \A n \in Nat : n <= L => Fine(n)
  BY <1>5
<1> HIDE DEF A, L, s
<1>7. ThinkInv(A(L))
  BY <1>1, <1>6
<1>8. QED BY <1>7 DEF A, L, s

\* What a provider with a window of any size is sent.
LEMMA WholeIs ==
    ASSUME RequestInv, Whole
    PROVE  /\ sent.slot \in Slots /\ History(history, born, FALSE)
           /\ sent.body = Encoded(After(sent.slot.wire, sent.slot.key, Len(Prompt(history))))
           /\ sent.slot.wire = "chat" =>
                 ~ChatRejects(Sanitize(Prompt(history), sent.slot.key, Primary))
<1>1. /\ sent.slot \in Slots /\ Requested(sent.slot, sent.body)
      /\ History(history, born, FALSE)
  <2>1. phase = "sent" /\ (phase = "tools") = FALSE
    BY DEF Whole, Delivered
  <2>2. QED BY <2>1 DEF RequestInv, HistoryInv
<1> DEFINE key == sent.slot.key
           items == Sanitize(Prompt(history), key, Primary)
           w == sent.slot.wire
<1>2. Rewrite(Prompt(history), sent.slot, Primary, FALSE) = items
  BY DEF Whole, Rewrite
<1> HIDE DEF items
<1>3. /\ sent.body = Encoded(Written(w, NewPayload(items), items))
      /\ w = "chat" => ~ChatRejects(items)
  BY <1>1, <1>2 DEF Requested, Whole, Delivered
<1>4. After(w, key, Len(Prompt(history))) = Written(w, Start(key), items)
  BY <1>1, AfterSteps DEF items
<1>5. QED BY <1>1, <1>3, <1>4 DEF Start, items

\* Reasoning, hosted calls and signatures are sent to their maker alone, and Anthropic
\* has the thinking of an answer once and before its calls, whatever slots a session of
\* any length went through.
THEOREM ReasoningKept == Spec => []ReasoningInPlace
<1>1. RequestInv => ReasoningInPlace
  <2> SUFFICES ASSUME RequestInv PROVE ReasoningInPlace
    OBVIOUS
  <2>1. ThinkingFirst
    <3> SUFFICES ASSUME Whole, sent.slot.wire = "messages", NEW m \in 1 .. Len(sent.body.out)
                 PROVE  LET parts == sent.body.out[m].parts
                            thinks == {p \in 1 .. Len(parts) : parts[p][1] = "think"}
                        IN  /\ Cardinality(thinks) <= 1
                            /\ \A p \in thinks : \A q \in 1 .. p : parts[q][1] \notin CallTags
      BY DEF ThinkingFirst
    <3> DEFINE parts == sent.body.out[m].parts
               thinks == {p \in 1 .. Len(parts) : parts[p][1] = "think"}
               st == After("messages", sent.slot.key, Len(Prompt(history)))
    <3>1. ThinkInv(st) /\ st \in Payloads(OwnParts(sent.slot.key))
      <4>1. History(history, born, FALSE)
        BY WholeIs
      <4>2. Len(Prompt(history)) \in 0 .. Len(Prompt(history))
        BY <4>1, AfterSteps
      <4>3. QED BY <4>1, <4>2, ThinkAfter, AfterSteps
    <3>2. sent.body = Encoded(st)
      BY WholeIs
    <3> HIDE DEF st
    <3>3. ThinkInv(FlushAll(st)) /\ FlushAll(st) \in Payloads(OwnParts(sent.slot.key))
      BY <3>1, ThinkFlush, FlushTyped
    <3>4. sent.body.out = FlushAll(st).out
      BY <3>2 DEF Encoded
    <3>5. ThinkOk(parts)
      BY <3>3, <3>4 DEF ThinkInv, ThinksOk
    <3>6. Len(parts) \in Nat
      <4>1. sent.body.out \in Seq(Messages(OwnParts(sent.slot.key)))
        BY <3>3, <3>4 DEF Payloads
      <4>2. sent.body.out[m] \in Messages(OwnParts(sent.slot.key))
        BY <4>1, ElementOfSeq
      <4>3. parts \in Seq(OwnParts(sent.slot.key))
        BY <4>2 DEF Messages
      <4>4. QED BY <4>3, LenProperties
    <3> HIDE DEF parts
    <3>7. Cardinality(thinks) <= 1
      <4>1. CASE thinks = {}
        <5>1. Cardinality({}) = 0
          BY FS_EmptySet
        <5> HIDE DEF thinks
        <5>2. Cardinality(thinks) = 0
          BY <4>1, <5>1
        <5>3. QED BY <5>2
      <4>2. CASE thinks # {}
        <5>1. PICK p : p \in thinks
          BY <4>2
        <5>2. thinks = {p}
          BY <3>5, <5>1 DEF ThinkOk
        <5> HIDE DEF thinks
        <5>3. Cardinality({p}) = 1
          BY FS_Singleton
        <5>4. Cardinality(thinks) = 1
          BY <5>2, <5>3
        <5>5. QED BY <5>4
      <4>3. QED BY <4>1, <4>2
    <3>8. \A p \in thinks : \A q \in 1 .. p : parts[q][1] \notin CallTags
      <4>1. ASSUME NEW p \in thinks, NEW q \in 1 .. p PROVE parts[q][1] \notin CallTags
        <5>1. p \in 1 .. Len(parts) /\ q \in 1 .. Len(parts) /\ q <= p
          BY <3>6
        <5>2. QED BY <3>5, <5>1 DEF ThinkOk
      <4>2. QED BY <4>1
    <3>9. QED BY <3>7, <3>8 DEF parts
  <2>2. ASSUME Delivered, NEW m \in 1 .. Len(sent.body.out),
               NEW p \in 1 .. Len(sent.body.out[m].parts)
        PROVE  LET part == sent.body.out[m].parts[p] IN
               /\ part[1] \in {"think", "hosted"} => Maker(part[2]) = sent.slot.key
               /\ part[1] = "signed_call" => Maker(part[2][1]) = sent.slot.key
    <3> DEFINE G == OwnParts(sent.slot.key)
    <3> HIDE DEF G
    <3>1. sent.body.out \in Seq(Messages(G))
      BY <2>2, SentOwn DEF G
    <3>2. sent.body.out[m] \in Messages(G)
      BY <3>1, ElementOfSeq
    <3>3. sent.body.out[m].parts \in Seq(G)
      BY <3>2 DEF Messages
    <3>4. sent.body.out[m].parts[p] \in G
      BY <3>3, ElementOfSeq
    <3>5. QED BY <3>4 DEF G, OwnParts
  <2>3. QED BY <2>1, <2>2 DEF ReasoningInPlace
<1>2. QED BY <1>1, RequestsCurrent, PTL

-----------------------------------------------------------------------------
(* What each step of an encoder writes.                                    *)

\* What an encoder has after a step: system texts, parts in messages, parts pending.
Moves(st, t, system, flat, model, user) ==
    /\ t.system = system /\ Flatten(t.out) = flat /\ t.model = model /\ t.user = user
    /\ t.custom = st.custom /\ t.named = st.named

LEMMA Ops ==
    ASSUME NEW G, NEW st \in Payloads(G)
    PROVE  LET F == Flatten(st.out)
               M == st.model
               U == st.user
           IN  /\ Moves(st, FlushModel(st), st.system, F \o M, <<>>, U)
               /\ Moves(st, FlushUser(st), st.system, F \o U, M, <<>>)
               /\ Moves(st, FlushAll(st), st.system, (F \o M) \o U, <<>>, <<>>)
               /\ \A role \in Roles : \A parts \in Seq(G) :
                     Moves(st, Say(st, role, parts), st.system, F \o parts, M, U)
               /\ \A parts \in Seq(G) :
                     Moves(st, Pend(st, parts), st.system, F, M \o parts, U)
               /\ \A y : Moves(st, Apart(st, y), Append(st.system, y.n), F, M, U)
<1>1. ASSUME NEW s \in Payloads(G), NEW role \in Roles, NEW parts \in Seq(G)
      PROVE  Moves(s, Say(s, role, parts), s.system, Flatten(s.out) \o parts, s.model, s.user)
  <2> DEFINE x == Message(role, parts)
             o == Append(s.out, x)
  <2>1. s.out \in Seq(Messages(G)) /\ x \in Messages(G) /\ x.parts = parts
    BY SayTyped DEF Payloads, Message
  <2> HIDE DEF x
  <2>2. Flatten(o) = Flatten(s.out) \o parts
    <3>1. \A e \in Messages(G) : Flatten(Append(s.out, e)) = Flatten(s.out) \o e.parts
      BY <2>1, FlattenMore
    <3>2. QED BY <2>1, <3>1
  <2>3. Say(s, role, parts) = [s EXCEPT !.out = o]
    BY DEF Say, x
  <2> HIDE DEF o
  <2>4. QED BY <2>2, <2>3 DEF Moves, Payloads
<1>2. ASSUME NEW s \in Payloads(G)
      PROVE  /\ Moves(s, FlushModel(s), s.system, Flatten(s.out) \o s.model, <<>>, s.user)
             /\ Moves(s, FlushUser(s), s.system, Flatten(s.out) \o s.user, s.model, <<>>)
             /\ FlushModel(s) \in Payloads(G) /\ FlushUser(s) \in Payloads(G)
  <2> DEFINE x == Say(s, "model", s.model)
             y == Say(s, "user", s.user)
  <2>1. s.model \in Seq(G) /\ s.user \in Seq(G) /\ s.out \in Seq(Messages(G))
    BY DEF Payloads
  <2>2. /\ Moves(s, x, s.system, Flatten(s.out) \o s.model, s.model, s.user)
        /\ Moves(s, y, s.system, Flatten(s.out) \o s.user, s.model, s.user)
        /\ x \in Payloads(G) /\ y \in Payloads(G)
    BY <1>1, <2>1, SayTyped DEF Roles
  <2>3. /\ FlushModel(s) = IF s.model = <<>> THEN s ELSE [x EXCEPT !.model = <<>>]
        /\ FlushUser(s) = IF s.user = <<>> THEN s ELSE [y EXCEPT !.user = <<>>]
        /\ FlushModel(s) \in Payloads(G) /\ FlushUser(s) \in Payloads(G)
    BY FlushTyped
  <2>4. Flatten(s.out) \o <<>> = Flatten(s.out)
    <3>1. Flatten(s.out) \in Seq(G)
      BY <2>1, FlattenMore
    <3>2. QED BY <3>1, Concats
  <2> HIDE DEF x, y
  <2>5. ASSUME s.model # <<>>
        PROVE  Moves(s, [x EXCEPT !.model = <<>>], s.system, Flatten(s.out) \o s.model, <<>>, s.user)
    BY <2>2 DEF Moves, Payloads
  <2>6. ASSUME s.user # <<>>
        PROVE  Moves(s, [y EXCEPT !.user = <<>>], s.system, Flatten(s.out) \o s.user, s.model, <<>>)
    BY <2>2 DEF Moves, Payloads
  <2>7. /\ s.model = <<>> => Moves(s, s, s.system, Flatten(s.out) \o s.model, <<>>, s.user)
        /\ s.user = <<>> => Moves(s, s, s.system, Flatten(s.out) \o s.user, s.model, <<>>)
    BY <2>4 DEF Moves
  <2>8. QED BY <2>3, <2>5, <2>6, <2>7
<1>3. Moves(st, FlushAll(st), st.system, (Flatten(st.out) \o st.model) \o st.user, <<>>, <<>>)
  <2> DEFINE x == FlushModel(st)
  <2>1. /\ Moves(st, x, st.system, Flatten(st.out) \o st.model, <<>>, st.user)
        /\ x \in Payloads(G)
    BY <1>2
  <2> HIDE DEF x
  <2>2. Moves(x, FlushUser(x), x.system, Flatten(x.out) \o x.user, x.model, <<>>)
    BY <1>2, <2>1
  <2>3. QED BY <2>1, <2>2 DEF Moves, FlushAll, x
<1>4. ASSUME NEW parts \in Seq(G)
      PROVE  Moves(st, Pend(st, parts), st.system, Flatten(st.out), st.model \o parts, st.user)
  BY DEF Moves, Pend, Payloads
<1>5. ASSUME NEW y
      PROVE  Moves(st, Apart(st, y), Append(st.system, y.n), Flatten(st.out), st.model, st.user)
  BY DEF Moves, Apart, Payloads
<1>6. QED BY <1>1, <1>2, <1>3, <1>4, <1>5

\* The steps that several wires share.
LEMMA SharedForms ==
    ASSUME NEW G, NEW st \in Payloads(G)
    PROVE  LET F == Flatten(st.out)
               M == st.model
               U == st.user
           IN  /\ \A y : Moves(st, Apart(FlushAll(st), y), Append(st.system, y.n),
                               (F \o M) \o U, <<>>, <<>>)
               /\ \A role \in Roles : \A parts \in Seq(G) :
                     Moves(st, Say(FlushAll(st), role, parts), st.system,
                           ((F \o M) \o U) \o parts, <<>>, <<>>)
               /\ \A role \in Roles : \A parts \in Seq(G) :
                     Moves(st, Say(FlushModel(st), role, parts), st.system,
                           (F \o M) \o parts, <<>>, U)
               /\ \A parts \in Seq(G) :
                     Moves(st, Pend(FlushUser(st), parts), st.system, F \o U, M \o parts, <<>>)
               /\ \A parts \in Seq(G) :
                     Moves(st, FlushModel(Pend(FlushUser(st), parts)), st.system,
                           (F \o U) \o (M \o parts), <<>>, <<>>)
               /\ \A p \in G : Moves(st, [FlushModel(st) EXCEPT !.user = Append(@, p)],
                                     st.system, F \o M, <<>>, Append(U, p))
<1> DEFINE fm == FlushModel(st)
           fu == FlushUser(st)
           fa == FlushAll(st)
           F == Flatten(st.out)
<1>1. /\ Moves(st, fm, st.system, F \o st.model, <<>>, st.user) /\ fm \in Payloads(G)
      /\ Moves(st, fu, st.system, F \o st.user, st.model, <<>>) /\ fu \in Payloads(G)
      /\ Moves(st, fa, st.system, (F \o st.model) \o st.user, <<>>, <<>>) /\ fa \in Payloads(G)
  BY Ops, FlushTyped
<1> HIDE DEF fm, fu, fa
<1>2. ASSUME NEW y
      PROVE  Moves(st, Apart(fa, y), Append(st.system, y.n), (F \o st.model) \o st.user, <<>>, <<>>)
  <2>1. Moves(fa, Apart(fa, y), Append(fa.system, y.n), Flatten(fa.out), fa.model, fa.user)
    BY <1>1, Ops
  <2>2. QED BY <1>1, <2>1 DEF Moves
<1>3. ASSUME NEW role \in Roles, NEW parts \in Seq(G)
      PROVE  /\ Moves(st, Say(fa, role, parts), st.system,
                      ((F \o st.model) \o st.user) \o parts, <<>>, <<>>)
             /\ Moves(st, Say(fm, role, parts), st.system,
                      (F \o st.model) \o parts, <<>>, st.user)
  <2>1. /\ Moves(fa, Say(fa, role, parts), fa.system, Flatten(fa.out) \o parts, fa.model, fa.user)
        /\ Moves(fm, Say(fm, role, parts), fm.system, Flatten(fm.out) \o parts, fm.model, fm.user)
    BY <1>1, Ops
  <2>2. QED BY <1>1, <2>1 DEF Moves
<1>4. ASSUME NEW parts \in Seq(G)
      PROVE  /\ Moves(st, Pend(fu, parts), st.system, F \o st.user, st.model \o parts, <<>>)
             /\ Moves(st, FlushModel(Pend(fu, parts)), st.system,
                      (F \o st.user) \o (st.model \o parts), <<>>, <<>>)
  <2> DEFINE x == Pend(fu, parts)
  <2>1. /\ Moves(fu, x, fu.system, Flatten(fu.out), fu.model \o parts, fu.user)
    BY <1>1, Ops
  <2>2. x \in Payloads(G)
    <3>1. "model" \in Roles
      BY DEF Roles
    <3>2. QED BY <1>1, <3>1, SayTyped
  <2> HIDE DEF x
  <2>3. Moves(x, FlushModel(x), x.system, Flatten(x.out) \o x.model, <<>>, x.user)
    BY <2>2, Ops
  <2>4. Moves(st, x, st.system, F \o st.user, st.model \o parts, <<>>)
    BY <1>1, <2>1 DEF Moves
  <2>5. Moves(st, FlushModel(x), st.system, (F \o st.user) \o (st.model \o parts), <<>>, <<>>)
    BY <2>3, <2>4 DEF Moves
  <2>6. QED BY <2>4, <2>5 DEF x
<1>5. ASSUME NEW p \in G
      PROVE  Moves(st, [fm EXCEPT !.user = Append(@, p)], st.system, F \o st.model, <<>>,
                   Append(st.user, p))
  BY <1>1 DEF Moves, Payloads
<1>6. QED BY <1>2, <1>3, <1>4, <1>5 DEF fm, fu, fa

\* What an item adds to a request: the parts of an encoder's step, wire by wire.
CallParts(w, y) ==
    CASE w = "responses" -> [i \in 1 .. Len(y.calls) |-> <<CallTag(y.calls[i]), y.calls[i].id>>]
      [] w = "gemini"    -> SignedCallsOf(y)
      [] OTHER           -> CallsOf(y)

AnswerPart(w, st, id) ==
    CASE w = "responses" -> <<IF id \in st.custom THEN "custom_answer" ELSE "answer", id>>
      [] w = "gemini"    -> <<IF id \in st.named THEN "answer" ELSE "unknown_answer", id>>
      [] OTHER           -> <<"answer", id>>

ThinkPart(w, st, y) ==
    IF \/ /\ w = "messages" /\ y.think # "none"
          /\ ~ \E i \in 1 .. Len(st.model) : st.model[i][1] = "think"
       \/ w = "chat" /\ y.think = "text"
    THEN <<<<"think", y.n>>>> ELSE <<>>

\* The encoder of a wire after an item y, in terms of the encoder before.
LEMMA ResponsesForms ==
    ASSUME NEW G, NEW st \in Payloads(G), NEW y \in SentItems, Sayable(y, G)
    PROVE  LET F == Flatten(st.out)
               M == st.model
               U == st.user
               Puts(parts) == Moves(st, ResponsesStep(st, y), st.system, F \o parts, M, U)
           IN  /\ y.k = "system" =>
                     Moves(st, ResponsesStep(st, y), Append(st.system, y.n), F, M, U)
               /\ y.k = "user" => Puts(UserContent(y))
               /\ y.k = "reasoning" => Puts(<<<<"think", y.n>>>>)
               /\ y.k = "hosted" => Puts(<<<<"hosted", y.n>>>>)
               /\ y.k = "result" => Puts(<<AnswerPart("responses", st, y.calls[1])>>)
               /\ y.k = "assistant" => Puts(y.parts \o CallParts("responses", y))
<1> DEFINE F == Flatten(st.out)
           Puts(parts) == Moves(st, ResponsesStep(st, y), st.system, F \o parts, st.model, st.user)
<1>1. /\ \A role \in Roles : \A parts \in Seq(G) :
            Moves(st, Say(st, role, parts), st.system, F \o parts, st.model, st.user)
      /\ \A z : Moves(st, Apart(st, z), Append(st.system, z.n), F, st.model, st.user)
  BY Ops
<1>2. "user" \in Roles /\ "model" \in Roles
  BY DEF Roles
<1>3. \A p \in G : <<p>> \in Seq(G)
  OBVIOUS
<1>4. y.k = "system" =>
        Moves(st, ResponsesStep(st, y), Append(st.system, y.n), F, st.model, st.user)
  BY <1>1 DEF ResponsesStep
<1>5. y.k = "user" => Puts(UserContent(y))
  BY <1>1, <1>2 DEF ResponsesStep, Sayable
<1>6. y.k = "reasoning" => Puts(<<<<"think", y.n>>>>)
  BY <1>1, <1>2, <1>3 DEF ResponsesStep, Sayable
<1>7. y.k = "hosted" => Puts(<<<<"hosted", y.n>>>>)
  BY <1>1, <1>2, <1>3 DEF ResponsesStep, Sayable
<1>8. y.k = "result" => Puts(<<AnswerPart("responses", st, y.calls[1])>>)
  <2> SUFFICES ASSUME y.k = "result" PROVE Puts(<<AnswerPart("responses", st, y.calls[1])>>)
    OBVIOUS
  <2> DEFINE p == AnswerPart("responses", st, y.calls[1])
  <2>1. p \in G
    BY DEF Sayable, Answered, AnswerPart
  <2>2. ResponsesStep(st, y) = Say(st, "user", <<p>>)
    BY DEF ResponsesStep, AnswerPart
  <2> HIDE DEF p
  <2>3. QED BY <1>1, <1>2, <1>3, <2>1, <2>2 DEF p
<1>9. y.k = "assistant" => Puts(y.parts \o CallParts("responses", y))
  <2> SUFFICES ASSUME y.k = "assistant" PROVE Puts(y.parts \o CallParts("responses", y))
    OBVIOUS
  <2> DEFINE cs == CallParts("responses", y)
             said == IF y.parts = <<>> THEN st ELSE Say(st, "model", y.parts)
             more == [i \in 1 .. Len(cs) |-> Message("model", <<cs[i]>>)]
  <2>1. /\ y.parts \in Seq(G) /\ Len(y.calls) \in Nat
        /\ cs = [i \in 1 .. Len(y.calls) |-> <<CallTag(y.calls[i]), y.calls[i].id>>]
        /\ \A i \in 1 .. Len(y.calls) : cs[i] \in G
    BY DEF Sayable, CallParts
  <2>2. cs \in Seq(G) /\ Len(cs) = Len(y.calls)
    <3> DEFINE e(i) == <<CallTag(y.calls[i]), y.calls[i].id>>
    <3>1. cs = [i \in 1 .. Len(y.calls) |-> e(i)] /\ \A i \in 1 .. Len(y.calls) : e(i) \in G
      BY <2>1
    <3>2. Len(y.calls) \in Nat
      BY <2>1
    <3> HIDE DEF cs, e
    <3>3. QED BY <3>1, <3>2
  <2>3. ResponsesStep(st, y) = [said EXCEPT !.out = @ \o more]
    <3>1. [i \in 1 .. Len(y.calls) |->
             Message("model", <<<<CallTag(y.calls[i]), y.calls[i].id>>>>)] = more
      BY <2>1, <2>2
    <3> HIDE DEF more
    <3>2. QED BY <3>1 DEF ResponsesStep
  <2> HIDE DEF cs
  <2>4. more \in Seq(Messages(G)) /\ Flatten(more) = cs
    BY <2>2, FlattenSingles
  <2> HIDE DEF more
  <2>5. F \in Seq(G)
    <3>1. st.out \in Seq(Messages(G))
      BY DEF Payloads
    <3>2. QED BY <2>4, <3>1, FlattenMore
  <2>6. /\ Moves(st, said, st.system, F \o y.parts, st.model, st.user)
        /\ said \in Payloads(G)
    <3>1. CASE y.parts = <<>>
      BY <2>5, <3>1, Concats DEF Moves
    <3>2. CASE y.parts # <<>>
      BY <1>1, <1>2, <2>1, <3>2, SayTyped
    <3>3. QED BY <3>1, <3>2
  <2> HIDE DEF said
  <2>7. Flatten(said.out \o more) = Flatten(said.out) \o cs
    <3>1. said.out \in Seq(Messages(G))
      BY <2>6 DEF Payloads
    <3>2. QED BY <2>4, <3>1, FlattenMore
  <2>8. (F \o y.parts) \o cs = F \o (y.parts \o cs)
    <3>1. \A a, b, c \in Seq(G) : (a \o b) \o c = a \o (b \o c)
      BY Concats
    <3> HIDE DEF F
    <3>2. QED BY <2>1, <2>2, <2>5, <3>1
  <2>9. Moves(st, [said EXCEPT !.out = @ \o more], st.system, F \o (y.parts \o cs), st.model, st.user)
    BY <2>6, <2>7, <2>8 DEF Moves, Payloads
  <2>10. QED BY <2>3, <2>9 DEF cs
<1>10. QED BY <1>4, <1>5, <1>6, <1>7, <1>8, <1>9

LEMMA MessagesForms ==
    ASSUME NEW G, NEW st \in Payloads(G), NEW y \in SentItems, Sayable(y, G)
    PROVE  LET F == Flatten(st.out)
               M == st.model
               U == st.user
               To(system, flat, model, user) ==
                   Moves(st, MessagesStep(st, y), system, flat, model, user)
           IN  /\ y.k = "system" =>
                     To(Append(st.system, y.n), (F \o M) \o U, <<>>, <<>>)
               /\ y.k = "user" =>
                     To(st.system, ((F \o M) \o U) \o UserContent(y), <<>>, <<>>)
               /\ y.k = "reasoning" =>
                     To(st.system, F \o U, M \o <<<<"think", y.n>>>>, <<>>)
               /\ y.k = "hosted" =>
                     To(st.system, F \o U, M \o <<<<"summary", y.n>>>>, <<>>)
               /\ y.k = "result" =>
                     To(st.system, F \o M, <<>>,
                        Append(U, AnswerPart("messages", st, y.calls[1])))
               /\ y.k = "assistant" =>
                     To(st.system,
                        (F \o U) \o (M \o ((ThinkPart("messages", st, y) \o y.parts)
                                             \o CallParts("messages", y))),
                        <<>>, <<>>)
<1> DEFINE F == Flatten(st.out)
           M == st.model
           U == st.user
           To(system, flat, model, user) ==
               Moves(st, MessagesStep(st, y), system, flat, model, user)
<1>1. /\ \A z : Moves(st, Apart(FlushAll(st), z), Append(st.system, z.n),
                      (F \o M) \o U, <<>>, <<>>)
      /\ \A role \in Roles : \A parts \in Seq(G) :
            Moves(st, Say(FlushAll(st), role, parts), st.system,
                  ((F \o M) \o U) \o parts, <<>>, <<>>)
      /\ \A parts \in Seq(G) :
            Moves(st, Pend(FlushUser(st), parts), st.system, F \o U, M \o parts, <<>>)
      /\ \A parts \in Seq(G) :
            Moves(st, FlushModel(Pend(FlushUser(st), parts)), st.system,
                  (F \o U) \o (M \o parts), <<>>, <<>>)
      /\ \A p \in G : Moves(st, [FlushModel(st) EXCEPT !.user = Append(@, p)],
                            st.system, F \o M, <<>>, Append(U, p))
  BY SharedForms
<1>2. "user" \in Roles /\ y.k \in Kinds
  BY DEF Roles, Sayable
<1>3. \A p \in G : <<p>> \in Seq(G)
  OBVIOUS
<1>4. y.k = "system" => To(Append(st.system, y.n), (F \o M) \o U, <<>>, <<>>)
  BY <1>1 DEF MessagesStep
<1>5. y.k = "user" => To(st.system, ((F \o M) \o U) \o UserContent(y), <<>>, <<>>)
  BY <1>1, <1>2 DEF MessagesStep, Sayable
<1>6. y.k = "reasoning" => To(st.system, F \o U, M \o <<<<"think", y.n>>>>, <<>>)
  BY <1>1, <1>3 DEF MessagesStep, Sayable
<1>7. y.k = "hosted" => To(st.system, F \o U, M \o <<<<"summary", y.n>>>>, <<>>)
  BY <1>1, <1>3 DEF MessagesStep, Sayable
<1>8. y.k = "result" =>
        To(st.system, F \o M, <<>>, Append(U, AnswerPart("messages", st, y.calls[1])))
  <2> SUFFICES ASSUME y.k = "result"
               PROVE  To(st.system, F \o M, <<>>, Append(U, AnswerPart("messages", st, y.calls[1])))
    OBVIOUS
  <2> DEFINE p == AnswerPart("messages", st, y.calls[1])
  <2>1. p = <<"answer", y.calls[1]>> /\ p \in G
    BY DEF Sayable, Answered, AnswerPart
  <2>2. MessagesStep(st, y) = [FlushModel(st) EXCEPT !.user = Append(@, p)]
    BY <2>1 DEF MessagesStep
  <2> HIDE DEF p
  <2>3. QED BY <1>1, <2>1, <2>2 DEF p
<1>9. y.k = "assistant" =>
        To(st.system, (F \o U) \o (M \o ((ThinkPart("messages", st, y) \o y.parts)
                                           \o CallParts("messages", y))), <<>>, <<>>)
  <2> SUFFICES ASSUME y.k = "assistant"
               PROVE  To(st.system, (F \o U) \o (M \o ((ThinkPart("messages", st, y) \o y.parts)
                                           \o CallParts("messages", y))), <<>>, <<>>)
    OBVIOUS
  <2> DEFINE own == ThinkPart("messages", st, y)
             all == (own \o y.parts) \o CallsOf(y)
  <2>1. FlushUser(st).model = st.model
    <3>1. Moves(st, FlushUser(st), st.system, F \o U, M, <<>>)
      BY Ops
    <3>2. QED BY <3>1 DEF Moves
  <2>2. MessagesStep(st, y) = FlushModel(Pend(FlushUser(st), all))
    BY <2>1 DEF MessagesStep, MessagesAssistant, ThinkPart
  <2>3. own \in Seq(G) /\ y.parts \in Seq(G) /\ CallsOf(y) \in Seq(G)
    <3>1. own = <<<<"think", y.n>>>> \/ own = <<>>
      BY DEF ThinkPart
    <3>2. own = <<<<"think", y.n>>>> => y.think # "none"
      BY DEF ThinkPart
    <3> HIDE DEF own
    <3>3. QED BY <1>3, <3>1, <3>2, Concats DEF Sayable
  <2>4. CallParts("messages", y) = CallsOf(y)
    BY DEF CallParts
  <2> HIDE DEF own
  <2>5. all \in Seq(G)
    BY <2>3, Concats
  <2> HIDE DEF all
  <2>6. QED BY <1>1, <2>2, <2>4, <2>5 DEF all, own
<1>10. QED BY <1>4, <1>5, <1>6, <1>7, <1>8, <1>9

LEMMA GeminiForms ==
    ASSUME NEW G, NEW st \in Payloads(G), NEW y \in SentItems, Sayable(y, G)
    PROVE  LET F == Flatten(st.out)
               M == st.model
               U == st.user
               To(system, flat, model, user) ==
                   Moves(st, GeminiStep(st, y), system, flat, model, user)
           IN  /\ y.k = "system" => To(Append(st.system, y.n), F, M, U)
               /\ y.k = "user" =>
                     To(st.system, ((F \o M) \o U) \o UserContent(y), <<>>, <<>>)
               /\ y.k = "reasoning" => To(st.system, F, M, U)
               /\ y.k = "hosted" =>
                     To(st.system, F \o U, M \o <<<<"summary", y.n>>>>, <<>>)
               /\ y.k = "result" =>
                     To(st.system, F \o M, <<>>,
                        Append(U, AnswerPart("gemini", st, y.calls[1])))
               /\ y.k = "assistant" =>
                     To(st.system, (F \o U) \o (M \o (y.parts \o CallParts("gemini", y))),
                        <<>>, <<>>)
<1> DEFINE F == Flatten(st.out)
           M == st.model
           U == st.user
           To(system, flat, model, user) ==
               Moves(st, GeminiStep(st, y), system, flat, model, user)
<1>1. /\ \A role \in Roles : \A parts \in Seq(G) :
            Moves(st, Say(FlushAll(st), role, parts), st.system,
                  ((F \o M) \o U) \o parts, <<>>, <<>>)
      /\ \A parts \in Seq(G) :
            Moves(st, Pend(FlushUser(st), parts), st.system, F \o U, M \o parts, <<>>)
      /\ \A parts \in Seq(G) :
            Moves(st, FlushModel(Pend(FlushUser(st), parts)), st.system,
                  (F \o U) \o (M \o parts), <<>>, <<>>)
      /\ \A p \in G : Moves(st, [FlushModel(st) EXCEPT !.user = Append(@, p)],
                            st.system, F \o M, <<>>, Append(U, p))
      /\ FlushModel(st).named = st.named
  <2>1. Moves(st, FlushModel(st), st.system, F \o M, <<>>, U)
    BY Ops
  <2>2. FlushModel(st).named = st.named
    BY <2>1 DEF Moves
  <2>3. QED BY <2>2, SharedForms
<1>2. "user" \in Roles /\ y.k \in Kinds
  BY DEF Roles, Sayable
<1>3. \A p \in G : <<p>> \in Seq(G)
  OBVIOUS
<1>4. y.k = "system" => To(Append(st.system, y.n), F, M, U)
  <2>1. \A z : Moves(st, Apart(st, z), Append(st.system, z.n), F, M, U)
    BY Ops
  <2>2. QED BY <2>1 DEF GeminiStep
<1>5. y.k = "user" => To(st.system, ((F \o M) \o U) \o UserContent(y), <<>>, <<>>)
  BY <1>1, <1>2 DEF GeminiStep, Sayable
<1>6. y.k = "reasoning" => To(st.system, F, M, U)
  <2>1. y.k = "reasoning" => GeminiStep(st, y) = st
    BY DEF GeminiStep
  <2>2. QED BY <2>1 DEF Moves
<1>7. y.k = "hosted" => To(st.system, F \o U, M \o <<<<"summary", y.n>>>>, <<>>)
  BY <1>1, <1>3 DEF GeminiStep, Sayable
<1>8. y.k = "result" =>
        To(st.system, F \o M, <<>>, Append(U, AnswerPart("gemini", st, y.calls[1])))
  <2> SUFFICES ASSUME y.k = "result"
               PROVE  To(st.system, F \o M, <<>>, Append(U, AnswerPart("gemini", st, y.calls[1])))
    OBVIOUS
  <2> DEFINE p == AnswerPart("gemini", st, y.calls[1])
  <2>1. /\ p = <<IF y.calls[1] \in st.named THEN "answer" ELSE "unknown_answer", y.calls[1]>>
        /\ p \in G
    BY DEF Sayable, Answered, AnswerPart
  <2>2. GeminiStep(st, y) = [FlushModel(st) EXCEPT !.user = Append(@, p)]
    BY <1>1, <2>1 DEF GeminiStep
  <2> HIDE DEF p
  <2>3. QED BY <1>1, <2>1, <2>2 DEF p
<1>9. y.k = "assistant" =>
        To(st.system, (F \o U) \o (M \o (y.parts \o CallParts("gemini", y))), <<>>, <<>>)
  <2> SUFFICES ASSUME y.k = "assistant"
               PROVE  To(st.system, (F \o U) \o (M \o (y.parts \o CallParts("gemini", y))),
                         <<>>, <<>>)
    OBVIOUS
  <2> DEFINE all == y.parts \o SignedCallsOf(y)
  <2>1. GeminiStep(st, y) = FlushModel(Pend(FlushUser(st), all))
    BY DEF GeminiStep
  <2>2. all \in Seq(G)
    BY Concats DEF Sayable
  <2>3. CallParts("gemini", y) = SignedCallsOf(y)
    BY DEF CallParts
  <2> HIDE DEF all
  <2>4. QED BY <1>1, <2>1, <2>2, <2>3 DEF all
<1>10. QED BY <1>4, <1>5, <1>6, <1>7, <1>8, <1>9

LEMMA ChatForms ==
    ASSUME NEW G, NEW st \in Payloads(G), NEW y \in SentItems, Sayable(y, G)
    PROVE  LET F == Flatten(st.out)
               M == st.model
               U == st.user
               To(flat, model) == Moves(st, ChatStep(st, y), st.system, flat, model, U)
           IN  /\ y.k = "system" => To((F \o M) \o <<<<"system", y.n>>>>, <<>>)
               /\ y.k = "user" => To((F \o M) \o ChatUser(y), <<>>)
               /\ y.k = "reasoning" => To(F, M)
               /\ y.k = "hosted" => To(F, M \o <<<<"summary", y.n>>>>)
               /\ y.k = "result" => To((F \o M) \o <<AnswerPart("chat", st, y.calls[1])>>, <<>>)
               /\ y.k = "assistant" =>
                     To(F \o (((ThinkPart("chat", st, y) \o M) \o y.parts)
                                \o CallParts("chat", y)), <<>>)
<1> DEFINE F == Flatten(st.out)
           M == st.model
           U == st.user
           To(flat, model) == Moves(st, ChatStep(st, y), st.system, flat, model, U)
<1>1. \A role \in Roles : \A parts \in Seq(G) :
         Moves(st, Say(FlushModel(st), role, parts), st.system, (F \o M) \o parts, <<>>, U)
  BY SharedForms
<1>2. Roles = {"system", "user", "model"} /\ y.k \in Kinds
  BY DEF Roles, Sayable
<1>3. \A p \in G : <<p>> \in Seq(G)
  OBVIOUS
<1>4. y.k = "system" => To((F \o M) \o <<<<"system", y.n>>>>, <<>>)
  BY <1>1, <1>2, <1>3 DEF ChatStep, Sayable
<1>5. y.k = "user" => To((F \o M) \o ChatUser(y), <<>>)
  BY <1>1, <1>2 DEF ChatStep, Sayable, ChatUser
<1>6. y.k = "reasoning" => To(F, M)
  <2>1. y.k = "reasoning" => ChatStep(st, y) = st
    BY DEF ChatStep
  <2>2. QED BY <2>1 DEF Moves
<1>7. y.k = "hosted" => To(F, M \o <<<<"summary", y.n>>>>)
  <2>1. \A parts \in Seq(G) : Moves(st, Pend(st, parts), st.system, F, M \o parts, U)
    BY Ops
  <2>2. QED BY <1>3, <2>1 DEF ChatStep, Sayable
<1>8. y.k = "result" => To((F \o M) \o <<AnswerPart("chat", st, y.calls[1])>>, <<>>)
  <2> SUFFICES ASSUME y.k = "result"
               PROVE  To((F \o M) \o <<AnswerPart("chat", st, y.calls[1])>>, <<>>)
    OBVIOUS
  <2> DEFINE p == AnswerPart("chat", st, y.calls[1])
  <2>1. p = <<"answer", y.calls[1]>> /\ p \in G
    BY DEF Sayable, Answered, AnswerPart
  <2>2. ChatStep(st, y) = Say(FlushModel(st), "user", <<p>>)
    BY <2>1 DEF ChatStep
  <2> HIDE DEF p
  <2>3. QED BY <1>1, <1>2, <1>3, <2>1, <2>2 DEF p
<1>9. y.k = "assistant" =>
        To(F \o (((ThinkPart("chat", st, y) \o M) \o y.parts) \o CallParts("chat", y)), <<>>)
  <2> SUFFICES ASSUME y.k = "assistant"
               PROVE  To(F \o (((ThinkPart("chat", st, y) \o M) \o y.parts)
                                 \o CallParts("chat", y)), <<>>)
    OBVIOUS
  <2> DEFINE own == ThinkPart("chat", st, y)
             all == ((own \o M) \o y.parts) \o CallsOf(y)
             empty == [st EXCEPT !.model = <<>>]
  <2>1. ChatStep(st, y) = Say(empty, "model", all)
    BY DEF ChatStep, ThinkPart
  <2>2. own \in Seq(G) /\ M \in Seq(G) /\ y.parts \in Seq(G) /\ CallsOf(y) \in Seq(G)
    <3>1. own = <<<<"think", y.n>>>> \/ own = <<>>
      BY DEF ThinkPart
    <3>2. own = <<<<"think", y.n>>>> => y.think # "none"
      BY DEF ThinkPart
    <3>3. /\ own = <<<<"think", y.n>>>> => <<"think", y.n>> \in G
          /\ M \in Seq(G) /\ y.parts \in Seq(G) /\ CallsOf(y) \in Seq(G)
      BY <3>2 DEF Sayable, Payloads
    <3> HIDE DEF own, M
    <3>4. <<>> \in Seq(G)
      BY Concats
    <3>5. QED BY <1>3, <3>1, <3>3, <3>4
  <2>3. CallParts("chat", y) = CallsOf(y)
    BY DEF CallParts
  <2> HIDE DEF own
  <2>4. all \in Seq(G)
    BY <2>2, Concats
  <2> HIDE DEF all
  <2>5. /\ Moves(st, empty, st.system, F, <<>>, U)
        /\ empty \in Payloads(G)
    BY NoteTyped DEF Moves, Payloads
  <2> HIDE DEF empty
  <2>6. Moves(empty, Say(empty, "model", all), empty.system, Flatten(empty.out) \o all,
              empty.model, empty.user)
    BY <1>2, <2>4, <2>5, Ops
  <2>7. Moves(st, Say(empty, "model", all), st.system, F \o all, <<>>, U)
    BY <2>5, <2>6 DEF Moves
  <2>8. QED BY <2>1, <2>3, <2>7 DEF all, own
<1>10. QED BY <1>4, <1>5, <1>6, <1>7, <1>8, <1>9

-----------------------------------------------------------------------------
(* A request in the order it will be read: what is written, then what is   *)
(* pending.                                                                *)
Raw(st) == Flatten(st.out) \o (st.model \o st.user)

Wires == {"responses", "messages", "gemini", "chat"}

\* What may be pending: one side's parts at a time, and on some wires none.
Waits(w, st) ==
    /\ st.model = <<>> \/ st.user = <<>>
    /\ w \in {"responses", "chat"} => st.user = <<>>
    /\ w = "responses" => st.model = <<>>
    /\ \A i \in 1 .. Len(st.model) : st.model[i][1] \in {"think", "summary"}
    /\ \A i \in 1 .. Len(st.user) : st.user[i][1] \in {"answer", "unknown_answer"}

\* The orders in which the encoders append X, one side's parts pending, are one.
OneOrder(G, F, M, U, X, R) ==
    /\ R \o <<>> = R
    /\ ((F \o M) \o U) \o (<<>> \o <<>>) = R
    /\ (((F \o M) \o U) \o X) \o (<<>> \o <<>>) = R \o X
    /\ (F \o U) \o ((M \o X) \o <<>>) = R \o X
    /\ ((F \o U) \o (M \o X)) \o (<<>> \o <<>>) = R \o X
    /\ \A p \in G : (F \o M) \o (<<>> \o Append(U, p)) = R \o <<p>>
    /\ U = <<>> => /\ ((F \o M) \o X) \o (<<>> \o U) = R \o X
                   /\ F \o ((M \o X) \o U) = R \o X
                   /\ R = F \o M
    /\ U = <<>> /\ M = <<>> => (F \o X) \o (M \o U) = R \o X

LEMMA Orders ==
    ASSUME NEW G, NEW F \in Seq(G), NEW M \in Seq(G), NEW U \in Seq(G), NEW X \in Seq(G),
           M = <<>> \/ U = <<>>
    PROVE  OneOrder(G, F, M, U, X, F \o (M \o U))
<1>1. /\ \A a, b \in Seq(G) : a \o b \in Seq(G)
      /\ \A a, b, c \in Seq(G) : (a \o b) \o c = a \o (b \o c)
      /\ \A a \in Seq(G) : a \o <<>> = a /\ <<>> \o a = a
      /\ <<>> \in Seq(G)
  BY Concats
<1>2. \A p \in G : Append(U, p) = U \o <<p>> /\ <<p>> \in Seq(G)
  BY AppendIsConcat
<1>3. /\ F \o <<>> = F /\ <<>> \o U = U /\ <<>> \o X = X /\ M \o <<>> = M
      /\ <<>> \o <<>> = <<>> /\ <<>> \o M = M
  BY <1>1
<1>4. /\ F \o M \in Seq(G) /\ F \o U \in Seq(G) /\ M \o U \in Seq(G) /\ M \o X \in Seq(G)
      /\ (F \o U) \o X \in Seq(G) /\ (F \o M) \o X \in Seq(G) /\ F \o (M \o X) \in Seq(G)
  BY <1>1, Zenon
<1>5. \A a \in Seq(G) : a \o (<<>> \o <<>>) = a
  BY <1>1, <1>3
<1>6. ASSUME NEW p \in G
      PROVE  /\ <<>> \o Append(U, p) = U \o <<p>>
             /\ U = <<>> => <<>> \o Append(U, p) = <<p>>
             /\ (F \o U) \o <<p>> = F \o (U \o <<p>>)
  <2>1. U \o <<p>> \in Seq(G) /\ <<p>> \in Seq(G) /\ <<>> \o <<p>> = <<p>>
    BY <1>1, <1>2, Zenon
  <2>2. <<>> \o (U \o <<p>>) = U \o <<p>>
    BY <1>1, <2>1, Zenon
  <2>3. (F \o U) \o <<p>> = F \o (U \o <<p>>)
    <3>1. \A a, b, c \in Seq(G) : (a \o b) \o c = a \o (b \o c)
      BY <1>1
    <3>2. <<p>> \in Seq(G)
      BY <2>1
    <3>3. QED BY <3>1, <3>2
  <2>4. QED BY <1>2, <2>1, <2>2, <2>3
<1>7. CASE M = <<>>
  <2>1. /\ F \o M = F /\ M \o U = U /\ M \o X = X
    BY <1>3, <1>7
  <2>2. ((F \o M) \o U) \o (<<>> \o <<>>) = F \o U
    BY <1>4, <1>5, <2>1
  <2>3. (((F \o M) \o U) \o X) \o (<<>> \o <<>>) = (F \o U) \o X
    BY <1>4, <1>5, <2>1
  <2>4. (F \o U) \o ((M \o X) \o <<>>) = (F \o U) \o X
    BY <1>1, <2>1, Zenon
  <2>5. ((F \o U) \o (M \o X)) \o (<<>> \o <<>>) = (F \o U) \o X
    BY <1>4, <1>5, <2>1
  <2>6. \A p \in G : (F \o M) \o (<<>> \o Append(U, p)) = (F \o U) \o <<p>>
    BY <1>6, <2>1
  <2>7. U = <<>> => /\ F \o U = F /\ ((F \o M) \o X) \o (<<>> \o U) = F \o X
                    /\ F \o ((M \o X) \o U) = F \o X /\ (F \o X) \o (M \o U) = F \o X
    <3>1. X \o <<>> = X /\ (F \o X) \o <<>> = F \o X
      BY <1>1, Zenon
    <3>2. QED BY <1>3, <1>7, <2>1, <3>1
  <2>8. (F \o U) \o <<>> = F \o U
    BY <1>1, <1>4, Zenon
  <2>9. QED BY <2>1, <2>2, <2>3, <2>4, <2>5, <2>6, <2>7, <2>8, Zenon DEF OneOrder
<1>8. CASE U = <<>>
  <2>1. /\ F \o U = F /\ M \o U = M
    BY <1>3, <1>8
  <2>2. (F \o M) \o <<>> = F \o M /\ (M \o X) \o <<>> = M \o X
    BY <1>1, <1>4, Zenon
  <2>3. /\ ((F \o M) \o U) \o (<<>> \o <<>>) = F \o M
        /\ (((F \o M) \o U) \o X) \o (<<>> \o <<>>) = (F \o M) \o X
    BY <1>4, <1>5, <1>8, <2>2
  <2>4. F \o (M \o X) = (F \o M) \o X
    BY <1>1, Zenon
  <2>5. (F \o U) \o ((M \o X) \o <<>>) = (F \o M) \o X
    BY <2>1, <2>2, <2>4
  <2>6. ((F \o U) \o (M \o X)) \o (<<>> \o <<>>) = (F \o M) \o X
    BY <1>4, <1>5, <2>1, <2>4
  <2>7. \A p \in G : (F \o M) \o (<<>> \o Append(U, p)) = (F \o M) \o <<p>>
    BY <1>6, <1>8
  <2>8. /\ ((F \o M) \o X) \o (<<>> \o U) = (F \o M) \o X
        /\ F \o ((M \o X) \o U) = (F \o M) \o X
    BY <1>4, <1>5, <1>8, <2>2, <2>4
  <2>9. M = <<>> => (F \o X) \o (M \o U) = (F \o M) \o X
    <3>1. F \o X \in Seq(G)
      BY <1>1, Zenon
    <3>2. QED BY <1>3, <1>5, <1>8, <3>1
  <2>10. QED BY <1>8, <2>1, <2>2, <2>3, <2>5, <2>6, <2>7, <2>8, <2>9, Zenon DEF OneOrder
<1>9. QED BY <1>7, <1>8

\* The parts an item adds to a request, as one provider is told it.
Words(w, st, y) ==
    CASE y.k = "system"    -> IF w = "chat" THEN <<<<"system", y.n>>>> ELSE <<>>
      [] y.k = "user"      -> IF w = "chat" THEN ChatUser(y) ELSE UserContent(y)
      [] y.k = "reasoning" -> IF w \in {"responses", "messages"} THEN <<<<"think", y.n>>>>
                              ELSE <<>>
      [] y.k = "hosted"    -> <<<<IF w = "responses" THEN "hosted" ELSE "summary", y.n>>>>
      [] y.k = "result"    -> <<AnswerPart(w, st, y.calls[1])>>
      [] OTHER             -> (ThinkPart(w, st, y) \o y.parts) \o CallParts(w, y)

SystemAfter(w, st, y) ==
    IF y.k = "system" /\ w # "chat" THEN Append(st.system, y.n) ELSE st.system

LEMMA WordsTyped ==
    ASSUME NEW G, NEW st, NEW y \in SentItems, Sayable(y, G), NEW w \in Wires
    PROVE  /\ y.k = "assistant" =>
                 /\ ThinkPart(w, st, y) \in Seq(G) /\ y.parts \in Seq(G)
                 /\ CallParts(w, y) \in Seq(G)
           /\ y.k = "result" => AnswerPart(w, st, y.calls[1]) \in G
           /\ w # "chat" \/ y.k # "system" => Words(w, st, y) \in Seq(G)
           /\ Words(w, st, y) \in Seq(G)
<1>1. /\ \A a, b \in Seq(G) : a \o b \in Seq(G)
      /\ <<>> \in Seq(G)
      /\ \A p \in G : <<p>> \in Seq(G)
  BY Concats
<1>2. ASSUME y.k = "assistant"
      PROVE  /\ ThinkPart(w, st, y) \in Seq(G) /\ y.parts \in Seq(G)
             /\ CallParts(w, y) \in Seq(G)
  <2>1. ThinkPart(w, st, y) \in Seq(G)
    <3>1. \/ ThinkPart(w, st, y) = <<>>
          \/ y.think # "none" /\ ThinkPart(w, st, y) = <<<<"think", y.n>>>>
      BY DEF ThinkPart
    <3>2. y.think # "none" => <<"think", y.n>> \in G
      BY <1>2 DEF Sayable
    <3>3. QED BY <1>1, <3>1, <3>2
  <2>2. CallParts(w, y) \in Seq(G)
    <3>1. CASE w = "responses"
      <4> DEFINE e(i) == <<CallTag(y.calls[i]), y.calls[i].id>>
      <4>1. /\ CallParts(w, y) = [i \in 1 .. Len(y.calls) |-> e(i)]
            /\ \A i \in 1 .. Len(y.calls) : e(i) \in G
        BY <1>2, <3>1 DEF CallParts, Sayable
      <4>2. Len(y.calls) \in Nat
        BY <1>2 DEF Sayable
      <4> HIDE DEF e
      <4>3. QED BY <4>1, <4>2
    <3>2. CASE w # "responses"
      BY <1>2, <3>2 DEF CallParts, Sayable
    <3>3. QED BY <3>1, <3>2
  <2>3. QED BY <1>2, <2>1, <2>2 DEF Sayable
<1>3. ASSUME y.k = "result"
      PROVE  AnswerPart(w, st, y.calls[1]) \in G
  BY <1>3 DEF Sayable, Answered, AnswerPart
<1>4. Words(w, st, y) \in Seq(G)
  <2>1. CASE y.k = "system"
    BY <1>1, <2>1 DEF Words, Sayable
  <2>2. CASE y.k = "user"
    BY <1>1, <2>2 DEF Words, Sayable, ChatUser
  <2>3. CASE y.k = "reasoning"
    BY <1>1, <2>3 DEF Words, Sayable
  <2>4. CASE y.k = "hosted"
    BY <1>1, <2>4 DEF Words, Sayable
  <2>5. CASE y.k = "result"
    BY <1>1, <1>3, <2>5 DEF Words
  <2>6. CASE y.k = "assistant"
    <3>1. Words(w, st, y) = (ThinkPart(w, st, y) \o y.parts) \o CallParts(w, y)
      BY <2>6 DEF Words
    <3>2. QED BY <1>1, <1>2, <2>6, <3>1
  <2>7. QED BY <2>1, <2>2, <2>3, <2>4, <2>5, <2>6 DEF Sayable, Kinds
<1>5. QED BY <1>2, <1>3, <1>4

\* A step adds the words of its item to what a request says; only Chat puts the thinking
\* of an assistant before the hosted calls that waited for it.
LEMMA StepSays ==
    ASSUME NEW G, NEW st \in Payloads(G), NEW y \in SentItems, Sayable(y, G), NEW w \in Wires,
           Waits(w, st)
    PROVE  LET z == WireStep(w, st, y)
               F == Flatten(st.out)
           IN  /\ Waits(w, z)
               /\ z.system = SystemAfter(w, st, y) /\ z.custom = st.custom /\ z.named = st.named
               /\ w # "chat" \/ y.k # "assistant" => Raw(z) = Raw(st) \o Words(w, st, y)
               /\ w = "chat" /\ y.k = "assistant" =>
                     /\ Raw(st) = F \o st.model
                     /\ Raw(z) = F \o (((ThinkPart(w, st, y) \o st.model) \o y.parts)
                                         \o CallParts(w, y))
<1> DEFINE F == Flatten(st.out)
           M == st.model
           U == st.user
           X == Words(w, st, y)
           z == WireStep(w, st, y)
           R == F \o (M \o U)
           Good == /\ Waits(w, z) /\ z.system = SystemAfter(w, st, y)
                   /\ z.custom = st.custom /\ z.named = st.named /\ Raw(z) = R \o X
<1>1. F \in Seq(G) /\ M \in Seq(G) /\ U \in Seq(G) /\ X \in Seq(G)
  <2>1. st.out \in Seq(Messages(G)) /\ M \in Seq(G) /\ U \in Seq(G)
    BY DEF Payloads
  <2>2. QED BY <2>1, FlattenMore, WordsTyped
<1>2. M = <<>> \/ U = <<>>
  BY DEF Waits
<1>3. OneOrder(G, F, M, U, X, R)
  <2> HIDE DEF F, M, U, X
  <2>1. QED BY <1>1, <1>2, Orders
<1>4. y.k \in Kinds
  BY DEF Sayable
<1>5. Raw(st) = R
  BY DEF Raw
<1>6. \A system, flat, model, user :
         Moves(st, z, system, flat, model, user) =>
            /\ z.system = system /\ Raw(z) = flat \o (model \o user)
            /\ z.model = model /\ z.user = user
            /\ z.custom = st.custom /\ z.named = st.named
  BY DEF Moves, Raw
<1>7. /\ z.model = M /\ z.user = U => Waits(w, z)
      /\ z.model = <<>> /\ z.user \in {<<>>, U} => Waits(w, z)
      /\ \A p \in G : /\ w \in {"messages", "gemini"} /\ p[1] \in {"answer", "unknown_answer"}
                      /\ z.model = <<>> /\ z.user = Append(U, p)
                      => Waits(w, z)
      /\ \A p \in G : /\ w # "responses" /\ p[1] \in {"think", "summary"}
                      /\ z.model = M \o <<p>> /\ z.user = <<>>
                      => Waits(w, z)
  <2>1. z.model = M /\ z.user = U => Waits(w, z)
    BY DEF Waits
  <2>2. z.model = <<>> /\ z.user \in {<<>>, U} => Waits(w, z)
    BY DEF Waits
  <2>3. ASSUME NEW p \in G, w \in {"messages", "gemini"}, p[1] \in {"answer", "unknown_answer"},
               z.model = <<>>, z.user = Append(U, p)
        PROVE  Waits(w, z)
    <3>1. Len(Append(U, p)) = Len(U) + 1 /\ Len(U) \in Nat
          /\ \A i \in 1 .. Len(U) + 1 : Append(U, p)[i] = IF i <= Len(U) THEN U[i] ELSE p
      BY <1>1, AppendProperties
    <3>2. \A i \in 1 .. Len(Append(U, p)) : Append(U, p)[i][1] \in {"answer", "unknown_answer"}
      BY <2>3, <3>1 DEF Waits
    <3>3. QED BY <2>3, <3>2 DEF Waits
  <2>4. ASSUME NEW p \in G, w # "responses", p[1] \in {"think", "summary"},
               z.model = M \o <<p>>, z.user = <<>>
        PROVE  Waits(w, z)
    <3>1. M \o <<p>> = Append(M, p)
      BY <1>1, AppendIsConcat
    <3>2. Len(Append(M, p)) = Len(M) + 1 /\ Len(M) \in Nat
          /\ \A i \in 1 .. Len(M) + 1 : Append(M, p)[i] = IF i <= Len(M) THEN M[i] ELSE p
      BY <1>1, AppendProperties
    <3>3. \A i \in 1 .. Len(Append(M, p)) : Append(M, p)[i][1] \in {"think", "summary"}
      BY <2>4, <3>2 DEF Waits
    <3>4. QED BY <2>4, <3>1, <3>3 DEF Waits
  <2>5. QED BY <2>1, <2>2, <2>3, <2>4
<1>8. ASSUME w = "responses"
      PROVE  Good
  <2> DEFINE Puts(parts) == Moves(st, z, st.system, F \o parts, M, U)
  <2>1. z = ResponsesStep(st, y)
    BY <1>8 DEF WireStep
  <2>2. /\ y.k = "system" => Moves(st, z, Append(st.system, y.n), F, M, U)
        /\ y.k = "user" => Puts(UserContent(y))
        /\ y.k = "reasoning" => Puts(<<<<"think", y.n>>>>)
        /\ y.k = "hosted" => Puts(<<<<"hosted", y.n>>>>)
        /\ y.k = "result" => Puts(<<AnswerPart("responses", st, y.calls[1])>>)
        /\ y.k = "assistant" => Puts(y.parts \o CallParts("responses", y))
    BY <2>1, ResponsesForms
  <2>3. U = <<>> /\ M = <<>>
    BY <1>8 DEF Waits
  <2>4. ASSUME y.k = "system"
        PROVE  X = <<>> /\ SystemAfter(w, st, y) = Append(st.system, y.n)
    BY <1>8, <2>4 DEF Words, SystemAfter
  <2>5. ASSUME y.k # "system"
        PROVE  Puts(X)
    <3>1. /\ y.k = "user" => X = UserContent(y)
          /\ y.k = "reasoning" => X = <<<<"think", y.n>>>>
          /\ y.k = "hosted" => X = <<<<"hosted", y.n>>>>
          /\ y.k = "result" => X = <<AnswerPart("responses", st, y.calls[1])>>
      BY <1>8 DEF Words
    <3>2. y.k = "assistant" => X = y.parts \o CallParts("responses", y)
      <4> SUFFICES ASSUME y.k = "assistant" PROVE X = y.parts \o CallParts("responses", y)
        OBVIOUS
      <4>1. X = (<<>> \o y.parts) \o CallParts("responses", y)
        BY <1>8 DEF Words, ThinkPart
      <4>2. <<>> \o y.parts = y.parts
        BY WordsTyped, Concats
      <4>3. QED BY <4>1, <4>2
    <3> HIDE DEF X, z
    <3>3. QED BY <1>4, <2>2, <2>5, <3>1, <3>2 DEF Kinds
  <2>6. y.k # "system" => SystemAfter(w, st, y) = st.system
    BY DEF SystemAfter
  <2> HIDE DEF z, F, M, U, X
  <2>7. ASSUME NEW system, NEW flat, Moves(st, z, system, flat, M, U),
               system = SystemAfter(w, st, y), flat \o (M \o U) = R \o X
        PROVE  Good
    BY <1>6, <1>7, <2>7
  <2>8. CASE y.k = "system"
    <3>1. F \o (M \o U) = R \o X
      BY <1>3, <2>4, <2>8 DEF OneOrder
    <3>2. QED BY <2>2, <2>4, <2>7, <2>8, <3>1
  <2>9. CASE y.k # "system"
    BY <1>3, <2>2, <2>3, <2>5, <2>6, <2>7, <2>9 DEF OneOrder
  <2>10. QED BY <2>8, <2>9
<1>9. ASSUME w = "messages"
      PROVE  Good
  <2> DEFINE To(system, flat, model, user) == Moves(st, z, system, flat, model, user)
             S == SystemAfter(w, st, y)
  <2>1. z = MessagesStep(st, y)
    BY <1>9 DEF WireStep
  <2>2. /\ y.k = "system" =>
              To(Append(st.system, y.n), (F \o M) \o U, <<>>, <<>>)
        /\ y.k = "user" =>
              To(st.system, ((F \o M) \o U) \o UserContent(y), <<>>, <<>>)
        /\ y.k = "reasoning" =>
              To(st.system, F \o U, M \o <<<<"think", y.n>>>>, <<>>)
        /\ y.k = "hosted" =>
              To(st.system, F \o U, M \o <<<<"summary", y.n>>>>, <<>>)
        /\ y.k = "result" =>
              To(st.system, F \o M, <<>>, Append(U, AnswerPart("messages", st, y.calls[1])))
        /\ y.k = "assistant" =>
              To(st.system,
                 (F \o U) \o (M \o ((ThinkPart("messages", st, y) \o y.parts)
                                      \o CallParts("messages", y))),
                 <<>>, <<>>)
    BY <2>1, MessagesForms
  <2>3. /\ y.k = "system" => X = <<>> /\ S = Append(st.system, y.n)
        /\ y.k # "system" => S = st.system
        /\ y.k = "user" => X = UserContent(y)
        /\ y.k = "reasoning" => X = <<<<"think", y.n>>>>
        /\ y.k = "hosted" => X = <<<<"summary", y.n>>>>
        /\ y.k = "result" => X = <<AnswerPart("messages", st, y.calls[1])>>
        /\ y.k = "assistant" =>
              X = (ThinkPart("messages", st, y) \o y.parts) \o CallParts("messages", y)
    BY <1>9 DEF Words, SystemAfter
  <2>4. /\ y.k = "reasoning" => <<"think", y.n>> \in G
        /\ y.k = "hosted" => <<"summary", y.n>> \in G
        /\ y.k = "result" => AnswerPart("messages", st, y.calls[1]) \in G
    BY <1>9, WordsTyped DEF Sayable
  <2>5. AnswerPart("messages", st, y.calls[1])[1] = "answer"
    BY DEF AnswerPart
  <2> HIDE DEF z, F, M, U, X, S
  <2>6. ASSUME NEW flat, NEW model, NEW user, To(S, flat, model, user),
               flat \o (model \o user) = R \o X, Waits(w, z)
        PROVE  Good
    BY <1>6, <2>6 DEF S
  <2>7. ASSUME NEW flat, To(S, flat, <<>>, <<>>), flat \o (<<>> \o <<>>) = R \o X
        PROVE  Good
    <3>1. Waits(w, z)
      BY <1>6, <1>7, <2>7
    <3>2. QED BY <2>6, <2>7, <3>1
  <2>8. CASE y.k = "system"
    <3>1. ((F \o M) \o U) \o (<<>> \o <<>>) = R \o X
      BY <1>3, <2>3, <2>8 DEF OneOrder
    <3>2. QED BY <2>2, <2>3, <2>7, <2>8, <3>1
  <2>9. CASE y.k = "user"
    BY <1>3, <2>2, <2>3, <2>7, <2>9 DEF OneOrder
  <2>10. CASE y.k = "reasoning"
    <3>1. z.model = M \o <<<<"think", y.n>>>> /\ z.user = <<>>
      BY <1>6, <2>2, <2>10
    <3>2. Waits(w, z)
      BY <1>7, <1>9, <2>4, <2>10, <3>1
    <3>3. QED BY <1>3, <2>2, <2>3, <2>6, <2>10, <3>2 DEF OneOrder
  <2>11. CASE y.k = "hosted"
    <3>1. z.model = M \o <<<<"summary", y.n>>>> /\ z.user = <<>>
      BY <1>6, <2>2, <2>11
    <3>2. Waits(w, z)
      BY <1>7, <1>9, <2>4, <2>11, <3>1
    <3>3. QED BY <1>3, <2>2, <2>3, <2>6, <2>11, <3>2 DEF OneOrder
  <2>12. CASE y.k = "result"
    <3>1. z.model = <<>> /\ z.user = Append(U, AnswerPart("messages", st, y.calls[1]))
      BY <1>6, <2>2, <2>12
    <3>2. Waits(w, z)
      BY <1>7, <1>9, <2>4, <2>5, <2>12, <3>1
    <3>3. QED BY <1>3, <2>2, <2>3, <2>4, <2>6, <2>12, <3>2 DEF OneOrder
  <2>13. CASE y.k = "assistant"
    <3>1. ((F \o U) \o (M \o X)) \o (<<>> \o <<>>) = R \o X
      BY <1>3 DEF OneOrder
    <3>2. To(S, (F \o U) \o (M \o X), <<>>, <<>>)
      BY <2>2, <2>3, <2>13
    <3>3. QED BY <2>7, <3>1, <3>2
  <2>14. QED BY <1>4, <2>8, <2>9, <2>10, <2>11, <2>12, <2>13 DEF Kinds
<1>10. ASSUME w = "gemini"
       PROVE  Good
  <2> DEFINE To(system, flat, model, user) == Moves(st, z, system, flat, model, user)
             S == SystemAfter(w, st, y)
  <2>1. z = GeminiStep(st, y)
    BY <1>10 DEF WireStep
  <2>2. /\ y.k = "system" => To(Append(st.system, y.n), F, M, U)
        /\ y.k = "user" =>
              To(st.system, ((F \o M) \o U) \o UserContent(y), <<>>, <<>>)
        /\ y.k = "reasoning" => To(st.system, F, M, U)
        /\ y.k = "hosted" =>
              To(st.system, F \o U, M \o <<<<"summary", y.n>>>>, <<>>)
        /\ y.k = "result" =>
              To(st.system, F \o M, <<>>, Append(U, AnswerPart("gemini", st, y.calls[1])))
        /\ y.k = "assistant" =>
              To(st.system, (F \o U) \o (M \o (y.parts \o CallParts("gemini", y))), <<>>, <<>>)
    BY <2>1, GeminiForms
  <2>3. /\ y.k = "system" => X = <<>> /\ S = Append(st.system, y.n)
        /\ y.k # "system" => S = st.system
        /\ y.k = "user" => X = UserContent(y)
        /\ y.k = "reasoning" => X = <<>>
        /\ y.k = "hosted" => X = <<<<"summary", y.n>>>>
        /\ y.k = "result" => X = <<AnswerPart("gemini", st, y.calls[1])>>
        /\ y.k = "assistant" => X = (<<>> \o y.parts) \o CallParts("gemini", y)
    BY <1>10 DEF Words, SystemAfter, ThinkPart
  <2>4. /\ y.k = "hosted" => <<"summary", y.n>> \in G
        /\ y.k = "result" => AnswerPart("gemini", st, y.calls[1]) \in G
    BY <1>10, WordsTyped DEF Sayable
  <2>5. AnswerPart("gemini", st, y.calls[1])[1] \in {"answer", "unknown_answer"}
    BY DEF AnswerPart
  <2>6. y.k = "assistant" => <<>> \o y.parts = y.parts
    BY WordsTyped, Concats
  <2> HIDE DEF z, F, M, U, X, S
  <2>7. ASSUME NEW flat, NEW model, NEW user, To(S, flat, model, user),
               flat \o (model \o user) = R \o X, Waits(w, z)
        PROVE  Good
    BY <1>6, <2>7 DEF S
  <2>8. ASSUME NEW flat, To(S, flat, <<>>, <<>>), flat \o (<<>> \o <<>>) = R \o X
        PROVE  Good
    <3>1. Waits(w, z)
      BY <1>6, <1>7, <2>8
    <3>2. QED BY <2>7, <2>8, <3>1
  <2>9. CASE y.k \in {"system", "reasoning"}
    <3>1. X = <<>> /\ To(S, F, M, U)
      BY <2>2, <2>3, <2>9
    <3>2. Waits(w, z)
      BY <1>6, <1>7, <3>1
    <3>3. F \o (M \o U) = R \o X
      BY <1>3, <3>1 DEF OneOrder
    <3>4. QED BY <2>7, <3>1, <3>2, <3>3
  <2>10. CASE y.k = "user"
    BY <1>3, <2>2, <2>3, <2>8, <2>10 DEF OneOrder
  <2>11. CASE y.k = "hosted"
    <3>1. z.model = M \o <<<<"summary", y.n>>>> /\ z.user = <<>>
      BY <1>6, <2>2, <2>11
    <3>2. Waits(w, z)
      BY <1>7, <1>10, <2>4, <2>11, <3>1
    <3>3. QED BY <1>3, <2>2, <2>3, <2>7, <2>11, <3>2 DEF OneOrder
  <2>12. CASE y.k = "result"
    <3>1. z.model = <<>> /\ z.user = Append(U, AnswerPart("gemini", st, y.calls[1]))
      BY <1>6, <2>2, <2>12
    <3>2. Waits(w, z)
      BY <1>7, <1>10, <2>4, <2>5, <2>12, <3>1
    <3>3. QED BY <1>3, <2>2, <2>3, <2>4, <2>7, <2>12, <3>2 DEF OneOrder
  <2>13. CASE y.k = "assistant"
    <3>1. ((F \o U) \o (M \o X)) \o (<<>> \o <<>>) = R \o X
      BY <1>3 DEF OneOrder
    <3>2. X = y.parts \o CallParts("gemini", y)
      BY <2>3, <2>6, <2>13
    <3>3. To(S, (F \o U) \o (M \o X), <<>>, <<>>)
      BY <2>2, <2>3, <2>13, <3>2
    <3>4. QED BY <2>8, <3>1, <3>3
  <2>14. QED BY <1>4, <2>9, <2>10, <2>11, <2>12, <2>13 DEF Kinds
<1>11. ASSUME w = "chat"
       PROVE  /\ U = <<>> /\ R = F \o M
              /\ y.k # "assistant" => Good
              /\ y.k = "assistant" =>
                    /\ Waits(w, z) /\ z.system = SystemAfter(w, st, y)
                    /\ z.custom = st.custom /\ z.named = st.named
                    /\ Raw(z) = F \o (((ThinkPart(w, st, y) \o M) \o y.parts)
                                        \o CallParts(w, y))
  <2> DEFINE To(flat, model) == Moves(st, z, st.system, flat, model, U)
  <2>1. z = ChatStep(st, y)
    BY <1>11 DEF WireStep
  <2>2. /\ y.k = "system" => To((F \o M) \o <<<<"system", y.n>>>>, <<>>)
        /\ y.k = "user" => To((F \o M) \o ChatUser(y), <<>>)
        /\ y.k = "reasoning" => To(F, M)
        /\ y.k = "hosted" => To(F, M \o <<<<"summary", y.n>>>>)
        /\ y.k = "result" => To((F \o M) \o <<AnswerPart("chat", st, y.calls[1])>>, <<>>)
        /\ y.k = "assistant" =>
              To(F \o (((ThinkPart("chat", st, y) \o M) \o y.parts) \o CallParts("chat", y)),
                 <<>>)
    BY <2>1, ChatForms
  <2>3. /\ y.k = "system" => X = <<<<"system", y.n>>>>
        /\ y.k = "user" => X = ChatUser(y)
        /\ y.k = "reasoning" => X = <<>>
        /\ y.k = "hosted" => X = <<<<"summary", y.n>>>>
        /\ y.k = "result" => X = <<AnswerPart("chat", st, y.calls[1])>>
        /\ SystemAfter(w, st, y) = st.system
    BY <1>11 DEF Words, SystemAfter
  <2>4. y.k = "hosted" => <<"summary", y.n>> \in G
    BY DEF Sayable
  <2>5. U = <<>>
    BY <1>11 DEF Waits
  <2> HIDE DEF z, F, M, U, X
  <2>6. R = F \o M
    BY <1>3, <2>5 DEF OneOrder
  <2>7. ASSUME NEW flat, NEW model, To(flat, model), flat \o (model \o U) = R \o X, Waits(w, z)
        PROVE  Good
    BY <1>6, <2>3, <2>7
  <2>8. ASSUME To((F \o M) \o X, <<>>)
        PROVE  Good
    <3>1. Waits(w, z)
      BY <1>6, <1>7, <2>8
    <3>2. ((F \o M) \o X) \o (<<>> \o U) = R \o X
      BY <1>3, <2>5 DEF OneOrder
    <3>3. QED BY <2>7, <2>8, <3>1, <3>2
  <2>9. CASE y.k \in {"system", "user", "result"}
    BY <2>2, <2>3, <2>5, <2>6, <2>8, <2>9
  <2>10. CASE y.k = "reasoning"
    <3>1. X = <<>> /\ To(F, M)
      BY <2>2, <2>3, <2>10
    <3>2. Waits(w, z)
      BY <1>6, <1>7, <3>1
    <3>3. F \o (M \o U) = R \o X
      BY <1>3, <3>1 DEF OneOrder
    <3>4. QED BY <2>5, <2>6, <2>7, <2>10, <3>1, <3>2, <3>3
  <2>11. CASE y.k = "hosted"
    <3>1. z.model = M \o <<<<"summary", y.n>>>> /\ z.user = <<>>
      BY <1>6, <2>2, <2>5, <2>11
    <3>2. Waits(w, z)
      BY <1>7, <1>11, <2>4, <2>11, <3>1
    <3>3. F \o ((M \o X) \o U) = R \o X
      BY <1>3, <2>5 DEF OneOrder
    <3>4. To(F, M \o X)
      BY <2>2, <2>3, <2>11
    <3>5. QED BY <2>5, <2>6, <2>7, <2>11, <3>2, <3>3, <3>4
  <2>12. CASE y.k = "assistant"
    <3> DEFINE A == F \o (((ThinkPart("chat", st, y) \o M) \o y.parts) \o CallParts("chat", y))
    <3>1. To(A, <<>>)
      BY <2>2, <2>12
    <3>2. Waits(w, z)
      BY <1>6, <1>7, <3>1
    <3>3. A \in Seq(G) /\ <<>> \in Seq(G)
      <4>1. /\ ThinkPart("chat", st, y) \in Seq(G) /\ y.parts \in Seq(G)
            /\ CallParts("chat", y) \in Seq(G)
        BY <1>11, <2>12, WordsTyped
      <4>2. \A a, b \in Seq(G) : a \o b \in Seq(G)
        BY Concats
      <4>3. <<>> \in Seq(G)
        BY Concats
      <4>4. QED BY <1>1, <4>1, <4>2, <4>3
    <3> HIDE DEF A
    <3>4. A \o (<<>> \o <<>>) = A
      BY <3>3, Concats
    <3>5. Raw(z) = A
      BY <1>6, <2>5, <3>1, <3>4
    <3>6. QED BY <1>6, <1>11, <2>3, <2>5, <2>6, <2>12, <3>1, <3>2, <3>5 DEF A
  <2>13. QED BY <1>4, <2>9, <2>10, <2>11, <2>12 DEF Kinds
<1>12. CASE w # "chat"
  <2>1. Good
    BY <1>8, <1>9, <1>10, <1>12 DEF Wires
  <2> HIDE DEF z, X, R
  <2>2. QED BY <1>5, <1>12, <2>1 DEF z, X
<1>13. CASE w = "chat"
  <2> HIDE DEF z, X, R
  <2>1. QED BY <1>5, <1>11, <1>13 DEF z, X
<1>14. QED BY <1>12, <1>13

-----------------------------------------------------------------------------
(* What a request tells its provider.                                      *)
TellPiece(part) == IF part[1] \in {"think", "system"} THEN <<>> ELSE <<Plain(part)>>

Tell(s) == FlattenSeq([i \in 1 .. Len(s) |-> TellPiece(s[i])])

LEMMA TellConcat ==
    ASSUME NEW s \in Seq(PartSet), NEW t \in Seq(PartSet)
    PROVE  /\ Tell(s) \in Seq(PartSet)
           /\ Tell(s \o t) = Tell(s) \o Tell(t)
<1>1. \A part \in PartSet : TellPiece(part) \in Seq(PartSet)
  <2> SUFFICES ASSUME NEW part \in PartSet PROVE TellPiece(part) \in Seq(PartSet)
    OBVIOUS
  <2>1. part[2] \in Int \cup CallIds
    BY DEF PartSet
  <2>2. Plain(part) \in PartSet
    <3>1. \A tag \in Tags : <<tag, part[2]>> \in PartSet
      BY <2>1 DEF PartSet
    <3>2. "call" \in Tags /\ "answer" \in Tags /\ "hosted" \in Tags
      BY DEF Tags
    <3>3. Plain(part) \in {<<"call", part[2]>>, <<"answer", part[2]>>, <<"hosted", part[2]>>, part}
      BY DEF Plain
    <3> HIDE DEF Tags
    <3>4. QED BY <3>1, <3>2, <3>3
  <2>3. QED BY <2>2 DEF TellPiece
<1> DEFINE P(u) == [i \in 1 .. Len(u) |-> TellPiece(u[i])]
<1>2. ASSUME NEW u \in Seq(PartSet)
      PROVE  P(u) \in Seq(Seq(PartSet)) /\ Len(P(u)) = Len(u)
  <2>1. Len(u) \in Nat /\ \A i \in 1 .. Len(u) : TellPiece(u[i]) \in Seq(PartSet)
    BY <1>1, LenProperties, ElementOfSeq
  <2>2. QED BY <2>1
<1>3. P(s \o t) = P(s) \o P(t)
  <2>1. s \o t \in Seq(PartSet) /\ Len(s \o t) = Len(s) + Len(t)
        /\ \A i \in 1 .. Len(s) + Len(t) :
              (s \o t)[i] = IF i <= Len(s) THEN s[i] ELSE t[i - Len(s)]
    BY ConcatProperties
  <2>2. Len(P(s) \o P(t)) = Len(s) + Len(t)
        /\ P(s) \o P(t) \in Seq(Seq(PartSet))
        /\ \A i \in 1 .. Len(s) + Len(t) :
              (P(s) \o P(t))[i] = IF i <= Len(s) THEN P(s)[i] ELSE P(t)[i - Len(s)]
    <3> DEFINE a == P(s)
               b == P(t)
    <3>1. a \in Seq(Seq(PartSet)) /\ b \in Seq(Seq(PartSet)) /\ Len(a) = Len(s) /\ Len(b) = Len(t)
      BY <1>2
    <3> HIDE DEF a, b
    <3>2. Len(a \o b) = Len(a) + Len(b)
          /\ a \o b \in Seq(Seq(PartSet))
          /\ \A i \in 1 .. Len(a) + Len(b) :
                (a \o b)[i] = IF i <= Len(a) THEN a[i] ELSE b[i - Len(a)]
      BY <3>1, ConcatProperties
    <3>3. QED BY <3>1, <3>2 DEF a, b
  <2>3. Len(s) \in Nat /\ Len(t) \in Nat
    BY LenProperties
  <2>4. \A i \in 1 .. Len(s) + Len(t) : (P(s) \o P(t))[i] = P(s \o t)[i]
    <3> SUFFICES ASSUME NEW i \in 1 .. Len(s) + Len(t)
                 PROVE  (P(s) \o P(t))[i] = P(s \o t)[i]
      OBVIOUS
    <3>1. P(s \o t)[i] = TellPiece((s \o t)[i])
      BY <2>1
    <3>2. CASE i <= Len(s)
      <4>1. i \in 1 .. Len(s)
        BY <2>3, <3>2
      <4>2. P(s)[i] = TellPiece(s[i])
        BY <4>1
      <4> HIDE DEF P
      <4>3. QED BY <2>1, <2>2, <3>1, <3>2, <4>2
    <3>3. CASE ~(i <= Len(s))
      <4>1. i - Len(s) \in 1 .. Len(t)
        BY <2>3, <3>3
      <4>2. P(t)[i - Len(s)] = TellPiece(t[i - Len(s)])
        BY <4>1
      <4> HIDE DEF P
      <4>3. QED BY <2>1, <2>2, <3>1, <3>3, <4>2
    <3>4. QED BY <3>2, <3>3
  <2>5. P(s \o t) \in Seq(Seq(PartSet)) /\ Len(P(s \o t)) = Len(s) + Len(t)
    BY <1>2, <2>1
  <2> HIDE DEF P
  <2>6. QED BY <2>2, <2>4, <2>5, SeqEqual
<1>4. Tell(s) = FlattenSeq(P(s)) /\ Tell(t) = FlattenSeq(P(t)) /\ Tell(s \o t) = FlattenSeq(P(s \o t))
  BY DEF Tell
<1>5. P(s) \in Seq(Seq(PartSet)) /\ P(t) \in Seq(Seq(PartSet))
  BY <1>2
<1> DEFINE a == P(s)
           b == P(t)
<1>6. Tell(s) = FlattenSeq(a) /\ Tell(t) = FlattenSeq(b) /\ Tell(s \o t) = FlattenSeq(a \o b)
  BY <1>3, <1>4
<1>7. a \in Seq(Seq(PartSet)) /\ b \in Seq(Seq(PartSet))
  BY <1>5
<1> HIDE DEF a, b
<1>8. QED BY <1>6, <1>7, JoinConcat

LEMMA TellSame ==
    ASSUME NEW s \in Seq(PartSet), NEW t \in Seq(PartSet), Len(s) = Len(t),
           \A i \in 1 .. Len(t) : TellPiece(s[i]) = <<t[i]>>
    PROVE  Tell(s) = t
<1>1. [i \in 1 .. Len(s) |-> TellPiece(s[i])] = [i \in 1 .. Len(t) |-> <<t[i]>>]
  OBVIOUS
<1>2. QED BY <1>1, Singles DEF Tell

LEMMA TellNone ==
    ASSUME NEW s \in Seq(PartSet), \A i \in 1 .. Len(s) : s[i][1] \in {"think", "system"}
    PROVE  Tell(s) = <<>>
<1> DEFINE P == [i \in 1 .. Len(s) |-> TellPiece(s[i])]
<1>1. Len(s) \in Nat /\ \A i \in 1 .. Len(s) : P[i] = <<>>
  BY LenProperties DEF TellPiece
<1>2. UpTo(P, Len(s)) = Tell(s)
  <2>1. [i \in 1 .. Len(s) |-> P[i]] = P
    OBVIOUS
  <2>2. QED BY <2>1 DEF UpTo, Tell
<1> HIDE DEF P
<1>3. QED BY <1>1, <1>2, Empties

\* What an item tells, on whatever wire.
SentTold(y) ==
    CASE y.k = "user"      -> UserContent(y)
      [] y.k = "hosted"    -> <<<<"hosted", y.n>>>>
      [] y.k = "assistant" -> Tell(y.parts) \o CallsOf(y)
      [] y.k = "result"    -> <<<<"answer", y.calls[1]>>>>
      [] OTHER             -> <<>>

\* What an item needs to be told whole: on Gemini, a name for the call it answers; on
\* Chat, no audio.
Tellable(w, st, y) ==
    /\ w = "gemini" /\ y.k = "result" => y.calls[1] \in st.named
    /\ w = "chat" /\ y.k = "user" => ~Has("audio", y)

LEMMA PartSets ==
    /\ UserParts \subseteq PartSet /\ SaidParts \subseteq PartSet /\ TextParts \subseteq SaidParts
    /\ CallTags \X CallIds \subseteq PartSet
    /\ {"answer", "custom_answer", "unknown_answer"} \X CallIds \subseteq PartSet
    /\ {"hosted", "summary", "think", "system"} \X Int \subseteq PartSet
    /\ CallTags \subseteq Tags
<1>1. /\ {"text", "image", "audio"} \subseteq Tags /\ {"text", "summary"} \subseteq Tags
      /\ CallTags \subseteq Tags /\ {"answer", "custom_answer", "unknown_answer"} \subseteq Tags
      /\ {"hosted", "summary", "think", "system"} \subseteq Tags
  BY DEF Tags, CallTags
<1>2. \A S : S \subseteq Tags => S \X Int \subseteq PartSet /\ S \X CallIds \subseteq PartSet
  BY DEF PartSet
<1>3. TextParts \subseteq SaidParts
  BY DEF TextParts, SaidParts
<1> HIDE DEF Tags
<1>4. QED BY <1>1, <1>2, <1>3 DEF UserParts, SaidParts

LEMMA CallPartsAre ==
    ASSUME NEW y \in SentItems, y.k = "assistant", NEW w
    PROVE  /\ CallParts(w, y) \in Seq(CallTags \X CallIds)
           /\ Len(CallParts(w, y)) = Len(y.calls) /\ Len(y.calls) \in Nat
           /\ \A i \in 1 .. Len(y.calls) : /\ CallParts(w, y)[i][1] \in CallTags
                                           /\ CallParts(w, y)[i][2] = y.calls[i].id
<1>1. /\ Len(y.calls) \in Nat
      /\ \A c \in 1 .. Len(y.calls) : y.calls[c].id \in CallIds
  BY AssistantSays
<1>2. "call" \in CallTags /\ "signed_call" \in CallTags /\ "custom_call" \in CallTags
  BY DEF CallTags
<1> DEFINE tag(i) == CASE w = "responses" -> CallTag(y.calls[i])
                       [] w = "gemini"    -> IF y.calls[i].signed THEN "signed_call" ELSE "call"
                       [] OTHER           -> "call"
           e(i) == <<tag(i), y.calls[i].id>>
<1>3. CallParts(w, y) = [i \in 1 .. Len(y.calls) |-> e(i)]
  <2>1. CASE w = "responses"
    BY <2>1 DEF CallParts
  <2>2. CASE w = "gemini"
    BY <2>2 DEF CallParts, SignedCallsOf
  <2>3. CASE w \notin {"responses", "gemini"}
    BY <2>3 DEF CallParts, CallsOf
  <2>4. QED BY <2>1, <2>2, <2>3
<1>4. \A i \in 1 .. Len(y.calls) : tag(i) \in CallTags
  BY <1>2 DEF CallTag
<1> HIDE DEF tag
<1>5. \A i \in 1 .. Len(y.calls) : e(i) \in CallTags \X CallIds /\ e(i)[1] \in CallTags
                                   /\ e(i)[2] = y.calls[i].id
  BY <1>1, <1>4
<1> HIDE DEF e
<1>6. QED BY <1>1, <1>3, <1>5

\* Without media a user's text is all there is.
LEMMA OnlyText ==
    ASSUME NEW y \in SentItems, y.k = "user", ~Has("image", y), ~Has("audio", y)
    PROVE  TextContent(y) = UserContent(y)
<1>1. y.parts \in Seq(Shapes) /\ Len(y.parts) \in Nat
  <2>1. y.parts \in Seq(Shapes)
    BY SentFields
  <2>2. QED BY <2>1, LenProperties
<1> DEFINE P == [i \in 1 .. Len(y.parts) |-> KeepPiece(y.parts[i], Media)]
<1>2. Keep(y.parts, Media) = UpTo(P, Len(y.parts))
  BY <1>1, KeepIsJoined
<1>3. \A i \in 1 .. Len(y.parts) : P[i] = <<>>
  BY DEF KeepPiece, Media, Has
<1> HIDE DEF P
<1>4. Keep(y.parts, Media) = <<>>
  BY <1>1, <1>2, <1>3, Empties
<1>5. Keep(y.parts, {"text"}) \in Seq(Shapes \cap {"text"})
  BY <1>1, KeepTyped
<1>6. <<>> \o Keep(y.parts, {"text"}) = Keep(y.parts, {"text"})
  BY <1>5, Concats
<1>7. QED BY <1>4, <1>6 DEF TextContent, UserContent, NormalizedParts

LEMMA WordsTold ==
    ASSUME NEW G \in SUBSET PartSet, NEW st, NEW y \in SentItems, Sayable(y, G), NEW w \in Wires,
           Tellable(w, st, y)
    PROVE  /\ Words(w, st, y) \in Seq(PartSet)
           /\ Tell(Words(w, st, y)) = SentTold(y)
           /\ y.k = "assistant" =>
                 /\ ThinkPart(w, st, y) \in Seq(PartSet) /\ y.parts \in Seq(PartSet)
                 /\ CallParts(w, y) \in Seq(PartSet)
                 /\ Tell(ThinkPart(w, st, y)) = <<>> /\ Tell(CallParts(w, y)) = CallsOf(y)
<1>1. /\ Words(w, st, y) \in Seq(PartSet)
      /\ y.k = "assistant" =>
            /\ ThinkPart(w, st, y) \in Seq(PartSet) /\ y.parts \in Seq(PartSet)
            /\ CallParts(w, y) \in Seq(PartSet)
  <2>1. \A s : s \in Seq(G) => s \in Seq(PartSet)
    BY SeqMonotonic
  <2>2. QED BY <2>1, WordsTyped
<1>2. ASSUME NEW p, NEW q, <<p>> \in Seq(PartSet), <<q>> \in Seq(PartSet), TellPiece(p) = <<q>>
      PROVE  Tell(<<p>>) = <<q>>
  <2> DEFINE s == <<p>>
             t == <<q>>
  <2>1. Len(s) = Len(t) /\ \A i \in 1 .. Len(t) : TellPiece(s[i]) = <<t[i]>>
    BY <1>2
  <2>2. s \in Seq(PartSet) /\ t \in Seq(PartSet)
    BY <1>2
  <2> HIDE DEF s, t
  <2>3. Tell(s) = t
    BY <2>1, <2>2, TellSame
  <2>4. QED BY <2>3 DEF s, t
<1>3. ASSUME NEW s, s \in Seq(PartSet), s = <<>> \/ \E p : s = <<p>> /\ p[1] \in {"think", "system"}
      PROVE  Tell(s) = <<>>
  <2>1. \A i \in 1 .. Len(s) : s[i][1] \in {"think", "system"}
    BY <1>3
  <2>2. QED BY <1>3, <2>1, TellNone
<1>4. /\ \A id \in CallIds : <<"answer", id>> \in PartSet
      /\ \A n \in Int : <<"hosted", n>> \in PartSet
  BY PartSets
<1>5. y.n \in Int /\ (y.k = "result" => y.calls[1] \in CallIds) /\ y.k \in Kinds
  BY SentFields
<1>6. CASE y.k = "system"
  <2> DEFINE p == <<IF y.k = "system" THEN "system" ELSE "think", y.n>>
  <2>1. SentTold(y) = <<>>
    BY <1>6 DEF SentTold
  <2>2. Words(w, st, y) = <<>> \/ Words(w, st, y) = <<p>>
    BY <1>6 DEF Words
  <2>3. p[1] \in {"think", "system"}
    OBVIOUS
  <2> HIDE DEF p
  <2>4. Tell(Words(w, st, y)) = <<>>
    BY <1>1, <1>3, <2>2, <2>3
  <2>5. QED BY <1>1, <1>6, <2>1, <2>4
<1>7. CASE y.k = "reasoning"
  <2> DEFINE p == <<IF y.k = "system" THEN "system" ELSE "think", y.n>>
  <2>1. SentTold(y) = <<>>
    BY <1>7 DEF SentTold
  <2>2. Words(w, st, y) = <<>> \/ Words(w, st, y) = <<p>>
    BY <1>7 DEF Words
  <2>3. p[1] \in {"think", "system"}
    OBVIOUS
  <2> HIDE DEF p
  <2>4. Tell(Words(w, st, y)) = <<>>
    BY <1>1, <1>3, <2>2, <2>3
  <2>5. QED BY <1>1, <1>7, <2>1, <2>4
<1>8. CASE y.k = "user"
  <2>1. Words(w, st, y) = UserContent(y)
    BY <1>8, OnlyText DEF Words, Tellable, ChatUser
  <2>2. UserContent(y) \in Seq(UserParts)
    BY <1>8, UserSays
  <2>3. \A i \in 1 .. Len(UserContent(y)) : UserContent(y)[i] \in UserParts
    BY <2>2, ElementOfSeq
  <2>4. \A p \in UserParts : TellPiece(p) = <<p>>
    BY DEF UserParts, TellPiece, Plain, CallTags
  <2>5. Tell(UserContent(y)) = UserContent(y)
    BY <1>1, <2>1, <2>3, <2>4, TellSame
  <2>6. QED BY <1>1, <1>8, <2>1, <2>5 DEF SentTold
<1>9. CASE y.k = "hosted"
  <2> DEFINE p == <<IF w = "responses" THEN "hosted" ELSE "summary", y.n>>
             q == <<"hosted", y.n>>
  <2>1. Words(w, st, y) = <<p>> /\ SentTold(y) = <<q>>
    BY <1>9 DEF Words, SentTold
  <2>2. TellPiece(p) = <<q>> /\ q \in PartSet
    BY <1>4, <1>5 DEF TellPiece, Plain, CallTags
  <2> HIDE DEF p, q
  <2>3. <<q>> \in Seq(PartSet)
    BY <2>2
  <2>4. QED BY <1>1, <1>2, <1>9, <2>1, <2>2, <2>3
<1>10. CASE y.k = "result"
  <2> DEFINE p == AnswerPart(w, st, y.calls[1])
             q == <<"answer", y.calls[1]>>
  <2>1. Words(w, st, y) = <<p>> /\ SentTold(y) = <<q>>
    BY <1>10 DEF Words, SentTold
  <2>2. TellPiece(p) = <<q>> /\ q \in PartSet
    BY <1>4, <1>5, <1>10 DEF TellPiece, Plain, CallTags, AnswerPart, Tellable
  <2> HIDE DEF p, q
  <2>3. <<q>> \in Seq(PartSet)
    BY <2>2
  <2>4. QED BY <1>1, <1>2, <1>10, <2>1, <2>2, <2>3
<1>11. CASE y.k = "assistant"
  <2>1. Tell(ThinkPart(w, st, y)) = <<>>
    <3>1. ThinkPart(w, st, y) = <<>> \/ ThinkPart(w, st, y) = <<<<"think", y.n>>>>
      BY DEF ThinkPart
    <3>2. QED BY <1>1, <1>3, <1>11, <3>1
  <2>2. Tell(CallParts(w, y)) = CallsOf(y)
    <3> DEFINE s == CallParts(w, y)
               t == CallsOf(y)
    <3>1. /\ Len(s) = Len(y.calls) /\ Len(t) = Len(y.calls)
          /\ \A i \in 1 .. Len(y.calls) : s[i][1] \in CallTags /\ s[i][2] = y.calls[i].id
          /\ \A i \in 1 .. Len(y.calls) : t[i] = <<"call", y.calls[i].id>>
      BY <1>11, CallPartsAre, AssistantSays
    <3>2. s \in Seq(PartSet) /\ t \in Seq(PartSet)
      <4>1. t \in Seq({"call"} \X CallIds)
        BY <1>11, AssistantSays
      <4>2. {"call"} \X CallIds \subseteq PartSet
        BY DEF PartSet, Tags
      <4>3. QED BY <1>1, <1>11, <4>1, <4>2, SeqMonotonic
    <3> HIDE DEF s, t
    <3>3. \A i \in 1 .. Len(t) : TellPiece(s[i]) = <<t[i]>>
      BY <3>1 DEF TellPiece, Plain, CallTags
    <3>4. Tell(s) = t
      BY <3>1, <3>2, <3>3, TellSame
    <3>5. QED BY <3>4 DEF s, t
  <2>3. Tell(Words(w, st, y)) = SentTold(y)
    <3> DEFINE th == ThinkPart(w, st, y)
               cs == CallParts(w, y)
    <3>1. Words(w, st, y) = (th \o y.parts) \o cs /\ SentTold(y) = Tell(y.parts) \o CallsOf(y)
      BY <1>11 DEF Words, SentTold
    <3>2. th \in Seq(PartSet) /\ cs \in Seq(PartSet) /\ y.parts \in Seq(PartSet)
      BY <1>1, <1>11
    <3> HIDE DEF th, cs
    <3>3. th \o y.parts \in Seq(PartSet)
      BY <3>2, Concats
    <3>4. Tell((th \o y.parts) \o cs) = Tell(th \o y.parts) \o Tell(cs)
      BY <3>2, <3>3, TellConcat
    <3>5. Tell(th \o y.parts) = Tell(th) \o Tell(y.parts) /\ Tell(y.parts) \in Seq(PartSet)
      BY <3>2, TellConcat
    <3>6. <<>> \o Tell(y.parts) = Tell(y.parts)
      BY <3>5, Concats
    <3>7. QED BY <2>1, <2>2, <3>1, <3>4, <3>5, <3>6 DEF th, cs
  <2>4. QED BY <1>1, <2>1, <2>2, <2>3
<1>12. QED BY <1>5, <1>6, <1>7, <1>8, <1>9, <1>10, <1>11 DEF Kinds

SystemsIn(s) == {i \in 1 .. Len(s) : s[i][1] = "system"}

NoSystems(s) == \A i \in 1 .. Len(s) : s[i][1] # "system"

SystemCount(st) == Len(st.system) + Cardinality(SystemsIn(Raw(st)))

LEMMA SystemsMore ==
    ASSUME NEW s \in Seq(PartSet), NEW t \in Seq(PartSet)
    PROVE  /\ NoSystems(t) => SystemsIn(s \o t) = SystemsIn(s)
           /\ NoSystems(s) /\ NoSystems(t) => NoSystems(s \o t)
           /\ Cardinality(SystemsIn(s)) \in Nat
           /\ Len(t) = 1 /\ t[1][1] = "system" =>
                 Cardinality(SystemsIn(s \o t)) = Cardinality(SystemsIn(s)) + 1
<1>1. /\ Len(s) \in Nat /\ Len(t) \in Nat /\ Len(s \o t) = Len(s) + Len(t)
      /\ \A i \in 1 .. Len(s) + Len(t) :
            (s \o t)[i] = IF i <= Len(s) THEN s[i] ELSE t[i - Len(s)]
  BY ConcatProperties, LenProperties
<1>2. NoSystems(t) => SystemsIn(s \o t) = SystemsIn(s)
  <2> SUFFICES ASSUME NoSystems(t), NEW i \in 1 .. Len(s \o t)
               PROVE  i \in SystemsIn(s \o t) <=> i \in SystemsIn(s)
    BY <1>1 DEF SystemsIn
  <2>1. CASE i <= Len(s)
    BY <1>1, <2>1 DEF SystemsIn
  <2>2. CASE ~(i <= Len(s))
    <3>1. i - Len(s) \in 1 .. Len(t)
      BY <1>1, <2>2
    <3>2. QED BY <1>1, <2>2, <3>1 DEF SystemsIn, NoSystems
  <2>3. QED BY <2>1, <2>2
<1>3. NoSystems(s) /\ NoSystems(t) => NoSystems(s \o t)
  <2> SUFFICES ASSUME NoSystems(s), NoSystems(t), NEW i \in 1 .. Len(s \o t)
               PROVE  (s \o t)[i][1] # "system"
    BY DEF NoSystems
  <2>1. i <= Len(s) \/ i - Len(s) \in 1 .. Len(t)
    BY <1>1
  <2>2. QED BY <1>1, <2>1 DEF NoSystems
<1>4. IsFiniteSet(SystemsIn(s))
  <2>1. IsFiniteSet(1 .. Len(s)) /\ SystemsIn(s) \subseteq 1 .. Len(s)
    BY <1>1, FS_Interval DEF SystemsIn
  <2>2. QED BY <2>1, FS_Subset
<1>5. Cardinality(SystemsIn(s)) \in Nat
  BY <1>4, FS_CardinalityType
<1>6. ASSUME Len(t) = 1, t[1][1] = "system"
      PROVE  Cardinality(SystemsIn(s \o t)) = Cardinality(SystemsIn(s)) + 1
  <2>1. SystemsIn(s \o t) = SystemsIn(s) \cup {Len(s) + 1}
    BY <1>1, <1>6 DEF SystemsIn
  <2>2. Len(s) + 1 \notin SystemsIn(s)
    BY <1>1 DEF SystemsIn
  <2>3. QED BY <1>4, <2>1, <2>2, FS_AddElement
<1>7. QED BY <1>2, <1>3, <1>5, <1>6

\* Only a system item says what a system says.
LEMMA WordsPlain ==
    ASSUME NEW G \in SUBSET PartSet, NEW st, NEW y \in SentItems, Sayable(y, G), NEW w \in Wires
    PROVE  /\ y.k # "system" => NoSystems(Words(w, st, y))
           /\ y.k = "assistant" => /\ NoSystems(ThinkPart(w, st, y)) /\ NoSystems(y.parts)
                                   /\ NoSystems(CallParts(w, y))
<1>1. NoSystems(<<>>) /\ \A p : p[1] # "system" => NoSystems(<<p>>)
  BY DEF NoSystems
<1>2. ASSUME y.k = "assistant"
      PROVE  /\ NoSystems(ThinkPart(w, st, y)) /\ NoSystems(y.parts)
             /\ NoSystems(CallParts(w, y))
  <2>1. NoSystems(ThinkPart(w, st, y))
    <3>1. ThinkPart(w, st, y) = <<>> \/ ThinkPart(w, st, y) = <<<<"think", y.n>>>>
      BY DEF ThinkPart
    <3>2. QED BY <1>1, <3>1
  <2>2. NoSystems(y.parts)
    <3>1. y.parts \in Seq(SaidParts)
      BY <1>2, SentFields
    <3>2. \A i \in 1 .. Len(y.parts) : y.parts[i] \in SaidParts
      BY <3>1, ElementOfSeq
    <3>3. QED BY <3>2 DEF NoSystems, SaidParts
  <2>3. NoSystems(CallParts(w, y))
    <3>1. \A i \in 1 .. Len(CallParts(w, y)) : CallParts(w, y)[i][1] \in CallTags
      BY <1>2, CallPartsAre
    <3>2. QED BY <3>1 DEF NoSystems, CallTags
  <2>4. QED BY <2>1, <2>2, <2>3
<1>3. CASE y.k = "user"
  <2>1. /\ UserContent(y) \in Seq(UserParts) /\ TextContent(y) \in Seq(UserParts)
    BY <1>3, UserSays
  <2>2. \A s \in Seq(UserParts) : NoSystems(s)
    <3> SUFFICES ASSUME NEW s \in Seq(UserParts), NEW i \in 1 .. Len(s)
                 PROVE  s[i][1] # "system"
      BY DEF NoSystems
    <3>1. s[i] \in UserParts
      BY ElementOfSeq
    <3>2. QED BY <3>1 DEF UserParts
  <2>3. Words(w, st, y) \in {UserContent(y), TextContent(y)}
    BY <1>3 DEF Words, ChatUser
  <2>4. QED BY <1>3, <2>1, <2>2, <2>3
<1>4. CASE y.k = "reasoning"
  <2>1. Words(w, st, y) = <<>> \/ Words(w, st, y) = <<<<"think", y.n>>>>
    BY <1>4 DEF Words
  <2>2. QED BY <1>1, <1>4, <2>1
<1>5. CASE y.k = "hosted"
  <2>1. Words(w, st, y) = <<<<IF w = "responses" THEN "hosted" ELSE "summary", y.n>>>>
    BY <1>5 DEF Words
  <2>2. QED BY <1>1, <1>5, <2>1
<1>6. CASE y.k = "result"
  <2>1. Words(w, st, y) = <<AnswerPart(w, st, y.calls[1])>>
    BY <1>6 DEF Words
  <2>2. AnswerPart(w, st, y.calls[1])[1] # "system"
    BY DEF AnswerPart
  <2>3. QED BY <1>1, <1>6, <2>1, <2>2
<1>7. CASE y.k = "assistant"
  <2> DEFINE th == ThinkPart(w, st, y)
             cs == CallParts(w, y)
  <2>1. Words(w, st, y) = (th \o y.parts) \o cs
    BY <1>7 DEF Words
  <2>2. th \in Seq(PartSet) /\ cs \in Seq(PartSet) /\ y.parts \in Seq(PartSet)
    <3>1. \A s : s \in Seq(G) => s \in Seq(PartSet)
      BY SeqMonotonic
    <3>2. QED BY <1>7, <3>1, WordsTyped
  <2>3. NoSystems(th) /\ NoSystems(y.parts) /\ NoSystems(cs)
    BY <1>2, <1>7
  <2> HIDE DEF th, cs
  <2>4. th \o y.parts \in Seq(PartSet) /\ NoSystems(th \o y.parts)
    BY <2>2, <2>3, SystemsMore, Concats
  <2>5. NoSystems((th \o y.parts) \o cs)
    BY <2>2, <2>3, <2>4, SystemsMore
  <2>6. QED BY <1>2, <1>7, <2>1, <2>5
<1>8. y.k \in Kinds
  BY SentFields
<1>9. QED BY <1>3, <1>4, <1>5, <1>6, <1>7, <1>8, <1>2 DEF Kinds

FourAreOne(a, b, c, d) == a \o ((b \o c) \o d) = (a \o b) \o (c \o d)

LEMMA FourConcat ==
    ASSUME NEW T, NEW a \in Seq(T), NEW b \in Seq(T), NEW c \in Seq(T), NEW d \in Seq(T)
    PROVE  FourAreOne(a, b, c, d)
<1>1. \A p, q, r \in Seq(T) : (p \o q) \o r = p \o (q \o r)
  BY Concats
<1>2. c \o d \in Seq(T)
  BY Concats
<1>3. (b \o c) \o d = b \o (c \o d)
  BY <1>1, Zenon
<1>4. (a \o b) \o (c \o d) = a \o (b \o (c \o d))
  BY <1>1, <1>2, Zenon
<1>5. QED BY <1>3, <1>4, Zenon DEF FourAreOne

ToldTogether(a, b) == a \o b \in Seq(PartSet) /\ Tell(a \o b) = Tell(a) \o Tell(b)

ToldBetween(F, M, th, p, cs) ==
    Tell(F \o (((th \o M) \o p) \o cs)) = Tell(F \o M) \o (Tell(p) \o Tell(cs))

LEMMA TellTogether ==
    ASSUME NEW a \in Seq(PartSet), NEW b \in Seq(PartSet)
    PROVE  ToldTogether(a, b)
BY TellConcat, Concats DEF ToldTogether

LEMMA TellBetween ==
    ASSUME NEW F \in Seq(PartSet), NEW M \in Seq(PartSet), NEW th \in Seq(PartSet),
           NEW p \in Seq(PartSet), NEW cs \in Seq(PartSet), Tell(th) = <<>>
    PROVE  ToldBetween(F, M, th, p, cs)
<1> DEFINE x == th \o M
           y == x \o p
           z == y \o cs
           f == Tell(F)
           m == Tell(M)
           a == Tell(p)
           c == Tell(cs)
<1>1. f \in Seq(PartSet) /\ m \in Seq(PartSet) /\ a \in Seq(PartSet) /\ c \in Seq(PartSet)
  BY TellConcat
<1>2. ToldTogether(th, M) /\ ToldTogether(F, M)
  BY TellTogether
<1>3. x \in Seq(PartSet) /\ Tell(x) = <<>> \o m /\ Tell(F \o M) = f \o m
  BY <1>2 DEF ToldTogether
<1>4. <<>> \o m = m
  <2> HIDE DEF m
  <2>1. QED BY <1>1, Concats
<1> HIDE DEF x, f, m, a, c
<1>5. ToldTogether(x, p)
  BY <1>3, TellTogether
<1>6. y \in Seq(PartSet) /\ Tell(y) = m \o a
  BY <1>3, <1>4, <1>5 DEF ToldTogether, a
<1> HIDE DEF y
<1>7. ToldTogether(y, cs)
  BY <1>6, TellTogether
<1>8. z \in Seq(PartSet) /\ Tell(z) = (m \o a) \o c
  BY <1>6, <1>7 DEF ToldTogether, c
<1> HIDE DEF z
<1>9. ToldTogether(F, z)
  BY <1>8, TellTogether
<1>10. Tell(F \o z) = f \o ((m \o a) \o c)
  BY <1>8, <1>9 DEF ToldTogether, f
<1>11. FourAreOne(f, m, a, c)
  BY <1>1, FourConcat
<1>12. Tell(F \o z) = (f \o m) \o (a \o c)
  BY <1>10, <1>11 DEF FourAreOne
<1>13. QED BY <1>3, <1>12 DEF ToldBetween, x, y, z, a, c

\* A step tells what its item tells, and counts the system texts.
LEMMA StepTells ==
    ASSUME NEW G \in SUBSET PartSet, NEW st \in Payloads(G), NEW y \in SentItems, Sayable(y, G),
           NEW w \in Wires, Waits(w, st)
    PROVE  LET z == WireStep(w, st, y) IN
           /\ Raw(st) \in Seq(PartSet)
           /\ SystemCount(z) = SystemCount(st) + IF y.k = "system" THEN 1 ELSE 0
           /\ Tellable(w, st, y) => Tell(Raw(z)) = Tell(Raw(st)) \o SentTold(y)
<1> DEFINE z == WireStep(w, st, y)
           F == Flatten(st.out)
           M == st.model
           th == ThinkPart(w, st, y)
           cs == CallParts(w, y)
           X == Words(w, st, y)
           all == ((th \o M) \o y.parts) \o cs
<1>1. /\ z.system = SystemAfter(w, st, y)
      /\ w # "chat" \/ y.k # "assistant" => Raw(z) = Raw(st) \o X
      /\ w = "chat" /\ y.k = "assistant" => Raw(st) = F \o M /\ Raw(z) = F \o all
  BY StepSays
<1>2. /\ F \in Seq(PartSet) /\ M \in Seq(PartSet) /\ st.user \in Seq(PartSet)
      /\ Len(st.system) \in Nat /\ y.n \in Int
      /\ Len(Append(st.system, y.n)) = Len(st.system) + 1
  <2>1. /\ st.out \in Seq(Messages(G)) /\ M \in Seq(G) /\ st.user \in Seq(G)
        /\ st.system \in Seq(Int)
    BY DEF Payloads
  <2>2. F \in Seq(G)
    BY <2>1, FlattenMore
  <2>3. \A s : s \in Seq(G) => s \in Seq(PartSet)
    BY SeqMonotonic
  <2>4. y.n \in Int
    BY SentFields
  <2>5. QED BY <2>1, <2>2, <2>3, <2>4, LenProperties, AppendProperties
<1>3. Raw(st) \in Seq(PartSet)
  BY <1>2, Concats DEF Raw
<1>4. X \in Seq(PartSet)
  <2>1. \A s : s \in Seq(G) => s \in Seq(PartSet)
    BY SeqMonotonic
  <2>2. QED BY <2>1, WordsTyped
<1>5. ASSUME y.k = "assistant"
      PROVE  th \in Seq(PartSet) /\ cs \in Seq(PartSet) /\ y.parts \in Seq(PartSet)
  <2>1. \A s : s \in Seq(G) => s \in Seq(PartSet)
    BY SeqMonotonic
  <2>2. QED BY <1>5, <2>1, WordsTyped
<1>6. NoSystems(M)
  BY DEF Waits, NoSystems
<1>7. SystemCount(z) = SystemCount(st) + IF y.k = "system" THEN 1 ELSE 0
  <2> DEFINE S == SystemAfter(w, st, y)
             before == Cardinality(SystemsIn(Raw(st)))
             after == Cardinality(SystemsIn(Raw(z)))
  <2>1. Len(S) = Len(st.system) + IF y.k = "system" /\ w # "chat" THEN 1 ELSE 0
    <3>1. S = IF y.k = "system" /\ w # "chat" THEN Append(st.system, y.n) ELSE st.system
      BY DEF SystemAfter
    <3>2. Len(st.system) \in Nat /\ Len(Append(st.system, y.n)) = Len(st.system) + 1
      BY <1>2
    <3> HIDE DEF S
    <3>3. CASE y.k = "system" /\ w # "chat"
      BY <3>1, <3>2, <3>3
    <3>4. CASE ~(y.k = "system" /\ w # "chat")
      <4> DEFINE d == IF y.k = "system" /\ w # "chat" THEN 1 ELSE 0
      <4>1. d = 0 /\ S = st.system
        BY <3>1, <3>4
      <4> HIDE DEF d
      <4>2. Len(S) = Len(st.system) + d
        BY <3>2, <4>1
      <4>3. QED BY <4>2 DEF d
    <3>5. QED BY <3>3, <3>4
  <2>2. before \in Nat /\ after = before + IF y.k = "system" /\ w = "chat" THEN 1 ELSE 0
    <3>1. CASE y.k = "system" /\ w = "chat"
      <4>1. X = <<<<"system", y.n>>>>
        BY <3>1 DEF Words
      <4>2. Len(X) = 1 /\ X[1][1] = "system"
        BY <4>1
      <4>3. Raw(z) = Raw(st) \o X
        BY <1>1, <3>1
      <4> HIDE DEF X, z
      <4>4. QED BY <1>3, <1>4, <3>1, <4>2, <4>3, SystemsMore
    <3>2. CASE y.k = "system" /\ w # "chat"
      <4>1. X = <<>>
        BY <3>2 DEF Words
      <4>2. Raw(z) = Raw(st) \o X
        BY <1>1, <3>2
      <4> HIDE DEF X, z
      <4>3. Raw(z) = Raw(st)
        BY <1>3, <4>1, <4>2, Concats
      <4>4. QED BY <1>3, <3>2, <4>3, SystemsMore
    <3>3. CASE y.k # "system" /\ (w # "chat" \/ y.k # "assistant")
      <4>1. NoSystems(X)
        BY <3>3, WordsPlain
      <4>2. Raw(z) = Raw(st) \o X
        BY <1>1, <3>3
      <4> HIDE DEF X, z
      <4>3. SystemsIn(Raw(z)) = SystemsIn(Raw(st)) /\ before \in Nat
        BY <1>3, <1>4, <4>1, <4>2, SystemsMore
      <4>4. QED BY <3>3, <4>3
    <3>4. CASE w = "chat" /\ y.k = "assistant"
      <4>1. NoSystems(th) /\ NoSystems(cs) /\ NoSystems(y.parts)
        BY <3>4, WordsPlain
      <4>2. Raw(st) = F \o M /\ Raw(z) = F \o all
        BY <1>1, <3>4
      <4>3. th \in Seq(PartSet) /\ cs \in Seq(PartSet) /\ y.parts \in Seq(PartSet)
        BY <1>5, <3>4
      <4> HIDE DEF z, th, cs, F, M
      <4>4. th \o M \in Seq(PartSet) /\ NoSystems(th \o M)
        BY <1>2, <1>6, <4>1, <4>3, SystemsMore, Concats
      <4>5. (th \o M) \o y.parts \in Seq(PartSet) /\ NoSystems((th \o M) \o y.parts)
        BY <4>1, <4>3, <4>4, SystemsMore, Concats
      <4>6. all \in Seq(PartSet) /\ NoSystems(all)
        BY <4>1, <4>3, <4>5, SystemsMore, Concats
      <4> HIDE DEF all
      <4>7. /\ SystemsIn(F \o all) = SystemsIn(F) /\ SystemsIn(F \o M) = SystemsIn(F)
            /\ Cardinality(SystemsIn(F)) \in Nat
        BY <1>2, <1>6, <4>6, SystemsMore
      <4>8. QED BY <3>4, <4>2, <4>7
    <3>5. QED BY <3>1, <3>2, <3>3, <3>4
  <2>3. SystemCount(z) = Len(S) + after /\ SystemCount(st) = Len(st.system) + before
    BY <1>1 DEF SystemCount
  <2> DEFINE l == Len(st.system)
             m == Len(S)
             c == SystemCount(z)
             b == SystemCount(st)
  <2>4. l \in Nat
    BY <1>2
  <2>5. c = m + after /\ b = l + before
    BY <2>3
  <2>6. m = l + IF y.k = "system" /\ w # "chat" THEN 1 ELSE 0
    BY <2>1
  <2> HIDE DEF z, S, before, after, l, m, c, b
  <2>7. c = b + IF y.k = "system" THEN 1 ELSE 0
    <3>1. CASE y.k = "system" /\ w # "chat"
      BY <2>2, <2>4, <2>5, <2>6, <3>1
    <3>2. CASE y.k = "system" /\ w = "chat"
      BY <2>2, <2>4, <2>5, <2>6, <3>2
    <3>3. CASE y.k # "system"
      BY <2>2, <2>4, <2>5, <2>6, <3>3
    <3>4. QED BY <3>1, <3>2, <3>3
  <2>8. QED BY <2>7 DEF c, b
<1>8. ASSUME Tellable(w, st, y)
      PROVE  Tell(Raw(z)) = Tell(Raw(st)) \o SentTold(y)
  <2>1. CASE w # "chat" \/ y.k # "assistant"
    <3>1. Tell(X) = SentTold(y)
      BY <1>8, WordsTold
    <3> HIDE DEF X, z
    <3>2. QED BY <1>1, <1>3, <1>4, <2>1, <3>1, TellConcat
  <2>2. CASE w = "chat" /\ y.k = "assistant"
    <3>1. Tell(th) = <<>> /\ Tell(cs) = CallsOf(y)
      BY <1>8, <2>2, WordsTold
    <3>2. th \in Seq(PartSet) /\ cs \in Seq(PartSet) /\ y.parts \in Seq(PartSet)
      BY <1>5, <2>2
    <3>3. SentTold(y) = Tell(y.parts) \o CallsOf(y)
      BY <2>2 DEF SentTold
    <3> HIDE DEF z, th, cs, F, M
    <3>4. Tell(F \o all) = Tell(F \o M) \o (Tell(y.parts) \o Tell(cs))
      <4> DEFINE p == y.parts
      <4>1. /\ F \in Seq(PartSet) /\ M \in Seq(PartSet) /\ th \in Seq(PartSet)
            /\ p \in Seq(PartSet) /\ cs \in Seq(PartSet) /\ Tell(th) = <<>>
        BY <1>2, <3>1, <3>2
      <4> HIDE DEF p
      <4>2. ToldBetween(F, M, th, p, cs)
        BY <4>1, TellBetween
      <4>3. QED BY <4>2 DEF p, ToldBetween
    <3> HIDE DEF all
    <3>5. QED BY <1>1, <2>2, <3>1, <3>3, <3>4
  <2>3. QED BY <2>1, <2>2
<1>9. QED BY <1>3, <1>7, <1>8

-----------------------------------------------------------------------------
(* The calls of the items that are sent are the calls of the history.      *)
\* x is one of the first n sequences joined.
Finds(p, n, x) == \E k \in 1 .. Len(UpTo(p, n)) : UpTo(p, n)[k] = x

LEMMA JoinHas ==
    ASSUME NEW T, NEW n \in Nat, NEW p, \A j \in 1 .. n : p[j] \in Seq(T),
           NEW i \in 1 .. n, NEW x, p[i] = <<x>>
    PROVE  Finds(p, n, x)
<1> DEFINE Found(m) == \E k \in 1 .. Len(UpTo(p, m)) : UpTo(p, m)[k] = x
           N == {m \in Nat : i <= m /\ m <= n => Found(m)}
<1>1. /\ UpTo(p, n) \in Seq(T)
      /\ \A m \in 0 .. n - 1 : /\ UpTo(p, m) \in Seq(T)
                               /\ UpTo(p, m + 1) = UpTo(p, m) \o p[m + 1]
  BY JoinedType
<1>2. ASSUME NEW m \in 0 .. n - 1, i <= m => Found(m), i <= m + 1
      PROVE  Found(m + 1)
  <2> DEFINE a == UpTo(p, m)
             q == p[m + 1]
  <2>1. a \in Seq(T) /\ q \in Seq(T) /\ UpTo(p, m + 1) = a \o q
    BY <1>1
  <2>2. CASE i = m + 1
    <3>1. q = <<x>>
      BY <2>2
    <3> HIDE DEF a, q
    <3>2. /\ Len(a) \in Nat /\ Len(q) = 1 /\ q[1] = x
          /\ Len(a \o q) = Len(a) + Len(q)
          /\ \A k \in 1 .. Len(a) + Len(q) :
                (a \o q)[k] = IF k <= Len(a) THEN a[k] ELSE q[k - Len(a)]
      BY <2>1, <3>1, ConcatProperties, LenProperties
    <3>3. Len(a) + 1 \in 1 .. Len(a \o q) /\ (a \o q)[Len(a) + 1] = x
      BY <3>2
    <3>4. QED BY <2>1, <3>3
  <2>3. CASE i <= m
    <3>1. PICK k \in 1 .. Len(a) : a[k] = x
      BY <1>2, <2>3
    <3> HIDE DEF a, q
    <3>2. /\ Len(a) \in Nat /\ Len(q) \in Nat
          /\ Len(a \o q) = Len(a) + Len(q)
          /\ \A j \in 1 .. Len(a) + Len(q) :
                (a \o q)[j] = IF j <= Len(a) THEN a[j] ELSE q[j - Len(a)]
      BY <2>1, ConcatProperties, LenProperties
    <3>3. k \in 1 .. Len(a \o q) /\ (a \o q)[k] = x
      BY <3>1, <3>2
    <3>4. QED BY <2>1, <3>3
  <2>4. QED BY <1>2, <2>2, <2>3
<1>3. 0 \in N
  OBVIOUS
<1>4. ASSUME NEW m \in N PROVE m + 1 \in N
  <2>1. m \in Nat /\ (i <= m /\ m <= n => Found(m))
    OBVIOUS
  <2> HIDE DEF Found
  <2>2. ASSUME i <= m + 1, m + 1 <= n PROVE Found(m + 1)
    <3>1. m \in 0 .. n - 1 /\ (i <= m => Found(m))
      BY <2>1, <2>2
    <3>2. QED BY <1>2, <2>2, <3>1
  <2>3. QED BY <2>1, <2>2
<1>5. N = Nat
  <2> HIDE DEF N
  <2>1. N \subseteq Nat
    BY DEF N
  <2>2. QED BY <1>3, <1>4, <2>1, SetInduction
<1>6. \A m \in Nat : i <= m /\ m <= n => Found(m)
  BY <1>5
<1> HIDE DEF Found
<1>7. Found(n)
  BY <1>6
<1>8. QED BY <1>7 DEF Found, Finds

\* Calls are known by their ids and kinds; a signature may be gone.
SameCalls(a, b) ==
    /\ Len(a) = Len(b)
    /\ \A c \in 1 .. Len(b) : a[c].id = b[c].id /\ a[c].kind = b[c].kind

LEMMA OneIn == ASSUME NEW T, NEW x \in T PROVE <<x>> \in Seq(T) /\ <<>> \in Seq(T)
OBVIOUS

LEMMA IdIn ==
    ASSUME NEW items, NEW kinds, NEW id
    PROVE  id \in IdsOf(items, kinds) <=>
              \E k \in 1 .. Len(items) : /\ items[k].k = "assistant"
                                         /\ \E c \in DOMAIN items[k].calls :
                                               /\ items[k].calls[c].id = id
                                               /\ items[k].calls[c].kind \in kinds
BY DEF IdsOf, Range

LEMMA PortionCalls ==
    ASSUME NEW s \in Seq(Items), Grouped(s), NEW i \in 1 .. Len(s), NEW t, NEW pr,
           s[i].k = "assistant"
    PROVE  \E x \in SentItems : /\ Portion(s, i, t, pr) = <<x>> /\ x.k = "assistant"
                                /\ x.calls \in Seq(Calls) /\ SameCalls(x.calls, s[i].calls)
<1>1. s[i] \in Items /\ s[i].calls \in Seq(Calls)
  BY ElementOfSeq, ItemFields
<1>2. CASE ~Foreign(s, i, t, pr)
  <2>1. Portion(s, i, t, pr) = <<s[i]>>
    BY <1>2, PortionIs
  <2>2. s[i] \in SentItems /\ SameCalls(s[i].calls, s[i].calls)
    BY <1>1 DEF SentItems, SameCalls
  <2>3. QED BY <1>1, <2>1, <2>2
<1>3. CASE Foreign(s, i, t, pr)
  <2> DEFINE a == Strip(s[i], Summaries(s, i))
  <2>1. /\ Portion(s, i, t, pr) = <<a>> /\ a \in SentItems /\ a.k = "assistant"
        /\ a.calls = Unsigned(s[i].calls)
    BY <1>3, PortionIs
  <2>2. a.calls \in Seq(Calls)
    BY <2>1, SentFields
  <2>3. SameCalls(Unsigned(s[i].calls), s[i].calls)
    <3>1. /\ Len(s[i].calls) \in Nat
          /\ \A c \in 1 .. Len(s[i].calls) : s[i].calls[c] \in Calls
      BY <1>1, LenProperties, ElementOfSeq
    <3>2. Len(Unsigned(s[i].calls)) = Len(s[i].calls)
      BY <3>1 DEF Unsigned
    <3>3. \A c \in 1 .. Len(s[i].calls) :
             Unsigned(s[i].calls)[c] = [s[i].calls[c] EXCEPT !.signed = FALSE]
      BY <3>1 DEF Unsigned
    <3>4. \A x \in Calls : LET e == [x EXCEPT !.signed = FALSE] IN e.id = x.id /\ e.kind = x.kind
      BY DEF Calls
    <3>5. QED BY <3>1, <3>2, <3>3, <3>4 DEF SameCalls
  <2> HIDE DEF a
  <2>4. QED BY <2>1, <2>2, <2>3
<1>4. QED BY <1>2, <1>3

LEMMA IdsSent ==
    ASSUME NEW b, History(history, b, FALSE), NEW key, NEW i \in 1 .. Len(Prompt(history)),
           Prompt(history)[i].k = "assistant", NEW c \in 1 .. Len(Prompt(history)[i].calls)
    PROVE  LET call == Prompt(history)[i].calls[c] IN
           /\ call.id \in Start(key).named
           /\ call.id \in Start(key).custom <=> call.kind = "custom_tool"
<1> DEFINE s == Prompt(history)
           call == s[i].calls[c]
           items == Sanitize(s, key, Primary)
           P == Portions(s, key, Primary)
<1>1. s \in Seq(Items) /\ Grouped(s) /\ Numbered(s, b) /\ Len(s) \in Nat
  <2>1. History(s, b, FALSE)
    BY PromptIs
  <2>2. QED BY <2>1, LenProperties DEF History
<1>2. Len(P) = Len(s) /\ \A j \in 1 .. Len(s) : P[j] = Portion(s, j, key, Primary)
  <2> HIDE DEF s
  <2>1. QED BY <1>1 DEF Portions
<1>3. items = UpTo(P, Len(s))
  <2>1. [j \in 1 .. Len(s) |-> P[j]] = P
    BY DEF Portions
  <2>2. QED BY <2>1 DEF Sanitize, UpTo, Portions
<1>4. \A j \in 1 .. Len(s) : P[j] \in Seq(SentItems)
  <2> HIDE DEF s, P
  <2>1. QED BY <1>1, <1>2, PortionIs
<1>5. call \in Calls
  <2>1. s[i].calls \in Seq(Calls)
    <3>1. s[i] \in Items
      BY <1>1, ElementOfSeq
    <3>2. QED BY <3>1, ItemFields
  <2>2. QED BY <2>1, ElementOfSeq
<1> HIDE DEF s, items, P
<1>6. \E k \in 1 .. Len(items) :
         items[k].k = "assistant" /\ \E d \in DOMAIN items[k].calls :
            items[k].calls[d].id = call.id /\ items[k].calls[d].kind = call.kind
  <2>1. s[i].k = "assistant" /\ i \in 1 .. Len(s) /\ c \in 1 .. Len(s[i].calls)
    BY DEF s
  <2>2. PICK x \in SentItems : /\ Portion(s, i, key, Primary) = <<x>> /\ x.k = "assistant"
                               /\ x.calls \in Seq(Calls) /\ SameCalls(x.calls, s[i].calls)
    BY <1>1, <2>1, PortionCalls
  <2>3. PICK k \in 1 .. Len(items) : items[k] = x
    <3>1. P[i] = <<x>>
      BY <1>2, <2>1, <2>2
    <3>2. \A j \in 1 .. Len(s) : P[j] \in Seq(SentItems)
      BY <1>4
    <3>3. Len(s) \in Nat /\ i \in 1 .. Len(s)
      BY <1>1, <2>1
    <3> DEFINE n == Len(s)
    <3> HIDE DEF n
    <3>4. Finds(P, n, x)
      <4>1. n \in Nat /\ i \in 1 .. n /\ \A j \in 1 .. n : P[j] \in Seq(SentItems)
        BY <3>2, <3>3 DEF n
      <4>2. QED BY <3>1, <4>1, JoinHas
    <3>5. QED BY <1>3, <3>4 DEF n, Finds
  <2>4. c \in DOMAIN x.calls /\ x.calls[c].id = call.id /\ x.calls[c].kind = call.kind
    <3>1. c \in 1 .. Len(x.calls)
      BY <2>1, <2>2 DEF SameCalls
    <3>2. QED BY <2>1, <2>2, <3>1, LenProperties DEF SameCalls
  <2>5. QED BY <2>2, <2>3, <2>4
<1>7. ASSUME NEW k \in 1 .. Len(items), items[k].k = "assistant",
             NEW d \in DOMAIN items[k].calls, items[k].calls[d].id = call.id
      PROVE  items[k].calls[d].kind = call.kind
  <2> DEFINE T == {x \in SentItems : x.k = "assistant" =>
                     /\ x.calls \in Seq(Calls)
                     /\ \E j \in 1 .. Len(s) : s[j].k = "assistant" /\ SameCalls(x.calls, s[j].calls)}
  <2>1. ASSUME NEW j \in 1 .. Len(s) PROVE P[j] \in Seq(T)
    <3>1. CASE s[j].k = "assistant"
      <4>1. PICK x \in SentItems : /\ Portion(s, j, key, Primary) = <<x>> /\ x.k = "assistant"
                                   /\ x.calls \in Seq(Calls) /\ SameCalls(x.calls, s[j].calls)
        BY <1>1, <3>1, PortionCalls
      <4>2. x \in T
        BY <3>1, <4>1
      <4> HIDE DEF T
      <4>3. P[j] = <<x>>
        BY <1>2, <4>1
      <4>4. QED BY <4>2, <4>3, OneIn
    <3>2. CASE s[j].k # "assistant"
      <4>1. s[j] \in Items
        BY <1>1, ElementOfSeq
      <4>2. s[j] \in T
        BY <3>2, <4>1 DEF SentItems
      <4>3. P[j] = <<s[j]>> \/ P[j] = <<>>
        <5>1. Portion(s, j, key, Primary) = <<s[j]>> \/ Portion(s, j, key, Primary) = <<>>
          BY <1>1, <3>2, PortionIs
        <5>2. QED BY <1>2, <5>1
      <4> HIDE DEF T
      <4>4. CASE P[j] = <<s[j]>>
        BY <4>2, <4>4, OneIn
      <4>5. CASE P[j] = <<>>
        BY <4>2, <4>5, OneIn
      <4>6. QED BY <4>3, <4>4, <4>5
    <3>3. QED BY <3>1, <3>2
  <2>2. items \in Seq(T)
    <3> HIDE DEF T
    <3>1. QED BY <1>1, <1>3, <2>1, JoinedType
  <2>3. items[k] \in T
    <3> HIDE DEF T
    <3>1. QED BY <2>2, ElementOfSeq
  <2>4. PICK j \in 1 .. Len(s) : s[j].k = "assistant" /\ SameCalls(items[k].calls, s[j].calls)
    BY <1>7, <2>3
  <2>5. d \in 1 .. Len(s[j].calls)
    <3>1. items[k].calls \in Seq(Calls)
      BY <1>7, <2>3
    <3>2. d \in 1 .. Len(items[k].calls)
      BY <3>1, LenProperties
    <3>3. QED BY <2>4, <3>2 DEF SameCalls
  <2>6. s[j].calls[d].id = call.id /\ s[j].calls[d].kind = items[k].calls[d].kind
    BY <1>7, <2>4, <2>5 DEF SameCalls
  <2>7. i \in 1 .. Len(s) /\ s[i].k = "assistant" /\ c \in 1 .. Len(s[i].calls)
    BY DEF s
  <2>8. s[j].n = s[i].n
    <3>1. s[j].calls[d].id[1] = s[j].n
      BY <1>1, <2>4, <2>5 DEF Numbered
    <3>2. s[i].calls[c].id[1] = s[i].n
      BY <1>1, <2>7 DEF Numbered
    <3>3. s[j].calls[d].id = s[i].calls[c].id
      BY <2>6 DEF call
    <3>4. QED BY <3>1, <3>2, <3>3
  <2>9. j = i
    BY <1>1, <2>4, <2>7, <2>8 DEF Numbered
  <2>10. d = c
    <3>1. s[i].calls[d].id = s[i].calls[c].id /\ d \in 1 .. Len(s[i].calls)
      BY <2>5, <2>6, <2>9 DEF call
    <3>2. QED BY <1>1, <2>7, <3>1 DEF Numbered
  <2>11. QED BY <2>6, <2>9, <2>10
<1>8. call.kind \in {"function", "custom_tool"}
  BY <1>5 DEF Calls
<1>9. call.id \in IdsOf(items, {"function", "custom_tool"})
  BY <1>6, <1>8, IdIn
<1>10. call.id \in IdsOf(items, {"custom_tool"}) <=> call.kind = "custom_tool"
  <2>1. ASSUME call.kind = "custom_tool" PROVE call.id \in IdsOf(items, {"custom_tool"})
    BY <1>6, <2>1, IdIn
  <2>2. ASSUME call.id \in IdsOf(items, {"custom_tool"}) PROVE call.kind = "custom_tool"
    BY <1>7, <2>2, IdIn
  <2>3. QED BY <2>1, <2>2
<1>11. Start(key).named = IdsOf(items, {"function", "custom_tool"})
       /\ Start(key).custom = IdsOf(items, {"custom_tool"})
  BY DEF Start, NewPayload, items, s
<1>12. QED BY <1>9, <1>10, <1>11 DEF s

-----------------------------------------------------------------------------
(* What a foreign answer is told as: its hosted calls wait, as text, for   *)
(* its assistant.                                                          *)
Owed(s, n, key) ==
    IF n \in 1 .. Len(s) /\ s[n].k = "hosted" /\ Foreign(s, n, key, Primary)
    THEN <<<<"hosted", s[n].n>>>> ELSE <<>>

LEMMA ItemTold ==
    ASSUME NEW y \in Items
    PROVE  ItemParts(y) \in Seq(PartSet) /\ SentTold(y) = ItemParts(y)
<1>1. y \in SentItems /\ y.n \in Int /\ y.k \in Kinds
  BY ItemKinds DEF SentItems
<1>2. CASE y.k = "user"
  <2>1. UserContent(y) \in Seq(UserParts)
    BY <1>1, <1>2, UserSays
  <2>2. UserContent(y) \in Seq(PartSet)
    <3>1. UserParts \subseteq PartSet
      BY PartSets
    <3> HIDE DEF UserParts, PartSet
    <3>2. QED BY <2>1, <3>1
  <2>3. ItemParts(y) = UserContent(y) /\ SentTold(y) = UserContent(y)
    BY <1>2 DEF ItemParts, SentTold, UserContent
  <2>4. QED BY <2>2, <2>3
<1>3. CASE y.k = "hosted"
  <2>1. <<"hosted", y.n>> \in PartSet
    BY <1>1 DEF PartSet, Tags
  <2>2. ItemParts(y) = <<<<"hosted", y.n>>>> /\ SentTold(y) = <<<<"hosted", y.n>>>>
    BY <1>3 DEF ItemParts, SentTold
  <2> HIDE DEF PartSet
  <2>3. QED BY <2>1, <2>2, OneIn
<1>4. CASE y.k = "result"
  <2>1. <<"answer", y.calls[1]>> \in PartSet
    <3>1. PICK id \in CallIds : y.calls = <<id>>
      BY <1>4, ItemFields
    <3>2. y.calls[1] \in CallIds
      BY <3>1
    <3> HIDE DEF CallIds
    <3>3. QED BY <3>2 DEF PartSet, Tags
  <2>2. ItemParts(y) = <<<<"answer", y.calls[1]>>>> /\ SentTold(y) = <<<<"answer", y.calls[1]>>>>
    BY <1>4 DEF ItemParts, SentTold
  <2> HIDE DEF PartSet
  <2>3. QED BY <2>1, <2>2, OneIn
<1>5. CASE y.k = "assistant"
  <2>1. y.parts \in Seq(TextParts)
    BY <1>5, ItemFields
  <2>2. TextParts \subseteq PartSet
    BY DEF TextParts, PartSet, Tags
  <2>3. y.parts \in Seq(PartSet)
    <3> HIDE DEF TextParts, PartSet
    <3>1. QED BY <2>1, <2>2
  <2>4. \A x \in TextParts : TellPiece(x) = <<x>>
    BY DEF TextParts, TellPiece, Plain, CallTags
  <2>5. Tell(y.parts) = y.parts
    <3>1. \A i \in 1 .. Len(y.parts) : TellPiece(y.parts[i]) = <<y.parts[i]>>
      BY <2>1, <2>4, ElementOfSeq
    <3>2. QED BY <2>3, <3>1, TellSame
  <2>6. CallsOf(y) \in Seq(PartSet)
    <3>1. CallsOf(y) \in Seq({"call"} \X CallIds)
      BY <1>1, <1>5, AssistantSays
    <3>2. {"call"} \X CallIds \subseteq PartSet
      BY DEF PartSet, Tags
    <3> DEFINE A == {"call"} \X CallIds
    <3> HIDE DEF A, PartSet
    <3>3. CallsOf(y) \in Seq(A) /\ A \subseteq PartSet
      BY <3>1, <3>2 DEF A
    <3>4. QED BY <3>3
  <2>7. ItemParts(y) = y.parts \o CallsOf(y) /\ SentTold(y) = Tell(y.parts) \o CallsOf(y)
    BY <1>5 DEF ItemParts, SentTold
  <2>8. y.parts \o CallsOf(y) \in Seq(PartSet)
    BY <2>3, <2>6, Concats
  <2>9. QED BY <2>5, <2>7, <2>8
<1>6. CASE y.k \in {"system", "reasoning"}
  <2>1. ItemParts(y) = <<>> /\ SentTold(y) = <<>>
    BY <1>6 DEF ItemParts, SentTold
  <2>2. QED BY <2>1
<1>7. QED BY <1>1, <1>2, <1>3, <1>4, <1>5, <1>6 DEF Kinds

LEMMA JoinNext ==
    ASSUME NEW T, NEW p, NEW m \in Nat, \A j \in 1 .. m + 1 : p[j] \in Seq(T)
    PROVE  UpTo(p, m + 1) = UpTo(p, m) \o p[m + 1]
<1>1. m \in 0 .. (m + 1) - 1 /\ m + 1 \in Nat
  OBVIOUS
<1>2. \A k \in 0 .. (m + 1) - 1 : UpTo(p, k + 1) = UpTo(p, k) \o p[k + 1]
  BY <1>1, JoinedType
<1>3. QED BY <1>1, <1>2

\* A summary stands in front of an assistant for the hosted call right before it.
LEMMA SummariesAre ==
    ASSUME NEW s \in Seq(Items), Grouped(s), NEW n \in Nat, n + 1 \in 1 .. Len(s),
           s[n + 1].k = "assistant"
    PROVE  /\ n \in 1 .. Len(s) /\ s[n].k = "hosted" =>
                 Summaries(s, n + 1) = <<<<"summary", s[n].n>>>>
           /\ ~(n \in 1 .. Len(s) /\ s[n].k = "hosted") => Summaries(s, n + 1) = <<>>
<1> DEFINE P == [j \in 1 .. n + 1 |->
                   IF GroupEnd(s, j) = n + 1 /\ s[j].k = "hosted"
                   THEN <<<<"summary", s[j].n>>>> ELSE <<>>]
           T == {"summary"} \X Int
<1>1. Summaries(s, n + 1) = UpTo(P, n + 1)
  <2>1. [j \in 1 .. n + 1 |-> P[j]] = P
    OBVIOUS
  <2>2. QED BY <2>1 DEF UpTo, Summaries
<1>2. Len(s) \in Nat /\ \A j \in 1 .. Len(s) : s[j] \in Items /\ s[j].n \in Int
  <2>1. \A j \in 1 .. Len(s) : s[j] \in Items
    BY ElementOfSeq
  <2>2. QED BY <2>1, LenProperties, ItemKinds
<1>3. \A j \in 1 .. n + 1 : j \in 1 .. Len(s)
  BY <1>2
<1>4. \A j \in 1 .. n + 1 : P[j] \in Seq(T)
  <2> SUFFICES ASSUME NEW j \in 1 .. n + 1 PROVE P[j] \in Seq(T)
    OBVIOUS
  <2>1. <<"summary", s[j].n>> \in T
    BY <1>2, <1>3
  <2>2. P[j] = <<<<"summary", s[j].n>>>> \/ P[j] = <<>>
    OBVIOUS
  <2> HIDE DEF P, T
  <2>3. QED BY <2>1, <2>2, OneIn
<1>5. \A j \in 1 .. n + 1 : j # n => P[j] = <<>>
  <2> SUFFICES ASSUME NEW j \in 1 .. n + 1, j # n, s[j].k = "hosted"
               PROVE  GroupEnd(s, j) # n + 1
    OBVIOUS
  <2>1. GroupEnd(s, j) = j + 1
    BY <1>3, GroupEnds
  <2>2. QED BY <2>1
<1>6. n \in 1 .. Len(s) /\ s[n].k = "hosted" => P[n] = <<<<"summary", s[n].n>>>>
  <2> SUFFICES ASSUME n \in 1 .. Len(s), s[n].k = "hosted"
               PROVE  P[n] = <<<<"summary", s[n].n>>>>
    OBVIOUS
  <2>1. GroupEnd(s, n) = n + 1 /\ n \in 1 .. n + 1
    BY GroupEnds
  <2>2. QED BY <2>1
<1>7. ~(n \in 1 .. Len(s) /\ s[n].k = "hosted") => \A j \in 1 .. n + 1 : P[j] = <<>>
  <2> SUFFICES ASSUME ~(n \in 1 .. Len(s) /\ s[n].k = "hosted"), NEW j \in 1 .. n + 1
               PROVE  P[j] = <<>>
    OBVIOUS
  <2>1. s[j].k # "hosted" \/ j # n
    BY <1>3
  <2>2. QED BY <1>5, <2>1
<1> HIDE DEF P, T
<1>8. CASE ~(n \in 1 .. Len(s) /\ s[n].k = "hosted")
  <2>1. UpTo(P, n + 1) = <<>>
    BY <1>7, <1>8, Empties
  <2>2. QED BY <1>1, <1>8, <2>1
<1>9. CASE n \in 1 .. Len(s) /\ s[n].k = "hosted"
  <2>1. n \in Nat /\ n - 1 \in Nat /\ (n - 1) + 1 = n /\ n \in 1 .. n + 1
    BY <1>2, <1>9
  <2>2. UpTo(P, n + 1) = UpTo(P, n) \o P[n + 1]
    BY <1>4, JoinNext
  <2>7. UpTo(P, n) = UpTo(P, n - 1) \o P[n]
    <3> DEFINE m == n - 1
    <3>1. m \in Nat /\ m + 1 = n /\ \A j \in 1 .. m + 1 : P[j] \in Seq(T)
      BY <1>4, <2>1
    <3> HIDE DEF m
    <3>2. UpTo(P, m + 1) = UpTo(P, m) \o P[m + 1]
      BY <3>1, JoinNext
    <3>3. QED BY <3>1, <3>2 DEF m
  <2>8. UpTo(P, n - 1) = <<>>
    <3> DEFINE m == n - 1
    <3>1. \A j \in 1 .. m : j \in 1 .. n + 1 /\ j # n
      BY <2>1
    <3>2. \A j \in 1 .. m : P[j] = <<>>
      BY <1>5, <3>1
    <3>3. m \in Nat
      BY <2>1
    <3> HIDE DEF m
    <3>4. UpTo(P, m) = <<>>
      BY <3>2, <3>3, Empties
    <3>5. QED BY <3>4 DEF m
  <2>3. P[n + 1] = <<>> /\ P[n] = <<<<"summary", s[n].n>>>>
    BY <1>5, <1>6, <1>9, <2>1
  <2>4. UpTo(P, n + 1) = (<<>> \o <<<<"summary", s[n].n>>>>) \o <<>>
    BY <2>2, <2>3, <2>7, <2>8
  <2>5. <<<<"summary", s[n].n>>>> \in Seq(T)
    <3>1. P[n] \in Seq(T)
      BY <1>4, <2>1
    <3>2. QED BY <2>3, <3>1
  <2>6. QED BY <1>1, <1>9, <2>4, <2>5, Concats
<1>10. QED BY <1>8, <1>9

\* Stripping drops what no reader but the maker is told.
LEMMA StripTold ==
    ASSUME NEW s \in Seq(Items), Grouped(s), NEW n \in Nat, n + 1 \in 1 .. Len(s), NEW key,
           s[n + 1].k = "assistant", Foreign(s, n + 1, key, Primary),
           NEW a, a.k = "assistant", a.parts = Summaries(s, n + 1) \o s[n + 1].parts,
           a.calls = Unsigned(s[n + 1].calls)
    PROVE  SentTold(a) = Owed(s, n, key) \o ItemParts(s[n + 1])
<1> DEFINE y == s[n + 1]
           S == Summaries(s, n + 1)
           hosts == n \in 1 .. Len(s) /\ s[n].k = "hosted"
<1>1. y \in Items /\ y.parts \in Seq(TextParts) /\ y.calls \in Seq(Calls)
  <2>1. y \in Items
    BY ElementOfSeq
  <2>2. QED BY <2>1, ItemFields
<1>2. y.parts \in Seq(PartSet)
  <2>1. TextParts \subseteq PartSet
    BY DEF TextParts, PartSet, Tags
  <2> HIDE DEF TextParts, PartSet
  <2>2. QED BY <1>1, <2>1
<1>3. CallsOf(a) = CallsOf(y)
  <2> DEFINE cs == y.calls
  <2>1. Len(cs) \in Nat /\ \A c \in 1 .. Len(cs) : cs[c] \in Calls
    <3>1. cs \in Seq(Calls)
      BY <1>1
    <3>2. QED BY <3>1, LenProperties, ElementOfSeq
  <2>2. a.calls = [c \in 1 .. Len(cs) |-> [cs[c] EXCEPT !.signed = FALSE]]
    BY DEF Unsigned
  <2>3. \A x \in Calls : [x EXCEPT !.signed = FALSE].id = x.id
    BY DEF Calls
  <2> HIDE DEF cs
  <2>4. Len(a.calls) = Len(cs) /\ \A c \in 1 .. Len(cs) : a.calls[c].id = cs[c].id
    <3>1. Len(a.calls) = Len(cs)
      BY <2>1, <2>2
    <3>2. \A c \in 1 .. Len(cs) : a.calls[c] = [cs[c] EXCEPT !.signed = FALSE]
      BY <2>2
    <3>3. \A c \in 1 .. Len(cs) : [cs[c] EXCEPT !.signed = FALSE].id = cs[c].id
      BY <2>1, <2>3
    <3>4. QED BY <3>1, <3>2, <3>3
  <2>5. CallsOf(a) = [c \in 1 .. Len(cs) |-> <<"call", cs[c].id>>]
    BY <2>4 DEF CallsOf
  <2>6. QED BY <2>5 DEF CallsOf, cs
<1>4. SentTold(a) = Tell(S \o y.parts) \o CallsOf(y)
  BY <1>3 DEF SentTold
<1>5. S \in Seq(PartSet) /\ Tell(S) = Owed(s, n, key) /\ Owed(s, n, key) \in Seq(PartSet)
  <2>1. CASE hosts
    <3> DEFINE u == <<"summary", s[n].n>>
               v == <<"hosted", s[n].n>>
    <3>1. S = <<u>>
      BY <2>1, SummariesAre
    <3>2. Foreign(s, n, key, Primary)
      <4>1. GroupEnd(s, n) = n + 1 /\ GroupEnd(s, n + 1) = n + 1
        BY <2>1, GroupEnds
      <4>2. QED BY <4>1 DEF Foreign
    <3>3. Owed(s, n, key) = <<v>>
      BY <2>1, <3>2 DEF Owed
    <3>4. u \in PartSet /\ v \in PartSet /\ TellPiece(u) = <<v>>
      <4>1. s[n].n \in Int
        <5>1. s[n] \in Items
          BY <2>1, ElementOfSeq
        <5>2. QED BY <5>1, ItemKinds
      <4>2. QED BY <4>1 DEF PartSet, Tags, TellPiece, Plain, CallTags
    <3> HIDE DEF u, v, PartSet
    <3>5. <<u>> \in Seq(PartSet) /\ <<v>> \in Seq(PartSet)
      BY <3>4, OneIn
    <3>6. Len(<<u>>) = 1 /\ Len(<<v>>) = 1 /\ <<u>>[1] = u /\ <<v>>[1] = v
      OBVIOUS
    <3>7. Len(<<u>>) = Len(<<v>>) /\ \A i \in 1 .. Len(<<v>>) : TellPiece(<<u>>[i]) = <<<<v>>[i]>>
      BY <3>4, <3>6
    <3>8. Tell(<<u>>) = <<v>>
      BY <3>5, <3>7, TellSame
    <3>9. QED BY <3>1, <3>3, <3>5, <3>8
  <2>2. CASE ~hosts
    <3>1. S = <<>> /\ Owed(s, n, key) = <<>>
      BY <2>2, SummariesAre DEF Owed
    <3>2. <<>> \in Seq(PartSet) /\ \A i \in 1 .. Len(<<>>) : <<>>[i][1] \in {"think", "system"}
      OBVIOUS
    <3>3. Tell(<<>>) = <<>>
      BY <3>2, TellNone
    <3>4. QED BY <3>1, <3>2, <3>3
  <2>3. QED BY <2>1, <2>2
<1>6. Tell(S \o y.parts) = Owed(s, n, key) \o Tell(y.parts) /\ Tell(y.parts) \in Seq(PartSet)
  <2> DEFINE p == y.parts
             o == Owed(s, n, key)
  <2>1. p \in Seq(PartSet) /\ S \in Seq(PartSet) /\ Tell(S) = o
    BY <1>2, <1>5
  <2> HIDE DEF S, y, p, o, PartSet
  <2>2. ToldTogether(S, p)
    BY <2>1, TellTogether
  <2>3. Tell(p) \in Seq(PartSet)
    BY <2>1, TellConcat
  <2>4. Tell(S \o p) = o \o Tell(p)
    BY <2>1, <2>2 DEF ToldTogether
  <2>5. QED BY <2>3, <2>4 DEF p, o
<1>7. SentTold(y) = Tell(y.parts) \o CallsOf(y) /\ SentTold(y) = ItemParts(y)
  BY <1>1, ItemTold DEF SentTold
<1>8. CallsOf(y) \in Seq(PartSet)
  <2>1. CallsOf(y) \in Seq({"call"} \X CallIds)
    BY <1>1, AssistantSays DEF SentItems
  <2>2. {"call"} \X CallIds \subseteq PartSet
    BY DEF PartSet, Tags
  <2> DEFINE A == {"call"} \X CallIds
  <2> HIDE DEF A, PartSet
  <2>3. CallsOf(y) \in Seq(A) /\ A \subseteq PartSet
    BY <2>1, <2>2 DEF A
  <2>4. QED BY <2>3
<1>9. (Owed(s, n, key) \o Tell(y.parts)) \o CallsOf(y) = Owed(s, n, key) \o (Tell(y.parts) \o CallsOf(y))
  <2> DEFINE o == Owed(s, n, key)
             t == Tell(y.parts)
             c == CallsOf(y)
  <2>1. o \in Seq(PartSet) /\ t \in Seq(PartSet) /\ c \in Seq(PartSet)
    BY <1>5, <1>6, <1>8
  <2> HIDE DEF o, t, c
  <2>2. \A d, e, f \in Seq(PartSet) : (d \o e) \o f = d \o (e \o f)
    BY Concats
  <2>3. (o \o t) \o c = o \o (t \o c)
    BY <2>1, <2>2
  <2>4. QED BY <2>3 DEF o, t, c
<1>10. QED BY <1>4, <1>6, <1>7, <1>9

-----------------------------------------------------------------------------
(* A provider is told the whole history.                                   *)
HistoryParts == [i \in 1 .. Len(history) |-> ItemParts(history[i])]
SystemsBefore(m) == {i \in 1 .. m : history[i].k = "system"}

\* The prompt begins with an item of its own: after n of its items, one less of the
\* history's have been met.
Met(n) == IF n = 0 THEN 0 ELSE n - 1

ToldSoFar(w, key, n) ==
    LET A == After(w, key, n) IN
    /\ Waits(w, A) /\ A.custom = Start(key).custom /\ A.named = Start(key).named
    /\ Tell(Raw(A)) \in Seq(PartSet)
    /\ Tell(Raw(A)) \o Owed(Prompt(history), n, key) = UpTo(HistoryParts, Met(n))
    /\ SystemCount(A) = IF n = 0 THEN 0 ELSE 1 + Cardinality(SystemsBefore(n - 1))

\* The part of the history that the next item of the prompt adds.
LEMMA MetMore ==
    ASSUME NEW b, History(history, b, FALSE), NEW n \in 0 .. Len(Prompt(history)) - 1
    PROVE  LET y == Prompt(history)[n + 1] IN
           /\ UpTo(HistoryParts, Met(n)) \in Seq(PartSet)
           /\ UpTo(HistoryParts, Met(n + 1)) = UpTo(HistoryParts, Met(n)) \o ItemParts(y)
           /\ 1 + Cardinality(SystemsBefore(n)) =
                 (IF n = 0 THEN 0 ELSE 1 + Cardinality(SystemsBefore(n - 1)))
                 + (IF y.k = "system" THEN 1 ELSE 0)
<1> DEFINE L == Len(history)
           s == Prompt(history)
<1>1. /\ L \in Nat /\ Len(s) = L + 1 /\ s[1] = SystemItem(0)
      /\ \A j \in 1 .. L : s[j + 1] = history[j]
      /\ \A j \in 1 .. L : history[j] \in Items
  <2>1. history \in Seq(Items)
    BY DEF History
  <2>2. L \in Nat /\ \A j \in 1 .. L : history[j] \in Items
    BY <2>1, LenProperties, ElementOfSeq
  <2>3. QED BY <2>2, PromptIs
<1>2. n \in Nat /\ n <= L
  BY <1>1
<1>3. \A j \in 1 .. L : HistoryParts[j] = ItemParts(history[j]) /\ HistoryParts[j] \in Seq(PartSet)
  <2>1. \A j \in 1 .. L : HistoryParts[j] = ItemParts(history[j])
    BY DEF HistoryParts
  <2>2. QED BY <1>1, <2>1, ItemTold
<1> HIDE DEF s, L
<1>4. CASE n = 0
  <2>1. s[n + 1] = SystemItem(0)
    BY <1>1, <1>4
  <2>2. ItemParts(s[n + 1]) = <<>> /\ s[n + 1].k = "system"
    <3>1. SystemItem(0).k = "system"
      BY DEF SystemItem, Item
    <3>2. ItemParts(SystemItem(0)) = <<>>
      BY <3>1 DEF ItemParts
    <3>3. QED BY <2>1, <3>1, <3>2
  <2>3. Met(n) = 0 /\ Met(n + 1) = 0
    BY <1>4 DEF Met
  <2>4. UpTo(HistoryParts, 0) = <<>>
    BY OneMore
  <2>5. Cardinality(SystemsBefore(n)) = 0
    <3>1. SystemsBefore(n) = {}
      BY <1>4 DEF SystemsBefore
    <3>2. QED BY <3>1, FS_EmptySet
  <2>6. <<>> \in Seq(PartSet) /\ <<>> \o <<>> = <<>>
    BY Concats
  <2>7. UpTo(HistoryParts, Met(n)) = <<>> /\ UpTo(HistoryParts, Met(n + 1)) = <<>>
    BY <2>3, <2>4
  <2>8. (IF n = 0 THEN 0 ELSE 1 + Cardinality(SystemsBefore(n - 1))) = 0
    BY <1>4
  <2>9. 1 + Cardinality(SystemsBefore(n)) = 0 + (IF s[n + 1].k = "system" THEN 1 ELSE 0)
    BY <2>2, <2>5
  <2>10. /\ UpTo(HistoryParts, Met(n)) \in Seq(PartSet)
         /\ UpTo(HistoryParts, Met(n + 1)) = UpTo(HistoryParts, Met(n)) \o ItemParts(s[n + 1])
    BY <2>2, <2>6, <2>7
  <2>11. QED BY <2>8, <2>9, <2>10 DEF s
<1>5. CASE n > 0
  <2> DEFINE m == n - 1
  <2>1. m \in Nat /\ m + 1 = n /\ n \in 1 .. L /\ Met(n) = m /\ Met(n + 1) = n
    BY <1>2, <1>5 DEF Met
  <2>2. s[n + 1] = history[n]
    BY <1>1, <2>1
  <2>3. \A j \in 1 .. m + 1 : HistoryParts[j] \in Seq(PartSet)
    BY <1>1, <1>2, <1>3, <2>1
  <2>4. UpTo(HistoryParts, m) \in Seq(PartSet)
    <3>1. \A j \in 1 .. m : HistoryParts[j] \in Seq(PartSet)
      BY <1>1, <1>2, <1>3, <2>1
    <3> HIDE DEF m
    <3>2. QED BY <2>1, <3>1, JoinedType
  <2>5. UpTo(HistoryParts, n) = UpTo(HistoryParts, m) \o ItemParts(history[n])
    <3> HIDE DEF m
    <3>1. UpTo(HistoryParts, m + 1) = UpTo(HistoryParts, m) \o HistoryParts[m + 1]
      BY <2>1, <2>3, JoinNext
    <3>2. QED BY <1>3, <2>1, <3>1
  <2>6. 1 + Cardinality(SystemsBefore(n)) =
           (1 + Cardinality(SystemsBefore(m))) + (IF history[n].k = "system" THEN 1 ELSE 0)
    <3>1. IsFiniteSet(SystemsBefore(m)) /\ Cardinality(SystemsBefore(m)) \in Nat
      <4>1. IsFiniteSet(1 .. m)
        BY <2>1, FS_Interval
      <4>2. SystemsBefore(m) \subseteq 1 .. m
        BY DEF SystemsBefore
      <4>3. IsFiniteSet(SystemsBefore(m))
        BY <4>1, <4>2, FS_Subset
      <4>4. QED BY <4>3, FS_CardinalityType
    <3>2. CASE history[n].k = "system"
      <4>1. SystemsBefore(n) = SystemsBefore(m) \cup {n} /\ n \notin SystemsBefore(m)
        BY <2>1, <3>2 DEF SystemsBefore
      <4>2. Cardinality(SystemsBefore(n)) = Cardinality(SystemsBefore(m)) + 1
        BY <3>1, <4>1, FS_AddElement
      <4>3. QED BY <3>1, <3>2, <4>2
    <3>3. CASE history[n].k # "system"
      <4>1. SystemsBefore(n) = SystemsBefore(m)
        BY <2>1, <3>3 DEF SystemsBefore
      <4>2. QED BY <3>1, <3>3, <4>1
    <3>4. QED BY <3>2, <3>3
  <2>7. (IF n = 0 THEN 0 ELSE 1 + Cardinality(SystemsBefore(n - 1))) = 1 + Cardinality(SystemsBefore(m))
    BY <1>5
  <2>8. UpTo(HistoryParts, Met(n)) = UpTo(HistoryParts, m) /\ UpTo(HistoryParts, Met(n + 1)) = UpTo(HistoryParts, n)
    BY <2>1
  <2> HIDE DEF m
  <2>9. QED BY <2>2, <2>4, <2>5, <2>6, <2>7, <2>8 DEF s
<1>6. QED BY <1>2, <1>4, <1>5

\* Whatever was asked for can be told: results find the name of their call.
LEMMA PromptTellable ==
    ASSUME NEW b, History(history, b, FALSE), NEW key, NEW i \in 1 .. Len(Prompt(history)),
           NEW w, ~(w = "chat" /\ HasAudio), NEW st, st.named = Start(key).named
    PROVE  Tellable(w, st, Prompt(history)[i])
<1> DEFINE s == Prompt(history)
           y == s[i]
<1>1. ASSUME y.k = "result" PROVE y.calls[1] \in st.named
  <2>1. Paired(s, FALSE)
    <3>1. History(s, b, FALSE)
      BY PromptIs
    <3>2. QED BY <3>1 DEF History
  <2>2. PICK j \in 1 .. i - 1 : s[j].k = "assistant" /\ i - j <= Len(s[j].calls)
    BY <1>1, <2>1 DEF Paired
  <2>3. j \in 1 .. Len(s) /\ i \in Nat /\ Len(s) \in Nat
    <3>1. Len(s) \in Nat
      BY AfterSteps
    <3>2. QED BY <3>1
  <2>4. AnsweredAt(s, j)
    BY <2>1, <2>2, <2>3 DEF Paired
  <2> DEFINE c == i - j
  <2>5. j + c = i /\ c \in 1 .. Len(s[j].calls)
    <3>1. j + Len(s[j].calls) <= Len(s)
      BY <2>4 DEF AnsweredAt
    <3>2. Len(s[j].calls) \in Nat
      <4>1. s[j] \in Items
        <5>1. s \in Seq(Items)
          <6>1. History(s, b, FALSE)
            BY PromptIs
          <6>2. QED BY <6>1 DEF History
        <5>2. QED BY <2>3, <5>1, ElementOfSeq
      <4>2. s[j].calls \in Seq(Calls)
        BY <2>2, <4>1, ItemFields
      <4>3. QED BY <4>2, LenProperties
    <3>3. QED BY <2>2, <2>3, <3>2
  <2> HIDE DEF c
  <2>6. s[j + c].calls = <<s[j].calls[c].id>>
    BY <2>4, <2>5 DEF AnsweredAt
  <2>7. y.calls = <<s[j].calls[c].id>>
    BY <2>5, <2>6
  <2>8. s[j].calls[c].id \in Start(key).named
    BY <2>2, <2>3, <2>5, IdsSent
  <2> HIDE DEF s
  <2>9. QED BY <2>7, <2>8
<1>2. ASSUME w = "chat", y.k = "user" PROVE ~Has("audio", y)
  <2>1. i = 1 \/ i - 1 \in 1 .. Len(history)
    BY PromptIs
  <2>2. CASE i = 1
    <3>1. y = SystemItem(0)
      BY <2>2, PromptIs
    <3>2. SystemItem(0).k = "system"
      BY DEF SystemItem, Item
    <3> HIDE DEF y
    <3>3. QED BY <1>2, <3>1, <3>2
  <2>3. CASE i - 1 \in 1 .. Len(history)
    <3>1. s[(i - 1) + 1] = history[i - 1]
      BY <2>3, PromptIs
    <3>2. (i - 1) + 1 = i
      BY <2>3
    <3>3. y = history[i - 1]
      BY <3>1, <3>2
    <3>4. QED BY <1>2, <2>3, <3>3 DEF HasAudio
  <2>4. QED BY <2>1, <2>2, <2>3
<1>3. QED BY <1>1, <1>2 DEF Tellable

LEMMA ToldNone ==
    ASSUME NEW b, History(history, b, FALSE), NEW key, NEW w \in Wires
    PROVE  ToldSoFar(w, key, 0)
<1> DEFINE A == After(w, key, 0)
           s == Prompt(history)
<1>1. A = Start(key)
  BY AfterSteps
<1>2. A.system = <<>> /\ A.out = <<>> /\ A.model = <<>> /\ A.user = <<>>
  BY <1>1 DEF Start, NewPayload
<1>3. <<>> \in Seq(PartSet) /\ <<>> \o <<>> = <<>>
  BY Concats
<1> HIDE DEF A
<1>4. Raw(A) = <<>>
  <2>1. Flatten(<<>>) = <<>>
    <3>1. <<>> \in Seq(Messages({}))
      OBVIOUS
    <3>2. QED BY <3>1, FlattenMore
  <2>2. QED BY <1>2, <1>3, <2>1 DEF Raw
<1>5. Waits(w, A)
  BY <1>2 DEF Waits
<1>6. Tell(Raw(A)) = <<>>
  <2>1. \A i \in 1 .. Len(<<>>) : <<>>[i][1] \in {"think", "system"}
    OBVIOUS
  <2>2. Tell(<<>>) = <<>>
    BY <1>3, <2>1, TellNone
  <2>3. QED BY <1>4, <2>2
<1>7. SystemCount(A) = 0
  <2>1. SystemsIn(<<>>) = {}
    BY DEF SystemsIn
  <2>2. Cardinality({}) = 0
    BY FS_EmptySet
  <2>3. Len(A.system) = 0
    BY <1>2
  <2>4. QED BY <1>4, <2>1, <2>2, <2>3 DEF SystemCount
<1>8. Owed(s, 0, key) = <<>>
  BY DEF Owed
<1>9. UpTo(HistoryParts, Met(0)) = <<>>
  BY OneMore DEF Met
<1>10. A.custom = Start(key).custom /\ A.named = Start(key).named
  BY <1>1
<1>11. (IF 0 = 0 THEN 0 ELSE 1 + Cardinality(SystemsBefore(0 - 1))) = 0
  OBVIOUS
<1>12. Tell(Raw(A)) \o Owed(s, 0, key) = UpTo(HistoryParts, Met(0))
  BY <1>3, <1>6, <1>8, <1>9
<1>13. Tell(Raw(A)) \in Seq(PartSet)
  BY <1>3, <1>6
<1>14. QED BY <1>5, <1>7, <1>10, <1>11, <1>12, <1>13 DEF ToldSoFar, A, s

LEMMA OwedTyped ==
    ASSUME NEW s \in Seq(Items), NEW n, NEW key
    PROVE  Owed(s, n, key) \in Seq(PartSet)
<1>1. CASE Owed(s, n, key) = <<>>
  BY <1>1
<1>2. CASE Owed(s, n, key) # <<>>
  <2>1. n \in 1 .. Len(s) /\ Owed(s, n, key) = <<<<"hosted", s[n].n>>>>
    BY <1>2 DEF Owed
  <2>2. s[n].n \in Int
    <3>1. s[n] \in Items
      BY <2>1, ElementOfSeq
    <3>2. QED BY <3>1, ItemKinds
  <2>3. <<"hosted", s[n].n>> \in PartSet
    BY <2>2 DEF PartSet, Tags
  <2> HIDE DEF PartSet
  <2>4. QED BY <2>1, <2>3, OneIn
<1>3. QED BY <1>1, <1>2

LEMMA ToldMore ==
    ASSUME NEW b, History(history, b, FALSE), NEW key, NEW w \in Wires,
           ~(w = "chat" /\ HasAudio),
           NEW n \in 0 .. Len(Prompt(history)) - 1, ToldSoFar(w, key, n)
    PROVE  ToldSoFar(w, key, n + 1)
<1> DEFINE s == Prompt(history)
           y == s[n + 1]
           A == After(w, key, n)
           Z == After(w, key, n + 1)
           G == OwnParts(key)
           o == Owed(s, n, key)
           q == Owed(s, n + 1, key)
           p == ItemParts(y)
           t == Tell(Raw(A))
           u == UpTo(HistoryParts, Met(n))
           c == IF n = 0 THEN 0 ELSE 1 + Cardinality(SystemsBefore(n - 1))
<1>1. /\ s \in Seq(Items) /\ Grouped(s) /\ n \in Nat /\ n + 1 \in 1 .. Len(s) /\ y \in Items
      /\ n \in 0 .. Len(s)
  <2>1. History(s, b, FALSE)
    BY PromptIs
  <2>2. y \in Items /\ n \in Nat /\ n + 1 \in 1 .. Len(s)
    BY AfterCases
  <2>3. n \in 0 .. Len(s)
    OBVIOUS
  <2>4. QED BY <2>1, <2>2, <2>3 DEF History
<1>2. /\ Waits(w, A) /\ A.custom = Start(key).custom /\ A.named = Start(key).named
      /\ t \in Seq(PartSet) /\ t \o o = u /\ SystemCount(A) = c
  BY DEF ToldSoFar
<1>3. /\ u \in Seq(PartSet) /\ UpTo(HistoryParts, Met(n + 1)) = u \o p
      /\ 1 + Cardinality(SystemsBefore(n)) = c + (IF y.k = "system" THEN 1 ELSE 0)
  BY MetMore
<1>4. A \in Payloads(G) /\ G \in SUBSET PartSet
  <2>1. \A m \in 0 .. Len(s) : After(w, key, m) \in Payloads(OwnParts(key))
    BY AfterSteps
  <2>2. QED BY <1>1, <2>1 DEF OwnParts
<1>5. p \in Seq(PartSet) /\ SentTold(y) = p /\ y \in SentItems
  BY <1>1, ItemTold DEF SentItems
<1>6. o \in Seq(PartSet) /\ q \in Seq(PartSet)
  BY <1>1, OwedTyped
<1>7. Tellable(w, A, y)
  BY <1>1, <1>2, PromptTellable
\* Something is owed only to a foreign assistant right behind it.
<1>8. o = <<>> \/ (y.k = "assistant" /\ Foreign(s, n + 1, key, Primary))
  <2> SUFFICES ASSUME n \in 1 .. Len(s), s[n].k = "hosted", Foreign(s, n, key, Primary)
               PROVE  y.k = "assistant" /\ Foreign(s, n + 1, key, Primary)
    BY DEF Owed
  <2>1. GroupEnd(s, n) = n + 1 /\ s[GroupEnd(s, n)].k = "assistant"
    BY <1>1, GroupEnds
  <2>2. y.k = "assistant"
    BY <2>1
  <2>3. GroupEnd(s, n + 1) = n + 1
    BY <1>1, <2>2, GroupEnds
  <2>4. QED BY <2>1, <2>2, <2>3 DEF Foreign
<1> DEFINE Reached == /\ Waits(w, Z) /\ Z.custom = A.custom /\ Z.named = A.named
                      /\ Tell(Raw(Z)) \in Seq(PartSet)
                      /\ Tell(Raw(Z)) \o q = u \o p
                      /\ SystemCount(Z) = c + (IF y.k = "system" THEN 1 ELSE 0)
<1>9. Reached
  <2>1. ASSUME NEW x \in OwnItems(key), Z = WireStep(w, A, x), Tellable(w, A, x), x.k = y.k,
               SentTold(x) = o \o p, q = <<>>
        PROVE  Reached
    <3>1. x \in SentItems /\ Sayable(x, G)
      BY <2>1 DEF OwnItems
    <3>2. Waits(w, Z) /\ Z.custom = A.custom /\ Z.named = A.named
      BY <1>2, <1>4, <2>1, <3>1, StepSays
    <3>3. /\ SystemCount(Z) = SystemCount(A) + (IF x.k = "system" THEN 1 ELSE 0)
          /\ Tell(Raw(Z)) = t \o SentTold(x)
      BY <1>2, <1>4, <2>1, <3>1, StepTells
    <3> HIDE DEF s, y, A, Z, G, o, q, p, t, u, c
    <3>4. u \o p \in Seq(PartSet)
      BY <1>3, <1>5, Concats
    <3>5. Tell(Raw(Z)) = u \o p
      <4>1. t \o (o \o p) = (t \o o) \o p
        <5>1. t \in Seq(PartSet) /\ o \in Seq(PartSet) /\ p \in Seq(PartSet)
          BY <1>2, <1>5, <1>6
        <5>2. \A d, e, f \in Seq(PartSet) : (d \o e) \o f = d \o (e \o f)
          BY Concats
        <5>3. QED BY <5>1, <5>2
      <4>2. QED BY <1>2, <2>1, <3>3, <4>1
    <3>6. Tell(Raw(Z)) \o q = u \o p
      <4>1. (u \o p) \o <<>> = u \o p
        BY <3>4, Concats
      <4>2. QED BY <2>1, <3>5, <4>1
    <3>7. SystemCount(Z) = c + (IF y.k = "system" THEN 1 ELSE 0)
      BY <1>2, <2>1, <3>3
    <3>8. QED BY <3>2, <3>4, <3>5, <3>6, <3>7
  <2>2. CASE ~Foreign(s, n + 1, key, Primary) /\ y \in OwnItems(key) /\ Z = WireStep(w, A, y)
    <3>1. o = <<>> /\ q = <<>>
      BY <1>8, <2>2 DEF Owed
    <3>2. SentTold(y) = o \o p
      <4>1. <<>> \o p = p
        BY <1>5, Concats
      <4>2. SentTold(y) = p
        BY <1>5
      <4> HIDE DEF s, y, o, q, p
      <4>3. QED BY <3>1, <4>1, <4>2
    <3> HIDE DEF s, y, A, Z, G, o, q, p, t, u, c, Reached
    <3>3. QED BY <1>7, <2>1, <2>2, <3>1, <3>2
  <2>3. CASE /\ Foreign(s, n + 1, key, Primary) /\ y.k = "assistant"
             /\ LET a == Strip(y, Summaries(s, n + 1)) IN
                /\ a \in OwnItems(key) /\ a.k = "assistant"
                /\ a.parts = Summaries(s, n + 1) \o y.parts
                /\ a.calls = Unsigned(y.calls)
                /\ Z = WireStep(w, A, a)
    <3> DEFINE a == Strip(y, Summaries(s, n + 1))
    <3>1. q = <<>>
      BY <2>3 DEF Owed
    <3>2. SentTold(a) = o \o p
      BY <1>1, <2>3, StripTold
    <3>3. Tellable(w, A, a)
      BY <2>3 DEF Tellable
    <3>4. a \in OwnItems(key) /\ Z = WireStep(w, A, a) /\ a.k = y.k
      BY <2>3
    <3> HIDE DEF a, s, y, A, Z, G, o, q, p, t, u, c, Reached
    <3>5. QED BY <2>1, <3>1, <3>2, <3>3, <3>4
  <2>4. CASE /\ Foreign(s, n + 1, key, Primary) /\ y.k \in {"reasoning", "hosted"} /\ Z = A
    <3>1. o = <<>>
      BY <1>8, <2>4
    <3>2. q = p
      <4>1. CASE y.k = "reasoning"
        BY <2>4, <4>1 DEF Owed, ItemParts
      <4>2. CASE y.k = "hosted"
        BY <1>1, <2>4, <4>2 DEF Owed, ItemParts
      <4>3. QED BY <2>4, <4>1, <4>2
    <3>3. t = u
      <4>1. t \o <<>> = t
        BY <1>2, Concats
      <4>2. QED BY <1>2, <3>1, <4>1
    <3>4. c + (IF y.k = "system" THEN 1 ELSE 0) = c
      <4>1. y.k # "system" /\ c \in Int
        <5>1. 1 + Cardinality(SystemsBefore(n)) = c + 0
          BY <1>3, <2>4
        <5>2. c \in Int
          <6>1. n = 0 => c = 0
            OBVIOUS
          <6>2. ASSUME n > 0 PROVE c \in Int
            <7>1. n - 1 \in Nat
              BY <1>1, <6>2
            <7>2. IsFiniteSet(SystemsBefore(n - 1))
              <8>1. IsFiniteSet(1 .. n - 1)
                BY <7>1, FS_Interval
              <8>2. SystemsBefore(n - 1) \subseteq 1 .. n - 1
                BY DEF SystemsBefore
              <8>3. QED BY <8>1, <8>2, FS_Subset
            <7>3. Cardinality(SystemsBefore(n - 1)) \in Nat
              BY <7>2, FS_CardinalityType
            <7>4. c = 1 + Cardinality(SystemsBefore(n - 1))
              BY <6>2
            <7>5. QED BY <7>3, <7>4
          <6>3. n = 0 \/ n > 0
            BY <1>1
          <6> HIDE DEF c
          <6>4. QED BY <6>1, <6>2, <6>3
        <5>3. QED BY <2>4, <5>2
      <4> HIDE DEF c
      <4>2. QED BY <4>1
    <3> HIDE DEF s, y, A, Z, G, o, q, p, t, u, c
    <3>5. Tell(Raw(Z)) = t
      BY <2>4 DEF t
    <3>6. QED BY <1>2, <2>4, <3>2, <3>3, <3>4, <3>5
  <2>5. \/ ~Foreign(s, n + 1, key, Primary) /\ y \in OwnItems(key) /\ Z = WireStep(w, A, y)
        \/ /\ Foreign(s, n + 1, key, Primary) /\ y.k = "assistant"
           /\ LET a == Strip(y, Summaries(s, n + 1)) IN
              /\ a \in OwnItems(key) /\ a.k = "assistant"
              /\ a.parts = Summaries(s, n + 1) \o y.parts
              /\ a.calls = Unsigned(y.calls)
              /\ Z = WireStep(w, A, a)
        \/ /\ Foreign(s, n + 1, key, Primary) /\ y.k \in {"reasoning", "hosted"} /\ Z = A
    BY AfterCases
  <2>6. QED BY <2>2, <2>3, <2>4, <2>5
<1>10. (IF n + 1 = 0 THEN 0 ELSE 1 + Cardinality(SystemsBefore((n + 1) - 1)))
          = 1 + Cardinality(SystemsBefore(n))
  <2>1. (n + 1) - 1 = n /\ n + 1 # 0
    BY <1>1
  <2>2. QED BY <2>1
<1>11. SystemCount(Z) = IF n + 1 = 0 THEN 0 ELSE 1 + Cardinality(SystemsBefore((n + 1) - 1))
  BY <1>3, <1>9, <1>10
<1>12. Tell(Raw(Z)) \o q = UpTo(HistoryParts, Met(n + 1))
  BY <1>3, <1>9
<1>13. QED BY <1>2, <1>9, <1>11, <1>12 DEF ToldSoFar

LEMMA ToldAll ==
    ASSUME NEW b, History(history, b, FALSE), NEW key, NEW w \in Wires,
           ~(w = "chat" /\ HasAudio)
    PROVE  ToldSoFar(w, key, Len(Prompt(history)))
<1> DEFINE L == Len(Prompt(history))
           N == {n \in Nat : n <= L => ToldSoFar(w, key, n)}
<1>1. L \in Nat
  BY AfterSteps
<1>2. 0 \in N
  BY ToldNone
<1>3. ASSUME NEW n \in N PROVE n + 1 \in N
  <2>1. n \in Nat /\ (n <= L => ToldSoFar(w, key, n))
    OBVIOUS
  <2>2. ASSUME n + 1 <= L PROVE ToldSoFar(w, key, n + 1)
    <3>1. n \in 0 .. L - 1 /\ ToldSoFar(w, key, n)
      BY <1>1, <2>1, <2>2
    <3>2. QED BY <3>1, ToldMore
  <2>3. QED BY <2>1, <2>2
<1>4. N = Nat
  <2> HIDE DEF N
  <2>1. N \subseteq Nat
    BY DEF N
  <2>2. QED BY <1>2, <1>3, <2>1, SetInduction
<1>5. \A n \in Nat : n <= L => ToldSoFar(w, key, n)
  BY <1>4
<1> HIDE DEF L
<1>6. ToldSoFar(w, key, L)
  BY <1>1, <1>5
<1>7. QED BY <1>6 DEF L

\* What was pending is written last.
LEMMA WrittenOut ==
    ASSUME NEW G, NEW st \in Payloads(G)
    PROVE  /\ Encoded(st).system = st.system
           /\ Flatten(Encoded(st).out) = Raw(st)
<1> DEFINE F == Flatten(st.out)
           M == st.model
           U == st.user
<1>1. F \in Seq(G) /\ M \in Seq(G) /\ U \in Seq(G)
  <2>1. st.out \in Seq(Messages(G)) /\ M \in Seq(G) /\ U \in Seq(G)
    BY DEF Payloads
  <2>2. QED BY <2>1, FlattenMore
<1>2. Moves(st, FlushAll(st), st.system, (F \o M) \o U, <<>>, <<>>)
  BY Ops
<1>3. Flatten(FlushAll(st).out) = (F \o M) \o U
  BY <1>2 DEF Moves
<1>4. Encoded(st).system = st.system /\ Encoded(st).out = FlushAll(st).out
  BY DEF Encoded
<1>5. Raw(st) = F \o (M \o U)
  BY DEF Raw
<1> HIDE DEF F, M, U
<1>6. (F \o M) \o U = F \o (M \o U)
  <2>1. \A a, b, c \in Seq(G) : (a \o b) \o c = a \o (b \o c)
    BY Concats
  <2>2. QED BY <1>1, <2>1
<1>7. QED BY <1>3, <1>4, <1>5, <1>6

\* Every text, attachment, hosted call, call and answer of a session of any length is told
\* once and in order, and every system text, on every wire and whichever slots the session
\* went through.
THEOREM NothingKeptBack == Spec => []NothingLost
<1>1. RequestInv => NothingLost
  <2> SUFFICES ASSUME RequestInv, Whole, ~(sent.slot.wire = "chat" /\ HasAudio)
               PROVE  /\ Told = FlattenSeq([i \in 1 .. Len(history) |-> ItemParts(history[i])])
                      /\ SystemsTold = 1 + Cardinality(SystemsOf(history))
    BY DEF NothingLost
  <2> DEFINE w == sent.slot.wire
             key == sent.slot.key
             L == Len(Prompt(history))
             A == After(w, key, L)
             s == Prompt(history)
  <2>1. /\ sent.slot \in Slots /\ History(history, born, FALSE) /\ sent.body = Encoded(A)
        /\ w \in Wires
    <3>1. sent.slot \in Slots /\ History(history, born, FALSE) /\ sent.body = Encoded(A)
      BY WholeIs
    <3>2. QED BY <3>1, SlotAssumption DEF Wires
  <2>2. /\ L \in Nat /\ A \in Payloads(OwnParts(key))
        /\ L = Len(history) + 1 /\ Len(history) \in Nat
        /\ s \in Seq(Items) /\ Grouped(s)
    <3>1. L \in Nat /\ \A m \in 0 .. L : After(w, key, m) \in Payloads(OwnParts(key))
      BY <2>1, AfterSteps
    <3>2. L \in 0 .. L
      BY <3>1
    <3>3. L = Len(history) + 1 /\ History(s, born, FALSE)
      BY <2>1, PromptIs
    <3>4. history \in Seq(Items)
      BY <2>1 DEF History
    <3>5. Len(history) \in Nat
      BY <3>4, LenProperties
    <3>6. s \in Seq(Items) /\ Grouped(s)
      BY <3>3 DEF History
    <3> HIDE DEF L, s
    <3>7. QED BY <3>1, <3>2, <3>3, <3>5, <3>6
  <2>3. ToldSoFar(w, key, L)
    BY <2>1, ToldAll
  <2>4. Flat = Raw(A) /\ sent.body.system = A.system
    <3>1. Flat = Flatten(sent.body.out)
      BY DEF Flat, Flatten, PartsOf
    <3> HIDE DEF A
    <3>2. QED BY <2>1, <2>2, <3>1, WrittenOut
\* The last item of a history is no hosted call.
  <2>5. Owed(s, L, key) = <<>>
    <3> SUFFICES ASSUME L \in 1 .. Len(s), s[L].k = "hosted" PROVE FALSE
      BY DEF Owed
    <3>1. L < Len(s)
      BY <2>2 DEF Grouped
    <3>2. QED BY <2>2, <3>1
  <2>6. Met(L) = Len(history) /\ L - 1 = Len(history) /\ L # 0
    <3> HIDE DEF L
    <3>1. QED BY <2>2 DEF Met
  <2>7. Tell(Raw(A)) = UpTo(HistoryParts, Len(history))
    <3>1. Tell(Raw(A)) \in Seq(PartSet) /\ Tell(Raw(A)) \o <<>> = UpTo(HistoryParts, Len(history))
      BY <2>3, <2>5, <2>6 DEF ToldSoFar
    <3> DEFINE t == Tell(Raw(A))
    <3> HIDE DEF t
    <3>2. t \in Seq(PartSet) /\ t \o <<>> = UpTo(HistoryParts, Len(history))
      BY <3>1 DEF t
    <3>3. t \o <<>> = t
      BY <3>2, Concats
    <3>4. QED BY <3>2, <3>3 DEF t
  <2>8. Told = Tell(Flat)
    BY DEF Told, Tell, TellPiece
  <2>9. Told = FlattenSeq([i \in 1 .. Len(history) |-> ItemParts(history[i])])
    <3>1. [i \in 1 .. Len(history) |-> HistoryParts[i]] = [i \in 1 .. Len(history) |-> ItemParts(history[i])]
      BY DEF HistoryParts
    <3>2. UpTo(HistoryParts, Len(history)) = FlattenSeq([i \in 1 .. Len(history) |-> ItemParts(history[i])])
      BY <3>1 DEF UpTo
    <3> HIDE DEF A
    <3>3. QED BY <2>4, <2>7, <2>8, <3>2
  <2>10. SystemsTold = 1 + Cardinality(SystemsOf(history))
    <3>1. SystemCount(A) = 1 + Cardinality(SystemsBefore(Len(history)))
      <4>1. SystemCount(A) = IF L = 0 THEN 0 ELSE 1 + Cardinality(SystemsBefore(L - 1))
        BY <2>3 DEF ToldSoFar
      <4> HIDE DEF A, L
      <4>2. QED BY <2>6, <4>1
    <3>2. SystemsBefore(Len(history)) = SystemsOf(history)
      BY DEF SystemsBefore, SystemsOf
    <3>3. SystemsTold = SystemCount(A)
      <4> HIDE DEF A
      <4>1. QED BY <2>4 DEF SystemsTold, SystemCount, SystemsIn
    <3> HIDE DEF A
    <3>4. QED BY <3>1, <3>2, <3>3
  <2>11. QED BY <2>9, <2>10
<1>2. QED BY <1>1, RequestsCurrent, PTL

-----------------------------------------------------------------------------
(* Calls and their answers, in the order a request says them.              *)
Replies == AnswerTags \cup {"unknown_answer"}

\* As CallsAnswered says of Flat.
Balanced(r) ==
    /\ \A i \in 1 .. Len(r) : r[i][1] \in CallTags =>
         \E j \in i + 1 .. Len(r) :
           /\ r[j] = <<AnswerTo(r[i][1]), r[i][2]>>
           /\ \A k \in i + 1 .. j - 1 : r[k][1] \in CallTags \cup AnswerTags
    /\ \A j \in 1 .. Len(r) : r[j][1] \in Replies =>
         \E i \in 1 .. j - 1 : r[i][1] \in CallTags /\ r[i][2] = r[j][2]

\* Neither calls nor answers.
Aside(r) == \A i \in 1 .. Len(r) : r[i][1] \notin CallTags \cup Replies

\* as[c] answers cs[c].
RepliesTo(cs, as) ==
    /\ Len(as) = Len(cs)
    /\ \A c \in 1 .. Len(cs) : /\ cs[c][1] \in CallTags
                               /\ as[c] = <<AnswerTo(cs[c][1]), cs[c][2]>>

LEMMA TagsApart ==
    /\ \A tag \in CallTags : AnswerTo(tag) \in AnswerTags /\ tag \notin Replies
    /\ AnswerTags \subseteq Replies
BY DEF CallTags, AnswerTags, AnswerTo, Replies

\* Where the elements of two sequences are in their concatenation.
Placed(a, b) ==
    /\ Len(a) \in Nat /\ Len(b) \in Nat /\ Len(a \o b) = Len(a) + Len(b)
    /\ \A i \in 1 .. Len(a) : (a \o b)[i] = a[i]
    /\ \A i \in 1 .. Len(b) : (a \o b)[Len(a) + i] = b[i]
    /\ \A i \in 1 .. Len(a) + Len(b) : ~(i \in 1 .. Len(a)) => i - Len(a) \in 1 .. Len(b)

LEMMA Places ==
    ASSUME NEW G, NEW a \in Seq(G), NEW b \in Seq(G)
    PROVE  Placed(a, b)
<1>1. /\ Len(a \o b) = Len(a) + Len(b)
      /\ \A i \in 1 .. Len(a) + Len(b) : (a \o b)[i] = IF i <= Len(a) THEN a[i] ELSE b[i - Len(a)]
      /\ Len(a) \in Nat /\ Len(b) \in Nat
  BY ConcatProperties, LenProperties
<1>2. \A i \in 1 .. Len(a) : (a \o b)[i] = a[i]
  BY <1>1
<1>3. \A i \in 1 .. Len(b) : (a \o b)[Len(a) + i] = b[i]
  <2> SUFFICES ASSUME NEW i \in 1 .. Len(b) PROVE (a \o b)[Len(a) + i] = b[i]
    OBVIOUS
  <2>1. Len(a) + i \in 1 .. Len(a) + Len(b) /\ ~(Len(a) + i <= Len(a)) /\ (Len(a) + i) - Len(a) = i
    BY <1>1
  <2>2. QED BY <1>1, <2>1
<1>4. \A i \in 1 .. Len(a) + Len(b) : ~(i \in 1 .. Len(a)) => i - Len(a) \in 1 .. Len(b)
  BY <1>1
<1>5. QED BY <1>1, <1>2, <1>3, <1>4 DEF Placed

\* What is said aside leaves the balance as it is.
LEMMA BalancedAside ==
    ASSUME NEW G, NEW a \in Seq(G), NEW b \in Seq(G), Aside(b)
    PROVE  Balanced(a \o b) <=> Balanced(a)
<1> DEFINE r == a \o b
           n == Len(a)
<1>1. /\ n \in Nat /\ Len(b) \in Nat /\ Len(r) = n + Len(b)
      /\ \A i \in 1 .. n : r[i] = a[i]
      /\ \A i \in 1 .. Len(b) : r[n + i] = b[i]
      /\ \A i \in 1 .. Len(r) : ~(i \in 1 .. n) => i - n \in 1 .. Len(b)
  BY Places DEF Placed
<1> HIDE DEF r
<1>2. \A i \in 1 .. Len(r) : ~(i \in 1 .. n) => r[i][1] \notin CallTags \cup Replies
  <2> SUFFICES ASSUME NEW i \in 1 .. Len(r), ~(i \in 1 .. n)
               PROVE  r[i][1] \notin CallTags \cup Replies
    OBVIOUS
  <2>1. i - n \in 1 .. Len(b) /\ n + (i - n) = i
    BY <1>1
  <2> DEFINE d == i - n
  <2>2. r[i] = b[d] /\ d \in 1 .. Len(b)
    BY <1>1, <2>1
  <2> HIDE DEF d
  <2>3. QED BY <2>2 DEF Aside
<1>3. ASSUME Balanced(a) PROVE Balanced(r)
  <2>1. ASSUME NEW i \in 1 .. Len(r), r[i][1] \in CallTags
        PROVE  \E j \in i + 1 .. Len(r) :
                 /\ r[j] = <<AnswerTo(r[i][1]), r[i][2]>>
                 /\ \A k \in i + 1 .. j - 1 : r[k][1] \in CallTags \cup AnswerTags
    <3>1. i \in 1 .. n /\ r[i] = a[i]
      BY <1>1, <1>2, <2>1
    <3>2. PICK j \in i + 1 .. n :
              /\ a[j] = <<AnswerTo(a[i][1]), a[i][2]>>
              /\ \A k \in i + 1 .. j - 1 : a[k][1] \in CallTags \cup AnswerTags
      BY <1>3, <2>1, <3>1 DEF Balanced
    <3>3. j \in i + 1 .. Len(r) /\ j \in 1 .. n
          /\ \A k \in i + 1 .. j - 1 : k \in 1 .. n
      BY <1>1, <3>1
    <3>4. QED BY <1>1, <3>1, <3>2, <3>3
  <2>2. ASSUME NEW j \in 1 .. Len(r), r[j][1] \in Replies
        PROVE  \E i \in 1 .. j - 1 : r[i][1] \in CallTags /\ r[i][2] = r[j][2]
    <3>1. j \in 1 .. n /\ r[j] = a[j]
      BY <1>1, <1>2, <2>2
    <3>2. PICK i \in 1 .. j - 1 : a[i][1] \in CallTags /\ a[i][2] = a[j][2]
      BY <1>3, <2>2, <3>1 DEF Balanced
    <3>3. i \in 1 .. n
      BY <1>1, <3>1
    <3>4. QED BY <1>1, <3>1, <3>2, <3>3
  <2>3. QED BY <2>1, <2>2 DEF Balanced
<1>4. ASSUME Balanced(r) PROVE Balanced(a)
  <2>1. ASSUME NEW i \in 1 .. n, a[i][1] \in CallTags
        PROVE  \E j \in i + 1 .. n :
                 /\ a[j] = <<AnswerTo(a[i][1]), a[i][2]>>
                 /\ \A k \in i + 1 .. j - 1 : a[k][1] \in CallTags \cup AnswerTags
    <3>1. i \in 1 .. Len(r) /\ r[i] = a[i]
      BY <1>1
    <3>2. PICK j \in i + 1 .. Len(r) :
              /\ r[j] = <<AnswerTo(r[i][1]), r[i][2]>>
              /\ \A k \in i + 1 .. j - 1 : r[k][1] \in CallTags \cup AnswerTags
      BY <1>4, <2>1, <3>1 DEF Balanced
    <3>3. r[j][1] \in Replies
      <4>1. r[j][1] = AnswerTo(r[i][1])
        BY <3>2
      <4>2. QED BY <2>1, <3>1, <4>1, TagsApart
    <3>4. j \in 1 .. n /\ j \in 1 .. Len(r)
      BY <1>1, <1>2, <3>3
    <3>5. \A k \in i + 1 .. j - 1 : k \in 1 .. n
      BY <1>1, <3>4
    <3>6. QED BY <1>1, <3>1, <3>2, <3>4, <3>5
  <2>2. ASSUME NEW j \in 1 .. n, a[j][1] \in Replies
        PROVE  \E i \in 1 .. j - 1 : a[i][1] \in CallTags /\ a[i][2] = a[j][2]
    <3>1. j \in 1 .. Len(r) /\ r[j] = a[j]
      BY <1>1
    <3>2. PICK i \in 1 .. j - 1 : r[i][1] \in CallTags /\ r[i][2] = r[j][2]
      BY <1>4, <2>2, <3>1 DEF Balanced
    <3>3. i \in 1 .. n
      BY <1>1
    <3>4. QED BY <1>1, <3>1, <3>2, <3>3
  <2>3. QED BY <2>1, <2>2 DEF Balanced
<1>5. QED BY <1>3, <1>4 DEF r

\* Calls that are all answered leave the balance kept.
LEMMA BalancedAnswered ==
    ASSUME NEW G, NEW a \in Seq(G), NEW cs \in Seq(G), NEW as \in Seq(G),
           Balanced(a), RepliesTo(cs, as)
    PROVE  Balanced((a \o cs) \o as)
<1> DEFINE q == a \o cs
           r == q \o as
           n == Len(a)
           m == Len(cs)
<1>1. /\ n \in Nat /\ m \in Nat /\ Len(q) = n + m
      /\ \A i \in 1 .. n : q[i] = a[i]
      /\ \A i \in 1 .. m : q[n + i] = cs[i]
  BY Places DEF Placed
<1>2. /\ Len(as) = m /\ Len(r) = Len(q) + m
      /\ \A i \in 1 .. Len(q) : r[i] = q[i]
      /\ \A i \in 1 .. m : r[Len(q) + i] = as[i]
  <2>1. q \in Seq(G)
    BY ConcatProperties
  <2>2. Len(as) = m
    BY DEF RepliesTo
  <2> HIDE DEF q, m
  <2>3. Placed(q, as)
    BY <2>1, Places
  <2>4. QED BY <2>2, <2>3 DEF Placed
<1> HIDE DEF r, q
<1>3. /\ \A i \in 1 .. n : r[i] = a[i]
      /\ \A c \in 1 .. m : r[n + c] = cs[c] /\ r[n + m + c] = as[c]
      /\ Len(r) = n + m + m
  <2>1. \A i \in 1 .. n : r[i] = a[i]
    <3>1. \A i \in 1 .. n : i \in 1 .. Len(q)
      BY <1>1
    <3>2. QED BY <1>1, <1>2, <3>1
  <2>2. \A c \in 1 .. m : r[n + c] = cs[c]
    <3>1. \A c \in 1 .. m : n + c \in 1 .. Len(q)
      BY <1>1
    <3>2. QED BY <1>1, <1>2, <3>1
  <2>3. \A c \in 1 .. m : r[n + m + c] = as[c]
    BY <1>1, <1>2
  <2>4. QED BY <1>1, <1>2, <2>1, <2>2, <2>3
<1>4. \A c \in 1 .. m : /\ cs[c][1] \in CallTags /\ as[c] = <<AnswerTo(cs[c][1]), cs[c][2]>>
                        /\ as[c][1] \in AnswerTags /\ as[c][2] = cs[c][2]
  <2> SUFFICES ASSUME NEW c \in 1 .. m
               PROVE  /\ cs[c][1] \in CallTags /\ as[c] = <<AnswerTo(cs[c][1]), cs[c][2]>>
                      /\ as[c][1] \in AnswerTags /\ as[c][2] = cs[c][2]
    OBVIOUS
  <2>1. cs[c][1] \in CallTags /\ as[c] = <<AnswerTo(cs[c][1]), cs[c][2]>>
    BY DEF RepliesTo
  <2>2. as[c][1] = AnswerTo(cs[c][1]) /\ as[c][2] = cs[c][2]
    BY <2>1
  <2>3. QED BY <2>1, <2>2, TagsApart
<1>5. \A k \in 1 .. Len(r) : \/ k \in 1 .. n
                             \/ \E c \in 1 .. m : k = n + c
                             \/ \E c \in 1 .. m : k = n + m + c
  <2> SUFFICES ASSUME NEW k \in 1 .. Len(r), ~(k \in 1 .. n), ~ \E c \in 1 .. m : k = n + c
               PROVE  \E c \in 1 .. m : k = n + m + c
    OBVIOUS
  <2>1. ~(k - n \in 1 .. m)
    <3>1. k = n + (k - n)
      BY <1>1
    <3>2. QED BY <3>1
  <2>2. k - n - m \in 1 .. m /\ k = n + m + (k - n - m)
    BY <1>1, <1>3, <2>1
  <2>3. QED BY <2>2
<1>6. \A k \in n + 1 .. Len(r) : r[k][1] \in CallTags \cup AnswerTags
  <2> SUFFICES ASSUME NEW k \in n + 1 .. Len(r) PROVE r[k][1] \in CallTags \cup AnswerTags
    OBVIOUS
  <2>1. k \in 1 .. Len(r) /\ ~(k \in 1 .. n)
    BY <1>1
  <2>2. ASSUME NEW c \in 1 .. m, k = n + c PROVE r[k][1] \in CallTags
    BY <1>3, <1>4, <2>2
  <2>3. ASSUME NEW c \in 1 .. m, k = n + m + c PROVE r[k][1] \in AnswerTags
    BY <1>3, <1>4, <2>3
  <2>4. QED BY <1>5, <2>1, <2>2, <2>3
<1>7. ASSUME NEW i \in 1 .. Len(r), r[i][1] \in CallTags
      PROVE  \E j \in i + 1 .. Len(r) :
               /\ r[j] = <<AnswerTo(r[i][1]), r[i][2]>>
               /\ \A k \in i + 1 .. j - 1 : r[k][1] \in CallTags \cup AnswerTags
  <2>1. CASE i \in 1 .. n
    <3>1. r[i] = a[i]
      BY <1>3, <2>1
    <3>2. PICK j \in i + 1 .. n :
              /\ a[j] = <<AnswerTo(a[i][1]), a[i][2]>>
              /\ \A k \in i + 1 .. j - 1 : a[k][1] \in CallTags \cup AnswerTags
      BY <1>7, <2>1, <3>1 DEF Balanced
    <3>3. j \in i + 1 .. Len(r) /\ j \in 1 .. n /\ \A k \in i + 1 .. j - 1 : k \in 1 .. n
      BY <1>1, <1>3, <2>1
    <3>4. QED BY <1>3, <3>1, <3>2, <3>3
  <2>2. ASSUME NEW c \in 1 .. m, i = n + c
        PROVE  \E j \in i + 1 .. Len(r) :
                 /\ r[j] = <<AnswerTo(r[i][1]), r[i][2]>>
                 /\ \A k \in i + 1 .. j - 1 : r[k][1] \in CallTags \cup AnswerTags
    <3> DEFINE j == n + m + c
    <3>1. j \in i + 1 .. Len(r) /\ \A k \in i + 1 .. j - 1 : k \in n + 1 .. Len(r)
      BY <1>1, <1>3, <2>2
    <3>2. r[i] = cs[c] /\ r[j] = as[c]
      BY <1>3, <2>2
    <3> HIDE DEF j
    <3>3. r[j] = <<AnswerTo(r[i][1]), r[i][2]>>
      BY <1>4, <2>2, <3>2
    <3>4. QED BY <1>6, <3>1, <3>3
  <2>3. ASSUME NEW c \in 1 .. m, i = n + m + c PROVE FALSE
    <3>1. r[i][1] \in AnswerTags
      BY <1>3, <1>4, <2>3
    <3>2. QED BY <1>7, <3>1, TagsApart
  <2>4. QED BY <1>5, <2>1, <2>2, <2>3
<1>8. ASSUME NEW j \in 1 .. Len(r), r[j][1] \in Replies
      PROVE  \E i \in 1 .. j - 1 : r[i][1] \in CallTags /\ r[i][2] = r[j][2]
  <2>1. CASE j \in 1 .. n
    <3>1. r[j] = a[j]
      BY <1>3, <2>1
    <3>2. PICK i \in 1 .. j - 1 : a[i][1] \in CallTags /\ a[i][2] = a[j][2]
      BY <1>8, <2>1, <3>1 DEF Balanced
    <3>3. i \in 1 .. n
      BY <1>1, <2>1
    <3>4. QED BY <1>3, <3>1, <3>2, <3>3
  <2>2. ASSUME NEW c \in 1 .. m, j = n + c PROVE FALSE
    <3>1. r[j][1] \in CallTags
      BY <1>3, <1>4, <2>2
    <3>2. QED BY <1>8, <3>1, TagsApart
  <2>3. ASSUME NEW c \in 1 .. m, j = n + m + c
        PROVE  \E i \in 1 .. j - 1 : r[i][1] \in CallTags /\ r[i][2] = r[j][2]
    <3>1. n + c \in 1 .. j - 1
      BY <1>1, <2>3
    <3>2. r[n + c] = cs[c] /\ r[j] = as[c]
      BY <1>3, <2>3
    <3>3. r[n + c][1] \in CallTags /\ r[n + c][2] = r[j][2]
      BY <1>4, <2>3, <3>2
    <3>4. QED BY <3>1, <3>3
  <2>4. QED BY <1>5, <2>1, <2>2, <2>3
<1>9. QED BY <1>7, <1>8 DEF Balanced, r, q

LEMMA PayloadsMore ==
    ASSUME NEW G \in SUBSET PartSet
    PROVE  /\ \A st \in Payloads(G) : st \in Payloads(PartSet)
           /\ \A y : Sayable(y, G) => Sayable(y, PartSet)
<1>1. \A s : s \in Seq(G) => s \in Seq(PartSet)
  <2> HIDE DEF PartSet
  <2>1. QED OBVIOUS
<1>2. Messages(G) \subseteq Messages(PartSet)
  <2> HIDE DEF PartSet
  <2>1. QED BY <1>1 DEF Messages
<1>3. \A s : s \in Seq(Messages(G)) => s \in Seq(Messages(PartSet))
  <2> DEFINE A == Messages(G)
             B == Messages(PartSet)
  <2>1. A \subseteq B
    BY <1>2
  <2> HIDE DEF A, B
  <2>2. \A s : s \in Seq(A) => s \in Seq(B)
    BY <2>1
  <2>3. QED BY <2>2 DEF A, B
<1>4. \A st \in Payloads(G) : st \in Payloads(PartSet)
  <2> SUFFICES ASSUME NEW st \in Payloads(G) PROVE st \in Payloads(PartSet)
    OBVIOUS
  <2>1. /\ st.out \in Seq(Messages(PartSet)) /\ st.model \in Seq(PartSet) /\ st.user \in Seq(PartSet)
        /\ st.system \in Seq(Int) /\ st.custom \in SUBSET CallIds /\ st.named \in SUBSET CallIds
    <3>1. /\ st.out \in Seq(Messages(G)) /\ st.model \in Seq(G) /\ st.user \in Seq(G)
          /\ st.system \in Seq(Int) /\ st.custom \in SUBSET CallIds /\ st.named \in SUBSET CallIds
      BY DEF Payloads
    <3>2. QED BY <1>1, <1>3, <3>1
  <2>2. st = [system |-> st.system, out |-> st.out, model |-> st.model, user |-> st.user,
              custom |-> st.custom, named |-> st.named]
    BY DEF Payloads
  <2> HIDE DEF PartSet, CallIds
  <2>3. QED BY <2>1, <2>2 DEF Payloads
<1>5. \A y : Sayable(y, G) => Sayable(y, PartSet)
  <2> SUFFICES ASSUME NEW y, Sayable(y, G) PROVE Sayable(y, PartSet)
    OBVIOUS
  <2>1. \A x : x \in G => x \in PartSet
    OBVIOUS
  <2> HIDE DEF PartSet
  <2>2. QED BY <1>1, <2>1 DEF Sayable
<1>6. QED BY <1>4, <1>5

LEMMA AsideTogether ==
    ASSUME NEW G, NEW a \in Seq(G), NEW b \in Seq(G), Aside(a), Aside(b)
    PROVE  Aside(a \o b)
<1> DEFINE r == a \o b
<1>1. /\ Len(a) \in Nat /\ Len(b) \in Nat /\ Len(r) = Len(a) + Len(b)
      /\ \A i \in 1 .. Len(a) : r[i] = a[i]
      /\ \A i \in 1 .. Len(b) : r[Len(a) + i] = b[i]
      /\ \A i \in 1 .. Len(a) + Len(b) : ~(i \in 1 .. Len(a)) => i - Len(a) \in 1 .. Len(b)
  BY Places DEF Placed
<1> HIDE DEF r
<1>2. ASSUME NEW i \in 1 .. Len(r) PROVE r[i][1] \notin CallTags \cup Replies
  <2>1. CASE i \in 1 .. Len(a)
    BY <1>1, <2>1 DEF Aside
  <2>2. CASE ~(i \in 1 .. Len(a))
    <3> DEFINE d == i - Len(a)
    <3>1. d \in 1 .. Len(b) /\ Len(a) + d = i
      BY <1>1, <2>2
    <3> HIDE DEF d
    <3>2. r[i] = b[d]
      BY <1>1, <3>1
    <3>3. QED BY <3>1, <3>2 DEF Aside
  <2>3. QED BY <2>1, <2>2
<1>3. QED BY <1>2 DEF Aside, r

\* What has a tag of these is no call and no answer.
AsideTags == {"system", "text", "image", "audio", "think", "hosted", "summary"}

LEMMA AsideIs ==
    /\ \A r : (\A i \in 1 .. Len(r) : r[i][1] \in AsideTags) => Aside(r)
    /\ \A tag, n : Aside(<<<<tag, n>>>>) <=> tag \notin CallTags \cup Replies
    /\ Aside(<<>>)
<1>1. \A tag \in AsideTags : tag \notin CallTags \cup Replies
  BY DEF AsideTags, CallTags, Replies, AnswerTags
<1>2. \A r : (\A i \in 1 .. Len(r) : r[i][1] \in AsideTags) => Aside(r)
  BY <1>1 DEF Aside
<1>3. \A tag, n : Aside(<<<<tag, n>>>>) <=> tag \notin CallTags \cup Replies
  <2> SUFFICES ASSUME NEW tag, NEW n
               PROVE  Aside(<<<<tag, n>>>>) <=> tag \notin CallTags \cup Replies
    OBVIOUS
  <2> DEFINE p == <<tag, n>>
  <2>1. p[1] = tag
    OBVIOUS
  <2> HIDE DEF p
  <2>2. Len(<<p>>) = 1 /\ <<p>>[1] = p
    OBVIOUS
  <2>3. Aside(<<p>>) <=> p[1] \notin CallTags \cup Replies
    BY <2>2 DEF Aside
  <2>4. QED BY <2>1, <2>3 DEF p
<1>4. Aside(<<>>)
  BY DEF Aside
<1>5. QED BY <1>2, <1>3, <1>4

LEMMA WordsAside ==
    ASSUME NEW G \in SUBSET PartSet, NEW st, NEW y \in SentItems, Sayable(y, G), NEW w \in Wires
    PROVE  /\ y.k \notin {"assistant", "result"} => Aside(Words(w, st, y))
           /\ y.k = "assistant" => Aside(ThinkPart(w, st, y)) /\ Aside(y.parts)
<1>1. y.k \in Kinds
  BY DEF Sayable
<1>2. \A tag \in AsideTags : \A n : Aside(<<<<tag, n>>>>)
  <2>1. \A tag \in AsideTags : tag \notin CallTags \cup Replies
    BY DEF AsideTags, CallTags, Replies, AnswerTags
  <2>2. QED BY <2>1, AsideIs
<1>3. Aside(<<>>)
  BY AsideIs
<1>4. {"system", "think", "hosted", "summary"} \subseteq AsideTags
  BY DEF AsideTags
<1>5. CASE y.k = "system"
  BY <1>2, <1>3, <1>4, <1>5 DEF Words
<1>6. CASE y.k = "user"
  <2>1. UserContent(y) \in Seq(UserParts) /\ TextContent(y) \in Seq(UserParts)
    BY <1>6, UserSays
  <2>2. \A p \in UserParts : p[1] \in AsideTags
    BY DEF UserParts, AsideTags
  <2>3. \A r \in Seq(UserParts) : Aside(r)
    <3> HIDE DEF UserParts, AsideTags
    <3> SUFFICES ASSUME NEW r \in Seq(UserParts) PROVE Aside(r)
      OBVIOUS
    <3>1. \A i \in 1 .. Len(r) : r[i] \in UserParts
      BY ElementOfSeq
    <3>2. QED BY <2>2, <3>1, AsideIs
  <2>4. Words(w, st, y) \in {UserContent(y), TextContent(y)}
    BY <1>6 DEF Words, ChatUser
  <2>5. QED BY <1>6, <2>1, <2>3, <2>4
<1>7. CASE y.k = "reasoning"
  BY <1>2, <1>3, <1>4, <1>7 DEF Words
<1>8. CASE y.k = "hosted"
  BY <1>2, <1>4, <1>8 DEF Words
<1>9. CASE y.k = "assistant"
  <2>1. Aside(ThinkPart(w, st, y))
    BY <1>2, <1>3, <1>4 DEF ThinkPart
  <2>2. Aside(y.parts)
    <3>1. y.parts \in Seq(SaidParts)
      BY <1>9, AssistantSays
    <3>2. \A p \in SaidParts : p[1] \in AsideTags
      BY DEF SaidParts, AsideTags
    <3> HIDE DEF SaidParts, AsideTags
    <3>3. \A i \in 1 .. Len(y.parts) : y.parts[i] \in SaidParts
      BY <3>1, ElementOfSeq
    <3>4. QED BY <3>2, <3>3, AsideIs
  <2>3. QED BY <1>9, <2>1, <2>2
<1>10. CASE y.k = "result"
  BY <1>10
<1>11. QED BY <1>1, <1>5, <1>6, <1>7, <1>8, <1>9, <1>10 DEF Kinds

\* What the encoder of a balanced request says of its next item: nothing but calls is open.
LEMMA StepBalanced ==
    ASSUME NEW st \in Payloads(PartSet), NEW y \in SentItems, Sayable(y, PartSet), NEW w \in Wires,
           Waits(w, st)
    PROVE  LET z == WireStep(w, st, y) IN
           /\ Raw(st) \in Seq(PartSet)
           /\ y.k = "result" => Raw(z) = Raw(st) \o <<AnswerPart(w, st, y.calls[1])>>
           /\ Balanced(Raw(st)) /\ y.k \notin {"assistant", "result"} => Balanced(Raw(z))
           /\ Balanced(Raw(st)) /\ y.k = "assistant" =>
                 \E g \in Seq(PartSet) : /\ Balanced(g)
                                         /\ Raw(z) = g \o CallParts(w, y)
                                         /\ CallParts(w, y) \in Seq(PartSet)
<1> DEFINE z == WireStep(w, st, y)
           F == Flatten(st.out)
           M == st.model
           U == st.user
           X == Words(w, st, y)
           R == Raw(st)
           th == ThinkPart(w, st, y)
           P == y.parts
           cs == CallParts(w, y)
<1>1. F \in Seq(PartSet) /\ M \in Seq(PartSet) /\ U \in Seq(PartSet)
  <2>1. st.out \in Seq(Messages(PartSet)) /\ M \in Seq(PartSet) /\ U \in Seq(PartSet)
    BY DEF Payloads
  <2>2. QED BY <2>1, FlattenMore
<1>2. \A a, b \in Seq(PartSet) : a \o b \in Seq(PartSet)
  BY Concats
<1>3. R \in Seq(PartSet)
  <2>1. R = F \o (M \o U)
    BY DEF Raw
  <2>2. QED BY <1>1, <1>2, <2>1
<1>4. /\ X \in Seq(PartSet)
      /\ y.k = "assistant" => th \in Seq(PartSet) /\ P \in Seq(PartSet) /\ cs \in Seq(PartSet)
  BY WordsTyped
<1>5. /\ w # "chat" \/ y.k # "assistant" => Raw(z) = R \o X
      /\ w = "chat" /\ y.k = "assistant" => /\ R = F \o M
                                            /\ Raw(z) = F \o (((th \o M) \o P) \o cs)
  BY StepSays
<1>6. Aside(M)
  <2>1. \A i \in 1 .. Len(M) : M[i][1] \in AsideTags
    BY DEF Waits, AsideTags
  <2>2. QED BY <2>1, AsideIs
<1>7. /\ y.k \notin {"assistant", "result"} => Aside(X)
      /\ y.k = "assistant" => Aside(th) /\ Aside(P)
  BY WordsAside
<1>8. y.k = "result" => X = <<AnswerPart(w, st, y.calls[1])>>
  BY DEF Words
<1>9. y.k = "assistant" => X = (th \o P) \o cs
  BY DEF Words
<1>10. y.k = "result" => y.k # "assistant"
  OBVIOUS
<1> HIDE DEF z, F, M, U, X, R, th, P, cs
<1>11. ASSUME Balanced(R), y.k \notin {"assistant", "result"} PROVE Balanced(Raw(z))
  <2>1. Raw(z) = R \o X /\ Aside(X)
    BY <1>5, <1>7, <1>11
  <2>2. QED BY <1>3, <1>4, <1>11, <2>1, BalancedAside
<1>12. ASSUME Balanced(R), y.k = "assistant"
       PROVE  \E g \in Seq(PartSet) : Balanced(g) /\ Raw(z) = g \o cs
  <2>1. th \in Seq(PartSet) /\ P \in Seq(PartSet) /\ cs \in Seq(PartSet) /\ Aside(th) /\ Aside(P)
    BY <1>4, <1>7, <1>12
  <2>2. \A a, b, c \in Seq(PartSet) : (a \o b) \o c = a \o (b \o c)
    BY Concats
  <2>3. CASE w # "chat"
    <3> DEFINE t == th \o P
    <3>1. t \in Seq(PartSet) /\ Aside(t)
      <4>1. t \in Seq(PartSet)
        BY <1>2, <2>1
      <4>2. QED BY <2>1, <4>1, AsideTogether
    <3>2. Raw(z) = R \o (t \o cs)
      BY <1>5, <1>9, <1>12, <2>3
    <3> HIDE DEF t
    <3>3. Raw(z) = (R \o t) \o cs
      BY <1>3, <2>1, <2>2, <3>1, <3>2
    <3>4. Balanced(R \o t)
      BY <1>3, <1>12, <3>1, BalancedAside
    <3>5. R \o t \in Seq(PartSet)
      BY <1>2, <1>3, <3>1
    <3>6. QED BY <3>3, <3>4, <3>5
  <2>4. CASE w = "chat"
    <3> DEFINE t1 == th \o M
               t == t1 \o P
    <3>1. t1 \in Seq(PartSet) /\ Aside(t1)
      <4>1. t1 \in Seq(PartSet)
        BY <1>1, <1>2, <2>1
      <4>2. QED BY <1>1, <1>6, <2>1, <4>1, AsideTogether
    <3>2. Raw(z) = F \o (t \o cs) /\ R = F \o M
      BY <1>5, <1>12, <2>4
    <3> HIDE DEF t1
    <3>3. t \in Seq(PartSet) /\ Aside(t)
      <4>1. t \in Seq(PartSet)
        BY <1>2, <2>1, <3>1
      <4>2. QED BY <2>1, <3>1, <4>1, AsideTogether
    <3> HIDE DEF t
    <3>4. Balanced(F)
      BY <1>1, <1>6, <1>12, <3>2, BalancedAside
    <3>5. Raw(z) = (F \o t) \o cs
      <4>1. F \in Seq(PartSet) /\ t \in Seq(PartSet) /\ cs \in Seq(PartSet)
        BY <1>1, <2>1, <3>3
      <4>2. (F \o t) \o cs = F \o (t \o cs)
        BY <2>2, <4>1
      <4>3. QED BY <3>2, <4>2
    <3>6. Balanced(F \o t)
      BY <1>1, <3>3, <3>4, BalancedAside
    <3>7. F \o t \in Seq(PartSet)
      BY <1>1, <1>2, <3>3
    <3>8. QED BY <3>5, <3>6, <3>7
  <2>5. QED BY <2>3, <2>4
<1>13. QED BY <1>3, <1>4, <1>5, <1>8, <1>10, <1>11, <1>12 DEF z, R, X, cs

-----------------------------------------------------------------------------
(* The calls of an answer while they are being answered.                   *)
AnswerTag(w, call) ==
    IF w = "responses" /\ call.kind = "custom_tool" THEN "custom_answer" ELSE "answer"

\* The answers to the first m of some calls.
Answers(w, calls, m) == [c \in 1 .. m |-> <<AnswerTag(w, calls[c]), calls[c].id>>]

\* cs says the calls.
CallsSaid(w, cs, calls) ==
    /\ Len(cs) = Len(calls)
    /\ \A c \in 1 .. Len(calls) : /\ cs[c][1] \in CallTags /\ cs[c][2] = calls[c].id
                                  /\ AnswerTo(cs[c][1]) = AnswerTag(w, calls[c])

LEMMA CallsAreSaid ==
    ASSUME NEW y \in SentItems, y.k = "assistant", NEW w, NEW calls \in Seq(Calls),
           SameCalls(y.calls, calls)
    PROVE  CallsSaid(w, CallParts(w, y), calls)
<1>1. /\ Len(y.calls) = Len(calls) /\ Len(calls) \in Nat
      /\ \A c \in 1 .. Len(calls) : y.calls[c].id = calls[c].id /\ y.calls[c].kind = calls[c].kind
  BY LenProperties DEF SameCalls
<1>2. /\ Len(CallParts(w, y)) = Len(calls)
      /\ \A c \in 1 .. Len(calls) : /\ CallParts(w, y)[c][1] \in CallTags
                                    /\ CallParts(w, y)[c][2] = calls[c].id
  BY <1>1, CallPartsAre
<1>3. ASSUME NEW c \in 1 .. Len(calls)
      PROVE  AnswerTo(CallParts(w, y)[c][1]) = AnswerTag(w, calls[c])
  <2>1. CASE w = "responses"
    <3>1. CallParts(w, y)[c] = <<CallTag(y.calls[c]), y.calls[c].id>>
      BY <1>1, <2>1 DEF CallParts
    <3>2. CallParts(w, y)[c][1] = CallTag(calls[c])
      BY <1>1, <3>1 DEF CallTag
    <3>3. QED BY <2>1, <3>2 DEF CallTag, AnswerTo, AnswerTag
  <2>2. CASE w # "responses"
    <3>1. CallParts(w, y)[c][1] \in {"call", "signed_call"}
      <4>1. CASE w = "gemini"
        <5>1. CallParts(w, y) = SignedCallsOf(y)
          BY <2>2, <4>1 DEF CallParts
        <5>2. QED BY <1>1, <5>1, AssistantSays
      <4>2. CASE w # "gemini"
        <5>1. CallParts(w, y) = CallsOf(y)
          BY <2>2, <4>2 DEF CallParts
        <5>2. CallsOf(y)[c] = <<"call", y.calls[c].id>>
          BY <1>1, AssistantSays
        <5>3. QED BY <5>1, <5>2
      <4>3. QED BY <4>1, <4>2
    <3>2. QED BY <2>2, <3>1 DEF AnswerTo, AnswerTag
  <2>3. QED BY <2>1, <2>2
<1>4. QED BY <1>1, <1>2, <1>3 DEF CallsSaid

LEMMA AnswersAre ==
    ASSUME NEW w, NEW calls \in Seq(Calls)
    PROVE  /\ Answers(w, calls, 0) = <<>>
           /\ \A m \in 0 .. Len(calls) :
                 /\ Answers(w, calls, m) \in Seq(PartSet)
                 /\ Len(Answers(w, calls, m)) = m
                 /\ \A c \in 1 .. m : /\ Answers(w, calls, m)[c] = <<AnswerTag(w, calls[c]), calls[c].id>>
                                      /\ Answers(w, calls, m)[c][1] \in AnswerTags
                                      /\ Answers(w, calls, m)[c][2] = calls[c].id
           /\ \A m \in 0 .. Len(calls) - 1 : LET p == <<AnswerTag(w, calls[m + 1]), calls[m + 1].id>> IN
                 /\ p \in PartSet
                 /\ Answers(w, calls, m + 1) = Answers(w, calls, m) \o <<p>>
                 /\ Answers(w, calls, m + 1) = Append(Answers(w, calls, m), p)
<1> DEFINE p(c) == <<AnswerTag(w, calls[c]), calls[c].id>>
<1>1. /\ Len(calls) \in Nat
      /\ \A c \in 1 .. Len(calls) : p(c) \in PartSet /\ p(c)[1] \in AnswerTags /\ p(c)[2] = calls[c].id
  <2>1. Len(calls) \in Nat /\ \A c \in 1 .. Len(calls) : calls[c] \in Calls
    BY LenProperties, ElementOfSeq
  <2>2. \A call \in Calls : <<AnswerTag(w, call), call.id>> \in PartSet /\ AnswerTag(w, call) \in AnswerTags
    <3> SUFFICES ASSUME NEW call \in Calls
                 PROVE  <<AnswerTag(w, call), call.id>> \in PartSet /\ AnswerTag(w, call) \in AnswerTags
      OBVIOUS
    <3>1. call.id \in CallIds
      BY DEF Calls
    <3>2. AnswerTag(w, call) \in {"answer", "custom_answer"}
      BY DEF AnswerTag
    <3>3. {"answer", "custom_answer"} \X CallIds \subseteq PartSet
      BY PartSets
    <3> HIDE DEF CallIds, PartSet
    <3>4. QED BY <3>1, <3>2, <3>3 DEF AnswerTags
  <2>3. \A c \in 1 .. Len(calls) : p(c) \in PartSet /\ AnswerTag(w, calls[c]) \in AnswerTags
    BY <2>1, <2>2
  <2>4. \A c : p(c)[1] = AnswerTag(w, calls[c]) /\ p(c)[2] = calls[c].id
    OBVIOUS
  <2> HIDE DEF p, PartSet
  <2>5. QED BY <2>1, <2>3, <2>4
<1>2. \A m : Answers(w, calls, m) = [c \in 1 .. m |-> p(c)]
  BY DEF Answers
<1> HIDE DEF p, PartSet
<1>3. Answers(w, calls, 0) = <<>>
  BY <1>2
<1>4. ASSUME NEW m \in 0 .. Len(calls)
      PROVE  /\ Answers(w, calls, m) \in Seq(PartSet)
             /\ Len(Answers(w, calls, m)) = m
             /\ \A c \in 1 .. m : /\ Answers(w, calls, m)[c] = p(c)
                                  /\ Answers(w, calls, m)[c][1] \in AnswerTags
                                  /\ Answers(w, calls, m)[c][2] = calls[c].id
  <2>1. m \in Nat /\ \A c \in 1 .. m : c \in 1 .. Len(calls)
    BY <1>1
  <2> DEFINE a == Answers(w, calls, m)
  <2>2. a = [c \in 1 .. m |-> p(c)]
    BY <1>2
  <2> HIDE DEF a
  <2>3. \A c \in 1 .. m : p(c) \in PartSet
    BY <1>1, <2>1
  <2>4. a \in Seq(PartSet) /\ Len(a) = m
    BY <2>1, <2>2, <2>3
  <2>5. \A c \in 1 .. m : a[c] = p(c) /\ a[c][1] \in AnswerTags /\ a[c][2] = calls[c].id
    BY <1>1, <2>1, <2>2
  <2>6. QED BY <2>4, <2>5 DEF a
<1>5. ASSUME NEW m \in 0 .. Len(calls) - 1
      PROVE  /\ p(m + 1) \in PartSet
             /\ Answers(w, calls, m + 1) = Append(Answers(w, calls, m), p(m + 1))
             /\ Answers(w, calls, m + 1) = Answers(w, calls, m) \o <<p(m + 1)>>
  <2>1. m \in Nat /\ m + 1 \in 1 .. Len(calls) /\ m \in 0 .. Len(calls) /\ m + 1 \in 0 .. Len(calls)
    BY <1>1
  <2>2. p(m + 1) \in PartSet
    BY <1>1, <2>1
  <2> DEFINE a == Answers(w, calls, m)
             e == Answers(w, calls, m + 1)
             x == p(m + 1)
  <2>3. /\ a \in Seq(PartSet) /\ Len(a) = m /\ e \in Seq(PartSet) /\ Len(e) = m + 1
        /\ \A c \in 1 .. m : a[c] = p(c)
        /\ \A c \in 1 .. m + 1 : e[c] = p(c)
    BY <1>4, <2>1
  <2> HIDE DEF a, e
  <2>4. Append(a, x) \in Seq(PartSet) /\ Len(Append(a, x)) = m + 1
        /\ \A c \in 1 .. m + 1 : Append(a, x)[c] = IF c <= m THEN a[c] ELSE x
    <3> HIDE DEF x
    <3>1. x \in PartSet
      BY <2>2 DEF x
    <3>2. /\ Append(a, x) \in Seq(PartSet) /\ Len(Append(a, x)) = Len(a) + 1
          /\ \A c \in 1 .. Len(a) : Append(a, x)[c] = a[c]
          /\ Append(a, x)[Len(a) + 1] = x
      BY <2>3, <3>1, AppendProperties
    <3>3. QED BY <2>1, <2>3, <3>2
  <2>5. \A c \in 1 .. m + 1 : Append(a, x)[c] = e[c]
    <3> SUFFICES ASSUME NEW c \in 1 .. m + 1 PROVE Append(a, x)[c] = e[c]
      OBVIOUS
    <3>1. e[c] = p(c)
      BY <2>3
    <3>5. c <= m => Append(a, x)[c] = a[c]
      BY <2>4
    <3>6. ~(c <= m) => Append(a, x)[c] = x
      BY <2>4
    <3>2. CASE c <= m
      <4>1. c \in 1 .. m
        BY <2>1, <3>2
      <4>2. a[c] = p(c)
        BY <2>3, <4>1
      <4>3. QED BY <3>1, <3>2, <3>5, <4>2
    <3>3. CASE ~(c <= m)
      <4>1. c = m + 1
        BY <2>1, <3>3
      <4>2. QED BY <3>1, <3>3, <3>6, <4>1
    <3>4. QED BY <3>2, <3>3
  <2>6. e = Append(a, x)
    <3> HIDE DEF x
    <3>1. QED BY <2>3, <2>4, <2>5, SeqEqual
  <2>7. Append(a, x) = a \o <<x>>
    BY <2>2, <2>3, AppendIsConcat
  <2>8. QED BY <2>2, <2>6, <2>7 DEF a, e
<1>6. QED BY <1>3, <1>4, <1>5 DEF p

LEMMA AllAnswered ==
    ASSUME NEW w, NEW calls \in Seq(Calls), NEW cs, CallsSaid(w, cs, calls)
    PROVE  RepliesTo(cs, Answers(w, calls, Len(calls)))
<1> DEFINE m == Len(calls)
           as == Answers(w, calls, m)
<1>1. m \in Nat /\ m \in 0 .. m
  BY LenProperties
<1>2. Len(as) = m /\ \A c \in 1 .. m : as[c] = <<AnswerTag(w, calls[c]), calls[c].id>>
  <2> HIDE DEF m
  <2>1. m \in 0 .. Len(calls)
    BY <1>1 DEF m
  <2>2. QED BY <2>1, AnswersAre
<1> HIDE DEF as
<1>3. QED BY <1>2 DEF CallsSaid, RepliesTo, as

-----------------------------------------------------------------------------
(* The messages of Anthropic and Gemini: one message answers all the calls *)
(* of another.                                                             *)
IdsIn(parts, tags) == {parts[p][2] : p \in {q \in 1 .. Len(parts) : parts[q][1] \in tags}}

Replied(out) ==
    \A m \in 1 .. Len(out) : IdsIn(out[m].parts, CallTags) # {} =>
        m < Len(out) /\ IdsIn(out[m + 1].parts, AnswerTags) = IdsIn(out[m].parts, CallTags)

LEMMA AsideIds ==
    ASSUME NEW parts, Aside(parts)
    PROVE  IdsIn(parts, CallTags) = {} /\ IdsIn(parts, AnswerTags) = {}
BY TagsApart DEF Aside, IdsIn

LEMMA RepliedMore ==
    ASSUME NEW T, NEW out \in Seq(T), NEW x \in T
    PROVE  /\ IdsIn(x.parts, CallTags) = {} /\ Replied(out) => Replied(Append(out, x))
           /\ Aside(x.parts) /\ Replied(Append(out, x)) => Replied(out)
           /\ \A y \in T : Replied(out) /\ IdsIn(x.parts, CallTags) = IdsIn(y.parts, AnswerTags)
                           /\ IdsIn(y.parts, CallTags) = {}
                           => Replied(Append(Append(out, x), y))
<1> DEFINE n == Len(out)
           o == Append(out, x)
           calls(v, m) == IdsIn(v[m].parts, CallTags)
           answers(v, m) == IdsIn(v[m].parts, AnswerTags)
<1>1. /\ n \in Nat /\ o \in Seq(T) /\ Len(o) = n + 1 /\ o[n + 1] = x
      /\ \A m \in 1 .. n : o[m] = out[m]
  <2>1. n \in Nat
    BY LenProperties
  <2>2. QED BY <2>1, AppendProperties
<1> HIDE DEF o, n
<1>2. ASSUME IdsIn(x.parts, CallTags) = {}, Replied(out) PROVE Replied(o)
  <2> SUFFICES ASSUME NEW m \in 1 .. Len(o), calls(o, m) # {}
               PROVE  m < Len(o) /\ answers(o, m + 1) = calls(o, m)
    BY DEF Replied
  <2>1. m # n + 1
    BY <1>1, <1>2
  <2>2. m \in 1 .. n /\ o[m] = out[m]
    BY <1>1, <2>1
  <2>3. m < n /\ answers(out, m + 1) = calls(out, m)
    BY <1>2, <2>2 DEF Replied, n
  <2>4. o[m + 1] = out[m + 1] /\ m < Len(o)
    BY <1>1, <2>2, <2>3
  <2>5. QED BY <2>2, <2>3, <2>4
<1>3. ASSUME Aside(x.parts), Replied(o) PROVE Replied(out)
  <2> SUFFICES ASSUME NEW m \in 1 .. n, calls(out, m) # {}
               PROVE  m < n /\ answers(out, m + 1) = calls(out, m)
    BY DEF Replied, n
  <2>1. o[m] = out[m] /\ m \in 1 .. Len(o)
    BY <1>1
  <2>2. m < Len(o) /\ answers(o, m + 1) = calls(o, m)
    BY <1>3, <2>1 DEF Replied
  <2>3. m # n
    <3> SUFFICES ASSUME m = n PROVE FALSE
      OBVIOUS
    <3>1. answers(o, n + 1) = {}
      BY <1>1, <1>3, AsideIds
    <3>2. QED BY <2>1, <2>2, <3>1
  <2>4. m < n /\ m + 1 \in 1 .. n
    BY <1>1, <2>3
  <2>5. o[m + 1] = out[m + 1]
    BY <1>1, <2>4
  <2>6. QED BY <2>1, <2>2, <2>4, <2>5
<1>4. ASSUME NEW y \in T, Replied(out), IdsIn(x.parts, CallTags) = IdsIn(y.parts, AnswerTags),
             IdsIn(y.parts, CallTags) = {}
      PROVE  Replied(Append(o, y))
  <2> DEFINE e == Append(o, y)
  <2>1. /\ Len(e) = n + 2 /\ e[n + 2] = y
        /\ \A m \in 1 .. n + 1 : e[m] = o[m]
    <3>1. /\ Len(e) = Len(o) + 1 /\ e[Len(o) + 1] = y
          /\ \A m \in 1 .. Len(o) : e[m] = o[m]
      BY <1>1, AppendProperties
    <3> HIDE DEF e
    <3>2. Len(o) = n + 1 /\ Len(o) + 1 = n + 2
      BY <1>1
    <3>3. QED BY <3>1, <3>2
  <2> HIDE DEF e
  <2>2. \A m \in 1 .. n : e[m] = out[m]
    BY <1>1, <2>1
  <2>3. e[n + 1] = x
    BY <1>1, <2>1
  <2> SUFFICES ASSUME NEW m \in 1 .. Len(e), calls(e, m) # {}
               PROVE  m < Len(e) /\ answers(e, m + 1) = calls(e, m)
    BY DEF Replied, e
  <2>4. m # n + 2
    BY <1>4, <2>1
  <2>5. CASE m = n + 1
    <3>1. m + 1 = n + 2 /\ m < Len(e)
      BY <1>1, <2>1, <2>5
    <3>2. QED BY <1>4, <2>1, <2>3, <2>5, <3>1
  <2>6. CASE m # n + 1
    <3>1. m \in 1 .. n
      BY <1>1, <2>1, <2>4, <2>6
    <3>2. m < n /\ answers(out, m + 1) = calls(out, m)
      BY <1>4, <2>2, <3>1 DEF Replied, n
    <3>3. m + 1 \in 1 .. n /\ m < Len(e)
      BY <1>1, <2>1, <3>1, <3>2
    <3>4. QED BY <2>2, <3>1, <3>2, <3>3
  <2>7. QED BY <2>5, <2>6
<1>5. QED BY <1>2, <1>3, <1>4 DEF o

\* A flush writes what is pending, which is one side's.
LEMMA Flushed ==
    ASSUME NEW st \in Payloads(PartSet), NEW w, Waits(w, st)
    PROVE  LET V == FlushAll(st).out
               O == FlushUser(st).out
           IN  /\ V \in Seq(Messages(PartSet)) /\ O \in Seq(Messages(PartSet))
               /\ FlushAll(st) = [st EXCEPT !.out = V, !.model = <<>>, !.user = <<>>]
               /\ FlushUser(st) = [st EXCEPT !.out = O, !.user = <<>>]
               /\ st.model = <<>> /\ st.user = <<>> => V = st.out
               /\ st.model # <<>> => /\ V = Append(st.out, Message("model", st.model))
                                     /\ Message("model", st.model) \in Messages(PartSet)
                                     /\ O = st.out
               /\ st.user # <<>> => /\ V = Append(st.out, Message("user", st.user))
                                    /\ Message("user", st.user) \in Messages(PartSet)
                                    /\ O = V
               /\ Replied(V) => Replied(O)
<1> DEFINE V == FlushAll(st).out
           O == FlushUser(st).out
           m == Message("model", st.model)
           u == Message("user", st.user)
<1>1. /\ st.out \in Seq(Messages(PartSet)) /\ st.model \in Seq(PartSet) /\ st.user \in Seq(PartSet)
      /\ st = [system |-> st.system, out |-> st.out, model |-> st.model, user |-> st.user,
               custom |-> st.custom, named |-> st.named]
  BY DEF Payloads
<1>2. m \in Messages(PartSet) /\ u \in Messages(PartSet) /\ m.parts = st.model
  BY <1>1 DEF Messages, Message, Roles
<1>3. st.model = <<>> \/ st.user = <<>>
  BY DEF Waits
<1>4. Aside(st.model)
  <2>1. \A i \in 1 .. Len(st.model) : st.model[i][1] \in AsideTags
    BY DEF Waits, AsideTags
  <2>2. QED BY <2>1, AsideIs
<1> HIDE DEF m, u
<1>5. CASE st.model = <<>> /\ st.user = <<>>
  <2>1. FlushAll(st) = st /\ FlushUser(st) = st
    BY <1>5 DEF FlushAll, FlushModel, FlushUser
  <2>2. [st EXCEPT !.out = st.out, !.model = <<>>, !.user = <<>>] = st
        /\ [st EXCEPT !.out = st.out, !.user = <<>>] = st
    BY <1>1, <1>5
  <2>3. QED BY <1>1, <1>5, <2>1, <2>2
<1>6. CASE st.model # <<>>
  <2> DEFINE z == [st EXCEPT !.out = Append(@, m), !.model = <<>>]
  <2>1. st.user = <<>>
    BY <1>3, <1>6
  <2>2. FlushModel(st) = z /\ FlushUser(st) = st
    BY <1>6, <2>1 DEF FlushModel, FlushUser, m
  <2>3. z.user = <<>> /\ z.out = Append(st.out, m)
    BY <1>1, <2>1
  <2>4. FlushAll(st) = z
    <3> HIDE DEF z
    <3>1. QED BY <2>2, <2>3 DEF FlushAll, FlushUser
  <2>5. [st EXCEPT !.out = Append(st.out, m), !.model = <<>>, !.user = <<>>] = z
    BY <1>1, <2>1
  <2>6. [st EXCEPT !.out = st.out, !.user = <<>>] = st
    BY <1>1, <2>1
  <2>7. Append(st.out, m) \in Seq(Messages(PartSet))
    BY <1>1, <1>2
  <2>8. V = Append(st.out, m) /\ O = st.out
    <3> HIDE DEF z
    <3>1. QED BY <2>2, <2>3, <2>4
  <2>9. Replied(V) => Replied(O)
    <3>1. Aside(m.parts) /\ Replied(Append(st.out, m)) => Replied(st.out)
      BY <1>1, <1>2, RepliedMore
    <3>2. QED BY <1>2, <1>4, <2>8, <3>1
  <2> HIDE DEF V, O, z
  <2>10. FlushAll(st) = [st EXCEPT !.out = V, !.model = <<>>, !.user = <<>>]
         /\ FlushUser(st) = [st EXCEPT !.out = O, !.user = <<>>]
    BY <2>2, <2>4, <2>5, <2>6, <2>8
  <2>11. QED BY <1>1, <1>2, <1>6, <2>1, <2>7, <2>8, <2>9, <2>10 DEF m, V, O
<1>7. CASE st.user # <<>>
  <2> DEFINE z == [st EXCEPT !.out = Append(@, u), !.user = <<>>]
  <2>1. st.model = <<>>
    BY <1>3, <1>7
  <2>2. FlushModel(st) = st /\ FlushUser(st) = z /\ FlushAll(st) = z
    BY <1>7, <2>1 DEF FlushModel, FlushUser, FlushAll, u
  <2>3. z.out = Append(st.out, u)
    BY <1>1
  <2>5. [st EXCEPT !.out = Append(st.out, u), !.model = <<>>, !.user = <<>>] = z
    BY <1>1, <2>1
  <2>6. [st EXCEPT !.out = Append(st.out, u), !.user = <<>>] = z
    BY <1>1
  <2>7. Append(st.out, u) \in Seq(Messages(PartSet))
    BY <1>1, <1>2
  <2>8. V = Append(st.out, u) /\ O = V
    <3> HIDE DEF z
    <3>1. QED BY <2>2, <2>3
  <2> HIDE DEF V, O, z
  <2>10. FlushAll(st) = [st EXCEPT !.out = V, !.model = <<>>, !.user = <<>>]
         /\ FlushUser(st) = [st EXCEPT !.out = O, !.user = <<>>]
    BY <2>2, <2>5, <2>6, <2>8
  <2>11. QED BY <1>1, <1>2, <1>7, <2>1, <2>7, <2>8, <2>10 DEF u, V, O
<1>8. QED BY <1>5, <1>6, <1>7

\* After a flush the model's parts are pending.
LEMMA PendedOut ==
    ASSUME NEW st \in Payloads(PartSet), NEW w, Waits(w, st), NEW X \in Seq(PartSet)
    PROVE  LET O == FlushUser(st).out
               z == Pend(FlushUser(st), X)
               m == Message("model", st.model \o X)
           IN  /\ z.user = <<>> /\ z.model = st.model \o X /\ z.out = O
               /\ st.model \o X = <<>> => FlushModel(z).out = O /\ FlushAll(z).out = O
               /\ st.model \o X # <<>> => /\ FlushModel(z).out = Append(O, m)
                                          /\ FlushAll(z).out = Append(O, m)
                                          /\ m \in Messages(PartSet)
               /\ FlushModel(z).model = <<>> /\ FlushModel(z).user = <<>>
<1> DEFINE O == FlushUser(st).out
           f == FlushUser(st)
           z == Pend(f, X)
           m == Message("model", st.model \o X)
<1>1. f = [st EXCEPT !.out = O, !.user = <<>>]
  BY Flushed
<1>2. st = [system |-> st.system, out |-> st.out, model |-> st.model, user |-> st.user,
            custom |-> st.custom, named |-> st.named]
      /\ st.model \in Seq(PartSet)
  BY DEF Payloads
<1> HIDE DEF O
<1>3. /\ f.out = O /\ f.user = <<>> /\ f.model = st.model
      /\ f = [system |-> st.system, out |-> O, model |-> st.model, user |-> <<>>,
              custom |-> st.custom, named |-> st.named]
  <2> HIDE DEF f
  <2>1. QED BY <1>1, <1>2
<1> HIDE DEF f
<1>4. z.user = <<>> /\ z.model = st.model \o X /\ z.out = O
      /\ z = [system |-> st.system, out |-> O, model |-> st.model \o X, user |-> <<>>,
              custom |-> st.custom, named |-> st.named]
  <2> DEFINE y == st.model \o X
  <2>1. z = [f EXCEPT !.model = y]
    <3>1. z = [f EXCEPT !.model = f.model \o X]
      BY DEF Pend
    <3>2. f.model = st.model
      BY <1>3
    <3> HIDE DEF z
    <3>3. QED BY <3>1, <3>2
  <2> HIDE DEF y, z
  <2>2. /\ z.user = <<>> /\ z.model = y /\ z.out = O
        /\ z = [system |-> st.system, out |-> O, model |-> y, user |-> <<>>,
                custom |-> st.custom, named |-> st.named]
    BY <1>3, <2>1
  <2>3. QED BY <2>2 DEF y
<1> HIDE DEF z
<1>5. CASE st.model \o X = <<>>
  <2>1. FlushModel(z) = z
    BY <1>4, <1>5 DEF FlushModel
  <2>2. FlushAll(z) = z
    BY <1>4, <2>1 DEF FlushAll, FlushUser
  <2>3. QED BY <1>4, <1>5, <2>1, <2>2 DEF z, f, O
<1>6. CASE st.model \o X # <<>>
  <2> DEFINE v == FlushModel(z)
  <2>1. v = [z EXCEPT !.out = Append(@, m), !.model = <<>>]
    <3>1. z.model = st.model \o X
      BY <1>4
    <3>2. v = [z EXCEPT !.out = Append(@, Message("model", z.model)), !.model = <<>>]
      BY <1>6, <3>1 DEF FlushModel
    <3>3. Message("model", z.model) = m
      BY <3>1
    <3> HIDE DEF v, m
    <3>4. QED BY <3>2, <3>3
  <2>2. v.out = Append(O, m) /\ v.model = <<>> /\ v.user = <<>>
    <3> HIDE DEF v, m
    <3>1. QED BY <1>4, <2>1
  <2>3. FlushAll(z) = v
    <3>1. FlushAll(z) = FlushUser(v)
      BY DEF FlushAll
    <3> HIDE DEF v
    <3>2. QED BY <2>2, <3>1 DEF FlushUser
  <2>4. m \in Messages(PartSet)
    <3>1. st.model \o X \in Seq(PartSet)
      BY <1>2, Concats
    <3>2. QED BY <3>1 DEF Messages, Message, Roles
  <2> HIDE DEF v, m
  <2>5. QED BY <1>4, <1>6, <2>2, <2>3, <2>4 DEF z, f, O, v, m
<1>7. QED BY <1>5, <1>6

\* What the encoders of Anthropic and Gemini do with an item.
Forms(w, st, y) ==
    /\ y.k = "system" =>
          WireStep(w, st, y) = IF w = "messages" THEN Apart(FlushAll(st), y) ELSE Apart(st, y)
    /\ y.k = "user" => WireStep(w, st, y) = Say(FlushAll(st), "user", UserContent(y))
    /\ y.k = "reasoning" =>
          WireStep(w, st, y) = IF w = "messages" THEN Pend(FlushUser(st), <<<<"think", y.n>>>>) ELSE st
    /\ y.k = "hosted" => WireStep(w, st, y) = Pend(FlushUser(st), <<<<"summary", y.n>>>>)
    /\ y.k = "assistant" /\ w = "messages" =>
          WireStep(w, st, y) = FlushModel(Pend(FlushUser(st),
                                  (ThinkPart(w, st, y) \o y.parts) \o CallParts(w, y)))
    /\ y.k = "assistant" /\ w # "messages" =>
          WireStep(w, st, y) = FlushModel(Pend(FlushUser(st), y.parts \o CallParts(w, y)))
    /\ y.k = "result" =>
          WireStep(w, st, y)
            = [FlushModel(st) EXCEPT !.user = Append(@, AnswerPart(w, st, y.calls[1]))]

LEMMA AnthropicForms ==
    ASSUME NEW st \in Payloads(PartSet), NEW y \in SentItems, Sayable(y, PartSet),
           NEW w \in {"messages", "gemini"}
    PROVE  Forms(w, st, y)
<1>1. CASE w = "messages"
  <2>1. WireStep(w, st, y) = MessagesStep(st, y)
    BY <1>1 DEF WireStep
  <2>2. y.k = "system" => MessagesStep(st, y) = Apart(FlushAll(st), y)
    BY DEF MessagesStep
  <2>3. y.k = "user" => MessagesStep(st, y) = Say(FlushAll(st), "user", UserContent(y))
    BY DEF MessagesStep
  <2>4. y.k = "reasoning" => MessagesStep(st, y) = Pend(FlushUser(st), <<<<"think", y.n>>>>)
    BY DEF MessagesStep
  <2>5. y.k = "hosted" => MessagesStep(st, y) = Pend(FlushUser(st), <<<<"summary", y.n>>>>)
    BY DEF MessagesStep
  <2>6. y.k = "assistant" => MessagesStep(st, y)
          = FlushModel(Pend(FlushUser(st), (ThinkPart("messages", st, y) \o y.parts) \o CallsOf(y)))
    <3>1. y.k = "assistant" => MessagesStep(st, y) = FlushModel(MessagesAssistant(st, y))
      BY DEF MessagesStep
    <3>2. MessagesAssistant(st, y)
            = Pend(FlushUser(st), (ThinkPart("messages", st, y) \o y.parts) \o CallsOf(y))
      <4>1. ThinkPart("messages", st, y)
              = IF y.think # "none" /\ ~ \E i \in 1 .. Len(st.model) : st.model[i][1] = "think"
                THEN <<<<"think", y.n>>>> ELSE <<>>
        BY DEF ThinkPart
      <4>2. QED BY <4>1 DEF MessagesAssistant
    <3>3. QED BY <3>1, <3>2
  <2>7. CallParts(w, y) = CallsOf(y)
    BY <1>1 DEF CallParts
  <2>8. y.k = "result" => MessagesStep(st, y)
          = [FlushModel(st) EXCEPT !.user = Append(@, <<"answer", y.calls[1]>>)]
    BY DEF MessagesStep
  <2>9. AnswerPart(w, st, y.calls[1]) = <<"answer", y.calls[1]>>
    BY <1>1 DEF AnswerPart
  <2>10. QED BY <1>1, <2>1, <2>2, <2>3, <2>4, <2>5, <2>6, <2>7, <2>8, <2>9 DEF Forms
<1>2. CASE w = "gemini"
  <2>1. WireStep(w, st, y) = GeminiStep(st, y)
    BY <1>2 DEF WireStep
  <2>2. y.k = "system" => GeminiStep(st, y) = Apart(st, y)
    BY DEF GeminiStep
  <2>3. y.k = "user" => GeminiStep(st, y) = Say(FlushAll(st), "user", UserContent(y))
    BY DEF GeminiStep
  <2>4. y.k = "reasoning" => GeminiStep(st, y) = st
    BY DEF GeminiStep
  <2>5. y.k = "hosted" => GeminiStep(st, y) = Pend(FlushUser(st), <<<<"summary", y.n>>>>)
    BY DEF GeminiStep
  <2>6. y.k = "assistant" => GeminiStep(st, y)
          = FlushModel(Pend(FlushUser(st), y.parts \o SignedCallsOf(y)))
    BY DEF GeminiStep
  <2>7. CallParts(w, y) = SignedCallsOf(y)
    BY <1>2 DEF CallParts
  <2>8. y.k = "result" => GeminiStep(st, y)
          = [FlushModel(st) EXCEPT !.user =
               Append(@, <<IF y.calls[1] \in st.named THEN "answer" ELSE "unknown_answer", y.calls[1]>>)]
    <3>1. FlushModel(st).named = st.named
      BY DEF FlushModel, Payloads
    <3>2. QED BY <3>1 DEF GeminiStep
  <2>9. AnswerPart(w, st, y.calls[1])
          = <<IF y.calls[1] \in st.named THEN "answer" ELSE "unknown_answer", y.calls[1]>>
    BY <1>2 DEF AnswerPart
  <2>10. QED BY <1>2, <2>1, <2>2, <2>3, <2>4, <2>5, <2>6, <2>7, <2>8, <2>9 DEF Forms
<1>3. QED BY <1>1, <1>2

\* What the encoder of a request whose calls are answered, message by message, does with
\* its next item.
LEMMA StepReplied ==
    ASSUME NEW st \in Payloads(PartSet), NEW y \in SentItems, Sayable(y, PartSet),
           NEW w \in {"messages", "gemini"}, Waits(w, st)
    PROVE  LET z == WireStep(w, st, y)
               O == FlushUser(st).out
           IN  /\ y.k \notin {"assistant", "result"} /\ Replied(FlushAll(st).out) =>
                     Replied(FlushAll(z).out)
               /\ y.k = "assistant" =>
                     /\ O \in Seq(Messages(PartSet)) /\ z.model = <<>> /\ z.user = <<>>
                     /\ Replied(FlushAll(st).out) => Replied(O)
                     /\ \E X \in Seq(PartSet) :
                           LET q == X \o CallParts(w, y)
                               m == Message("model", q)
                           IN  /\ Aside(X)
                               /\ q = <<>> => z.out = O
                               /\ q # <<>> => z.out = Append(O, m) /\ m \in Messages(PartSet)
               /\ y.k = "result" /\ st.model = <<>> =>
                     /\ z.out = st.out /\ z.model = <<>>
                     /\ z.user = Append(st.user, AnswerPart(w, st, y.calls[1]))
<1> DEFINE z == WireStep(w, st, y)
           O == FlushUser(st).out
           V == FlushAll(st).out
           T == Messages(PartSet)
           cs == CallParts(w, y)
           own == IF w = "messages" THEN ThinkPart(w, st, y) \o y.parts ELSE y.parts
<1>1. /\ V \in Seq(T) /\ O \in Seq(T)
      /\ FlushAll(st) = [st EXCEPT !.out = V, !.model = <<>>, !.user = <<>>]
      /\ Replied(V) => Replied(O)
  BY Flushed
<1>2. /\ st = [system |-> st.system, out |-> st.out, model |-> st.model, user |-> st.user,
               custom |-> st.custom, named |-> st.named]
      /\ st.model \in Seq(PartSet)
  BY DEF Payloads
<1>3. Aside(st.model)
  <2>1. \A i \in 1 .. Len(st.model) : st.model[i][1] \in AsideTags
    BY DEF Waits, AsideTags
  <2>2. QED BY <2>1, AsideIs
<1>4. y.k \in Kinds /\ w \in Wires
  BY DEF Sayable, Wires
<1>0. Forms(w, st, y)
  BY AnthropicForms
<1>5. /\ FlushAll(st).model = <<>> /\ FlushAll(st).user = <<>>
      /\ FlushAll(st) = [system |-> st.system, out |-> V, model |-> <<>>, user |-> <<>>,
                         custom |-> st.custom, named |-> st.named]
  <2> DEFINE f == FlushAll(st)
             v == V
  <2>1. f = [st EXCEPT !.out = v, !.model = <<>>, !.user = <<>>] /\ f.out = v
    BY <1>1
  <2> HIDE DEF f, v
  <2>2. /\ f.model = <<>> /\ f.user = <<>>
        /\ f = [system |-> st.system, out |-> v, model |-> <<>>, user |-> <<>>,
                custom |-> st.custom, named |-> st.named]
    BY <1>2, <2>1
  <2>3. QED BY <2>2 DEF f, v
\* Pending model parts are written in one message, which holds no call.
<1>6. ASSUME NEW p, p \in PartSet, Aside(<<p>>), Replied(V), z = Pend(FlushUser(st), <<p>>)
      PROVE  Replied(FlushAll(z).out)
  <2> DEFINE X == <<p>>
             q == st.model \o X
             m == Message("model", q)
  <2>1. X \in Seq(PartSet)
    BY <1>6
  <2>2. /\ q = <<>> => FlushAll(z).out = O
        /\ q # <<>> => FlushAll(z).out = Append(O, m) /\ m \in T
    <3> HIDE DEF X
    <3>1. z = Pend(FlushUser(st), X)
      BY <1>6 DEF X
    <3>2. QED BY <2>1, <3>1, PendedOut
  <2>3. Aside(q)
    <3>1. Aside(X)
      BY <1>6
    <3> HIDE DEF X
    <3>2. QED BY <1>2, <1>3, <2>1, <3>1, AsideTogether
  <2>4. m.parts = q
    BY DEF Message
  <2> HIDE DEF m, q, z, O, V, T
  <2>5. IdsIn(m.parts, CallTags) = {}
    BY <2>3, <2>4, AsideIds
  <2>6. Replied(O)
    BY <1>1, <1>6
  <2>7. q # <<>> => Replied(Append(O, m))
    BY <1>1, <2>2, <2>5, <2>6, RepliedMore
  <2>8. QED BY <2>2, <2>6, <2>7
<1>7. ASSUME Replied(V), y.k \notin {"assistant", "result"} PROVE Replied(FlushAll(z).out)
  <2>1. CASE y.k = "system"
    <3>1. CASE w = "messages"
      <4>1. z = Apart(FlushAll(st), y)
        BY <2>1, <3>1, <1>0 DEF Forms
      <4>2. z = [FlushAll(st) EXCEPT !.system = Append(@, y.n)]
        BY <4>1 DEF Apart
      <4> HIDE DEF z, V
      <4>3. z.out = V /\ z.model = <<>> /\ z.user = <<>>
        BY <1>5, <4>2
      <4>4. FlushAll(z) = z
        BY <4>3 DEF FlushAll, FlushModel, FlushUser
      <4>5. QED BY <1>7, <4>3, <4>4
    <3>2. CASE w # "messages"
      <4>1. z = Apart(st, y)
        BY <2>1, <3>2, <1>0 DEF Forms
      <4>2. z = [st EXCEPT !.system = Append(@, y.n)]
        BY <4>1 DEF Apart
      <4> HIDE DEF z
      <4>3. z.out = st.out /\ z.model = st.model /\ z.user = st.user
        BY <1>2, <4>2
      <4>4. FlushAll(z).out = V
        <5>1. CASE st.model = <<>> /\ st.user = <<>>
          <6>1. FlushAll(z) = z
            BY <4>3, <5>1 DEF FlushAll, FlushModel, FlushUser
          <6>2. QED BY <4>3, <5>1, <6>1, Flushed
        <5>2. CASE st.model # <<>>
          <6>1. st.user = <<>>
            BY <5>2 DEF Waits
          <6> DEFINE m == Message("model", st.model)
                     v == [z EXCEPT !.out = Append(@, m), !.model = <<>>]
          <6>2. FlushModel(z) = v
            BY <4>3, <5>2 DEF FlushModel
          <6>3. v.user = <<>> /\ v.out = Append(st.out, m)
            <7>1. z = [system |-> z.system, out |-> st.out, model |-> st.model, user |-> st.user,
                       custom |-> st.custom, named |-> st.named]
              BY <1>2, <4>2
            <7> HIDE DEF m
            <7>2. QED BY <6>1, <7>1
          <6> HIDE DEF v, m
          <6>4. FlushAll(z) = v
            BY <6>2, <6>3 DEF FlushAll, FlushUser
          <6>5. V = Append(st.out, m)
            BY <5>2, Flushed DEF m
          <6>6. QED BY <6>3, <6>4, <6>5
        <5>3. CASE st.user # <<>>
          <6>1. st.model = <<>>
            BY <5>3 DEF Waits
          <6> DEFINE m == Message("user", st.user)
                     v == [z EXCEPT !.out = Append(@, m), !.user = <<>>]
          <6>2. FlushModel(z) = z /\ FlushUser(z) = v
            BY <4>3, <5>3, <6>1 DEF FlushModel, FlushUser
          <6>3. v.out = Append(st.out, m)
            <7>1. z = [system |-> z.system, out |-> st.out, model |-> st.model, user |-> st.user,
                       custom |-> st.custom, named |-> st.named]
              BY <1>2, <4>2
            <7> HIDE DEF m
            <7>2. QED BY <6>1, <7>1
          <6> HIDE DEF v, m
          <6>4. FlushAll(z) = v
            BY <6>2 DEF FlushAll
          <6>5. V = Append(st.out, m)
            BY <5>3, Flushed DEF m
          <6>6. QED BY <6>3, <6>4, <6>5
        <5>4. QED BY <5>1, <5>2, <5>3
      <4>5. QED BY <1>7, <4>4
    <3>3. QED BY <3>1, <3>2
  <2>2. CASE y.k = "user"
    <3> DEFINE m == Message("user", UserContent(y))
    <3>1. z = Say(FlushAll(st), "user", UserContent(y))
      BY <2>2, <1>0 DEF Forms
    <3>2. z = [FlushAll(st) EXCEPT !.out = Append(@, m)]
      BY <3>1 DEF Say
    <3>3. m \in T /\ Aside(m.parts)
      <4>1. UserContent(y) \in Seq(PartSet)
        BY <2>2 DEF Sayable
      <4>2. Words("messages", st, y) = UserContent(y)
        BY <2>2 DEF Words
      <4>3. Aside(UserContent(y))
        <5>1. "messages" \in Wires
          BY DEF Wires
        <5>2. Aside(Words("messages", st, y))
          BY <2>2, <5>1, WordsAside
        <5>3. QED BY <4>2, <5>2
      <4>4. QED BY <4>1, <4>3 DEF Messages, Message, Roles
    <3> HIDE DEF z, m, V, T
    <3>4. z.out = Append(V, m) /\ z.model = <<>> /\ z.user = <<>>
      BY <1>5, <3>2
    <3>5. FlushAll(z) = z
      BY <3>4 DEF FlushAll, FlushModel, FlushUser
    <3>6. IdsIn(m.parts, CallTags) = {}
      BY <3>3, AsideIds
    <3>7. Replied(Append(V, m))
      BY <1>1, <1>7, <3>3, <3>6, RepliedMore
    <3>8. QED BY <3>4, <3>5, <3>7
  <2>3. CASE y.k = "reasoning"
    <3>1. CASE w = "messages"
      <4>1. z = Pend(FlushUser(st), <<<<"think", y.n>>>>)
        BY <2>3, <3>1, <1>0 DEF Forms
      <4>2. <<"think", y.n>> \in PartSet
        BY <2>3 DEF Sayable
      <4>3. Aside(<<<<"think", y.n>>>>)
        <5>1. "think" \notin CallTags \cup Replies
          BY DEF CallTags, Replies, AnswerTags
        <5>2. QED BY <5>1, AsideIs
      <4> DEFINE p == <<"think", y.n>>
      <4>4. p \in PartSet /\ Aside(<<p>>) /\ z = Pend(FlushUser(st), <<p>>)
        BY <4>1, <4>2, <4>3
      <4> HIDE DEF p, z, V, T
      <4>5. QED BY <1>6, <1>7, <4>4
    <3>2. CASE w # "messages"
      <4>1. z = st
        BY <2>3, <3>2, <1>0 DEF Forms
      <4>2. QED BY <1>7, <4>1
    <3>3. QED BY <3>1, <3>2
  <2>4. CASE y.k = "hosted"
    <3> DEFINE p == <<"summary", y.n>>
    <3>1. z = Pend(FlushUser(st), <<p>>)
      BY <2>4, <1>0 DEF Forms
    <3>2. p \in PartSet
      BY <2>4 DEF Sayable
    <3>3. Aside(<<p>>)
      <4>1. "summary" \notin CallTags \cup Replies
        BY DEF CallTags, Replies, AnswerTags
      <4>2. QED BY <4>1, AsideIs
    <3> HIDE DEF p, z, V, T
    <3>4. QED BY <1>6, <1>7, <3>1, <3>2, <3>3
  <2>5. QED BY <1>4, <1>7, <2>1, <2>2, <2>3, <2>4 DEF Kinds
<1>8. ASSUME y.k = "assistant"
      PROVE  /\ z.model = <<>> /\ z.user = <<>>
             /\ \E X \in Seq(PartSet) :
                   LET q == X \o cs
                       m == Message("model", q)
                   IN  /\ Aside(X)
                       /\ q = <<>> => z.out = O
                       /\ q # <<>> => z.out = Append(O, m) /\ m \in T
  <2>1. z = FlushModel(Pend(FlushUser(st), own \o cs))
    BY <1>8, <1>0 DEF Forms
  <2>2. own \in Seq(PartSet) /\ Aside(own) /\ cs \in Seq(PartSet)
    <3>1. /\ ThinkPart(w, st, y) \in Seq(PartSet) /\ y.parts \in Seq(PartSet)
          /\ cs \in Seq(PartSet)
      BY <1>4, <1>8, WordsTyped
    <3>2. Aside(ThinkPart(w, st, y)) /\ Aside(y.parts)
      BY <1>4, <1>8, WordsAside
    <3> DEFINE th == ThinkPart(w, st, y)
               P == y.parts
    <3>3. th \in Seq(PartSet) /\ P \in Seq(PartSet) /\ Aside(th) /\ Aside(P)
      BY <3>1, <3>2
    <3>4. own = P \/ own = th \o P
      OBVIOUS
    <3> HIDE DEF th, P, own
    <3>5. th \o P \in Seq(PartSet) /\ Aside(th \o P)
      <4>1. th \o P \in Seq(PartSet)
        BY <3>3, Concats
      <4>2. QED BY <3>3, AsideTogether
    <3>6. QED BY <3>1, <3>3, <3>4, <3>5
  <2> DEFINE X == st.model \o own
             x == own \o cs
             q == X \o cs
             m == Message("model", q)
  <2> HIDE DEF own, cs
  <2>3. X \in Seq(PartSet) /\ Aside(X)
    <3>1. X \in Seq(PartSet)
      BY <1>2, <2>2, Concats
    <3>2. QED BY <1>2, <1>3, <2>2, AsideTogether
  <2>4. x \in Seq(PartSet)
    BY <2>2, Concats
  <2>5. st.model \o x = q
    <3>1. \A a, b, c \in Seq(PartSet) : (a \o b) \o c = a \o (b \o c)
      BY Concats
    <3>2. QED BY <1>2, <2>2, <3>1
  <2> HIDE DEF X, x, q
  <2>6. /\ z.model = <<>> /\ z.user = <<>>
        /\ q = <<>> => z.out = O
        /\ q # <<>> => z.out = Append(O, m) /\ m \in T
    <3>1. z = FlushModel(Pend(FlushUser(st), x))
      BY <2>1 DEF x
    <3>2. /\ FlushModel(Pend(FlushUser(st), x)).model = <<>>
          /\ FlushModel(Pend(FlushUser(st), x)).user = <<>>
          /\ st.model \o x = <<>> => FlushModel(Pend(FlushUser(st), x)).out = O
          /\ st.model \o x # <<>> =>
                /\ FlushModel(Pend(FlushUser(st), x)).out = Append(O, Message("model", st.model \o x))
                /\ Message("model", st.model \o x) \in T
      BY <2>4, PendedOut
    <3> HIDE DEF O, T, z
    <3>3. QED BY <2>5, <3>1, <3>2
  <2> HIDE DEF O, T, z
  <2>7. QED BY <2>3, <2>6 DEF q
<1>9. ASSUME y.k = "result", st.model = <<>>
      PROVE  /\ z.out = st.out /\ z.model = <<>>
             /\ z.user = Append(st.user, AnswerPart(w, st, y.calls[1]))
  <2> DEFINE p == AnswerPart(w, st, y.calls[1])
  <2>1. FlushModel(st) = st
    BY <1>9 DEF FlushModel
  <2>2. z = [FlushModel(st) EXCEPT !.user = Append(@, p)]
    BY <1>9, <1>0 DEF Forms
  <2> HIDE DEF p, z
  <2>3. z = [st EXCEPT !.user = Append(@, p)]
    BY <2>1, <2>2
  <2>4. QED BY <1>2, <1>9, <2>3 DEF p
<1>10. QED BY <1>1, <1>7, <1>8, <1>9

-----------------------------------------------------------------------------
(* The encoder between the answers to calls, and while they come in.       *)
IdsOfCalls(calls) == {calls[c].id : c \in 1 .. Len(calls)}

\* Nothing is open.
Settled(w, st) ==
    /\ Balanced(Raw(st))
    /\ w \in {"messages", "gemini"} => Replied(FlushAll(st).out)

\* The last message asks and its answers are collected for the next.
MessageAsks(w, st, calls, m) ==
    \E O \in Seq(Messages(PartSet)), msg \in Messages(PartSet) :
        /\ Replied(O) /\ IdsIn(msg.parts, CallTags) = IdsOfCalls(calls)
        /\ st.out = Append(O, msg) /\ st.model = <<>> /\ st.user = Answers(w, calls, m)

\* The first m of the last calls are answered.
Asking(w, st, calls, m) ==
    /\ \E g, cs \in Seq(PartSet) : /\ Balanced(g) /\ CallsSaid(w, cs, calls)
                                   /\ Raw(st) = (g \o cs) \o Answers(w, calls, m)
    /\ w \in {"messages", "gemini"} => MessageAsks(w, st, calls, m)

LEMMA StaysSettled ==
    ASSUME NEW st \in Payloads(PartSet), NEW y \in SentItems, Sayable(y, PartSet), NEW w \in Wires,
           Waits(w, st), Settled(w, st), y.k \notin {"assistant", "result"}
    PROVE  Settled(w, WireStep(w, st, y))
<1>1. Balanced(Raw(WireStep(w, st, y)))
  BY StepBalanced DEF Settled
<1>2. w \in {"messages", "gemini"} => Replied(FlushAll(WireStep(w, st, y)).out)
  BY StepReplied DEF Settled
<1>3. QED BY <1>1, <1>2 DEF Settled

LEMMA IdsBehind ==
    ASSUME NEW X \in Seq(PartSet), NEW cs \in Seq(PartSet), NEW w, NEW calls, Aside(X),
           CallsSaid(w, cs, calls)
    PROVE  IdsIn(X \o cs, CallTags) = IdsOfCalls(calls)
<1> DEFINE r == X \o cs
           n == Len(X)
<1>1. /\ n \in Nat /\ Len(cs) \in Nat /\ Len(r) = n + Len(cs)
      /\ \A i \in 1 .. n : r[i] = X[i]
      /\ \A i \in 1 .. Len(cs) : r[n + i] = cs[i]
      /\ \A i \in 1 .. Len(r) : ~(i \in 1 .. n) => i - n \in 1 .. Len(cs)
  BY Places DEF Placed
<1>2. /\ Len(cs) = Len(calls)
      /\ \A c \in 1 .. Len(cs) : cs[c][1] \in CallTags /\ cs[c][2] = calls[c].id
  BY DEF CallsSaid
<1> HIDE DEF r, n
<1>3. ASSUME NEW i \in 1 .. Len(r), r[i][1] \in CallTags
      PROVE  \E c \in 1 .. Len(calls) : r[i][2] = calls[c].id
  <2>1. ~(i \in 1 .. n)
    BY <1>1, <1>3 DEF Aside, n
  <2> DEFINE d == i - n
  <2>2. d \in 1 .. Len(cs) /\ n + d = i
    BY <1>1, <2>1
  <2> HIDE DEF d
  <2>3. r[i] = cs[d]
    BY <1>1, <2>2
  <2>4. QED BY <1>2, <2>2, <2>3
<1>4. ASSUME NEW c \in 1 .. Len(calls)
      PROVE  \E i \in 1 .. Len(r) : r[i][1] \in CallTags /\ r[i][2] = calls[c].id
  <2>1. n + c \in 1 .. Len(r) /\ r[n + c] = cs[c]
    BY <1>1, <1>2
  <2>2. QED BY <1>2, <2>1
<1>5. IdsIn(r, CallTags) = IdsOfCalls(calls)
  <2>1. \A id : id \in IdsIn(r, CallTags) <=>
                   \E i \in 1 .. Len(r) : r[i][1] \in CallTags /\ r[i][2] = id
    BY DEF IdsIn
  <2>2. \A id : id \in IdsOfCalls(calls) <=> \E c \in 1 .. Len(calls) : calls[c].id = id
    BY DEF IdsOfCalls
  <2>3. ASSUME NEW id \in IdsIn(r, CallTags) PROVE id \in IdsOfCalls(calls)
    <3>1. PICK i \in 1 .. Len(r) : r[i][1] \in CallTags /\ r[i][2] = id
      BY <2>1, <2>3
    <3>2. QED BY <1>3, <2>2, <3>1
  <2>4. ASSUME NEW id \in IdsOfCalls(calls) PROVE id \in IdsIn(r, CallTags)
    <3>1. PICK c \in 1 .. Len(calls) : calls[c].id = id
      BY <2>2, <2>4
    <3>2. QED BY <1>4, <2>1, <3>1
  <2>5. QED BY <2>3, <2>4
<1>6. QED BY <1>5 DEF r

\* An assistant's calls are open behind it.
LEMMA CallsOpen ==
    ASSUME NEW st \in Payloads(PartSet), NEW y \in SentItems, Sayable(y, PartSet), NEW w \in Wires,
           Waits(w, st), Settled(w, st), y.k = "assistant",
           NEW calls \in Seq(Calls), SameCalls(y.calls, calls)
    PROVE  LET z == WireStep(w, st, y) IN
           /\ Len(calls) > 0 => Asking(w, z, calls, 0)
           /\ Len(calls) = 0 => Settled(w, z)
<1> DEFINE z == WireStep(w, st, y)
           cs == CallParts(w, y)
           O == FlushUser(st).out
           T == Messages(PartSet)
<1>1. Len(calls) \in Nat /\ CallsSaid(w, cs, calls) /\ Answers(w, calls, 0) = <<>>
  BY LenProperties, CallsAreSaid, AnswersAre
<1>2. PICK g \in Seq(PartSet) : Balanced(g) /\ Raw(z) = g \o cs /\ cs \in Seq(PartSet)
  BY StepBalanced DEF Settled
<1>3. Len(cs) = Len(calls)
  BY <1>1 DEF CallsSaid
<1>4. w \in {"messages", "gemini"} =>
         /\ O \in Seq(T) /\ Replied(O) /\ z.model = <<>> /\ z.user = <<>>
         /\ \E X \in Seq(PartSet) :
               /\ Aside(X)
               /\ X \o cs = <<>> => z.out = O
               /\ X \o cs # <<>> => /\ z.out = Append(O, Message("model", X \o cs))
                                    /\ Message("model", X \o cs) \in T
  BY StepReplied DEF Settled
<1> HIDE DEF z, O, T, cs
<1>5. \A q : Message("model", q).parts = q
  BY DEF Message
<1>6. ASSUME Len(calls) > 0 PROVE Asking(w, z, calls, 0)
  <2>1. Raw(z) = (g \o cs) \o Answers(w, calls, 0)
    <3>1. g \o cs \in Seq(PartSet)
      BY <1>2, Concats
    <3>2. (g \o cs) \o <<>> = g \o cs
      BY <3>1, Concats
    <3>3. QED BY <1>1, <1>2, <3>2
  <2>2. ASSUME w \in {"messages", "gemini"} PROVE MessageAsks(w, z, calls, 0)
    <3>1. PICK X \in Seq(PartSet) :
             /\ Aside(X)
             /\ X \o cs # <<>> => /\ z.out = Append(O, Message("model", X \o cs))
                                  /\ Message("model", X \o cs) \in T
      BY <1>4, <2>2
    <3> DEFINE q == X \o cs
               m == Message("model", q)
    <3>2. q # <<>>
      <4>1. Placed(X, cs)
        BY <1>2, Places
      <4>2. Len(q) > 0
        BY <1>1, <1>3, <1>6, <4>1 DEF Placed
      <4> HIDE DEF q
      <4>3. QED BY <4>2
    <3>3. IdsIn(q, CallTags) = IdsOfCalls(calls)
      BY <1>1, <1>2, <3>1, IdsBehind
    <3>4. m.parts = q
      BY <1>5
    <3>5. z.out = Append(O, m) /\ m \in T
      BY <3>1, <3>2
    <3> HIDE DEF q, m
    <3>6. O \in Seq(T) /\ Replied(O) /\ z.model = <<>> /\ z.user = Answers(w, calls, 0)
      BY <1>1, <1>4, <2>2
    <3>7. IdsIn(m.parts, CallTags) = IdsOfCalls(calls)
      BY <3>3, <3>4
    <3>8. QED BY <3>5, <3>6, <3>7 DEF MessageAsks, T
  <2>3. QED BY <1>1, <1>2, <2>1, <2>2 DEF Asking
<1>7. ASSUME Len(calls) = 0 PROVE Settled(w, z)
  <2>1. cs = <<>>
    BY <1>2, <1>3, <1>7
  <2>2. \A a \in Seq(PartSet) : a \o cs = a
    BY <2>1, Concats
  <2>3. Balanced(Raw(z))
    BY <1>2, <2>2
  <2>4. ASSUME w \in {"messages", "gemini"} PROVE Replied(FlushAll(z).out)
    <3>1. FlushAll(z).out = z.out
      BY <1>4, <2>4 DEF FlushAll, FlushModel, FlushUser
    <3>2. PICK X \in Seq(PartSet) :
             /\ Aside(X)
             /\ X = <<>> => z.out = O
             /\ X # <<>> => z.out = Append(O, Message("model", X)) /\ Message("model", X) \in T
      <4>1. PICK X \in Seq(PartSet) :
             /\ Aside(X)
             /\ X \o cs = <<>> => z.out = O
             /\ X \o cs # <<>> => /\ z.out = Append(O, Message("model", X \o cs))
                                  /\ Message("model", X \o cs) \in T
        BY <1>4, <2>4
      <4>2. X \o cs = X
        BY <2>2
      <4>3. QED BY <4>1, <4>2
    <3> DEFINE m == Message("model", X)
    <3>3. m.parts = X
      BY <1>5
    <3>4. (X = <<>> => z.out = O) /\ (X # <<>> => z.out = Append(O, m) /\ m \in T)
      BY <3>2
    <3> HIDE DEF m
    <3>5. IdsIn(m.parts, CallTags) = {}
      BY <3>2, <3>3, AsideIds
    <3>6. O \in Seq(T) /\ Replied(O)
      BY <1>4, <2>4
    <3>7. X # <<>> => Replied(Append(O, m))
      BY <3>4, <3>5, <3>6, RepliedMore
    <3>8. QED BY <3>1, <3>4, <3>6, <3>7
  <2>5. QED BY <2>3, <2>4 DEF Settled
<1>8. QED BY <1>6, <1>7 DEF z

\* One more answer.
LEMMA AnswerNext ==
    ASSUME NEW st \in Payloads(PartSet), NEW y \in SentItems, Sayable(y, PartSet), NEW w \in Wires,
           Waits(w, st), y.k = "result", NEW calls \in Seq(Calls), NEW m \in 0 .. Len(calls) - 1,
           AnswerPart(w, st, y.calls[1]) = <<AnswerTag(w, calls[m + 1]), calls[m + 1].id>>,
           Asking(w, st, calls, m)
    PROVE  Asking(w, WireStep(w, st, y), calls, m + 1)
<1> DEFINE z == WireStep(w, st, y)
           p == <<AnswerTag(w, calls[m + 1]), calls[m + 1].id>>
           a == Answers(w, calls, m)
<1>1. /\ m \in 0 .. Len(calls) /\ a \in Seq(PartSet) /\ p \in PartSet
      /\ Answers(w, calls, m + 1) = a \o <<p>>
      /\ Answers(w, calls, m + 1) = Append(a, p)
  <2>1. Len(calls) \in Nat
    BY LenProperties
  <2>2. m \in 0 .. Len(calls)
    BY <2>1
  <2>3. QED BY <2>2, AnswersAre
<1>2. PICK g \in Seq(PartSet), cs \in Seq(PartSet) :
         /\ Balanced(g) /\ CallsSaid(w, cs, calls) /\ Raw(st) = (g \o cs) \o a
  BY DEF Asking
<1>3. Raw(z) = Raw(st) \o <<p>>
  BY StepBalanced
<1>4. w \in {"messages", "gemini"} /\ st.model = <<>> =>
         z.out = st.out /\ z.model = <<>> /\ z.user = Append(st.user, p)
  BY StepReplied
<1> HIDE DEF z, p, a
<1>5. Raw(z) = (g \o cs) \o Answers(w, calls, m + 1)
  <2>1. g \o cs \in Seq(PartSet) /\ <<p>> \in Seq(PartSet)
    BY <1>1, <1>2, Concats, OneIn
  <2> DEFINE h == g \o cs
             x == <<p>>
  <2>2. h \in Seq(PartSet) /\ x \in Seq(PartSet)
    BY <2>1
  <2>3. Raw(z) = (h \o a) \o x /\ Answers(w, calls, m + 1) = a \o x
    BY <1>1, <1>2, <1>3
  <2> HIDE DEF h, x
  <2>4. (h \o a) \o x = h \o (a \o x)
    <3>1. \A e, f, k \in Seq(PartSet) : (e \o f) \o k = e \o (f \o k)
      BY Concats
    <3>2. QED BY <1>1, <2>2, <3>1
  <2>5. Raw(z) = h \o Answers(w, calls, m + 1)
    BY <2>3, <2>4
  <2>6. QED BY <2>5 DEF h
<1>6. ASSUME w \in {"messages", "gemini"} PROVE MessageAsks(w, z, calls, m + 1)
  <2>1. PICK O \in Seq(Messages(PartSet)), msg \in Messages(PartSet) :
           /\ Replied(O) /\ IdsIn(msg.parts, CallTags) = IdsOfCalls(calls)
           /\ st.out = Append(O, msg) /\ st.model = <<>> /\ st.user = a
    BY <1>6 DEF Asking, MessageAsks, a
  <2>2. z.out = Append(O, msg) /\ z.model = <<>> /\ z.user = Answers(w, calls, m + 1)
    BY <1>1, <1>4, <1>6, <2>1
  <2>3. QED BY <2>1, <2>2 DEF MessageAsks
<1>7. Asking(w, z, calls, m + 1)
  BY <1>2, <1>5, <1>6 DEF Asking
<1>8. QED BY <1>7 DEF z

\* Once all are answered nothing is open.
LEMMA AskedAll ==
    ASSUME NEW st \in Payloads(PartSet), NEW w \in Wires, Waits(w, st), NEW calls \in Seq(Calls),
           Len(calls) > 0, Asking(w, st, calls, Len(calls))
    PROVE  Settled(w, st)
<1> DEFINE L == Len(calls)
           a == Answers(w, calls, L)
           T == Messages(PartSet)
<1>1. L \in Nat /\ L \in 0 .. L
  BY LenProperties
<1>2. /\ a \in Seq(PartSet) /\ Len(a) = L
      /\ \A c \in 1 .. L : a[c][1] \in AnswerTags /\ a[c][2] = calls[c].id
  <2> HIDE DEF L
  <2>1. L \in 0 .. Len(calls)
    BY <1>1 DEF L
  <2>2. QED BY <2>1, AnswersAre
<1>3. Balanced(Raw(st))
  <2>1. PICK g \in Seq(PartSet), cs \in Seq(PartSet) :
           /\ Balanced(g) /\ CallsSaid(w, cs, calls) /\ Raw(st) = (g \o cs) \o a
    BY DEF Asking
  <2>2. RepliesTo(cs, a)
    BY <2>1, AllAnswered
  <2> HIDE DEF a
  <2>3. QED BY <1>2, <2>1, <2>2, BalancedAnswered
<1>4. ASSUME w \in {"messages", "gemini"} PROVE Replied(FlushAll(st).out)
  <2>1. PICK O \in Seq(T), msg \in T :
           /\ Replied(O) /\ IdsIn(msg.parts, CallTags) = IdsOfCalls(calls)
           /\ st.out = Append(O, msg) /\ st.model = <<>> /\ st.user = a
    BY <1>4 DEF Asking, MessageAsks
  <2> DEFINE u == Message("user", st.user)
  <2>2. st.user # <<>>
    <3> HIDE DEF a, L
    <3>1. Len(a) > 0
      BY <1>2 DEF L
    <3>2. QED BY <2>1, <3>1
  <2>3. FlushAll(st).out = Append(st.out, u) /\ u \in T
    BY <2>2, Flushed
  <2>4. u.parts = a
    BY <2>1 DEF Message
  <2> HIDE DEF u, a, T
  <2>5. IdsIn(a, AnswerTags) = IdsOfCalls(calls)
    <3>1. IdsOfCalls(calls) = {calls[c].id : c \in 1 .. L}
      BY DEF IdsOfCalls
    <3> HIDE DEF L
    <3>2. QED BY <1>2, <3>1 DEF IdsIn
  <2>6. IdsIn(a, CallTags) = {}
    <3>1. \A tag \in AnswerTags : tag \notin CallTags
      BY TagsApart
    <3> HIDE DEF L
    <3>2. QED BY <1>2, <3>1 DEF IdsIn
  <2>7. IdsIn(msg.parts, CallTags) = IdsIn(u.parts, AnswerTags) /\ IdsIn(u.parts, CallTags) = {}
    BY <2>1, <2>4, <2>5, <2>6
  <2>8. Replied(Append(Append(O, msg), u))
    BY <2>1, <2>3, <2>7, RepliedMore
  <2>9. QED BY <2>1, <2>3, <2>8
<1>5. QED BY <1>3, <1>4 DEF Settled

-----------------------------------------------------------------------------
(* Which calls of a history are open before its item n + 1.                *)
\* The call of s[e] that is next in its turn to be answered comes behind item n.
Zone(s, n, e) == s[e].k = "assistant" /\ n - e < Len(s[e].calls)

Zones(s, n) == {e \in 1 .. n : Zone(s, n, e)}

LEMMA ZoneNext ==
    ASSUME NEW s \in Seq(Items), Paired(s, FALSE), NEW n \in 0 .. Len(s) - 1
    PROVE  /\ \A e \in Zones(s, n) :
                 /\ e \in 1 .. Len(s) /\ s[e].k = "assistant" /\ s[e].calls \in Seq(Calls)
                 /\ Len(s[e].calls) \in Nat
                 /\ n - e \in 0 .. Len(s[e].calls) - 1
                 /\ s[n + 1].k = "result"
                 /\ s[n + 1].calls = <<s[e].calls[(n - e) + 1].id>>
           /\ s[n + 1].k = "result" => Zones(s, n) # {}
           /\ \A e, f \in Zones(s, n) : e = f
           /\ \A e \in Zones(s, n + 1) : e \in Zones(s, n) \/ (e = n + 1 /\ s[e].k = "assistant")
<1>1. Len(s) \in Nat /\ n \in Nat /\ n + 1 \in 1 .. Len(s)
  BY LenProperties
<1>2. ASSUME NEW e \in Zones(s, n)
      PROVE  /\ e \in 1 .. Len(s) /\ e \in 1 .. n /\ s[e].k = "assistant"
             /\ s[e].calls \in Seq(Calls) /\ Len(s[e].calls) \in Nat
             /\ n - e \in 0 .. Len(s[e].calls) - 1
             /\ AnsweredAt(s, e)
  <2>1. e \in 1 .. n /\ s[e].k = "assistant" /\ n - e < Len(s[e].calls)
    BY DEF Zones, Zone
  <2>2. e \in 1 .. Len(s)
    BY <1>1, <2>1
  <2>3. s[e].calls \in Seq(Calls)
    <3>1. s[e] \in Items
      BY <2>2, ElementOfSeq
    <3>2. QED BY <2>1, <3>1, ItemFields
  <2>4. Len(s[e].calls) \in Nat
    BY <2>3, LenProperties
  <2>5. n - e \in 0 .. Len(s[e].calls) - 1
    BY <1>1, <2>1, <2>4
  <2>6. AnsweredAt(s, e)
    BY <2>1, <2>2 DEF Paired
  <2>7. QED BY <2>1, <2>2, <2>3, <2>4, <2>5, <2>6
<1>3. ASSUME NEW e \in Zones(s, n), NEW f \in 1 .. Len(s), e < f, f <= n + 1
      PROVE  f - e \in 1 .. Len(s[e].calls)
             /\ s[f].k = "result" /\ s[f].calls = <<s[e].calls[f - e].id>>
  <2>1. e \in 1 .. n /\ Len(s[e].calls) \in Nat /\ n - e \in 0 .. Len(s[e].calls) - 1
    BY <1>2
  <2> DEFINE c == f - e
  <2>2. c \in 1 .. Len(s[e].calls) /\ e + c = f
    BY <1>1, <1>3, <2>1
  <2> HIDE DEF c
  <2>3. s[e + c].k = "result" /\ s[e + c].calls = <<s[e].calls[c].id>>
    BY <1>2, <2>2 DEF AnsweredAt
  <2>4. QED BY <2>2, <2>3 DEF c
<1>4. ASSUME NEW e \in Zones(s, n)
      PROVE  s[n + 1].k = "result" /\ s[n + 1].calls = <<s[e].calls[(n - e) + 1].id>>
  <2> DEFINE f == n + 1
  <2>1. e < f /\ f - e = (n - e) + 1 /\ f <= n + 1 /\ f \in 1 .. Len(s)
    BY <1>1, <1>2
  <2> HIDE DEF f
  <2>2. s[f].k = "result" /\ s[f].calls = <<s[e].calls[f - e].id>>
    BY <1>3, <2>1
  <2>3. s[f].calls = <<s[e].calls[(n - e) + 1].id>>
    BY <2>1, <2>2
  <2>4. QED BY <2>2, <2>3 DEF f
<1>5. ASSUME s[n + 1].k = "result" PROVE Zones(s, n) # {}
  <2>1. PICK i \in 1 .. (n + 1) - 1 : s[i].k = "assistant" /\ (n + 1) - i <= Len(s[i].calls)
    BY <1>1, <1>5 DEF Paired
  <2>2. i \in 1 .. n /\ i \in 1 .. Len(s)
    BY <1>1
  <2>3. Len(s[i].calls) \in Nat
    <3>1. s[i] \in Items
      BY <2>2, ElementOfSeq
    <3>2. s[i].calls \in Seq(Calls)
      BY <2>1, <3>1, ItemFields
    <3>3. QED BY <3>2, LenProperties
  <2>4. n - i < Len(s[i].calls)
    BY <1>1, <2>1, <2>2, <2>3
  <2>5. QED BY <2>1, <2>2, <2>4 DEF Zones, Zone
<1>6. ASSUME NEW e \in Zones(s, n), NEW f \in Zones(s, n) PROVE ~(e < f)
  <2> SUFFICES ASSUME e < f PROVE FALSE
    OBVIOUS
  <2>1. f \in 1 .. Len(s) /\ f <= n + 1 /\ s[f].k = "assistant"
    BY <1>1, <1>2
  <2>2. s[f].k = "result"
    BY <1>3, <2>1
  <2>3. QED BY <2>1, <2>2
<1>7. \A e, f \in Zones(s, n) : e = f
  <2> SUFFICES ASSUME NEW e \in Zones(s, n), NEW f \in Zones(s, n) PROVE e = f
    OBVIOUS
  <2>1. e \in Int /\ f \in Int
    BY <1>2
  <2>2. ~(e < f) /\ ~(f < e)
    BY <1>6
  <2>3. QED BY <2>1, <2>2
<1>8. ASSUME NEW e \in Zones(s, n + 1)
      PROVE  e \in Zones(s, n) \/ (e = n + 1 /\ s[e].k = "assistant")
  <2>1. e \in 1 .. n + 1 /\ s[e].k = "assistant" /\ (n + 1) - e < Len(s[e].calls)
    BY DEF Zones, Zone
  <2>2. CASE e = n + 1
    BY <2>1, <2>2
  <2>3. CASE e # n + 1
    <3>1. e \in 1 .. n /\ e \in 1 .. Len(s)
      BY <1>1, <2>1, <2>3
    <3>2. Len(s[e].calls) \in Nat
      <4>1. s[e] \in Items
        BY <3>1, ElementOfSeq
      <4>2. s[e].calls \in Seq(Calls)
        BY <2>1, <4>1, ItemFields
      <4>3. QED BY <4>2, LenProperties
    <3>3. n - e < Len(s[e].calls)
      BY <1>1, <2>1, <3>1, <3>2
    <3>4. QED BY <2>1, <3>1, <3>3 DEF Zones, Zone
  <2>4. QED BY <2>2, <2>3
<1>9. QED BY <1>2, <1>4, <1>5, <1>7, <1>8

\* A stripped answer has the calls it had.
LEMMA UnsignedSame ==
    ASSUME NEW calls \in Seq(Calls)
    PROVE  SameCalls(Unsigned(calls), calls) /\ SameCalls(calls, calls)
<1>1. Len(calls) \in Nat /\ \A c \in 1 .. Len(calls) : calls[c] \in Calls
  BY LenProperties, ElementOfSeq
<1>2. Len(Unsigned(calls)) = Len(calls)
  BY <1>1 DEF Unsigned
<1>3. \A c \in 1 .. Len(calls) : Unsigned(calls)[c] = [calls[c] EXCEPT !.signed = FALSE]
  BY <1>1 DEF Unsigned
<1>4. \A x \in Calls : LET e == [x EXCEPT !.signed = FALSE] IN e.id = x.id /\ e.kind = x.kind
  BY DEF Calls
<1>5. QED BY <1>1, <1>2, <1>3, <1>4 DEF SameCalls

\* The encoder knows the tag of every answer to the prompt's calls.
LEMMA AnswerIs ==
    ASSUME NEW b, History(history, b, FALSE), NEW key, NEW e \in 1 .. Len(Prompt(history)),
           Prompt(history)[e].k = "assistant", NEW c \in 1 .. Len(Prompt(history)[e].calls),
           NEW st, st.named = Start(key).named, st.custom = Start(key).custom, NEW w \in Wires
    PROVE  LET call == Prompt(history)[e].calls[c] IN
           AnswerPart(w, st, call.id) = <<AnswerTag(w, call), call.id>>
<1> DEFINE call == Prompt(history)[e].calls[c]
<1>1. call.id \in st.named /\ (call.id \in st.custom <=> call.kind = "custom_tool")
  BY IdsSent
<1> HIDE DEF call
<1>2. AnswerPart(w, st, call.id) = <<AnswerTag(w, call), call.id>>
  <2>1. CASE w = "responses"
    BY <1>1, <2>1 DEF AnswerPart, AnswerTag
  <2>2. CASE w = "gemini"
    BY <1>1, <2>2 DEF AnswerPart, AnswerTag
  <2>3. CASE w \notin {"responses", "gemini"}
    BY <2>3 DEF AnswerPart, AnswerTag
  <2>4. QED BY <2>1, <2>2, <2>3
<1>3. QED BY <1>2 DEF call

\* What is open in the encoder after n items of the prompt is what is open in the prompt.
AnsweredSoFar(w, key, n) ==
    LET s == Prompt(history)
        A == After(w, key, n)
    IN  /\ Waits(w, A) /\ A.custom = Start(key).custom /\ A.named = Start(key).named
        /\ \A e \in Zones(s, n) : Asking(w, A, s[e].calls, n - e)
        /\ Zones(s, n) = {} => Settled(w, A)

LEMMA AnsweredNone ==
    ASSUME NEW b, History(history, b, FALSE), NEW key, NEW w \in Wires
    PROVE  AnsweredSoFar(w, key, 0)
<1> DEFINE A == After(w, key, 0)
<1>1. A = Start(key)
  BY AfterSteps
<1>2. A.out = <<>> /\ A.model = <<>> /\ A.user = <<>>
  BY <1>1 DEF Start, NewPayload
<1> HIDE DEF A
<1>3. Raw(A) = <<>>
  <2>1. Flatten(<<>>) = <<>>
    <3>1. <<>> \in Seq(Messages({}))
      OBVIOUS
    <3>2. QED BY <3>1, FlattenMore
  <2>2. <<>> \o <<>> = <<>>
    BY Concats
  <2>3. QED BY <1>2, <2>1, <2>2 DEF Raw
<1>4. Waits(w, A)
  BY <1>2 DEF Waits
<1>5. Balanced(<<>>) /\ Replied(<<>>)
  BY DEF Balanced, Replied
<1>6. FlushAll(A).out = <<>>
  BY <1>2 DEF FlushAll, FlushModel, FlushUser
<1>7. Settled(w, A)
  BY <1>3, <1>5, <1>6 DEF Settled
<1>8. Zones(Prompt(history), 0) = {}
  BY DEF Zones
<1>9. QED BY <1>1, <1>4, <1>7, <1>8 DEF AnsweredSoFar, A

LEMMA AnsweredMore ==
    ASSUME NEW b, History(history, b, FALSE), NEW key, NEW w \in Wires,
           NEW n \in 0 .. Len(Prompt(history)) - 1, AnsweredSoFar(w, key, n)
    PROVE  AnsweredSoFar(w, key, n + 1)
<1> DEFINE s == Prompt(history)
           i == n + 1
           y == s[i]
           A == After(w, key, n)
           Z == After(w, key, i)
<1>1. /\ s \in Seq(Items) /\ Paired(s, FALSE) /\ n \in Nat /\ i \in 1 .. Len(s) /\ y \in Items
      /\ n \in 0 .. Len(s) - 1 /\ n \in 0 .. Len(s) /\ i \in 0 .. Len(s)
  <2>1. History(s, b, FALSE)
    BY PromptIs
  <2>2. y \in Items /\ n \in Nat /\ i \in 1 .. Len(s)
    BY AfterCases
  <2>3. n \in 0 .. Len(s) /\ i \in 0 .. Len(s)
    BY <2>2
  <2>4. QED BY <2>1, <2>2, <2>3 DEF History
<1>2. /\ Waits(w, A) /\ A.custom = Start(key).custom /\ A.named = Start(key).named
      /\ \A e \in Zones(s, n) : Asking(w, A, s[e].calls, n - e)
      /\ Zones(s, n) = {} => Settled(w, A)
  BY DEF AnsweredSoFar
<1>3. A \in Payloads(PartSet) /\ Z \in Payloads(PartSet)
      /\ \A x \in OwnItems(key) : x \in SentItems /\ Sayable(x, PartSet)
  <2> DEFINE G == OwnParts(key)
  <2>1. \A m \in 0 .. Len(s) : After(w, key, m) \in Payloads(G)
    BY AfterSteps
  <2>2. G \in SUBSET PartSet
    BY DEF OwnParts
  <2>3. \A x \in OwnItems(key) : x \in SentItems /\ Sayable(x, G)
    BY DEF OwnItems
  <2>4. A \in Payloads(G) /\ Z \in Payloads(G)
    BY <1>1, <2>1
  <2> HIDE DEF G, A, Z
  <2>5. QED BY <2>2, <2>3, <2>4, PayloadsMore
<1>4. /\ \A e \in Zones(s, n) :
            /\ e \in 1 .. Len(s) /\ s[e].k = "assistant" /\ s[e].calls \in Seq(Calls)
            /\ Len(s[e].calls) \in Nat
            /\ n - e \in 0 .. Len(s[e].calls) - 1
            /\ y.k = "result"
            /\ y.calls = <<s[e].calls[(n - e) + 1].id>>
      /\ y.k = "result" => Zones(s, n) # {}
      /\ \A e, f \in Zones(s, n) : e = f
      /\ \A e \in Zones(s, i) : e \in Zones(s, n) \/ (e = i /\ s[e].k = "assistant")
  <2> HIDE DEF s
  <2>1. QED BY <1>1, ZoneNext
<1>5. \/ ~Foreign(s, i, key, Primary) /\ y \in OwnItems(key) /\ Z = WireStep(w, A, y)
      \/ /\ Foreign(s, i, key, Primary) /\ y.k = "assistant"
         /\ LET a == Strip(y, Summaries(s, i)) IN
            /\ a \in OwnItems(key) /\ a.k = "assistant"
            /\ a.calls = Unsigned(y.calls)
            /\ Z = WireStep(w, A, a)
      \/ /\ Foreign(s, i, key, Primary) /\ y.k \in {"reasoning", "hosted"} /\ Z = A
  BY AfterCases
<1>6. ASSUME NEW x \in OwnItems(key), Z = WireStep(w, A, x)
      PROVE  Waits(w, Z) /\ Z.custom = A.custom /\ Z.named = A.named
  <2>1. x \in SentItems /\ Sayable(x, PartSet) /\ A \in Payloads(PartSet)
    BY <1>3
  <2> HIDE DEF A, Z, s, y
  <2>2. QED BY <1>2, <1>6, <2>1, StepSays
<1>7. Waits(w, Z) /\ Z.custom = A.custom /\ Z.named = A.named
  <2>1. CASE Z = A
    BY <1>2, <2>1
  <2>2. CASE \E x \in OwnItems(key) : Z = WireStep(w, A, x)
    BY <1>6, <2>2
  <2>3. Z = A \/ \E x \in OwnItems(key) : Z = WireStep(w, A, x)
    BY <1>5
  <2>4. QED BY <2>1, <2>2, <2>3
<1> DEFINE Reached == /\ \A e \in Zones(s, i) : Asking(w, Z, s[e].calls, i - e)
                      /\ Zones(s, i) = {} => Settled(w, Z)
\* A call is open: the item answers it.
<1>8. ASSUME NEW e \in Zones(s, n) PROVE Reached
  <2> DEFINE calls == s[e].calls
             m == n - e
             c == m + 1
  <2>1. /\ e \in 1 .. Len(s) /\ s[e].k = "assistant" /\ calls \in Seq(Calls)
        /\ Len(calls) \in Nat /\ m \in 0 .. Len(calls) - 1 /\ c \in 1 .. Len(calls)
        /\ y.k = "result" /\ y.calls = <<calls[c].id>> /\ i - e = m + 1
    BY <1>1, <1>4
  <2>2. y \in OwnItems(key) /\ Z = WireStep(w, A, y)
    BY <1>5, <2>1
  <2>3. AnswerPart(w, A, calls[c].id) = <<AnswerTag(w, calls[c]), calls[c].id>>
    BY <1>2, <2>1, AnswerIs
  <2>4. Asking(w, A, calls, m)
    BY <1>2
  <2>5. y.calls[1] = calls[c].id
    BY <2>1
  <2>6. y \in SentItems /\ Sayable(y, PartSet)
    BY <1>3, <2>2
  <2>7. Asking(w, Z, calls, m + 1)
    <3> HIDE DEF s, y, A, Z, calls, m
    <3>1. AnswerPart(w, A, y.calls[1]) = <<AnswerTag(w, calls[m + 1]), calls[m + 1].id>>
      BY <2>3, <2>5
    <3>2. QED BY <1>2, <1>3, <2>1, <2>2, <2>4, <2>6, <3>1, AnswerNext
  <2>8. \A f \in Zones(s, i) : f = e
    BY <1>4, <2>1
  <2>9. \A f \in Zones(s, i) : Asking(w, Z, s[f].calls, i - f)
    <3> SUFFICES ASSUME NEW f \in Zones(s, i) PROVE Asking(w, Z, s[f].calls, i - f)
      OBVIOUS
    <3>1. f = e
      BY <2>8
    <3>2. Asking(w, Z, calls, i - e)
      <4> HIDE DEF Z, calls, m, s, i
      <4>1. QED BY <2>1, <2>7
    <3>3. QED BY <3>1, <3>2
  <2>10. ASSUME Zones(s, i) = {} PROVE Settled(w, Z)
    <3>1. m + 1 = Len(calls)
      <4>1. e \notin Zones(s, i)
        BY <2>10
      <4>2. e \in 1 .. i
        BY <1>1, <1>8 DEF Zones
      <4>3. ~(i - e < Len(calls))
        BY <2>1, <4>1, <4>2 DEF Zones, Zone
      <4> HIDE DEF calls, m, s, i
      <4>4. i - e = m + 1 /\ m \in 0 .. Len(calls) - 1 /\ Len(calls) \in Nat
        BY <2>1
      <4>5. QED BY <4>3, <4>4
    <3>2. Asking(w, Z, calls, Len(calls)) /\ Len(calls) > 0
      <4> HIDE DEF calls, m, Z, s
      <4>1. Len(calls) > 0
        BY <2>1, <3>1
      <4>2. QED BY <2>7, <3>1, <4>1
    <3> HIDE DEF calls, Z
    <3>3. QED BY <1>3, <1>7, <2>1, <3>2, AskedAll
  <2>11. QED BY <2>9, <2>10
\* An assistant opens its calls.
<1>9. ASSUME Zones(s, n) = {}, y.k = "assistant" PROVE Reached
  <2>1. y.calls \in Seq(Calls)
    BY <1>1, <1>9, ItemFields
  <2>2. PICK x \in OwnItems(key) : /\ x.k = "assistant" /\ Z = WireStep(w, A, x)
                                   /\ SameCalls(x.calls, y.calls)
    <3>1. SameCalls(Unsigned(y.calls), y.calls) /\ SameCalls(y.calls, y.calls)
      BY <2>1, UnsignedSame
    <3>2. CASE y \in OwnItems(key) /\ Z = WireStep(w, A, y)
      BY <1>9, <3>1, <3>2
    <3>3. CASE LET a == Strip(y, Summaries(s, i)) IN
               /\ a \in OwnItems(key) /\ a.k = "assistant"
               /\ a.calls = Unsigned(y.calls)
               /\ Z = WireStep(w, A, a)
      BY <3>1, <3>3
    <3>4. QED BY <1>5, <1>9, <3>2, <3>3
  <2>3. x \in SentItems /\ Sayable(x, PartSet)
    BY <1>3
  <2>4. /\ Len(y.calls) > 0 => Asking(w, Z, y.calls, 0)
        /\ Len(y.calls) = 0 => Settled(w, Z)
    <3>1. Settled(w, A)
      BY <1>2, <1>9
    <3> DEFINE calls == y.calls
    <3> HIDE DEF s, y, A, Z, calls
    <3>2. calls \in Seq(Calls) /\ SameCalls(x.calls, calls)
      BY <2>1, <2>2 DEF calls
    <3>3. /\ Len(calls) > 0 => Asking(w, Z, calls, 0)
          /\ Len(calls) = 0 => Settled(w, Z)
      BY <1>2, <1>3, <2>2, <2>3, <3>1, <3>2, CallsOpen
    <3>4. QED BY <3>3 DEF calls
  <2>5. Len(y.calls) \in Nat
    BY <2>1, LenProperties
  <2>6. ASSUME NEW e \in Zones(s, i) PROVE Asking(w, Z, s[e].calls, i - e)
    <3>1. e = i
      BY <1>4, <1>9
    <3>2. i - e < Len(s[e].calls)
      BY DEF Zones, Zone
    <3>3. i - e = 0
      BY <1>1, <3>1
    <3>4. QED BY <2>4, <3>1, <3>2, <3>3
  <2>7. ASSUME Zones(s, i) = {} PROVE Settled(w, Z)
    <3>1. i \in 1 .. i /\ i - i = 0
      BY <1>1
    <3>2. ~(0 < Len(y.calls))
      BY <1>9, <2>7, <3>1 DEF Zones, Zone
    <3>3. QED BY <2>4, <2>5, <3>2
  <2>8. QED BY <2>6, <2>7
\* Whatever else leaves nothing open.
<1>10. ASSUME Zones(s, n) = {}, y.k # "assistant" PROVE Reached
  <2>1. y.k # "result"
    BY <1>4, <1>10
  <2>2. Zones(s, i) = {}
    <3> SUFFICES ASSUME NEW e \in Zones(s, i) PROVE FALSE
      OBVIOUS
    <3>1. e = i /\ s[e].k = "assistant"
      BY <1>4, <1>10
    <3>2. QED BY <1>10, <3>1
  <2>3. Settled(w, A)
    BY <1>2, <1>10
  <2>4. Settled(w, Z)
    <3>1. CASE Z = A
      BY <2>3, <3>1
    <3>2. CASE y \in OwnItems(key) /\ Z = WireStep(w, A, y)
      <4>1. y \in SentItems /\ Sayable(y, PartSet)
        BY <1>3, <3>2
      <4>2. y.k \notin {"assistant", "result"}
        BY <1>10, <2>1
      <4> HIDE DEF s, y, A, Z
      <4>3. QED BY <1>2, <1>3, <2>3, <3>2, <4>1, <4>2, StaysSettled
    <3>3. QED BY <1>5, <1>10, <3>1, <3>2
  <2>5. QED BY <2>2, <2>4
<1>11. Reached
  <2>1. Zones(s, n) = {} \/ \E e \in Zones(s, n) : TRUE
    OBVIOUS
  <2> HIDE DEF Reached, s, y
  <2>2. QED BY <1>8, <1>9, <1>10, <2>1
<1>12. QED BY <1>2, <1>7, <1>11 DEF AnsweredSoFar

LEMMA AnsweredAll ==
    ASSUME NEW b, History(history, b, FALSE), NEW key, NEW w \in Wires
    PROVE  AnsweredSoFar(w, key, Len(Prompt(history)))
<1> DEFINE L == Len(Prompt(history))
           N == {n \in Nat : n <= L => AnsweredSoFar(w, key, n)}
<1>1. L \in Nat
  BY AfterSteps
<1>2. 0 \in N
  BY AnsweredNone
<1>3. ASSUME NEW n \in N PROVE n + 1 \in N
  <2>1. n \in Nat /\ (n <= L => AnsweredSoFar(w, key, n))
    OBVIOUS
  <2>2. ASSUME n + 1 <= L PROVE AnsweredSoFar(w, key, n + 1)
    <3>1. n \in 0 .. L - 1 /\ AnsweredSoFar(w, key, n)
      BY <1>1, <2>1, <2>2
    <3>2. QED BY <3>1, AnsweredMore
  <2>3. QED BY <2>1, <2>2
<1>4. N = Nat
  <2> HIDE DEF N
  <2>1. N \subseteq Nat
    BY DEF N
  <2>2. QED BY <1>2, <1>3, <2>1, SetInduction
<1>5. \A n \in Nat : n <= L => AnsweredSoFar(w, key, n)
  BY <1>4
<1> HIDE DEF L
<1>6. AnsweredSoFar(w, key, L)
  BY <1>1, <1>5
<1>7. QED BY <1>6 DEF L

\* In the request of a session of any length every call is followed, past nothing but calls
\* and answers, by its answer, every answer answers a call, and where answers have a message
\* of their own it holds the answers to the calls of the message before: on every wire and
\* whichever slots the session went through.
THEOREM CallsHaveAnswers == Spec => []CallsAnswered
<1>1. RequestInv => CallsAnswered
  <2> SUFFICES ASSUME RequestInv, Whole
               PROVE  /\ Balanced(Flat)
                      /\ sent.slot.wire \in {"messages", "gemini"} => Replied(sent.body.out)
    BY DEF CallsAnswered, Balanced, Replied, Replies, IdsIn
  <2> DEFINE w == sent.slot.wire
             key == sent.slot.key
             s == Prompt(history)
             L == Len(s)
             A == After(w, key, L)
  <2>1. /\ sent.slot \in Slots /\ History(history, born, FALSE) /\ sent.body = Encoded(A)
        /\ w \in Wires
    <3>1. sent.slot \in Slots /\ History(history, born, FALSE) /\ sent.body = Encoded(A)
      BY WholeIs
    <3>2. QED BY <3>1, SlotAssumption DEF Wires
  <2>2. L \in Nat /\ A \in Payloads(OwnParts(key))
    <3>1. L \in Nat /\ \A m \in 0 .. L : After(w, key, m) \in Payloads(OwnParts(key))
      BY <2>1, AfterSteps
    <3>2. L \in 0 .. L
      BY <3>1
    <3>3. QED BY <3>1, <3>2
  <2>3. Zones(s, L) = {}
    <3> SUFFICES ASSUME NEW e \in Zones(s, L) PROVE FALSE
      OBVIOUS
    <3>1. e \in 1 .. L /\ s[e].k = "assistant" /\ L - e < Len(s[e].calls)
      BY DEF Zones, Zone
    <3>2. s \in Seq(Items) /\ Paired(s, FALSE)
      BY <2>1, PromptIs DEF History
    <3>3. e + Len(s[e].calls) <= L
      BY <3>1, <3>2 DEF Paired, AnsweredAt
    <3>4. Len(s[e].calls) \in Nat
      <4>1. s[e] \in Items
        BY <3>1, <3>2, ElementOfSeq
      <4>2. s[e].calls \in Seq(Calls)
        BY <3>1, <4>1, ItemFields
      <4>3. QED BY <4>2, LenProperties
    <3> HIDE DEF s, L
    <3>5. QED BY <2>2, <3>1, <3>3, <3>4
  <2>4. Settled(w, A)
    <3>1. AnsweredSoFar(w, key, L)
      BY <2>1, AnsweredAll
    <3>2. QED BY <2>3, <3>1 DEF AnsweredSoFar
  <2>5. Flat = Raw(A)
    <3>1. Flat = Flatten(sent.body.out)
      BY DEF Flat, Flatten, PartsOf
    <3> HIDE DEF A
    <3>2. QED BY <2>1, <2>2, <3>1, WrittenOut
  <2>6. sent.body.out = FlushAll(A).out
    <3> HIDE DEF A
    <3>1. QED BY <2>1 DEF Encoded
  <2> HIDE DEF A
  <2>7. QED BY <2>4, <2>5, <2>6 DEF Settled
<1>2. QED BY <1>1, RequestsCurrent, PTL
=============================================================================
