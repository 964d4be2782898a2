------------------------- MODULE AgentEngineProofs -------------------------
(***************************************************************************)
(* The safety properties of the agent engine, for any number of chats,     *)
(* sessions, turns and cancels, and histories of any length.               *)
(***************************************************************************)
EXTENDS AgentEngine, FiniteSetTheorems, WellFoundedInduction, SequenceTheorems, TLAPS

-----------------------------------------------------------------------------
(* Histories.  What happens to a conversation, appending and the compaction of *)
(* a long session, keeps its tool calls and their results together, and keeps  *)
(* the detector of identical steps on the run that reaches its end.            *)

Item == [kind : {"user"}, chat : Chats \cup {NoChat}]
          \cup [kind : {"assistant"}, sig : Signatures \cup {NoSignature}, calls : Nat]
          \cup [kind : {"result"}, call : Nat]
          \cup {Reasoning, Nudge}

\* A history whose last batch has still to hear of its last `left` calls; with
\* none left it is well paired.
Paired(items, left) ==
    /\ Len(items) > 0 => items[1].kind = "user"
    /\ \A i \in 1 .. Len(items) : items[i].kind = "assistant" =>
          /\ i + items[i].calls <= Len(items) + left
          /\ \A k \in 1 .. items[i].calls : i + k <= Len(items) => items[i + k] = ToolResult(k)
    /\ \A j \in 1 .. Len(items) : items[j].kind = "result" =>
          \E i \in 1 .. j - 1 : items[i].kind = "assistant" /\ j - i <= items[i].calls

\* The last batch is at position b and still has `left` calls to hear of.
LastBatch(items, left, b) ==
    /\ b \in 1 .. Len(items) /\ items[b].kind = "assistant"
    /\ b + items[b].calls = Len(items) + left
    /\ \A j \in b + 1 .. Len(items) : items[j].kind # "assistant"

-----------------------------------------------------------------------------
\* The items a session holds, told apart by their kinds.
LEMMA ItemKinds ==
    /\ \A c \in Chats \cup {NoChat} : User(c) \in Item /\ User(c).kind = "user"
    /\ \A sig \in Signatures \cup {NoSignature}, n \in Nat :
          /\ Assistant(sig, n) \in Item
          /\ Assistant(sig, n).kind = "assistant" /\ Assistant(sig, n).calls = n
    /\ \A k \in Nat : ToolResult(k) \in Item /\ ToolResult(k).kind = "result"
    /\ Reasoning \in Item /\ Reasoning.kind = "reasoning"
    /\ Nudge \in Item /\ Nudge.kind = "system"
    /\ \A x \in Item : x.kind = "assistant" => x.calls \in Nat
BY DEF Item, User, Assistant, ToolResult, Reasoning, Nudge

\* A set of naturals has a least element.
LEMMA LeastNatural ==
    ASSUME NEW S \in SUBSET Nat, S # {}
    PROVE  FSE!Min(S) \in S /\ \A y \in S : FSE!Min(S) <= y
<1>1. \E x \in S : \A y \in S : <<y, x>> \notin OpToRel(<, Nat)
  BY NatLessThanWellFounded, WFMin
<1>2. \A x, y \in S : <<y, x>> \notin OpToRel(<, Nat) => x <= y
  BY DEF OpToRel
<1>3. \E x \in S : \A y \in S : x <= y
  BY <1>1, <1>2
<1>4. QED
  BY <1>3 DEF FSE!Min

\* A set of naturals with a bound has a greatest one.
LEMMA GreatestNatural ==
    ASSUME NEW n \in Nat, NEW S \in SUBSET (0 .. n), S # {}
    PROVE  FSE!Max(S) \in S /\ \A y \in S : FSE!Max(S) >= y
<1> DEFINE Gaps == {g \in Nat : n - g \in S}
<1>1. PICK x \in S : TRUE
  OBVIOUS
<1>2. n - x \in Gaps
  BY <1>1
<1>3. FSE!Min(Gaps) \in Gaps /\ \A g \in Gaps : FSE!Min(Gaps) <= g
  <2> HIDE DEF Gaps
  <2>1. Gaps \in SUBSET Nat
    BY DEF Gaps
  <2>2. QED
    BY <1>2, <2>1, LeastNatural
<1>4. n - FSE!Min(Gaps) \in S
  BY <1>3
<1>5. ASSUME NEW y \in S
      PROVE  n - FSE!Min(Gaps) >= y
  <2>1. n - y \in Gaps
    OBVIOUS
  <2>2. FSE!Min(Gaps) <= n - y
    BY <1>3, <2>1
  <2>3. QED
    BY <1>3, <2>2
<1>6. QED
  BY <1>4, <1>5 DEF FSE!Max

-----------------------------------------------------------------------------
\* A well-paired history is one that owes no result.
LEMMA WellPairedOwesNothing ==
    ASSUME NEW items \in Seq(Item)
    PROVE  WellPaired(items) <=> Paired(items, 0)
<1>1. DOMAIN items = 1 .. Len(items) /\ Len(items) \in Nat
  OBVIOUS
<1>2. \A i \in 1 .. Len(items) : items[i].kind = "assistant" => items[i].calls \in Nat
  BY ItemKinds
<1>3. items # <<>> <=> Len(items) > 0
  OBVIOUS
<1>4. Len(items) > 0 => Head(items) = items[1]
  BY <1>3
<1>5. ASSUME NEW i \in 1 .. Len(items), items[i].kind = "assistant"
      PROVE  (\A k \in 1 .. items[i].calls : i + k \in DOMAIN items /\ items[i + k] = ToolResult(k))
               <=> (/\ i + items[i].calls <= Len(items)
                    /\ \A k \in 1 .. items[i].calls :
                          i + k <= Len(items) => items[i + k] = ToolResult(k))
  <2>1. CASE items[i].calls = 0
    BY <1>1, <2>1
  <2>2. CASE items[i].calls > 0
    <3>1. items[i].calls \in 1 .. items[i].calls
      BY <1>2, <1>5, <2>2
    <3>2. \A k \in 1 .. items[i].calls : k \in Nat /\ k >= 1 /\ k <= items[i].calls
      BY <1>2, <1>5
    <3>3. QED
      BY <1>1, <1>2, <1>5, <3>1, <3>2
  <2>3. items[i].calls = 0 \/ items[i].calls > 0
    BY <1>2, <1>5
  <2>4. QED
    BY <2>1, <2>2, <2>3, Zenon
<1>6. (items # <<>> => Head(items).kind = "user") <=> (Len(items) > 0 => items[1].kind = "user")
  BY <1>3, <1>4
<1>7. (\A i \in DOMAIN items : items[i].kind = "assistant" =>
         \A k \in 1 .. items[i].calls : i + k \in DOMAIN items /\ items[i + k] = ToolResult(k))
       <=> (\A i \in 1 .. Len(items) : items[i].kind = "assistant" =>
              /\ i + items[i].calls <= Len(items) + 0
              /\ \A k \in 1 .. items[i].calls :
                    i + k <= Len(items) => items[i + k] = ToolResult(k))
  <2>1. Len(items) + 0 = Len(items)
    BY <1>1
  <2>2. QED
    BY <1>1, <1>5, <2>1, Zenon
<1>8. QED
  BY <1>1, <1>6, <1>7, Zenon DEF WellPaired, Paired

\* An item that is neither a batch nor a result leaves the pairs alone.
LEMMA AppendPlain ==
    ASSUME NEW items \in Seq(Item), Paired(items, 0), NEW x \in Item,
           x.kind \notin {"assistant", "result"},
           items # <<>> \/ x.kind = "user"
    PROVE  Paired(Append(items, x), 0)
<1> DEFINE more == Append(items, x)
<1>1. /\ Len(more) = Len(items) + 1 /\ Len(items) \in Nat
      /\ \A i \in 1 .. Len(items) : more[i] = items[i]
      /\ more[Len(more)] = x
  OBVIOUS
<1>2. more[1].kind = "user"
  BY <1>1 DEF Paired
<1>3. \A i \in 1 .. Len(items) : items[i].kind = "assistant" => items[i].calls \in Nat
  BY ItemKinds
<1> HIDE DEF more
<1>4. ASSUME NEW i \in 1 .. Len(more), more[i].kind = "assistant"
      PROVE  /\ i + more[i].calls <= Len(more)
             /\ \A k \in 1 .. more[i].calls : i + k <= Len(more) => more[i + k] = ToolResult(k)
  <2>1. i \in 1 .. Len(items)
    BY <1>1, <1>4
  <2>2. items[i].kind = "assistant" /\ more[i].calls = items[i].calls
    BY <1>1, <1>4, <2>1
  <2>3. i + items[i].calls <= Len(items)
    BY <2>1, <2>2 DEF Paired
  <2>4. ASSUME NEW k \in 1 .. items[i].calls
        PROVE  more[i + k] = ToolResult(k)
    <3>1. i + k \in 1 .. Len(items) /\ i + k <= Len(items)
      BY <1>1, <1>3, <2>1, <2>2, <2>3
    <3>2. items[i + k] = ToolResult(k)
      BY <2>1, <2>2, <3>1 DEF Paired
    <3>3. QED
      BY <1>1, <3>1, <3>2
  <2>5. QED
    BY <1>1, <1>3, <2>1, <2>2, <2>3, <2>4
<1>5. ASSUME NEW j \in 1 .. Len(more), more[j].kind = "result"
      PROVE  \E i \in 1 .. j - 1 : more[i].kind = "assistant" /\ j - i <= more[i].calls
  <2>1. j \in 1 .. Len(items) /\ items[j].kind = "result"
    BY <1>1, <1>5
  <2>2. PICK i \in 1 .. j - 1 : items[i].kind = "assistant" /\ j - i <= items[i].calls
    BY <2>1 DEF Paired
  <2>3. QED
    BY <1>1, <2>1, <2>2
<1>6. QED
  BY <1>2, <1>4, <1>5 DEF Paired, more

\* A batch of calls owes all its results.
LEMMA AppendBatch ==
    ASSUME NEW items \in Seq(Item), Paired(items, 0), items # <<>>,
           NEW sig \in Signatures \cup {NoSignature}, NEW n \in Nat
    PROVE  LET more == Append(items, Assistant(sig, n))
           IN Paired(more, n) /\ LastBatch(more, n, Len(more))
<1> DEFINE more == Append(items, Assistant(sig, n))
<1>1. /\ Len(more) = Len(items) + 1 /\ Len(items) \in Nat /\ Len(items) > 0
      /\ \A i \in 1 .. Len(items) : more[i] = items[i]
      /\ more[Len(more)] = Assistant(sig, n)
  BY ItemKinds
<1>2. /\ Assistant(sig, n).kind = "assistant" /\ Assistant(sig, n).calls = n
      /\ \A i \in 1 .. Len(items) : items[i].kind = "assistant" => items[i].calls \in Nat
  BY ItemKinds
<1>3. more[1].kind = "user"
  BY <1>1 DEF Paired
<1> HIDE DEF more
<1>4. ASSUME NEW i \in 1 .. Len(more), more[i].kind = "assistant"
      PROVE  /\ i + more[i].calls <= Len(more) + n
             /\ \A k \in 1 .. more[i].calls : i + k <= Len(more) => more[i + k] = ToolResult(k)
  <2>1. CASE i = Len(more)
    BY <1>1, <1>2, <2>1
  <2>2. CASE i \in 1 .. Len(items)
    <3>1. items[i].kind = "assistant" /\ more[i].calls = items[i].calls
      BY <1>1, <1>4, <2>2
    <3>2. i + items[i].calls <= Len(items)
      BY <2>2, <3>1 DEF Paired
    <3>3. ASSUME NEW k \in 1 .. items[i].calls
          PROVE  more[i + k] = ToolResult(k)
      <4>1. i + k \in 1 .. Len(items) /\ i + k <= Len(items)
        BY <1>1, <1>2, <2>2, <3>1, <3>2
      <4>2. items[i + k] = ToolResult(k)
        BY <2>2, <3>1, <4>1 DEF Paired
      <4>3. QED
        BY <1>1, <4>1, <4>2
    <3>4. QED
      BY <1>1, <1>2, <2>2, <3>1, <3>2, <3>3
  <2>3. QED
    BY <1>1, <2>1, <2>2
<1>5. ASSUME NEW j \in 1 .. Len(more), more[j].kind = "result"
      PROVE  \E i \in 1 .. j - 1 : more[i].kind = "assistant" /\ j - i <= more[i].calls
  <2>1. j \in 1 .. Len(items) /\ items[j].kind = "result"
    BY <1>1, <1>2, <1>5
  <2>2. PICK i \in 1 .. j - 1 : items[i].kind = "assistant" /\ j - i <= items[i].calls
    BY <2>1 DEF Paired
  <2>3. i \in 1 .. Len(items) /\ more[i] = items[i] /\ more[j] = items[j]
    BY <1>1, <2>1
  <2>4. more[i].kind = "assistant" /\ j - i <= more[i].calls
    BY <2>2, <2>3
  <2>5. QED
    BY <2>4
<1>6. LastBatch(more, n, Len(more))
  BY <1>1, <1>2 DEF LastBatch
<1>7. QED
  BY <1>3, <1>4, <1>5, <1>6 DEF Paired, more

\* The next result of the last batch: it owes one less.
LEMMA AppendResult ==
    ASSUME NEW items \in Seq(Item), NEW left \in Nat, left > 0, Paired(items, left),
           NEW b, LastBatch(items, left, b)
    PROVE  LET more == Append(items, ToolResult(items[b].calls - left + 1))
           IN Paired(more, left - 1) /\ LastBatch(more, left - 1, b)
<1> DEFINE next == items[b].calls - left + 1
           more == Append(items, ToolResult(next))
<1>1. /\ b \in 1 .. Len(items) /\ items[b].kind = "assistant" /\ items[b].calls \in Nat
      /\ b + items[b].calls = Len(items) + left
      /\ \A j \in b + 1 .. Len(items) : items[j].kind # "assistant"
  BY ItemKinds DEF LastBatch
<1>2. next = Len(items) + 1 - b /\ next \in 1 .. items[b].calls
  BY <1>1
<1>3. ToolResult(next) \in Item /\ ToolResult(next).kind = "result"
  <2> HIDE DEF next
  <2> QED
    BY <1>1, <1>2, ItemKinds
<1> HIDE DEF next
<1>4. /\ Len(more) = Len(items) + 1 /\ Len(items) \in Nat /\ Len(items) > 0
      /\ \A i \in 1 .. Len(items) : more[i] = items[i]
      /\ more[Len(more)] = ToolResult(next)
  BY <1>1, <1>3
<1>5. \A i \in 1 .. Len(items) : items[i].kind = "assistant" => items[i].calls \in Nat
  BY ItemKinds
<1>6. more[1].kind = "user"
  BY <1>4 DEF Paired
<1> HIDE DEF more
<1>7. ASSUME NEW i \in 1 .. Len(more), more[i].kind = "assistant"
      PROVE  /\ i + more[i].calls <= Len(more) + (left - 1)
             /\ \A k \in 1 .. more[i].calls : i + k <= Len(more) => more[i + k] = ToolResult(k)
  <2>1. i \in 1 .. Len(items) /\ items[i].kind = "assistant" /\ more[i].calls = items[i].calls
    BY <1>3, <1>4, <1>7
  <2>2. i + items[i].calls <= Len(items) + left
    BY <2>1 DEF Paired
  <2>3. i <= b
    BY <1>1, <1>4, <2>1
  <2>p. ASSUME NEW k \in 1 .. items[i].calls, i + k <= Len(items)
        PROVE  more[i + k] = ToolResult(k)
    <3>1. i + k \in 1 .. Len(items)
      BY <1>4, <1>5, <2>1, <2>p
    <3>2. items[i + k] = ToolResult(k)
      BY <2>1, <2>p DEF Paired
    <3>3. QED
      BY <1>4, <3>1, <3>2
  <2>4. CASE i = b
    <3>1. ASSUME NEW k \in 1 .. items[i].calls, i + k <= Len(more)
          PROVE  more[i + k] = ToolResult(k)
      <4>1. CASE i + k <= Len(items)
        BY <2>p, <4>1
      <4>2. CASE i + k = Len(more)
        <5>1. k = next
          BY <1>1, <1>2, <1>4, <2>4, <4>2
        <5>2. QED
          BY <1>4, <4>2, <5>1
      <4>3. QED
        BY <1>1, <1>4, <2>4, <3>1, <4>1, <4>2
    <3>2. i + items[i].calls <= Len(more) + (left - 1)
      BY <1>1, <1>4, <2>4
    <3>3. QED
      BY <2>1, <3>1, <3>2
  <2>5. CASE i < b
    <3>1. i + items[i].calls < b
      <4> SUFFICES ASSUME b - i <= items[i].calls PROVE FALSE
        BY <1>1, <1>5, <2>1
      <4>1. b - i \in 1 .. items[i].calls /\ i + (b - i) = b
        BY <1>1, <1>5, <2>1, <2>5
      <4>2. items[b] = ToolResult(b - i)
        BY <1>1, <2>1, <4>1 DEF Paired
      <4>3. QED
        BY <1>1, <4>1, <4>2, ItemKinds
    <3>2. ASSUME NEW k \in 1 .. items[i].calls
          PROVE  i + k <= Len(items)
      BY <1>1, <1>5, <2>1, <3>1
    <3>3. i + items[i].calls <= Len(more) + (left - 1)
      BY <1>1, <1>4, <1>5, <2>1, <3>1
    <3>4. QED
      BY <2>1, <2>p, <3>2, <3>3
  <2>6. QED
    BY <1>1, <2>1, <2>3, <2>4, <2>5
<1>8. ASSUME NEW j \in 1 .. Len(more), more[j].kind = "result"
      PROVE  \E i \in 1 .. j - 1 : more[i].kind = "assistant" /\ j - i <= more[i].calls
  <2>1. CASE j = Len(more)
    <3>1. b \in 1 .. j - 1 /\ more[b].kind = "assistant" /\ j - b <= more[b].calls
      BY <1>1, <1>2, <1>4, <2>1
    <3>2. QED
      BY <3>1
  <2>2. CASE j \in 1 .. Len(items)
    <3>1. PICK i \in 1 .. j - 1 : items[i].kind = "assistant" /\ j - i <= items[i].calls
      BY <1>4, <1>8, <2>2 DEF Paired
    <3>2. QED
      BY <1>4, <2>2, <3>1
  <2>3. QED
    BY <1>4, <2>1, <2>2
<1>9. LastBatch(more, left - 1, b)
  BY <1>1, <1>3, <1>4 DEF LastBatch
<1>10. QED
  BY <1>6, <1>7, <1>8, <1>9 DEF Paired, more, next

-----------------------------------------------------------------------------
\* What is kept from a cut that falls on no result is paired, with or without
\* d = 1 item put before it, as long as it opens with a user item.
LEMMA TailPaired ==
    ASSUME NEW items \in Seq(Item), Paired(items, 0),
           NEW cut \in 0 .. Len(items) - 1, cut = 0 \/ items[cut + 1].kind # "result",
           NEW d \in 0 .. 1, NEW more \in Seq(Item), Len(more) = Len(items) - cut + d,
           \A i \in d + 1 .. Len(more) : more[i] = items[i + cut - d],
           more[1].kind = "user"
    PROVE  Paired(more, 0)
<1>1. Len(items) \in Nat /\ cut \in Nat /\ cut < Len(items) /\ d \in {0, 1}
  OBVIOUS
<1>2. \A i \in 1 .. Len(items) : items[i].kind = "assistant" => items[i].calls \in Nat
  BY ItemKinds
<1>3. \A i \in 1 .. Len(more) : more[i].kind # "user" =>
         i \in d + 1 .. Len(more) /\ i + cut - d \in 1 .. Len(items) /\ more[i] = items[i + cut - d]
  BY <1>1
<1>4. ASSUME NEW i \in 1 .. Len(more), more[i].kind = "assistant"
      PROVE  /\ i + more[i].calls <= Len(more)
             /\ \A k \in 1 .. more[i].calls : i + k <= Len(more) => more[i + k] = ToolResult(k)
  <2>1. /\ i \in d + 1 .. Len(more) /\ i + cut - d \in 1 .. Len(items)
        /\ more[i] = items[i + cut - d]
    BY <1>3, <1>4
  <2>2. (i + cut - d) + more[i].calls <= Len(items) + 0 /\ more[i].calls \in Nat
    BY <1>2, <1>4, <2>1 DEF Paired
  <2>3. i + more[i].calls <= Len(more)
    <3>1. /\ Len(more) = Len(items) - cut + d /\ i \in Nat /\ Len(items) \in Nat
          /\ cut \in Nat /\ d \in Nat
      BY <1>1, <2>1
    <3>2. QED
      BY <2>2, <3>1
  <2>4. ASSUME NEW k \in 1 .. more[i].calls
        PROVE  more[i + k] = ToolResult(k)
    <3>1. (i + cut - d) + k <= Len(items)
      BY <1>1, <2>1, <2>2
    <3>2. items[(i + cut - d) + k] = ToolResult(k)
      BY <1>4, <2>1, <3>1 DEF Paired
    <3>3. k \in Nat /\ k >= 1 /\ k <= more[i].calls /\ i \in Nat /\ Len(more) \in Nat
      BY <2>2
    <3>a. d \in Nat /\ d + 1 <= i
      BY <1>1, <2>1
    <3>b. i + k <= Len(more)
      BY <2>2, <2>3, <3>3
    <3>4. i + k \in d + 1 .. Len(more)
      BY <3>3, <3>a, <3>b
    <3>5. (i + k) + cut - d = (i + cut - d) + k
      BY <1>1, <3>3
    <3>6. QED
      BY <3>2, <3>4, <3>5
  <2>5. QED
    BY <2>3, <2>4
<1>5. ASSUME NEW j \in 1 .. Len(more), more[j].kind = "result"
      PROVE  \E i \in 1 .. j - 1 : more[i].kind = "assistant" /\ j - i <= more[i].calls
  <2> DEFINE q == j + cut - d
  <2>1. j \in d + 1 .. Len(more) /\ q \in 1 .. Len(items) /\ items[q].kind = "result"
    BY <1>3, <1>5
  <2>2. PICK p \in 1 .. q - 1 : items[p].kind = "assistant" /\ q - p <= items[p].calls
    BY <2>1 DEF Paired
  <2>3. p \in 1 .. Len(items) /\ items[p].calls \in Nat
    <3> HIDE DEF q
    <3>1. p \in 1 .. Len(items)
      BY <2>1, <2>2
    <3>2. QED BY <1>2, <2>2, <3>1, ItemKinds
  <2>4. p > cut
    <3> SUFFICES ASSUME p <= cut PROVE FALSE
      BY <1>1, <2>3
    <3>1. cut # 0 /\ cut + 1 \in 1 .. Len(items)
      BY <1>1, <2>2, <2>3
    <3>2. cut + 1 - p \in 1 .. items[p].calls /\ p + (cut + 1 - p) = cut + 1
      BY <1>1, <2>1, <2>2, <2>3
    <3>3. items[cut + 1] = ToolResult(cut + 1 - p)
      <4>1. p + (cut + 1 - p) <= Len(items)
        BY <3>1, <3>2
      <4>2. items[p + (cut + 1 - p)] = ToolResult(cut + 1 - p)
        BY <2>2, <2>3, <3>2, <4>1 DEF Paired
      <4>3. QED
        BY <3>2, <4>2
    <3>4. QED
      BY <3>1, <3>2, <3>3, ItemKinds
  <2>5. PICK i \in Int : i = p - cut + d
    BY <1>1, <2>3
  <2>6. j \in Nat /\ p < j + cut - d /\ Len(more) \in Nat
    BY <1>1, <2>1, <2>2, <2>3
  <2>7. i \in d + 1 .. Len(more) /\ i \in 1 .. j - 1
    BY <1>1, <2>1, <2>3, <2>4, <2>5, <2>6
  <2>8. i + cut - d = p /\ j - i = q - p
    <3>1. cut \in Int /\ d \in Int /\ j \in Int /\ p \in Int
      BY <1>1, <2>3, <2>6
    <3>2. QED BY <2>5, <3>1
  <2> HIDE DEF q
  <2>9. more[i] = items[p]
    BY <2>7, <2>8
  <2>10. QED
    BY <2>2, <2>7, <2>8, <2>9
<1>6. Len(more) + 0 = Len(more)
  OBVIOUS
<1>7. QED
  BY <1>4, <1>5, <1>6 DEF Paired

-----------------------------------------------------------------------------
\* Walking back from a position ends at or before it, on no result.
LEMMA WalkBackStops ==
    ASSUME NEW items \in Seq(Item), NEW k \in 0 .. Len(items) - 1
    PROVE  /\ WalkBack(items, k) \in 0 .. k
           /\ WalkBack(items, k) = 0 \/ items[WalkBack(items, k) + 1].kind # "result"
<1> DEFINE S == {j \in 0 .. k : j = 0 \/ items[j + 1].kind \notin {"result", "reasoning"}}
<1>1. S \in SUBSET (0 .. k) /\ 0 \in S /\ k \in Nat
  OBVIOUS
<1>2. FSE!Max(S) \in S
  <2> HIDE DEF S
  <2> QED
    BY <1>1, GreatestNatural
<1>3. WalkBack(items, k) = FSE!Max(S)
  BY DEF WalkBack
<1>4. QED
  BY <1>2, <1>3

\* Walking on ends after the position, on no result, or at the end.
LEMMA WalkOnStops ==
    ASSUME NEW items \in Seq(Item), NEW k \in 0 .. Len(items) - 1
    PROVE  /\ WalkOn(items, k) \in 0 .. Len(items)
           /\ WalkOn(items, k) < Len(items) => items[WalkOn(items, k) + 1].kind # "result"
<1> DEFINE S == {j \in k + 1 .. Len(items) - 1 :
                    items[j + 1].kind = "user" \/ IsFinal(items[j + 1])} \cup {Len(items)}
<1>1. S \in SUBSET Nat /\ S # {} /\ S \in SUBSET (0 .. Len(items))
  OBVIOUS
<1>2. FSE!Min(S) \in S
  <2> HIDE DEF S
  <2> QED
    BY <1>1, LeastNatural
<1>3. WalkOn(items, k) = FSE!Min(S)
  BY DEF WalkOn
<1>4. QED
  BY <1>1, <1>2, <1>3 DEF IsFinal

\* The window is never empty.
LEMMA WindowSize == \A items \in Seq(Item) : Window(items) \in Nat \ {0}
<1> SUFFICES ASSUME NEW items \in Seq(Item) PROVE Window(items) \in Nat \ {0}
  OBVIOUS
<1> DEFINE Spoken == {i \in DOMAIN items : items[i].kind \in {"user", "assistant"}}
<1>1. Spoken \subseteq 1 .. Len(items) /\ Len(items) \in Nat
  OBVIOUS
<1>2. Cardinality(Spoken) \in Nat
  <2> HIDE DEF Spoken
  <2>1. IsFiniteSet(1 .. Len(items))
    BY <1>1, FS_Interval
  <2>2. QED
    BY <1>1, <2>1, FS_Subset, FS_CardinalityType
<1> HIDE DEF Spoken
<1>3. Window(items) = IF Cardinality(Spoken) >= Keep THEN Keep
                      ELSE IF Cardinality(Spoken) = 0 THEN 1 ELSE Cardinality(Spoken)
  BY DEF Window, Spoken
<1>4. QED
  BY <1>2, <1>3, ItemsAssumption

-----------------------------------------------------------------------------
\* The batches, and the nudges, of the run of identical steps from i on.
Steps(items, i)  == {j \in i .. Len(items) : SameRun(items, i, j) /\ items[j].kind = "assistant"}
Nudges(items, i) == {j \in i .. Len(items) : SameRun(items, i, j) /\ items[j] = Nudge}

IsBatch(items, i) == items[i].kind = "assistant" /\ items[i].calls > 0

\* The runs that reach the end of a history are the one the detector watches: it
\* has counted their steps, and knows of a nudge.
Tracked(items, run) ==
    \A i \in 1 .. Len(items) : IsBatch(items, i) /\ SameRun(items, i, Len(items)) =>
        /\ run.sig # NoSignature /\ items[i].sig = run.sig
        /\ Cardinality(Steps(items, i)) <= run.len
        /\ Cardinality(Nudges(items, i)) <= IF run.nudged THEN 1 ELSE 0

\* Runs are finite sets of positions.
LEMMA RunSets ==
    ASSUME NEW items \in Seq(Item), NEW i \in Nat
    PROVE  /\ IsFiniteSet(Steps(items, i)) /\ Cardinality(Steps(items, i)) \in Nat
           /\ IsFiniteSet(Nudges(items, i)) /\ Cardinality(Nudges(items, i)) \in Nat
           /\ Steps(items, i) \subseteq i .. Len(items)
           /\ Nudges(items, i) \subseteq i .. Len(items)
<1>1. Steps(items, i) \subseteq i .. Len(items) /\ Nudges(items, i) \subseteq i .. Len(items)
  BY DEF Steps, Nudges
<1>2. IsFiniteSet(i .. Len(items))
  BY FS_Interval
<1>3. IsFiniteSet(Steps(items, i)) /\ IsFiniteSet(Nudges(items, i))
  BY <1>1, <1>2, FS_Subset
<1>4. QED
  BY <1>1, <1>3, FS_CardinalityType

\* What RunsBounded says.
LEMMA RunsMean ==
    ASSUME NEW items \in Seq(Item)
    PROVE  RunsBounded(items) <=>
              \A i \in 1 .. Len(items) : IsBatch(items, i) =>
                  /\ Cardinality(Steps(items, i)) <= MaxIdentical
                  /\ Cardinality(Nudges(items, i)) <= 1
<1>1. \A i : /\ {j \in {m \in i .. Len(items) : SameRun(items, i, m)} : items[j].kind = "assistant"}
                  = Steps(items, i)
             /\ {j \in {m \in i .. Len(items) : SameRun(items, i, m)} : items[j] = Nudge}
                  = Nudges(items, i)
  BY DEF Steps, Nudges
<1>2. DOMAIN items = 1 .. Len(items)
  OBVIOUS
<1>3. QED
  BY <1>1, <1>2 DEF RunsBounded, IsBatch

\* An item that is appended belongs to a run that it does not end.
Continues(x, sig) == x.kind # "user" /\ (x.kind = "assistant" => x.sig = sig)

\* The runs of a history that grows by an item.
LEMMA RunGrows ==
    ASSUME NEW items \in Seq(Item), NEW x \in Item, NEW i \in 1 .. Len(items)
    PROVE  LET more == Append(items, x)
               end  == Len(items) + 1
               on   == SameRun(items, i, Len(items)) /\ Continues(x, items[i].sig)
           IN /\ more[i] = items[i] /\ Len(more) = end
              /\ SameRun(more, i, end) <=> on
              /\ Steps(more, i) = Steps(items, i)
                                    \cup {j \in {end} : on /\ x.kind = "assistant"}
              /\ Nudges(more, i) = Nudges(items, i) \cup {j \in {end} : on /\ x = Nudge}
<1> DEFINE more == Append(items, x)
           end  == Len(items) + 1
           on   == SameRun(items, i, Len(items)) /\ Continues(x, items[i].sig)
<1>1. /\ Len(more) = end /\ Len(items) \in Nat /\ i \in Nat /\ i >= 1 /\ i <= Len(items)
      /\ \A j \in 1 .. Len(items) : more[j] = items[j]
      /\ more[end] = x
  OBVIOUS
<1> HIDE DEF more
<1>2. \A j \in i .. Len(items) : SameRun(more, i, j) <=> SameRun(items, i, j)
  BY <1>1 DEF SameRun
<1>3. SameRun(more, i, end) <=> on
  <2>1. i .. end = (i .. Len(items)) \cup {end}
    BY <1>1
  <2>2. \A j \in i .. Len(items) : more[j] = items[j]
    BY <1>1
  <2>3. more[i] = items[i]
    BY <1>1
  <2>4. QED
    BY <1>1, <2>1, <2>2, <2>3 DEF SameRun, Continues
<1>4. i .. Len(more) = (i .. Len(items)) \cup {end} /\ end \notin i .. Len(items)
  BY <1>1
<1>5. \A j \in i .. Len(items) : more[j] = items[j]
  BY <1>1
<1> HIDE DEF end, on
<1>6. Steps(more, i) = Steps(items, i) \cup {j \in {end} : on /\ x.kind = "assistant"}
  BY <1>1, <1>2, <1>3, <1>4, <1>5 DEF Steps
<1>7. Nudges(more, i) = Nudges(items, i) \cup {j \in {end} : on /\ x = Nudge}
  BY <1>1, <1>2, <1>3, <1>4, <1>5 DEF Nudges
<1>8. more[i] = items[i]
  BY <1>1
<1>9. QED
  BY <1>1, <1>3, <1>6, <1>7, <1>8 DEF more, end, on

\* A set that may get one more element.
LEMMA GrowsByOne ==
    ASSUME NEW S, IsFiniteSet(S), NEW e, NEW on \in BOOLEAN
    PROVE  Cardinality(S \cup {j \in {e} : on}) <= Cardinality(S) + (IF on THEN 1 ELSE 0)
<1>1. Cardinality(S) \in Nat
  BY FS_CardinalityType
<1>2. CASE on
  <2>1. S \cup {j \in {e} : on} = S \cup {e}
    BY <1>2
  <2>2. Cardinality(S \cup {e}) = IF e \in S THEN Cardinality(S) ELSE Cardinality(S) + 1
    BY FS_AddElement
  <2>3. Cardinality(S \cup {j \in {e} : on}) = Cardinality(S \cup {e})
    BY <2>1
  <2> DEFINE old == Cardinality(S)
             new == Cardinality(S \cup {e})
  <2>4. old \in Nat /\ new \in {old, old + 1}
    BY <1>1, <2>2
  <2> HIDE DEF old, new
  <2>5. new <= old + 1
    BY <2>4
  <2>6. QED
    BY <1>2, <2>3, <2>5 DEF old, new
<1>3. CASE ~on
  <2>1. S \cup {j \in {e} : on} = S
    BY <1>3
  <2>2. Cardinality(S \cup {j \in {e} : on}) = Cardinality(S)
    BY <2>1
  <2>3. Cardinality(S) <= Cardinality(S) + 0
    BY <1>1
  <2>4. QED
    BY <1>3, <2>2, <2>3
<1>4. QED
  BY <1>2, <1>3

Weight(b) == IF b THEN 1 ELSE 0

\* An item is appended, and the detector has taken note of it.
LEMMA AppendTracked ==
    ASSUME NEW items \in Seq(Item), NEW x \in Item, NEW run, NEW next,
           run.len \in Nat, run.nudged \in BOOLEAN, next.len \in Nat, next.nudged \in BOOLEAN,
           RunsBounded(items), x.kind # "user" => Tracked(items, run),
           run.sig # NoSignature /\ Continues(x, run.sig) =>
              /\ next.sig = run.sig
              /\ run.len + Weight(x.kind = "assistant") <= next.len
              /\ Weight(run.nudged) + Weight(x = Nudge) <= Weight(next.nudged)
              /\ next.len <= MaxIdentical,
           x.kind = "assistant" /\ x.calls > 0 =>
              next.sig = x.sig /\ x.sig # NoSignature /\ 1 <= next.len
    PROVE  RunsBounded(Append(items, x)) /\ Tracked(Append(items, x), next)
<1> DEFINE more == Append(items, x)
           end  == Len(items) + 1
<1>1. /\ more \in Seq(Item) /\ Len(more) = end /\ Len(items) \in Nat /\ more[end] = x
      /\ MaxIdentical \in Nat \ {0}
  BY ItemsAssumption
<1>2. ASSUME NEW i \in 1 .. Len(items), IsBatch(more, i)
      PROVE  /\ Cardinality(Steps(more, i)) <= MaxIdentical /\ Cardinality(Nudges(more, i)) <= 1
             /\ SameRun(more, i, end) =>
                   /\ next.sig # NoSignature /\ more[i].sig = next.sig
                   /\ Cardinality(Steps(more, i)) <= next.len
                   /\ Cardinality(Nudges(more, i)) <= Weight(next.nudged)
  <2> DEFINE on == SameRun(items, i, Len(items)) /\ Continues(x, items[i].sig)
             a  == on /\ x.kind = "assistant"
             b  == on /\ x = Nudge
             S  == Steps(items, i)
             N  == Nudges(items, i)
  <2>1. /\ more[i] = items[i] /\ (SameRun(more, i, end) <=> on)
        /\ Steps(more, i) = S \cup {j \in {end} : a}
        /\ Nudges(more, i) = N \cup {j \in {end} : b}
    BY RunGrows
  <2>2. IsBatch(items, i)
    BY <1>2, <2>1 DEF IsBatch
  <2>3. /\ IsFiniteSet(S) /\ IsFiniteSet(N) /\ Cardinality(S) \in Nat /\ Cardinality(N) \in Nat
    BY RunSets
  <2>4. Cardinality(S) <= MaxIdentical /\ Cardinality(N) <= 1
    BY <2>2, RunsMean
  <2>5. on => /\ run.sig # NoSignature /\ items[i].sig = run.sig
              /\ Cardinality(S) <= run.len /\ Cardinality(N) <= Weight(run.nudged)
    BY <2>2 DEF Tracked, Weight, Continues
  <2>6. on => Continues(x, run.sig)
    BY <2>5
  <2>c. a \in BOOLEAN /\ b \in BOOLEAN /\ on \in BOOLEAN
    BY DEF SameRun, Continues
  <2>d. (a => x.kind = "assistant") /\ (b => x = Nudge) /\ (a => on) /\ (b => on)
    OBVIOUS
  <2>e. on => (x.kind = "assistant" <=> a) /\ (x = Nudge <=> b)
    OBVIOUS
  <2> HIDE DEF on, a, b, S, N
  <2>7. Cardinality(Steps(more, i)) <= Cardinality(S) + Weight(a)
    BY <2>1, <2>3, <2>c, GrowsByOne DEF Weight
  <2>8. Cardinality(Nudges(more, i)) <= Cardinality(N) + Weight(b)
    BY <2>1, <2>3, <2>c, GrowsByOne DEF Weight
  <2>9. Cardinality(Steps(more, i)) \in Nat /\ Cardinality(Nudges(more, i)) \in Nat
    <3>1. i \in Nat
      BY <1>1
    <3>2. QED
      BY <1>1, <3>1, RunSets
  <2>10. CASE on
    <3>1. /\ next.sig = run.sig /\ run.len + Weight(a) <= next.len
          /\ Weight(run.nudged) + Weight(b) <= Weight(next.nudged)
          /\ next.len <= MaxIdentical
      BY <2>5, <2>6, <2>10, <2>e DEF Weight
    <3>2. Cardinality(Steps(more, i)) <= next.len
      BY <2>3, <2>5, <2>7, <2>9, <2>10, <3>1 DEF Weight
    <3>3. Cardinality(Nudges(more, i)) <= Weight(next.nudged)
      BY <2>3, <2>5, <2>8, <2>9, <2>10, <3>1 DEF Weight
    <3>4. QED
      BY <1>1, <2>1, <2>5, <2>9, <2>10, <3>1, <3>2, <3>3 DEF Weight
  <2>11. CASE ~on
    BY <1>1, <2>1, <2>3, <2>4, <2>7, <2>8, <2>9, <2>11, <2>d DEF Weight
  <2>12. QED
    BY <2>10, <2>11
<1>3. ASSUME IsBatch(more, end)
      PROVE  /\ Cardinality(Steps(more, end)) = 1 /\ Cardinality(Nudges(more, end)) = 0
             /\ next.sig = x.sig /\ x.sig # NoSignature /\ 1 <= next.len
  <2>1. x.kind = "assistant" /\ x.calls > 0 /\ x # Nudge
    BY <1>1, <1>3 DEF IsBatch, Nudge
  <2>2. end .. Len(more) = {end}
    BY <1>1
  <2>3. SameRun(more, end, end)
    BY <1>1, <2>1 DEF SameRun
  <2>4. Steps(more, end) = {end} /\ Nudges(more, end) = {}
    BY <1>1, <2>1, <2>2, <2>3 DEF Steps, Nudges
  <2>5. Cardinality({end}) = 1 /\ Cardinality({}) = 0
    BY FS_Singleton, FS_EmptySet
  <2>6. QED
    BY <2>1, <2>4, <2>5
<1>5. \A i \in 1 .. Len(more) : i \in 1 .. Len(items) \/ i = end
  BY <1>1
<1>6. RunsBounded(more)
  <2>1. \A i \in 1 .. Len(more) : IsBatch(more, i) =>
           Cardinality(Steps(more, i)) <= MaxIdentical /\ Cardinality(Nudges(more, i)) <= 1
    <3> HIDE DEF more, end
    <3>1. SUFFICES ASSUME NEW i \in 1 .. Len(more), IsBatch(more, i)
                   PROVE  /\ Cardinality(Steps(more, i)) <= MaxIdentical
                          /\ Cardinality(Nudges(more, i)) <= 1
      OBVIOUS
    <3>2. CASE i \in 1 .. Len(items)
      BY <1>2, <3>1, <3>2
    <3>3. CASE i = end
      BY <1>1, <1>3, <3>1, <3>3
    <3>4. QED
      BY <1>5, <3>2, <3>3
  <2>2. QED
    BY <1>1, <2>1, RunsMean
<1>7. Tracked(more, next)
  <2> HIDE DEF more, end
  <2>1. ASSUME NEW i \in 1 .. Len(more), IsBatch(more, i), SameRun(more, i, Len(more))
        PROVE  /\ next.sig # NoSignature /\ more[i].sig = next.sig
               /\ Cardinality(Steps(more, i)) <= next.len
               /\ Cardinality(Nudges(more, i)) <= IF next.nudged THEN 1 ELSE 0
    <3>1. CASE i \in 1 .. Len(items)
      BY <1>1, <1>2, <2>1, <3>1 DEF Weight
    <3>2. CASE i = end
      <4>1. /\ Cardinality(Steps(more, i)) = 1 /\ Cardinality(Nudges(more, i)) = 0
            /\ next.sig = x.sig /\ x.sig # NoSignature /\ 1 <= next.len /\ more[i] = x
        BY <1>1, <1>3, <2>1, <3>2
      <4>2. QED
        BY <4>1
    <3>3. QED
      BY <1>5, <3>1, <3>2
  <2>2. QED
    BY <2>1 DEF Tracked
<1>8. QED
  BY <1>6, <1>7

\* What compaction keeps of a history: it all, or its end from a cut on that falls
\* on no result, with d = 1 user item put before it if it opens with none.
KeepsEnd(items, more) ==
    \E cut \in 0 .. Len(items) - 1 : \E d \in 0 .. 1 :
        /\ cut = 0 \/ items[cut + 1].kind # "result"
        /\ Len(more) = Len(items) - cut + d
        /\ \A i \in d + 1 .. Len(more) : more[i] = items[i + cut - d]
        /\ more[1].kind = "user"

\* The runs of the end of a history are those it had there.
LEMMA EndRuns ==
    ASSUME NEW items \in Seq(Item), NEW more \in Seq(Item), KeepsEnd(items, more),
           NEW run, run.len \in Nat, RunsBounded(items), Tracked(items, run)
    PROVE  RunsBounded(more) /\ Tracked(more, run)
<1>1. PICK cut \in 0 .. Len(items) - 1, d \in 0 .. 1 :
         /\ Len(more) = Len(items) - cut + d
         /\ \A i \in d + 1 .. Len(more) : more[i] = items[i + cut - d]
         /\ more[1].kind = "user"
  BY DEF KeepsEnd
<1> DEFINE shift == cut - d
<1>2. /\ Len(items) \in Nat /\ Len(more) \in Nat /\ shift \in Int /\ d \in Nat
      /\ Len(items) = Len(more) + shift /\ MaxIdentical \in Nat
      /\ \A i \in d + 1 .. Len(more) : more[i] = items[i + shift] /\ i + shift \in 1 .. Len(items)
  <2>1. /\ Len(items) \in Nat /\ Len(more) \in Nat /\ cut \in Nat /\ d \in Nat
        /\ MaxIdentical \in Nat
        /\ Len(more) = Len(items) - cut + d
    BY <1>1, ItemsAssumption
  <2>2. shift \in Int /\ Len(items) = Len(more) + shift
    BY <2>1
  <2>3. \A i \in d + 1 .. Len(more) : i + cut - d = i + shift /\ i + shift \in 1 .. Len(items)
    BY <2>1
  <2> HIDE DEF shift
  <2>4. \A i \in d + 1 .. Len(more) : more[i] = items[i + shift]
    BY <1>1, <2>3
  <2>5. QED
    BY <2>1, <2>2, <2>3, <2>4
<1>3. \A i \in 1 .. Len(more) : more[i].kind # "user" => i \in d + 1 .. Len(more)
  BY <1>1
<1> HIDE DEF shift
<1>4. ASSUME NEW i \in 1 .. Len(more), IsBatch(more, i)
      PROVE  /\ i + shift \in 1 .. Len(items) /\ more[i] = items[i + shift]
             /\ SameRun(more, i, Len(more)) <=> SameRun(items, i + shift, Len(items))
             /\ Cardinality(Steps(more, i)) <= Cardinality(Steps(items, i + shift))
             /\ Cardinality(Nudges(more, i)) <= Cardinality(Nudges(items, i + shift))
  <2> DEFINE o == i + shift
  <2>1. /\ i \in d + 1 .. Len(more) /\ i \in Nat /\ o \in Nat /\ o \in 1 .. Len(items)
        /\ more[i] = items[o]
    BY <1>2, <1>3, <1>4 DEF IsBatch
  <2>2. \A m \in i .. Len(more) : m + shift \in o .. Len(items) /\ more[m] = items[m + shift]
    BY <1>2, <2>1
  <2>3. ASSUME NEW j \in i .. Len(more)
        PROVE  SameRun(more, i, j) <=> SameRun(items, o, j + shift)
    <3>1. ASSUME SameRun(items, o, j + shift)
          PROVE  SameRun(more, i, j)
      <4>1. \A m \in i .. j : m + shift \in o .. j + shift /\ more[m] = items[m + shift]
        BY <1>2, <2>1, <2>2
      <4>2. QED
        BY <2>1, <3>1, <4>1 DEF SameRun
    <3>2. ASSUME SameRun(more, i, j)
          PROVE  SameRun(items, o, j + shift)
      <4>1. \A m \in o .. j + shift : m - shift \in i .. j /\ more[m - shift] = items[m]
        <5>1. \A m \in o .. j + shift : m - shift \in i .. j /\ (m - shift) + shift = m
          BY <1>2, <2>1
        <5>2. QED
          BY <2>2, <5>1
      <4>2. QED
        BY <2>1, <3>2, <4>1 DEF SameRun
    <3>3. QED
      BY <3>1, <3>2
  <2>4. SameRun(more, i, Len(more)) <=> SameRun(items, o, Len(items))
    <3>1. Len(more) \in i .. Len(more) /\ Len(more) + shift = Len(items)
      BY <1>2, <2>1
    <3>2. QED
      BY <2>3, <3>1
  <2>5. ASSUME NEW S \in SUBSET (i .. Len(more)), NEW T, IsFiniteSet(T),
               \A j \in S : j + shift \in T
        PROVE  Cardinality(S) <= Cardinality(T)
    <3> DEFINE f == [j \in S |-> j + shift]
    <3>1. f \in [S -> T] /\ \A j, k \in S : f[j] = f[k] => j = k
      BY <1>2, <2>1, <2>5
    <3> HIDE DEF f
    <3>2. f \in Injection(S, T)
      BY <3>1 DEF Injection, IsInjective
    <3>3. QED
      BY <2>5, <3>2, FS_Injection
  <2>6. Steps(more, i) \subseteq i .. Len(more) /\ Nudges(more, i) \subseteq i .. Len(more)
    BY <2>1, RunSets
  <2>7. IsFiniteSet(Steps(items, o)) /\ IsFiniteSet(Nudges(items, o))
    BY <2>1, RunSets
  <2>8. \A j \in Steps(more, i) : j + shift \in Steps(items, o)
    BY <2>2, <2>3 DEF Steps
  <2>9. \A j \in Nudges(more, i) : j + shift \in Nudges(items, o)
    BY <2>2, <2>3 DEF Nudges
  <2> HIDE DEF o
  <2>10. Cardinality(Steps(more, i)) <= Cardinality(Steps(items, o))
    BY <2>5, <2>6, <2>7, <2>8
  <2>11. Cardinality(Nudges(more, i)) <= Cardinality(Nudges(items, o))
    BY <2>5, <2>6, <2>7, <2>9
  <2>12. QED
    BY <2>1, <2>4, <2>10, <2>11 DEF o
<1>5. ASSUME NEW i \in 1 .. Len(more), IsBatch(more, i)
      PROVE  /\ Cardinality(Steps(more, i)) <= MaxIdentical /\ Cardinality(Nudges(more, i)) <= 1
             /\ SameRun(more, i, Len(more)) =>
                   /\ run.sig # NoSignature /\ more[i].sig = run.sig
                   /\ Cardinality(Steps(more, i)) <= Cardinality(Steps(items, i + shift))
                   /\ Cardinality(Steps(items, i + shift)) <= run.len
                   /\ Cardinality(Nudges(more, i)) <= Cardinality(Nudges(items, i + shift))
                   /\ Cardinality(Nudges(items, i + shift)) <= IF run.nudged THEN 1 ELSE 0
  <2> DEFINE o == i + shift
  <2>1. /\ o \in 1 .. Len(items) /\ more[i] = items[o]
        /\ SameRun(more, i, Len(more)) <=> SameRun(items, o, Len(items))
        /\ Cardinality(Steps(more, i)) <= Cardinality(Steps(items, o))
        /\ Cardinality(Nudges(more, i)) <= Cardinality(Nudges(items, o))
    BY <1>4, <1>5
  <2>2. IsBatch(items, o)
    BY <1>5, <2>1 DEF IsBatch
  <2> HIDE DEF o
  <2>3. Cardinality(Steps(items, o)) <= MaxIdentical /\ Cardinality(Nudges(items, o)) <= 1
    BY <2>1, <2>2, RunsMean
  <2>4. SameRun(items, o, Len(items)) =>
           /\ run.sig # NoSignature /\ items[o].sig = run.sig
           /\ Cardinality(Steps(items, o)) <= run.len
           /\ Cardinality(Nudges(items, o)) <= IF run.nudged THEN 1 ELSE 0
    BY <2>1, <2>2 DEF Tracked
  <2>5. /\ Cardinality(Steps(more, i)) \in Nat /\ Cardinality(Nudges(more, i)) \in Nat
        /\ Cardinality(Steps(items, o)) \in Nat /\ Cardinality(Nudges(items, o)) \in Nat
    <3>1. i \in Nat /\ o \in Nat
      BY <2>1
    <3>2. QED
      BY <3>1, RunSets
  <2>6. Cardinality(Steps(more, i)) <= MaxIdentical /\ Cardinality(Nudges(more, i)) <= 1
    BY <1>2, <2>1, <2>3, <2>5
  <2>7. QED
    BY <2>1, <2>4, <2>6 DEF o
<1>6. RunsBounded(more)
  BY <1>5, RunsMean
<1>7. ASSUME NEW i \in 1 .. Len(more), IsBatch(more, i), SameRun(more, i, Len(more))
      PROVE  /\ run.sig # NoSignature /\ more[i].sig = run.sig
             /\ Cardinality(Steps(more, i)) <= run.len
             /\ Cardinality(Nudges(more, i)) <= IF run.nudged THEN 1 ELSE 0
  <2> DEFINE a == Cardinality(Steps(more, i))
             b == Cardinality(Steps(items, i + shift))
             k == Cardinality(Nudges(more, i))
             m == Cardinality(Nudges(items, i + shift))
  <2>1. /\ run.sig # NoSignature /\ more[i].sig = run.sig
        /\ a <= b /\ b <= run.len
        /\ k <= m /\ m <= IF run.nudged THEN 1 ELSE 0
    BY <1>5, <1>7
  <2>2. a \in Nat /\ b \in Nat /\ k \in Nat /\ m \in Nat
    <3>1. i \in Nat /\ i + shift \in Nat
      BY <1>4, <1>7
    <3>2. QED
      BY <3>1, RunSets
  <2> HIDE DEF a, b, k, m
  <2>3. a <= run.len
    BY <2>1, <2>2
  <2>4. k <= IF run.nudged THEN 1 ELSE 0
    BY <2>1, <2>2
  <2>5. QED
    BY <2>1, <2>3, <2>4 DEF a, k
<1>8. Tracked(more, run)
  BY <1>7 DEF Tracked
<1>9. QED
  BY <1>6, <1>8

\* Compaction keeps a history, or its end.
LEMMA CompactIsEnd ==
    ASSUME NEW items \in Seq(Item), items # <<>>
    PROVE  \/ Compact(items) = items
           \/ /\ Compact(items) \in Seq(Item) /\ Compact(items) # <<>>
              /\ KeepsEnd(items, Compact(items))
<1> DEFINE cut  == CutPoint(items, Window(items))
           more == (IF items[cut + 1].kind = "user" THEN <<>> ELSE <<User(NoChat)>>)
                     \o SubSeq(items, cut + 1, Len(items))
<1>1. CASE ~NeedsCompaction(items) \/ cut >= Len(items)
  BY <1>1 DEF Compact
<1>2. CASE NeedsCompaction(items) /\ ~(cut >= Len(items))
  <2> DEFINE back == WalkBack(items, Len(items) - Window(items))
  <2>1. Len(items) - Window(items) \in 0 .. Len(items) - 1
    BY <1>2, WindowSize DEF NeedsCompaction
  <2>2. back \in 0 .. Len(items) - 1 /\ (back = 0 \/ items[back + 1].kind # "result")
    <3>1. back \in 0 .. Len(items) - Window(items)
      BY <2>1, WalkBackStops
    <3>2. back = 0 \/ items[back + 1].kind # "result"
      BY <2>1, WalkBackStops
    <3> HIDE DEF back
    <3>3. QED
      BY <2>1, <3>1, <3>2
  <2>3. cut \in 0 .. Len(items) - 1 /\ (cut = 0 \/ items[cut + 1].kind # "result")
    <3>1. cut = back \/ cut = WalkOn(items, back)
      BY DEF CutPoint
    <3>2. /\ WalkOn(items, back) \in 0 .. Len(items)
          /\ WalkOn(items, back) < Len(items) => items[WalkOn(items, back) + 1].kind # "result"
      BY <2>2, WalkOnStops
    <3> HIDE DEF cut, back
    <3>3. QED
      BY <1>2, <2>2, <3>1, <3>2
  <2>c. Compact(items) = more
    BY <1>2 DEF Compact
  <2> HIDE DEF cut
  <2>4. CASE items[cut + 1].kind = "user"
    <3>1. more = SubSeq(items, cut + 1, Len(items))
      BY <2>3, <2>4
    <3>2. PICK d \in 0 .. 1 : d = 0
      OBVIOUS
    <3>3. /\ more \in Seq(Item) /\ Len(more) = Len(items) - cut + d /\ Len(more) > 0
          /\ \A i \in d + 1 .. Len(more) : more[i] = items[i + cut - d]
          /\ more[1] = items[cut + 1]
      BY <2>3, <3>1, <3>2
    <3> HIDE DEF more
    <3>4. more[1].kind = "user" /\ cut \in 0 .. Len(items) - 1 /\ more # <<>>
      BY <2>3, <2>4, <3>3
    <3>5. KeepsEnd(items, more)
      BY <2>3, <3>3, <3>4, Zenon DEF KeepsEnd
    <3>6. QED
      BY <2>c, <3>3, <3>4, <3>5
  <2>5. CASE items[cut + 1].kind # "user"
    <3>1. User(NoChat) \in Item /\ User(NoChat).kind = "user"
      BY ItemKinds
    <3>2. more = <<User(NoChat)>> \o SubSeq(items, cut + 1, Len(items))
      BY <2>5
    <3>3. PICK d \in 0 .. 1 : d = 1
      OBVIOUS
    <3>4. /\ more \in Seq(Item) /\ Len(more) = Len(items) - cut + d /\ Len(more) > 0
          /\ \A i \in d + 1 .. Len(more) : more[i] = items[i + cut - d]
          /\ more[1] = User(NoChat)
      BY <2>3, <3>1, <3>2, <3>3
    <3> HIDE DEF more
    <3>5. more[1].kind = "user" /\ cut \in 0 .. Len(items) - 1 /\ more # <<>>
      BY <2>3, <3>1, <3>4
    <3>6. KeepsEnd(items, more)
      BY <2>3, <3>4, <3>5, Zenon DEF KeepsEnd
    <3>7. QED
      BY <2>c, <3>4, <3>5, <3>6
  <2>6. QED
    BY <2>4, <2>5
<1>3. QED
  BY <1>1, <1>2

\* Compaction keeps a history well paired, of items, and never empties one.
LEMMA CompactKeepsPairs ==
    ASSUME NEW items \in Seq(Item), Paired(items, 0), items # <<>>
    PROVE  Compact(items) \in Seq(Item) /\ Paired(Compact(items), 0) /\ Compact(items) # <<>>
<1> DEFINE more == Compact(items)
<1>1. CASE more = items
  BY <1>1
<1>2. CASE more \in Seq(Item) /\ more # <<>> /\ KeepsEnd(items, more)
  <2> HIDE DEF more
  <2>1. PICK cut \in 0 .. Len(items) - 1, d \in 0 .. 1 :
           /\ cut = 0 \/ items[cut + 1].kind # "result"
           /\ Len(more) = Len(items) - cut + d
           /\ \A i \in d + 1 .. Len(more) : more[i] = items[i + cut - d]
           /\ more[1].kind = "user"
    BY <1>2 DEF KeepsEnd
  <2>2. Paired(more, 0)
    BY <1>2, <2>1, TailPaired
  <2>3. QED
    BY <1>2, <2>2 DEF more
<1>3. QED
  BY <1>1, <1>2, CompactIsEnd
-----------------------------------------------------------------------------
(* The engine.                                                                 *)

Places   == {"idle", "load", "top", "ask", "asking", "calls", "call", "tool", "save", "done"}
Outcomes == {"none", "failed", "completed"}
RunState == [sig : Signatures \cup {NoSignature}, len : Nat, nudged : BOOLEAN]

ChatState == [pc : Places, session : Sessions \cup {NoSession}, items : Seq(Item), turns : Nat,
              run : RunState, left : Nat, aborted : BOOLEAN, outcome : Outcomes]

Typed ==
    /\ chat \in [Chats -> ChatState]
    /\ active \in [Sessions -> Chats \cup {NoChat}]
    /\ started \subseteq Sessions /\ pending \subseteq Sessions /\ cancelled \subseteq Chats
    /\ aborting \in Nat
    /\ disk \in [Sessions -> Seq(Item)]
    /\ cancels \in Nat
    /\ stillborn \subseteq Chats /\ overlapped \subseteq Chats
    /\ late \in [Chats -> Nat]
    /\ shrunk \subseteq Sessions

\* A chat that has begun has a session.
Begun == \A c \in Chats : chat[c].pc # "idle" => chat[c].session \in Sessions

-----------------------------------------------------------------------------
\* Each cancel puts one chat or one session down at most.
Counted ==
    /\ IsFiniteSet(cancelled) /\ IsFiniteSet(pending)
    /\ Cardinality(cancelled) + Cardinality(pending) <= cancels

\* A chat whose token was cancelled as it began gets no further than the head
\* of its loop.
StillbornStops == \A c \in stillborn : c \in cancelled /\ chat[c].pc \in {"load", "top", "done"}

\* What starts late starts once: the token is looked at before the next thing.
LateOnce ==
    \A c \in Chats : late[c] # 0 =>
        /\ late[c] = 1 /\ c \in cancelled /\ c \notin stillborn
        /\ chat[c].pc \in {"asking", "calls", "tool", "save", "top", "done"}

\* Chats that are under way in one session know that they share it.
SharersKnown ==
    \A c, d \in Chats :
        c # d /\ InFlight(c) /\ InFlight(d) /\ chat[c].session = chat[d].session
            => c \in overlapped

TokenInv == Counted /\ StillbornStops /\ LateOnce /\ SharersKnown /\ LoneTurnCancellable

-----------------------------------------------------------------------------
\* Session files owe no result; a chat owes those of its last batch, while it
\* runs the batch.
PairInv ==
    /\ \A s \in Sessions : Paired(disk[s], 0)
    /\ \A c \in Chats :
          /\ chat[c].pc \in {"top", "ask", "asking", "save"} =>
                chat[c].items # <<>> /\ Paired(chat[c].items, 0)
          /\ chat[c].pc \in {"calls", "call", "tool"} =>
                /\ chat[c].items # <<>> /\ Paired(chat[c].items, chat[c].left)
                /\ \E b \in Nat : LastBatch(chat[c].items, chat[c].left, b)
          /\ chat[c].pc \in {"call", "tool"} => chat[c].left > 0

-----------------------------------------------------------------------------
Said(items, c) == \E i \in DOMAIN items : items[i] = User(c)

Loaded(c) == InFlight(c) /\ chat[c].pc # "load"

\* A turn holds its own user item, and those of the turns completed before it.
KeptInv ==
    \A c \in Chats :
        LET s == chat[c].session
        IN /\ Loaded(c) /\ s \notin shrunk => Said(chat[c].items, c)
           /\ chat[c].outcome = "completed" =>
                 /\ chat[c].pc = "done"
                 /\ c \notin overlapped /\ s \notin shrunk =>
                       /\ Said(disk[s], c)
                       /\ \A d \in Chats : Loaded(d) /\ chat[d].session = s => Said(chat[d].items,
                           c)

-----------------------------------------------------------------------------
\* A chat that has loaded its session, and has yet to end.
Watching == {"top", "ask", "asking", "calls", "call", "tool", "save"}

\* The detector watches the run that reaches the end of a chat's items, and stops
\* the turn before it asks again when the run has its full length.
RunInv ==
    /\ \A s \in Sessions : RunsBounded(disk[s])
    /\ \A c \in Chats :
          /\ chat[c].run.len <= MaxIdentical
          /\ chat[c].pc \in {"ask", "asking"} => chat[c].run.len < MaxIdentical
          /\ chat[c].pc \in Watching =>
                RunsBounded(chat[c].items) /\ Tracked(chat[c].items, chat[c].run)

Inv == Typed /\ Begun /\ TokenInv /\ PairInv /\ KeptInv /\ RunInv

-----------------------------------------------------------------------------
\* The locals of a chat stay of their type when some of them are set.
LEMMA ChatChanges ==
    ASSUME NEW w \in ChatState, NEW pc \in Places
    PROVE  /\ [w EXCEPT !.pc = pc] \in ChatState
           /\ \A s \in Sessions : [w EXCEPT !.pc = pc, !.session = s] \in ChatState
           /\ \A items \in Seq(Item) : [w EXCEPT !.pc = pc, !.items = items] \in ChatState
           /\ \A n \in Nat, items \in Seq(Item) :
                 /\ [w EXCEPT !.pc = pc, !.turns = n, !.items = items] \in ChatState
                 /\ [w EXCEPT !.pc = pc, !.left = n, !.items = items] \in ChatState
           /\ \A n \in Nat, items \in Seq(Item), run \in RunState :
                 [w EXCEPT !.pc = pc, !.items = items, !.run = run, !.left = n] \in ChatState
           /\ \A run \in RunState, items \in Seq(Item) :
                 [w EXCEPT !.pc = pc, !.run = run, !.items = items] \in ChatState
           /\ \A b \in BOOLEAN : [w EXCEPT !.aborted = b] \in ChatState
           /\ \A s \in Sessions \cup {NoSession}, outcome \in Outcomes :
                 [w EXCEPT !.pc = pc, !.session = s, !.outcome = outcome] \in ChatState
BY DEF ChatState

\* A chat that is new.
LEMMA NewChatType == NewChat \in ChatState
<1>1. NoRun \in RunState
  BY DEF NoRun, RunState
<1>2. <<>> \in Seq(Item)
  OBVIOUS
<1>3. QED
  BY <1>1, <1>2 DEF NewChat, ChatState, Places, Outcomes

\* The detector's run after a batch, and after a nudge.
LEMMA RunChanges ==
    ASSUME NEW run \in RunState
    PROVE  /\ \A sig \in Signatures \cup {NoSignature} : Observe(run, sig) \in RunState
           /\ \A b \in BOOLEAN : [run EXCEPT !.nudged = b] \in RunState
<1>1. \A n \in Nat : n + 1 \in Nat
  OBVIOUS
<1>2. \A n \in Nat : [run EXCEPT !.len = n] \in RunState
  BY DEF RunState
<1>3. run.len \in Nat
  BY DEF RunState
<1>4. [run EXCEPT !.len = run.len + 1] \in RunState
  BY <1>1, <1>2, <1>3
<1>5. \A sig \in Signatures \cup {NoSignature}, n \in Nat, b \in BOOLEAN :
         [sig |-> sig, len |-> n, nudged |-> b] \in RunState
  BY DEF RunState
<1>6. \A sig \in Signatures \cup {NoSignature} :
         [sig |-> sig, len |-> 1, nudged |-> FALSE] \in RunState
  BY <1>5
<1>7. \A b \in BOOLEAN : [run EXCEPT !.nudged = b] \in RunState
  BY DEF RunState
<1>8. QED
  BY <1>4, <1>6, <1>7 DEF Observe

\* What the end of a turn does.
LEMMA FinishEffect ==
    ASSUME Typed, NEW c \in Chats, chat[c].session \in Sessions,
           NEW outcome \in Outcomes, Finish(c, outcome)
    PROVE  /\ chat' \in [Chats -> ChatState]
           /\ chat'[c].pc = "done" /\ chat'[c].session = chat[c].session
           /\ chat'[c].outcome = outcome
           /\ \A d \in Chats : d # c => chat'[d] = chat[d]
           /\ active' \in [Sessions -> Chats \cup {NoChat}]
           /\ active'[chat[c].session] = NoChat
           /\ \A s \in Sessions : s # chat[c].session => active'[s] = active[s]
           /\ UNCHANGED <<started, pending, cancelled, aborting>>
<1>1. "done" \in Places
  BY DEF Places
<1>2. [NewChat EXCEPT !.pc = "done", !.session = chat[c].session, !.outcome = outcome] \in ChatState
  BY <1>1, NewChatType, ChatChanges
<1>3. chat' \in [Chats -> ChatState]
  BY <1>2 DEF Finish, Typed
<1>4. /\ chat'[c].pc = "done" /\ chat'[c].session = chat[c].session /\ chat'[c].outcome = outcome
      /\ \A d \in Chats : d # c => chat'[d] = chat[d]
  BY NewChatType DEF Finish, Typed, ChatState
<1>5. QED
  BY <1>3, <1>4 DEF Finish, Typed

\* The turn fails: dropped, refused, stopped, or without an answer.
Fails(c) ==
    /\ InFlight(c) /\ Finish(c, "failed")
    /\ UNCHANGED <<disk, historyVars>>

\* Most ends of a turn are failures that save nothing.
LEMMA FailingSteps ==
    \A c \in Chats :
        /\ Refused(c) \/ Dropped(c) \/ StopTurn(c) \/ RequestFails(c) => Fails(c)
        /\ TakeCall(c) /\ c \in cancelled => Fails(c)
BY DEF Refused, Dropped, StopTurn, RequestFails, TakeCall, Fails, InFlight

-----------------------------------------------------------------------------
\* A file that is not there holds no run.
LEMMA NoFileBounded == RunsBounded(NoFile)
BY DEF RunsBounded, NoFile

\* The initial state.
LEMMA InitInv == Init => Inv
<1> SUFFICES ASSUME Init PROVE Inv
  OBVIOUS
<1>1. \A c \in Chats : chat[c] = NewChat
  BY DEF Init
<1>2. NewChat.pc = "idle" /\ NewChat.outcome = "none"
  BY DEF NewChat
<1>3. Typed
  <2>1. NoFile \in Seq(Item)
    BY DEF NoFile
  <2>2. chat \in [Chats -> ChatState]
    BY NewChatType DEF Init
  <2>3. QED
    BY <2>1, <2>2 DEF Init, Typed
<1>4. Begun
  BY <1>1, <1>2 DEF Begun
<1>5. TokenInv
  <2>1. Counted
    BY FS_EmptySet DEF Init, Counted
  <2>2. QED
    BY <1>1, <1>2, <2>1 DEF Init, TokenInv, StillbornStops, LateOnce, SharersKnown,
       LoneTurnCancellable, InFlight
<1>6. PairInv
  <2>1. Paired(NoFile, 0)
    BY DEF NoFile, Paired
  <2>2. QED
    BY <1>1, <1>2, <2>1 DEF Init, PairInv
<1>7. KeptInv
  BY <1>1, <1>2 DEF KeptInv, Loaded, InFlight
<1>8. RunInv
  <2>1. NewChat.run.len = 0 /\ MaxIdentical \in Nat
    BY ItemsAssumption DEF NewChat, NoRun
  <2>2. \A s \in Sessions : disk[s] = NoFile
    BY DEF Init
  <2>3. QED
    BY <1>1, <1>2, <2>1, <2>2, NoFileBounded DEF RunInv, Watching
<1>9. QED
  BY <1>3, <1>4, <1>5, <1>6, <1>7, <1>8 DEF Inv

-----------------------------------------------------------------------------
\* Where the last batch is, the position of the call that runs.
LEMMA CallPositions ==
    ASSUME NEW items \in Seq(Item), NEW left \in Nat, NEW b, LastBatch(items, left, b)
    PROVE  /\ CallPosition(items, left) = items[b].calls - left + 1
           /\ CallPosition(items, left) \in Nat
<1> DEFINE IsLast(i) == items[i].kind = "assistant"
                           /\ \A j \in i + 1 .. Len(items) : items[j].kind # "assistant"
<1>1. b \in DOMAIN items /\ IsLast(b)
  BY DEF LastBatch
<1>2. \A i \in DOMAIN items : IsLast(i) => i = b
  BY <1>1
<1>3. b = CHOOSE i \in DOMAIN items : IsLast(i)
  BY <1>1, <1>2
<1>4. CallPosition(items, left) = items[b].calls - left + 1
  BY <1>3 DEF CallPosition
<1>5. items[b].calls - left + 1 \in Nat
  BY ItemKinds DEF LastBatch
<1>6. QED
  BY <1>4, <1>5

\* Every step keeps the types.
LEMMA TypeStep == Typed /\ Begun /\ PairInv /\ Next => Typed' /\ Begun'
<1> SUFFICES ASSUME Typed, Begun, PairInv, Next PROVE Typed' /\ Begun'
  OBVIOUS
<1>p. {"idle", "load", "top", "ask", "asking", "calls", "call", "tool", "save", "done"}
        \subseteq Places
  BY DEF Places
<1>o. "failed" \in Outcomes /\ "completed" \in Outcomes
  BY DEF Outcomes
<1>n. \A n \in Nat : n + 1 \in Nat
  OBVIOUS
<1>c. ASSUME NEW c \in Chats
      PROVE  /\ chat[c] \in ChatState /\ chat[c].items \in Seq(Item) /\ chat[c].left \in Nat
             /\ chat[c].run \in RunState /\ chat[c].turns \in Nat
  BY DEF Typed, ChatState
<1>s. ASSUME NEW c \in Chats, InFlight(c)
      PROVE  chat[c].session \in Sessions
  BY <1>s DEF InFlight, Begun
<1>w. ASSUME NEW c \in Chats, NEW w \in ChatState, chat' = [chat EXCEPT ![c] = w],
             w.pc # "idle" => w.session \in Sessions
      PROVE  chat' \in [Chats -> ChatState] /\ Begun'
  BY <1>w DEF Typed, Begun
<1>f. ASSUME NEW c \in Chats, InFlight(c), NEW o \in Outcomes, Finish(c, o)
      PROVE  chat' \in [Chats -> ChatState] /\ Begun'
          /\ active' \in [Sessions -> Chats \cup {NoChat}]
  BY <1>s, <1>f, FinishEffect DEF Begun
<1>1. ASSUME NEW c \in Chats, NEW s \in Sessions, BeginChat(c, s)
      PROVE  Typed' /\ Begun'
  <2>1. [chat[c] EXCEPT !.pc = "load", !.session = s] \in ChatState
    BY <1>c, <1>p, ChatChanges
  <2>2. chat' = [chat EXCEPT ![c] = [chat[c] EXCEPT !.pc = "load", !.session = s]]
    BY <1>1 DEF BeginChat
  <2>3. [chat[c] EXCEPT !.pc = "load", !.session = s].session = s
    BY <1>c DEF ChatState
  <2>4. chat' \in [Chats -> ChatState] /\ Begun'
    BY <1>w, <2>1, <2>2, <2>3
  <2>5. overlapped' \subseteq Chats
    BY <1>1 DEF BeginChat, Typed
  <2>6. QED
    BY <1>1, <2>4, <2>5 DEF BeginChat, Typed
<1>2. ASSUME NEW c \in Chats, Fails(c)
      PROVE  Typed' /\ Begun'
  BY <1>2, <1>o, <1>f DEF Fails, Finish, historyVars, Typed
<1>3. ASSUME NEW c \in Chats, LoadSession(c)
      PROVE  Typed' /\ Begun'
  <2>1. chat[c].session \in Sessions
    BY <1>3, <1>s DEF LoadSession, InFlight
  <2>2. Append(disk[chat[c].session], User(c)) \in Seq(Item)
    BY <2>1, ItemKinds DEF Typed
  <2>3. [chat[c] EXCEPT !.pc = "top", !.items = Append(disk[chat[c].session], User(c))]
          \in ChatState
    BY <1>c, <1>p, <2>2, ChatChanges
  <2>4. chat' \in [Chats -> ChatState] /\ Begun'
    BY <1>3, <1>w, <1>c, <2>1, <2>3 DEF LoadSession, ChatState
  <2>5. QED
    BY <1>3, <2>4 DEF LoadSession, tokenVars, historyVars, Typed
<1>4. ASSUME NEW c \in Chats, NextRequest(c)
      PROVE  Typed' /\ Begun'
  <2>1. chat[c].session \in Sessions
    BY <1>4, <1>s DEF NextRequest, InFlight
  <2>2. Compact(chat[c].items) \in Seq(Item)
    BY <1>4, <1>c, CompactKeepsPairs DEF NextRequest, PairInv
  <2>3. [chat[c] EXCEPT !.pc = "ask", !.turns = @ + 1, !.items = Compact(chat[c].items)]
          \in ChatState
    BY <1>c, <1>p, <1>n, <2>2, ChatChanges
  <2> DEFINE w == [chat[c] EXCEPT !.pc = "ask", !.turns = @ + 1, !.items = Compact(chat[c].items)]
  <2>a. chat' = [chat EXCEPT ![c] = w]
    BY <1>4 DEF NextRequest
  <2>b. w.session = chat[c].session
    BY <1>c DEF ChatState
  <2>4. chat' \in [Chats -> ChatState] /\ Begun'
    BY <1>w, <2>1, <2>3, <2>a, <2>b
  <2>5. shrunk' \subseteq Sessions
    BY <1>4, <2>1 DEF NextRequest, Typed
  <2>6. QED
    BY <1>4, <2>4, <2>5 DEF NextRequest, tokenVars, Typed
<1>5. ASSUME NEW c \in Chats, SendRequest(c) \/ StartTool(c)
      PROVE  Typed' /\ Begun'
  <2>1. chat[c].session \in Sessions
    BY <1>5, <1>s DEF SendRequest, StartTool, InFlight
  <2>2. [chat[c] EXCEPT !.pc = "asking"] \in ChatState
      /\ [chat[c] EXCEPT !.pc = "tool"] \in ChatState
    BY <1>c, <1>p, ChatChanges
  <2>3. chat' \in [Chats -> ChatState] /\ Begun'
    BY <1>5, <1>w, <1>c, <2>1, <2>2 DEF SendRequest, StartTool, ChatState
  <2>4. late' \in [Chats -> Nat]
    BY <1>5 DEF SendRequest, StartTool, CountLate, Typed
  <2>5. QED
    BY <1>5, <2>3, <2>4 DEF SendRequest, StartTool, tokenVars, Typed
<1>6. ASSUME NEW c \in Chats, NEW a \in Answers[c], Answered(c, a)
      PROVE  Typed' /\ Begun'
  <2>1. chat[c].session \in Sessions
    BY <1>6, <1>s DEF Answered, InFlight
  <2>2. a.calls \in Nat /\ a.sig \in Signatures \cup {NoSignature}
    BY EngineAssumption DEF Answer
  <2>3. chat[c].items \o AnswerItems(a) \in Seq(Item)
    <3>1. Assistant(a.sig, a.calls) \in Item /\ Reasoning \in Item
      BY <2>2, ItemKinds
    <3>2. AnswerItems(a) \in Seq(Item)
      BY <3>1 DEF AnswerItems
    <3>3. QED
      BY <1>c, <3>2
  <2>4. (IF a.calls = 0 THEN chat[c].run ELSE Observe(chat[c].run, a.sig)) \in RunState
    BY <1>c, <2>2, RunChanges
  <2>5. (IF a.calls = 0 THEN "save" ELSE "calls") \in Places
    BY <1>p
  <2>6. [chat[c] EXCEPT !.pc = IF a.calls = 0 THEN "save" ELSE "calls",
                        !.items = @ \o AnswerItems(a),
                        !.run = IF a.calls = 0 THEN @ ELSE Observe(@, a.sig),
                        !.left = a.calls] \in ChatState
    BY <1>c, <2>2, <2>3, <2>4, <2>5, ChatChanges
  <2> DEFINE w == [chat[c] EXCEPT !.pc = IF a.calls = 0 THEN "save" ELSE "calls",
                                  !.items = @ \o AnswerItems(a),
                                  !.run = IF a.calls = 0 THEN @ ELSE Observe(@, a.sig),
                                  !.left = a.calls]
  <2>a. chat' = [chat EXCEPT ![c] = w]
    BY <1>6 DEF Answered
  <2>b. w.session = chat[c].session
    BY <1>c DEF ChatState
  <2>7. chat' \in [Chats -> ChatState] /\ Begun'
    BY <1>w, <2>1, <2>6, <2>a, <2>b
  <2>8. QED
    BY <1>6, <2>7 DEF Answered, tokenVars, historyVars, Typed
<1>7. ASSUME NEW c \in Chats, TakeCall(c), c \notin cancelled
      PROVE  Typed' /\ Begun'
  <2>1. chat[c].session \in Sessions
    BY <1>7, <1>s DEF TakeCall, InFlight
  <2>2. [chat[c] EXCEPT !.pc = "call"] \in ChatState
    BY <1>c, <1>p, ChatChanges
  <2>3. chat' \in [Chats -> ChatState] /\ Begun'
    BY <1>7, <1>w, <1>c, <2>1, <2>2 DEF TakeCall, ChatState
  <2>4. QED
    BY <1>7, <2>3 DEF TakeCall, tokenVars, historyVars, Typed
<1>8. ASSUME NEW c \in Chats, ToolReturns(c)
      PROVE  Typed' /\ Begun'
  <2>1. chat[c].session \in Sessions
    BY <1>8, <1>s DEF ToolReturns, InFlight
  <2>2. chat[c].left > 0 /\ \E b \in Nat : LastBatch(chat[c].items, chat[c].left, b)
    BY <1>8 DEF ToolReturns, PairInv
  <2>3. PICK b \in Nat : LastBatch(chat[c].items, chat[c].left, b)
    BY <2>2
  <2> DEFINE k == CallPosition(chat[c].items, chat[c].left)
  <2>5. k \in Nat
    BY <1>c, <2>3, CallPositions
  <2>6. ToolResult(k) \in Item
    BY <2>5, ItemKinds
  <2>7. Append(chat[c].items, ToolResult(k)) \in Seq(Item) /\ chat[c].left - 1 \in Nat
    BY <1>c, <2>2, <2>6
  <2>8. [chat[c] EXCEPT !.pc = "calls", !.left = @ - 1, !.items = Append(@, ToolResult(k))]
          \in ChatState
    BY <1>c, <1>p, <2>7, ChatChanges
  <2> DEFINE w == [chat[c] EXCEPT !.pc = "calls", !.left = @ - 1, !.items = Append(@,
      ToolResult(k))]
  <2>a. chat' = [chat EXCEPT ![c] = w]
    BY <1>8 DEF ToolReturns
  <2>b. w.session = chat[c].session
    BY <1>c DEF ChatState
  <2>9. chat' \in [Chats -> ChatState] /\ Begun'
    BY <1>w, <2>1, <2>8, <2>a, <2>b
  <2>10. QED
    BY <1>8, <2>9 DEF ToolReturns, tokenVars, historyVars, Typed
<1>9. ASSUME NEW c \in Chats, BatchDone(c)
      PROVE  Typed' /\ Begun'
  <2> DEFINE nudge == TakesNudge(chat[c].run)
             items == IF nudge THEN Append(chat[c].items, Nudge) ELSE chat[c].items
             run   == [chat[c].run EXCEPT !.nudged = @ \/ nudge]
  <2>1. chat[c].session \in Sessions
    BY <1>9, <1>s DEF BatchDone, InFlight
  <2>2. items \in Seq(Item)
    BY <1>c, ItemKinds
  <2>3. run \in RunState
    <3>1. (chat[c].run.nudged \/ nudge) \in BOOLEAN
      BY DEF TakesNudge
    <3>2. QED
      BY <1>c, <3>1, RunChanges
  <2>4. [chat[c] EXCEPT !.pc = "save", !.run = run, !.items = items] \in ChatState
    <3> HIDE DEF run, items
    <3> QED
      BY <1>c, <1>p, <2>2, <2>3, ChatChanges
  <2>5. chat' = [chat EXCEPT ![c] = [chat[c] EXCEPT !.pc = "save", !.run = run, !.items = items]]
    BY <1>9 DEF BatchDone
  <2>6. [chat[c] EXCEPT !.pc = "save", !.run = run, !.items = items].session = chat[c].session
    BY <1>c DEF ChatState
  <2>7. chat' \in [Chats -> ChatState] /\ Begun'
    BY <1>w, <2>1, <2>4, <2>5, <2>6
  <2>8. QED
    BY <1>9, <2>7 DEF BatchDone, tokenVars, historyVars, Typed
<1>10. ASSUME NEW c \in Chats, SaveSession(c)
       PROVE  Typed' /\ Begun'
  <2>1. InFlight(c) /\ chat[c].session \in Sessions
    BY <1>10, <1>s DEF SaveSession, InFlight
  <2>2. [chat[c] EXCEPT !.pc = "top"] \in ChatState
    BY <1>c, <1>p, ChatChanges
  <2>3. CASE IsFinal(chat[c].items[Len(chat[c].items)])
    <3>1. Finish(c, "completed")
      BY <1>10, <2>3 DEF SaveSession
    <3>2. chat' \in [Chats -> ChatState] /\ Begun' /\ active' \in [Sessions -> Chats \cup {NoChat}]
      BY <1>f, <1>o, <2>1, <3>1
    <3>3. QED
      BY <1>10, <1>c, <2>1, <3>1, <3>2 DEF SaveSession, Finish, historyVars, Typed
  <2>4. CASE ~IsFinal(chat[c].items[Len(chat[c].items)])
    <3>1. chat' \in [Chats -> ChatState] /\ Begun'
      BY <1>10, <1>w, <1>c, <2>1, <2>2, <2>4 DEF SaveSession, ChatState
    <3>2. QED
      BY <1>10, <1>c, <2>1, <2>4, <3>1 DEF SaveSession, tokenVars, historyVars, Typed
  <2>5. QED
    BY <2>3, <2>4
<1>11. ASSUME NEW c \in Chats, SaveFails(c)
       PROVE  Typed' /\ Begun'
  <2>1. InFlight(c) /\ chat[c].session \in Sessions
    BY <1>11, <1>s DEF SaveFails, InFlight
  <2>2. chat' \in [Chats -> ChatState] /\ Begun' /\ active' \in [Sessions -> Chats \cup {NoChat}]
    BY <1>11, <1>f, <1>o, <2>1 DEF SaveFails
  <2>3. disk' \in [Sessions -> Seq(Item)]
    BY <1>11, <1>c, <2>1 DEF SaveFails, Typed
  <2>4. QED
    BY <1>11, <2>2, <2>3 DEF SaveFails, Finish, historyVars, Typed
<1>12. ASSUME NEW s \in Sessions, Cancel(s)
       PROVE  Typed' /\ Begun'
  BY <1>12 DEF Cancel, Typed, Begun
<1>13. ASSUME NEW s \in Sessions, DeleteSession(s)
       PROVE  Typed' /\ Begun'
  BY <1>13 DEF DeleteSession, tokenVars, NoFile, Typed, Begun
<1>14. ASSUME AbortHostStreams
       PROVE  Typed' /\ Begun'
  <2>1. PICK hosted \in SUBSET Chats :
           chat' = [c \in Chats |->
                      IF c \in hosted THEN [chat[c] EXCEPT !.aborted = TRUE] ELSE chat[c]]
    BY <1>14 DEF AbortHostStreams
  <2>2. chat' \in [Chats -> ChatState]
    BY <1>c, <2>1, ChatChanges DEF Places
  <2>3. \A c \in Chats : chat'[c].pc = chat[c].pc /\ chat'[c].session = chat[c].session
    BY <1>c, <2>1 DEF ChatState
  <2>4. aborting' \in Nat
    BY <1>14 DEF AbortHostStreams, Typed
  <2>5. QED
    BY <1>14, <2>2, <2>3, <2>4 DEF AbortHostStreams, historyVars, Typed, Begun
<1>15. ASSUME Crash
       PROVE  Typed' /\ Begun'
  <2> DEFINE Dead(c) == [NewChat EXCEPT !.pc = "done", !.session = chat[c].session,
                                        !.outcome = "failed"]
  <2>1. \A c \in Chats : chat'[c] = IF InFlight(c) THEN Dead(c) ELSE chat[c]
    BY <1>15 DEF Crash
  <2>2. ASSUME NEW c \in Chats
        PROVE  Dead(c) \in ChatState /\ Dead(c).session = chat[c].session
    <3>1. chat[c].session \in Sessions \cup {NoSession}
      BY <1>c DEF ChatState
    <3>2. Dead(c) \in ChatState
      BY <1>p, <1>o, <3>1, NewChatType, ChatChanges
    <3>3. QED
      BY <3>2, NewChatType DEF ChatState
  <2> HIDE DEF Dead
  <2>3. chat' \in [Chats -> ChatState]
    BY <1>15, <1>c, <2>2 DEF Crash, Dead
  <2>4. \A c \in Chats : chat'[c].pc # "idle" => chat'[c].session \in Sessions
    BY <1>s, <2>1, <2>2 DEF Begun
  <2>5. QED
    BY <1>15, <2>3, <2>4 DEF Crash, Typed, Begun
<1>16. QED
  BY <1>1, <1>2, <1>3, <1>4, <1>5, <1>6, <1>7, <1>8, <1>9, <1>10, <1>11, <1>12, <1>13, <1>14,
     <1>15, FailingSteps DEF Next, ChatStep
-----------------------------------------------------------------------------
\* A chat goes on at another place; nothing else of it is told here.
Moves(c, pc) ==
    /\ chat'[c].pc = pc /\ chat'[c].session = chat[c].session
    /\ chat'[c].outcome = chat[c].outcome
    /\ \A d \in Chats : d # c => chat'[d] = chat[d]

\* Where the steps of a turn lead.
LEMMA StepsMove ==
    ASSUME Typed, NEW c \in Chats
    PROVE  /\ \A s \in Sessions : BeginChat(c, s) =>
                 /\ chat'[c].pc = "load" /\ chat'[c].session = s
                 /\ chat'[c].outcome = chat[c].outcome
                 /\ \A d \in Chats : d # c => chat'[d] = chat[d]
           /\ LoadSession(c) => Moves(c, "top")
           /\ NextRequest(c) => Moves(c, "ask")
           /\ SendRequest(c) => Moves(c, "asking")
           /\ \A a : Answered(c, a) => Moves(c, IF a.calls = 0 THEN "save" ELSE "calls")
           /\ TakeCall(c) /\ c \notin cancelled => Moves(c, "call")
           /\ StartTool(c) => Moves(c, "tool")
           /\ ToolReturns(c) => Moves(c, "calls")
           /\ BatchDone(c) => Moves(c, "save")
           /\ SaveSession(c) /\ ~IsFinal(chat[c].items[Len(chat[c].items)]) => Moves(c, "top")
<1>1. chat \in [Chats -> ChatState] /\ chat[c] \in ChatState
  BY DEF Typed
<1>2. \A s \in Sessions : BeginChat(c, s) =>
         /\ chat'[c].pc = "load" /\ chat'[c].session = s /\ chat'[c].outcome = chat[c].outcome
         /\ \A d \in Chats : d # c => chat'[d] = chat[d]
  BY <1>1 DEF BeginChat, ChatState
<1>3. LoadSession(c) => Moves(c, "top")
  BY <1>1 DEF LoadSession, ChatState, Moves
<1>4. NextRequest(c) => Moves(c, "ask")
  BY <1>1 DEF NextRequest, ChatState, Moves
<1>5. SendRequest(c) => Moves(c, "asking")
  BY <1>1 DEF SendRequest, ChatState, Moves
<1>6. ASSUME NEW a, Answered(c, a)
      PROVE  Moves(c, IF a.calls = 0 THEN "save" ELSE "calls")
  BY <1>1, <1>6 DEF Answered, ChatState, Moves
<1>7. TakeCall(c) /\ c \notin cancelled => Moves(c, "call")
  BY <1>1 DEF TakeCall, ChatState, Moves
<1>8. StartTool(c) => Moves(c, "tool")
  BY <1>1 DEF StartTool, ChatState, Moves
<1>9. ToolReturns(c) => Moves(c, "calls")
  <2> DEFINE items == Append(chat[c].items, ToolResult(CallPosition(chat[c].items, chat[c].left)))
  <2> SUFFICES ASSUME ToolReturns(c) PROVE Moves(c, "calls")
    OBVIOUS
  <2>1. chat' = [chat EXCEPT ![c] = [chat[c] EXCEPT !.pc = "calls", !.left = @ - 1,
      !.items = items]]
    BY DEF ToolReturns
  <2> HIDE DEF items
  <2>2. QED
    BY <1>1, <2>1 DEF ChatState, Moves
<1>10. BatchDone(c) => Moves(c, "save")
  <2> DEFINE nudge == TakesNudge(chat[c].run)
             items == IF nudge THEN Append(chat[c].items, Nudge) ELSE chat[c].items
             run   == [chat[c].run EXCEPT !.nudged = @ \/ nudge]
  <2> SUFFICES ASSUME BatchDone(c) PROVE Moves(c, "save")
    OBVIOUS
  <2>1. chat' = [chat EXCEPT ![c] = [chat[c] EXCEPT !.pc = "save", !.run = run, !.items = items]]
    BY DEF BatchDone
  <2> HIDE DEF run, items, nudge
  <2>2. QED
    BY <1>1, <2>1 DEF ChatState, Moves
<1>11. SaveSession(c) /\ ~IsFinal(chat[c].items[Len(chat[c].items)]) => Moves(c, "top")
  BY <1>1 DEF SaveSession, ChatState, Moves
<1>12. QED
  BY <1>2, <1>3, <1>4, <1>5, <1>6, <1>7, <1>8, <1>9, <1>10, <1>11

\* What is known of the tokens survives a turn that goes on.
LEMMA MovesKeepTokens ==
    ASSUME Typed, TokenInv, NEW c \in Chats, InFlight(c), NEW pc \in Places, Moves(c, pc),
           pc \notin {"idle", "done"},
           UNCHANGED <<active, pending, cancelled, cancels, stillborn, overlapped>>,
           \A d \in Chats : d # c => late'[d] = late[d],
           c \in stillborn => pc \in {"load", "top"},
           late'[c] # 0 => /\ late'[c] = 1 /\ c \in cancelled /\ c \notin stillborn
                           /\ pc \in {"asking", "calls", "tool", "save", "top"}
    PROVE  TokenInv'
<1>1. \A d \in Chats : /\ (InFlight(d))' <=> InFlight(d)
                       /\ chat'[d].session = chat[d].session
  BY DEF Moves, InFlight
<1>2. Counted'
  BY DEF TokenInv, Counted
<1>3. StillbornStops'
  BY DEF Typed, TokenInv, StillbornStops, Moves
<1>4. LateOnce'
  BY DEF TokenInv, LateOnce, Moves
<1>5. SharersKnown' /\ LoneTurnCancellable'
  BY <1>1 DEF TokenInv, SharersKnown, LoneTurnCancellable
<1>6. QED
  BY <1>2, <1>3, <1>4, <1>5 DEF TokenInv

\* It survives the end of a turn: the token that is removed was its own or that
\* of a chat that knows it shares its session.
LEMMA FinishKeepsTokens ==
    ASSUME Typed, Begun, TokenInv, NEW c \in Chats, InFlight(c), NEW o \in Outcomes, Finish(c, o),
           UNCHANGED historyVars
    PROVE  TokenInv'
<1>1. chat[c].session \in Sessions
  BY DEF Begun, InFlight
<1>2. /\ chat'[c].pc = "done"
      /\ \A d \in Chats : d # c => chat'[d] = chat[d]
      /\ active'[chat[c].session] = NoChat
      /\ \A s \in Sessions : s # chat[c].session => active'[s] = active[s]
      /\ UNCHANGED <<started, pending, cancelled, aborting>>
  BY <1>1, FinishEffect
<1>3. UNCHANGED <<cancels, stillborn, overlapped, late>>
  BY DEF historyVars
<1>4. Counted'
  BY <1>2, <1>3 DEF TokenInv, Counted
<1>5. StillbornStops' /\ LateOnce'
  BY <1>2, <1>3 DEF Typed, TokenInv, StillbornStops, LateOnce
<1>6. \A d \in Chats : (InFlight(d))' => d # c /\ InFlight(d)
  BY <1>2 DEF InFlight
<1>7. SharersKnown'
  BY <1>2, <1>3, <1>6 DEF TokenInv, SharersKnown
<1>8. LoneTurnCancellable'
  <2> SUFFICES ASSUME NEW d \in Chats, (InFlight(d))', d \notin overlapped'
               PROVE  active'[chat'[d].session] = d
    BY DEF LoneTurnCancellable
  <2>1. d # c /\ InFlight(d) /\ chat'[d] = chat[d] /\ d \notin overlapped
    BY <1>2, <1>3, <1>6
  <2>2. chat[d].session # chat[c].session
    BY <2>1 DEF TokenInv, SharersKnown
  <2>3. chat[d].session \in Sessions
    BY <2>1 DEF Begun, InFlight
  <2>4. QED
    BY <1>2, <2>1, <2>2, <2>3 DEF TokenInv, LoneTurnCancellable
<1>9. QED
  BY <1>4, <1>5, <1>7, <1>8 DEF TokenInv

\* One more element counts for one at most.
LEMMA OneMore ==
    ASSUME NEW S, IsFiniteSet(S), NEW x
    PROVE  /\ IsFiniteSet(S \cup {x}) /\ Cardinality(S) \in Nat
           /\ Cardinality(S \cup {x}) \in Nat /\ Cardinality(S \cup {x}) <= Cardinality(S) + 1
<1>1. Cardinality(S) \in Nat
  BY FS_CardinalityType
<1>2. /\ IsFiniteSet(S \cup {x})
      /\ Cardinality(S \cup {x}) = IF x \in S THEN Cardinality(S) ELSE Cardinality(S) + 1
  BY FS_AddElement
<1>3. QED
  BY <1>1, <1>2

\* Every step keeps what is known of the tokens.
LEMMA TokenStep == Typed /\ Begun /\ TokenInv /\ Next => TokenInv'
<1> SUFFICES ASSUME Typed, Begun, TokenInv, Next PROVE TokenInv'
  OBVIOUS
<1>p. {"top", "ask", "asking", "calls", "call", "tool", "save"} \subseteq Places
  BY DEF Places
<1>o. "failed" \in Outcomes /\ "completed" \in Outcomes
  BY DEF Outcomes
<1>l. \A c \in Chats : late[c] \in Nat /\ 0 + 1 = 1
  BY DEF Typed
<1>t. ASSUME NEW c \in Chats, CountLate(c), late[c] = 0
      PROVE  /\ \A d \in Chats : d # c => late'[d] = late[d]
             /\ late'[c] # 0 => late'[c] = 1 /\ c \in cancelled
  BY <1>t DEF CountLate, Typed
<1>1. ASSUME NEW c \in Chats, NEW s \in Sessions, BeginChat(c, s)
      PROVE  TokenInv'
  <2> DEFINE others == {d \in Chats : InFlight(d) /\ chat[d].session = s}
  <2>1. /\ chat[c].pc = "idle" /\ chat'[c].pc = "load" /\ chat'[c].session = s
        /\ \A d \in Chats : d # c => chat'[d] = chat[d]
    BY <1>1, StepsMove DEF BeginChat
  <2>2. /\ cancelled' = cancelled \cup (IF s \in pending THEN {c} ELSE {})
        /\ stillborn' = stillborn \cup (IF s \in pending THEN {c} ELSE {})
        /\ pending' = pending \ {s} /\ UNCHANGED <<cancels, late>>
        /\ active'[s] = c /\ \A t \in Sessions : t # s => active'[t] = active[t]
        /\ overlapped' = overlapped \cup (IF others = {} THEN {} ELSE {c} \cup others)
    BY <1>1 DEF BeginChat, Typed
  <2>3. Counted'
    <3>1. /\ IsFiniteSet(cancelled) /\ IsFiniteSet(pending)
          /\ Cardinality(cancelled) + Cardinality(pending) <= cancels
      BY DEF TokenInv, Counted
    <3>2. Cardinality(cancelled) \in Nat /\ Cardinality(pending) \in Nat /\ cancels \in Nat
      BY <3>1, FS_CardinalityType DEF Typed
    <3>3. CASE s \in pending
      <4>1. cancelled' = cancelled \cup {c} /\ pending' = pending \ {s}
        BY <2>2, <3>3
      <4>2. /\ IsFiniteSet(cancelled') /\ Cardinality(cancelled') <= Cardinality(cancelled) + 1
            /\ Cardinality(cancelled') \in Nat
        BY <3>1, <4>1, OneMore
      <4>3. IsFiniteSet(pending') /\ Cardinality(pending') = Cardinality(pending) - 1
        BY <3>1, <3>3, <4>1, FS_RemoveElement
      <4>4. Cardinality(cancelled') + Cardinality(pending') <= cancels
        BY <3>1, <3>2, <4>2, <4>3
      <4>5. QED
        BY <2>2, <4>2, <4>3, <4>4 DEF Counted
    <3>4. CASE s \notin pending
      <4>1. cancelled' = cancelled /\ pending' = pending
        BY <2>2, <3>4
      <4>2. QED
        BY <2>2, <3>1, <4>1 DEF Counted
    <3>5. QED
      BY <3>3, <3>4
  <2>4. late[c] = 0 /\ c \notin stillborn
    BY <2>1 DEF TokenInv, LateOnce, StillbornStops
  <2>5. StillbornStops'
    BY <2>1, <2>2, <2>4 DEF Typed, TokenInv, StillbornStops
  <2>6. LateOnce'
    BY <2>1, <2>2, <2>4 DEF TokenInv, LateOnce
  <2>7. \A d \in Chats : (InFlight(d))' <=> d = c \/ InFlight(d)
    BY <2>1 DEF InFlight
  <2>8. SharersKnown'
    <3> SUFFICES ASSUME NEW d \in Chats, NEW e \in Chats, d # e, (InFlight(d))', (InFlight(e))',
                        chat'[d].session = chat'[e].session
                 PROVE  d \in overlapped'
      BY DEF SharersKnown
    <3>1. CASE d # c /\ e # c
      BY <2>1, <2>2, <2>7, <3>1 DEF TokenInv, SharersKnown
    <3>2. CASE d = c
      <4>1. e \in others
        BY <2>1, <2>7, <3>2
      <4>2. QED
        BY <2>2, <3>2, <4>1
    <3>3. CASE e = c
      <4>1. d \in others
        BY <2>1, <2>7, <3>3
      <4>2. QED
        BY <2>2, <4>1
    <3>4. QED
      BY <3>1, <3>2, <3>3
  <2>9. LoneTurnCancellable'
    <3> SUFFICES ASSUME NEW d \in Chats, (InFlight(d))', d \notin overlapped'
                 PROVE  active'[chat'[d].session] = d
      BY DEF LoneTurnCancellable
    <3>1. CASE d = c
      BY <2>1, <2>2, <3>1
    <3>2. CASE d # c
      <4>1. InFlight(d) /\ chat'[d] = chat[d] /\ d \notin overlapped
        BY <2>1, <2>2, <2>7, <3>2
      <4>2. chat[d].session # s
        <5> SUFFICES ASSUME chat[d].session = s PROVE FALSE
          OBVIOUS
        <5>1. d \in others
          BY <4>1
        <5>2. QED
          BY <2>2, <5>1
      <4>3. chat[d].session \in Sessions
        BY <4>1 DEF Begun, InFlight
      <4>4. QED
        BY <2>2, <4>1, <4>2, <4>3 DEF TokenInv, LoneTurnCancellable
    <3>3. QED
      BY <3>1, <3>2
  <2>10. QED
    BY <2>3, <2>5, <2>6, <2>8, <2>9 DEF TokenInv
<1>2. ASSUME NEW c \in Chats, Fails(c)
      PROVE  TokenInv'
  BY <1>2, <1>o, FinishKeepsTokens DEF Fails
<1>3. ASSUME NEW c \in Chats, LoadSession(c)
      PROVE  TokenInv'
  <2>1. chat[c].pc = "load" /\ Moves(c, "top")
    BY <1>3, StepsMove DEF LoadSession
  <2>2. InFlight(c) /\ late[c] = 0
    BY <2>1 DEF InFlight, TokenInv, LateOnce
  <2>3. UNCHANGED <<active, pending, cancelled, cancels, stillborn, overlapped, late>>
    BY <1>3 DEF LoadSession, tokenVars, historyVars
  <2>4. QED
    BY <1>p, <2>1, <2>2, <2>3, MovesKeepTokens
<1>4. ASSUME NEW c \in Chats, NextRequest(c)
      PROVE  TokenInv'
  <2>1. chat[c].pc = "top" /\ c \notin cancelled /\ Moves(c, "ask")
    BY <1>4, StepsMove DEF NextRequest, StopsAtTop
  <2>2. InFlight(c) /\ late[c] = 0 /\ c \notin stillborn
    BY <2>1 DEF InFlight, TokenInv, LateOnce, StillbornStops
  <2>3. UNCHANGED <<active, pending, cancelled, cancels, stillborn, overlapped, late>>
    BY <1>4 DEF NextRequest, tokenVars
  <2>4. QED
    BY <1>p, <2>1, <2>2, <2>3, MovesKeepTokens
<1>5. ASSUME NEW c \in Chats, SendRequest(c)
      PROVE  TokenInv'
  <2>1. chat[c].pc = "ask" /\ Moves(c, "asking") /\ CountLate(c)
    BY <1>5, StepsMove DEF SendRequest
  <2>2. InFlight(c) /\ late[c] = 0 /\ c \notin stillborn
    BY <2>1 DEF InFlight, TokenInv, LateOnce, StillbornStops
  <2>3. UNCHANGED <<active, pending, cancelled, cancels, stillborn, overlapped>>
    BY <1>5 DEF SendRequest, tokenVars
  <2>4. QED
    BY <1>p, <1>t, <2>1, <2>2, <2>3, MovesKeepTokens
<1>6. ASSUME NEW c \in Chats, NEW a \in Answers[c], Answered(c, a)
      PROVE  TokenInv'
  <2>1. PICK pc \in {"save", "calls"} : chat[c].pc = "asking" /\ Moves(c, pc)
    BY <1>6, StepsMove DEF Answered
  <2>2. InFlight(c) /\ c \notin stillborn
    BY <2>1 DEF InFlight, TokenInv, StillbornStops
  <2>3. UNCHANGED <<active, pending, cancelled, cancels, stillborn, overlapped, late>>
    BY <1>6 DEF Answered, tokenVars, historyVars
  <2>4. late[c] # 0 => late[c] = 1 /\ c \in cancelled
    BY DEF TokenInv, LateOnce
  <2>5. QED
    BY <1>p, <2>1, <2>2, <2>3, <2>4, MovesKeepTokens
<1>7. ASSUME NEW c \in Chats, TakeCall(c), c \notin cancelled
      PROVE  TokenInv'
  <2>1. chat[c].pc = "calls" /\ Moves(c, "call")
    BY <1>7, StepsMove DEF TakeCall
  <2>2. InFlight(c) /\ late[c] = 0 /\ c \notin stillborn
    BY <1>7, <2>1 DEF InFlight, TokenInv, LateOnce, StillbornStops
  <2>3. UNCHANGED <<active, pending, cancelled, cancels, stillborn, overlapped, late>>
    BY <1>7 DEF TakeCall, tokenVars, historyVars
  <2>4. QED
    BY <1>p, <2>1, <2>2, <2>3, MovesKeepTokens
<1>8. ASSUME NEW c \in Chats, StartTool(c)
      PROVE  TokenInv'
  <2>1. chat[c].pc = "call" /\ Moves(c, "tool") /\ CountLate(c)
    BY <1>8, StepsMove DEF StartTool
  <2>2. InFlight(c) /\ late[c] = 0 /\ c \notin stillborn
    BY <2>1 DEF InFlight, TokenInv, LateOnce, StillbornStops
  <2>3. UNCHANGED <<active, pending, cancelled, cancels, stillborn, overlapped>>
    BY <1>8 DEF StartTool, tokenVars
  <2>4. QED
    BY <1>p, <1>t, <2>1, <2>2, <2>3, MovesKeepTokens
<1>9. ASSUME NEW c \in Chats, ToolReturns(c) \/ BatchDone(c)
      PROVE  TokenInv'
  <2>1. PICK pc \in {"calls", "save"} : chat[c].pc \in {"tool", "calls"} /\ Moves(c, pc)
    BY <1>9, StepsMove DEF ToolReturns, BatchDone
  <2>2. InFlight(c) /\ c \notin stillborn
    BY <2>1 DEF InFlight, TokenInv, StillbornStops
  <2>3. UNCHANGED <<active, pending, cancelled, cancels, stillborn, overlapped, late>>
    BY <1>9 DEF ToolReturns, BatchDone, tokenVars, historyVars
  <2>4. late[c] # 0 => late[c] = 1 /\ c \in cancelled
    BY DEF TokenInv, LateOnce
  <2>5. QED
    BY <1>p, <2>1, <2>2, <2>3, <2>4, MovesKeepTokens
<1>10. ASSUME NEW c \in Chats, SaveSession(c)
       PROVE  TokenInv'
  <2>1. chat[c].pc = "save" /\ InFlight(c) /\ c \notin stillborn
    BY <1>10 DEF SaveSession, InFlight, TokenInv, StillbornStops
  <2>2. CASE IsFinal(chat[c].items[Len(chat[c].items)])
    BY <1>10, <1>o, <2>1, <2>2, FinishKeepsTokens DEF SaveSession
  <2>3. CASE ~IsFinal(chat[c].items[Len(chat[c].items)])
    <3>1. Moves(c, "top")
      BY <1>10, <2>3, StepsMove
    <3>2. UNCHANGED <<active, pending, cancelled, cancels, stillborn, overlapped, late>>
      BY <1>10, <2>3 DEF SaveSession, tokenVars, historyVars
    <3>3. late[c] # 0 => late[c] = 1 /\ c \in cancelled
      BY DEF TokenInv, LateOnce
    <3>4. QED
      BY <1>p, <2>1, <3>1, <3>2, <3>3, MovesKeepTokens
  <2>4. QED
    BY <2>2, <2>3
<1>11. ASSUME NEW c \in Chats, SaveFails(c)
       PROVE  TokenInv'
  <2>1. InFlight(c)
    BY <1>11 DEF SaveFails, InFlight
  <2>2. QED
    BY <1>11, <1>o, <2>1, FinishKeepsTokens DEF SaveFails
<1>12. ASSUME NEW s \in Sessions, Cancel(s)
       PROVE  TokenInv'
  <2>1. /\ cancels' = cancels + 1 /\ cancelled' = cancelled \cup ({active[s]} \ {NoChat})
        /\ pending' = IF active[s] = NoChat /\ s \notin started THEN pending \cup {s} ELSE pending
        /\ UNCHANGED <<chat, active, stillborn, overlapped, late>>
    BY <1>12 DEF Cancel
  <2>2. Counted'
    <3>1. /\ IsFiniteSet(cancelled) /\ IsFiniteSet(pending)
          /\ Cardinality(cancelled) + Cardinality(pending) <= cancels
      BY DEF TokenInv, Counted
    <3>2. Cardinality(cancelled) \in Nat /\ Cardinality(pending) \in Nat /\ cancels \in Nat
      BY <3>1, FS_CardinalityType DEF Typed
    <3>3. CASE active[s] = NoChat
      <4>1. cancelled' = cancelled /\ (pending' = pending \/ pending' = pending \cup {s})
        BY <2>1, <3>3
      <4>2. IsFiniteSet(pending') /\ Cardinality(pending') <= Cardinality(pending) + 1
            /\ Cardinality(pending') \in Nat
        <5>1. /\ IsFiniteSet(pending \cup {s}) /\ Cardinality(pending \cup {s}) \in Nat
              /\ Cardinality(pending \cup {s}) <= Cardinality(pending) + 1
          BY <3>1, OneMore
        <5>2. CASE pending' = pending
          BY <3>1, <3>2, <5>2
        <5>3. CASE pending' = pending \cup {s}
          BY <5>1, <5>3
        <5>4. QED
          BY <4>1, <5>2, <5>3
      <4>3. Cardinality(cancelled') = Cardinality(cancelled) /\ cancels' = cancels + 1
        BY <2>1, <4>1
      <4>4. Cardinality(cancelled') + Cardinality(pending') <= cancels'
        BY <3>1, <3>2, <4>2, <4>3
      <4>5. QED
        BY <3>1, <4>1, <4>2, <4>4 DEF Counted
    <3>4. CASE active[s] # NoChat
      <4>1. pending' = pending /\ cancelled' = cancelled \cup {active[s]}
        BY <2>1, <3>4
      <4>2. IsFiniteSet(cancelled') /\ Cardinality(cancelled') <= Cardinality(cancelled) + 1
            /\ Cardinality(cancelled') \in Nat
        BY <3>1, <4>1, OneMore
      <4>3. Cardinality(pending') = Cardinality(pending) /\ cancels' = cancels + 1
        BY <2>1, <4>1
      <4>4. Cardinality(cancelled') + Cardinality(pending') <= cancels'
        BY <3>1, <3>2, <4>2, <4>3
      <4>5. QED
        BY <3>1, <4>1, <4>2, <4>4 DEF Counted
    <3>5. QED
      BY <3>3, <3>4
  <2>3. StillbornStops' /\ LateOnce'
    BY <2>1 DEF TokenInv, StillbornStops, LateOnce
  <2>4. SharersKnown' /\ LoneTurnCancellable'
    BY <2>1 DEF TokenInv, SharersKnown, LoneTurnCancellable, InFlight
  <2>5. QED
    BY <2>2, <2>3, <2>4 DEF TokenInv
<1>13. ASSUME NEW s \in Sessions, DeleteSession(s)
       PROVE  TokenInv'
  BY <1>13 DEF DeleteSession, tokenVars, TokenInv, Counted, StillbornStops, LateOnce, SharersKnown,
     LoneTurnCancellable, InFlight
<1>14. ASSUME AbortHostStreams
       PROVE  TokenInv'
  <2>1. \A c \in Chats : chat'[c].pc = chat[c].pc /\ chat'[c].session = chat[c].session
    BY <1>14 DEF AbortHostStreams, Typed, ChatState
  <2>2. UNCHANGED <<active, pending, cancelled, cancels, stillborn, overlapped, late>>
    BY <1>14 DEF AbortHostStreams, historyVars
  <2>3. Counted' /\ StillbornStops' /\ LateOnce'
    BY <2>1, <2>2 DEF Typed, TokenInv, Counted, StillbornStops, LateOnce
  <2>4. SharersKnown' /\ LoneTurnCancellable'
    BY <2>1, <2>2 DEF TokenInv, SharersKnown, LoneTurnCancellable, InFlight
  <2>5. QED
    BY <2>3, <2>4 DEF TokenInv
<1>15. ASSUME Crash
       PROVE  TokenInv'
  <2>1. \A c \in Chats : IF InFlight(c) THEN chat'[c].pc = "done" ELSE chat'[c] = chat[c]
    BY <1>15 DEF Crash, NewChat
  <2>2. UNCHANGED <<cancelled, cancels, stillborn, overlapped, late>> /\ pending' = {}
    BY <1>15 DEF Crash
  <2>3. \A c \in Chats : ~(InFlight(c))'
    BY <2>1 DEF InFlight
  <2>4. Counted'
    <3>1. /\ IsFiniteSet(cancelled) /\ IsFiniteSet(pending)
          /\ Cardinality(cancelled) + Cardinality(pending) <= cancels
      BY DEF TokenInv, Counted
    <3>2. Cardinality(cancelled) \in Nat /\ Cardinality(pending) \in Nat /\ cancels \in Nat
      BY <3>1, FS_CardinalityType DEF Typed
    <3>3. IsFiniteSet(pending') /\ Cardinality(pending') = 0
      BY <2>2, FS_EmptySet
    <3>4. QED
      BY <2>2, <3>1, <3>2, <3>3 DEF Counted
  <2>5. StillbornStops' /\ LateOnce'
    BY <2>1, <2>2 DEF Typed, TokenInv, StillbornStops, LateOnce, InFlight
  <2>6. SharersKnown' /\ LoneTurnCancellable'
    BY <2>3 DEF SharersKnown, LoneTurnCancellable
  <2>7. QED
    BY <2>4, <2>5, <2>6 DEF TokenInv
<1>16. QED
  BY <1>1, <1>2, <1>3, <1>4, <1>5, <1>6, <1>7, <1>8, <1>9, <1>10, <1>11, <1>12, <1>13, <1>14,
     <1>15, FailingSteps DEF Next, ChatStep

-----------------------------------------------------------------------------
\* What is known of the histories when one chat changes and no file does.
LEMMA OneChatPairs ==
    ASSUME PairInv, disk' = disk, NEW c \in Chats,
           \A d \in Chats : d # c => chat'[d] = chat[d],
           chat'[c].pc \in {"top", "ask", "asking", "save"} =>
              chat'[c].items # <<>> /\ Paired(chat'[c].items, 0),
           chat'[c].pc \in {"calls", "call", "tool"} =>
              /\ chat'[c].items # <<>> /\ Paired(chat'[c].items, chat'[c].left)
              /\ \E b \in Nat : LastBatch(chat'[c].items, chat'[c].left, b),
           chat'[c].pc \in {"call", "tool"} => chat'[c].left > 0
    PROVE  PairInv'
BY DEF PairInv

\* The items of a turn are those before it, with its reasoning, and its answer.
LEMMA AnswerAppends ==
    ASSUME NEW items \in Seq(Item), NEW a \in Answer
    PROVE  items \o AnswerItems(a) =
              Append(IF a.reasoned THEN Append(items, Reasoning) ELSE items,
                     Assistant(a.sig, a.calls))
<1> DEFINE call == Assistant(a.sig, a.calls)
<1>1. Reasoning \in Item /\ call \in Item
  BY ItemKinds DEF Answer
<1> HIDE DEF call
<1>2. <<Reasoning>> \in Seq(Item) /\ <<call>> \in Seq(Item)
  BY <1>1
<1>3. AnswerItems(a) = (IF a.reasoned THEN <<Reasoning>> ELSE <<>>) \o <<call>>
  BY DEF AnswerItems, call
<1>4. items \o (<<Reasoning>> \o <<call>>) = Append(Append(items, Reasoning), call)
  <2>1. items \o (<<Reasoning>> \o <<call>>) = (items \o <<Reasoning>>) \o <<call>>
    BY <1>2, ConcatAssociative
  <2>2. Append(items, Reasoning) = items \o <<Reasoning>>
    BY <1>1, AppendIsConcat
  <2>3. Append(items, Reasoning) \in Seq(Item)
    BY <1>1
  <2>4. Append(Append(items, Reasoning), call) = Append(items, Reasoning) \o <<call>>
    BY <1>1, <2>3, AppendIsConcat
  <2>5. QED
    BY <2>1, <2>2, <2>4
<1>5. items \o (<<>> \o <<call>>) = Append(items, call)
  <2>1. <<>> \o <<call>> = <<call>>
    BY <1>2, ConcatEmptySeq
  <2>2. QED
    BY <1>1, <2>1, AppendIsConcat
<1>6. CASE a.reasoned
  BY <1>3, <1>4, <1>6 DEF call
<1>7. CASE ~a.reasoned
  BY <1>3, <1>5, <1>7 DEF call
<1>8. QED
  BY <1>6, <1>7

\* Every step keeps calls and results together.
LEMMA PairStep == Typed /\ Begun /\ PairInv /\ Next => PairInv'
<1> SUFFICES ASSUME Typed, Begun, PairInv, Next PROVE PairInv'
  OBVIOUS
<1>c. ASSUME NEW c \in Chats
      PROVE  /\ chat[c] \in ChatState /\ chat[c].items \in Seq(Item) /\ chat[c].left \in Nat
             /\ chat[c].pc # "idle" => chat[c].session \in Sessions
  BY DEF Typed, ChatState, Begun
<1>f. ASSUME NEW c \in Chats, InFlight(c), NEW o \in Outcomes, Finish(c, o)
      PROVE  chat'[c].pc = "done" /\ \A d \in Chats : d # c => chat'[d] = chat[d]
  <2>1. chat[c].session \in Sessions
    BY <1>c, <1>f DEF InFlight
  <2>2. QED
    BY <1>f, <2>1, FinishEffect
<1>o. "failed" \in Outcomes /\ "completed" \in Outcomes
  BY DEF Outcomes
<1>1. ASSUME NEW c \in Chats, NEW s \in Sessions, BeginChat(c, s)
      PROVE  PairInv'
  <2>1. chat'[c].pc = "load" /\ \A d \in Chats : d # c => chat'[d] = chat[d]
    BY <1>1, StepsMove
  <2>2. disk' = disk
    BY <1>1 DEF BeginChat
  <2>3. QED
    BY <2>1, <2>2, OneChatPairs
<1>2. ASSUME NEW c \in Chats, Fails(c)
      PROVE  PairInv'
  <2>1. chat'[c].pc = "done" /\ \A d \in Chats : d # c => chat'[d] = chat[d]
    BY <1>2, <1>f, <1>o DEF Fails
  <2>2. disk' = disk
    BY <1>2 DEF Fails
  <2>3. QED
    BY <2>1, <2>2, OneChatPairs
<1>3. ASSUME NEW c \in Chats, LoadSession(c)
      PROVE  PairInv'
  <2> DEFINE s == chat[c].session
  <2>1. s \in Sessions /\ Moves(c, "top") /\ disk' = disk
    BY <1>3, <1>c, StepsMove DEF LoadSession
  <2>2. chat'[c].items = Append(disk[s], User(c))
    BY <1>3, <1>c DEF LoadSession, Typed, ChatState
  <2>3. disk[s] \in Seq(Item) /\ Paired(disk[s], 0) /\ User(c) \in Item /\ User(c).kind = "user"
    BY <2>1, ItemKinds DEF Typed, PairInv
  <2> HIDE DEF s
  <2>4. Paired(chat'[c].items, 0) /\ chat'[c].items # <<>>
    BY <2>2, <2>3, AppendPlain
  <2>5. QED
    BY <2>1, <2>4, OneChatPairs DEF Moves
<1>4. ASSUME NEW c \in Chats, NextRequest(c)
      PROVE  PairInv'
  <2>1. Moves(c, "ask") /\ disk' = disk /\ chat[c].pc = "top"
    BY <1>4, StepsMove DEF NextRequest
  <2>2. chat'[c].items = Compact(chat[c].items)
    BY <1>4, <1>c DEF NextRequest, Typed, ChatState
  <2>3. Paired(chat'[c].items, 0) /\ chat'[c].items # <<>>
    BY <1>c, <2>1, <2>2, CompactKeepsPairs DEF PairInv
  <2>4. QED
    BY <2>1, <2>3, OneChatPairs DEF Moves
<1>5. ASSUME NEW c \in Chats, SendRequest(c)
      PROVE  PairInv'
  <2>1. Moves(c, "asking") /\ disk' = disk /\ chat[c].pc = "ask"
    BY <1>5, StepsMove DEF SendRequest
  <2>2. chat'[c].items = chat[c].items
    BY <1>5, <1>c DEF SendRequest, Typed, ChatState
  <2>3. QED
    BY <2>1, <2>2, OneChatPairs DEF Moves, PairInv
<1>6. ASSUME NEW c \in Chats, NEW a \in Answers[c], Answered(c, a)
      PROVE  PairInv'
  <2> DEFINE old == chat[c].items
             thought == IF a.reasoned THEN Append(old, Reasoning) ELSE old
             call == Assistant(a.sig, a.calls)
             more == Append(thought, call)
  <2>1. /\ Moves(c, IF a.calls = 0 THEN "save" ELSE "calls") /\ disk' = disk
        /\ chat[c].pc = "asking"
    BY <1>6, StepsMove DEF Answered
  <2>2. a \in Answer /\ a.calls \in Nat /\ a.sig \in Signatures \cup {NoSignature}
    BY EngineAssumption DEF Answer
  <2>3. old \in Seq(Item) /\ old # <<>> /\ Paired(old, 0)
    BY <1>c, <2>1 DEF PairInv
  <2>4. Reasoning \in Item /\ Reasoning.kind = "reasoning" /\ call \in Item
    BY <2>2, ItemKinds
  <2>5. thought \in Seq(Item) /\ thought # <<>> /\ Paired(thought, 0)
    <3> HIDE DEF old
    <3> QED
      BY <2>3, <2>4, AppendPlain
  <2>6. chat'[c].items = old \o AnswerItems(a) /\ chat'[c].left = a.calls
    BY <1>6, <1>c DEF Answered, Typed, ChatState
  <2>7. old \o AnswerItems(a) = more
    BY <2>2, <2>3, AnswerAppends
  <2> HIDE DEF old, thought
  <2>8. Paired(more, a.calls) /\ LastBatch(more, a.calls, Len(more)) /\ more # <<>>
        /\ Len(more) \in Nat
    BY <2>2, <2>4, <2>5, AppendBatch
  <2> HIDE DEF more
  <2>9. chat'[c].items = more
    BY <2>6, <2>7
  <2>10. CASE a.calls = 0
    BY <2>1, <2>6, <2>8, <2>9, <2>10, OneChatPairs DEF Moves
  <2>11. CASE a.calls # 0
    BY <2>1, <2>6, <2>8, <2>9, <2>11, OneChatPairs DEF Moves
  <2>12. QED
    BY <2>10, <2>11
<1>7. ASSUME NEW c \in Chats, TakeCall(c), c \notin cancelled
      PROVE  PairInv'
  <2>1. Moves(c, "call") /\ disk' = disk /\ chat[c].pc = "calls" /\ chat[c].left > 0
    BY <1>7, StepsMove DEF TakeCall
  <2>2. chat'[c].items = chat[c].items /\ chat'[c].left = chat[c].left
    BY <1>7, <1>c DEF TakeCall, Typed, ChatState
  <2>3. QED
    BY <2>1, <2>2, OneChatPairs DEF Moves, PairInv
<1>8. ASSUME NEW c \in Chats, StartTool(c)
      PROVE  PairInv'
  <2>1. Moves(c, "tool") /\ disk' = disk /\ chat[c].pc = "call"
    BY <1>8, StepsMove DEF StartTool
  <2>2. chat'[c].items = chat[c].items /\ chat'[c].left = chat[c].left
    BY <1>8, <1>c DEF StartTool, Typed, ChatState
  <2>3. QED
    BY <2>1, <2>2, OneChatPairs DEF Moves, PairInv
<1>9. ASSUME NEW c \in Chats, ToolReturns(c)
      PROVE  PairInv'
  <2> DEFINE k == CallPosition(chat[c].items, chat[c].left)
             more == Append(chat[c].items, ToolResult(k))
  <2>1. Moves(c, "calls") /\ disk' = disk /\ chat[c].pc = "tool"
    BY <1>9, StepsMove DEF ToolReturns
  <2>2. PICK b \in Nat : LastBatch(chat[c].items, chat[c].left, b)
    BY <2>1 DEF PairInv
  <2>3. chat[c].left > 0 /\ Paired(chat[c].items, chat[c].left)
    BY <2>1 DEF PairInv
  <2>4. k = chat[c].items[b].calls - chat[c].left + 1 /\ k \in Nat
    BY <1>c, <2>2, CallPositions
  <2>5. Paired(more, chat[c].left - 1) /\ LastBatch(more, chat[c].left - 1, b)
    BY <1>c, <2>2, <2>3, <2>4, AppendResult
  <2>6. more # <<>>
    BY <2>5 DEF LastBatch
  <2>7. chat'[c].items = more /\ chat'[c].left = chat[c].left - 1
    <3>1. chat' = [chat EXCEPT ![c] =
                     [chat[c] EXCEPT !.pc = "calls", !.left = @ - 1, !.items = more]]
      BY <1>9 DEF ToolReturns
    <3> HIDE DEF more
    <3>2. QED
      BY <1>c, <3>1 DEF Typed, ChatState
  <2> HIDE DEF more
  <2>8. QED
    BY <2>1, <2>5, <2>6, <2>7, OneChatPairs DEF Moves
<1>10. ASSUME NEW c \in Chats, BatchDone(c)
       PROVE  PairInv'
  <2> DEFINE nudge == TakesNudge(chat[c].run)
             items == IF nudge THEN Append(chat[c].items, Nudge) ELSE chat[c].items
             run   == [chat[c].run EXCEPT !.nudged = @ \/ nudge]
  <2>1. Moves(c, "save") /\ disk' = disk /\ chat[c].pc = "calls" /\ chat[c].left = 0
    BY <1>10, StepsMove DEF BatchDone
  <2>2. chat[c].items # <<>> /\ Paired(chat[c].items, 0) /\ chat[c].items \in Seq(Item)
    BY <1>c, <2>1 DEF PairInv
  <2>3. Nudge \in Item /\ Nudge.kind = "system"
    BY ItemKinds
  <2>4. items # <<>> /\ Paired(items, 0)
    BY <2>2, <2>3, AppendPlain
  <2>5. chat' = [chat EXCEPT ![c] = [chat[c] EXCEPT !.pc = "save", !.run = run, !.items = items]]
    BY <1>10 DEF BatchDone
  <2> HIDE DEF items, run
  <2>6. chat'[c].items = items
    BY <1>c, <2>5 DEF Typed, ChatState
  <2>7. QED
    BY <2>1, <2>4, <2>6, OneChatPairs DEF Moves
<1>s. ASSUME NEW c \in Chats, chat[c].pc = "save", disk' = disk \/
                disk' = [disk EXCEPT ![chat[c].session] = chat[c].items]
      PROVE  \A s \in Sessions : Paired(disk'[s], 0)
  BY <1>c, <1>s DEF Typed, PairInv
<1>11. ASSUME NEW c \in Chats, SaveSession(c) \/ SaveFails(c)
       PROVE  PairInv'
  <2>1. /\ chat[c].pc = "save" /\ InFlight(c)
        /\ disk' = disk \/ disk' = [disk EXCEPT ![chat[c].session] = chat[c].items]
    BY <1>11 DEF SaveSession, SaveFails, InFlight
  <2>2. \A s \in Sessions : Paired(disk'[s], 0)
    BY <1>s, <2>1
  <2>3. CASE \E o \in {"failed", "completed"} : Finish(c, o)
    <3>1. chat'[c].pc = "done" /\ \A d \in Chats : d # c => chat'[d] = chat[d]
      BY <1>f, <1>o, <2>1, <2>3
    <3>2. QED
      BY <2>2, <3>1 DEF PairInv
  <2>4. CASE ~\E o \in {"failed", "completed"} : Finish(c, o)
    <3>1. chat' = [chat EXCEPT ![c].pc = "top"]
      BY <1>11, <2>4 DEF SaveSession, SaveFails
    <3>2. /\ chat'[c].pc = "top" /\ chat'[c].items = chat[c].items
          /\ \A d \in Chats : d # c => chat'[d] = chat[d]
      BY <1>c, <3>1 DEF Typed, ChatState
    <3>3. QED
      BY <2>1, <2>2, <3>2 DEF PairInv
  <2>5. QED
    BY <2>3, <2>4
<1>12. ASSUME NEW s \in Sessions, Cancel(s)
       PROVE  PairInv'
  BY <1>12 DEF Cancel, PairInv
<1>13. ASSUME NEW s \in Sessions, DeleteSession(s)
       PROVE  PairInv'
  <2>1. Paired(NoFile, 0)
    BY DEF NoFile, Paired
  <2>2. chat' = chat /\ \A t \in Sessions : disk'[t] = disk[t] \/ disk'[t] = NoFile
    BY <1>13 DEF DeleteSession, Typed
  <2>3. QED
    BY <2>1, <2>2 DEF PairInv
<1>14. ASSUME AbortHostStreams
       PROVE  PairInv'
  <2>1. /\ disk' = disk
        /\ \A c \in Chats : /\ chat'[c].pc = chat[c].pc /\ chat'[c].items = chat[c].items
                             /\ chat'[c].left = chat[c].left
    BY <1>14, <1>c DEF AbortHostStreams, Typed, ChatState
  <2>2. QED
    BY <2>1 DEF PairInv
<1>15. ASSUME Crash
       PROVE  PairInv'
  <2>1. /\ disk' = disk
        /\ \A c \in Chats : chat'[c] = chat[c] \/ chat'[c].pc = "done"
    BY <1>15 DEF Crash, NewChat
  <2>2. QED
    BY <2>1 DEF PairInv
<1>16. QED
  BY <1>1, <1>2, <1>3, <1>4, <1>5, <1>6, <1>7, <1>8, <1>9, <1>10, <1>11, <1>12, <1>13, <1>14,
     <1>15, FailingSteps DEF Next, ChatStep

-----------------------------------------------------------------------------
\* What is known of the runs when one chat changes and no file does.
LEMMA OneChatRuns ==
    ASSUME RunInv, disk' = disk, NEW c \in Chats,
           \A d \in Chats : d # c => chat'[d] = chat[d],
           chat'[c].run.len <= MaxIdentical,
           chat'[c].pc \in {"ask", "asking"} => chat'[c].run.len < MaxIdentical,
           chat'[c].pc \in Watching =>
              RunsBounded(chat'[c].items) /\ Tracked(chat'[c].items, chat'[c].run)
    PROVE  RunInv'
BY DEF RunInv

\* An item is appended that is no batch of calls and no nudge: the detector has
\* nothing to note.
LEMMA AppendQuiet ==
    ASSUME NEW items \in Seq(Item), NEW x \in Item, NEW run \in RunState,
           run.len <= MaxIdentical,
           RunsBounded(items), x.kind # "user" => Tracked(items, run),
           x # Nudge, x.kind = "assistant" => x.calls = 0 /\ x.sig = NoSignature
    PROVE  RunsBounded(Append(items, x)) /\ Tracked(Append(items, x), run)
<1>1. run.len \in Nat /\ run.nudged \in BOOLEAN
  BY DEF RunState
<1>2. run.sig # NoSignature /\ Continues(x, run.sig) => x.kind # "assistant"
  BY DEF Continues
<1>3. run.sig # NoSignature /\ Continues(x, run.sig) =>
         /\ run.sig = run.sig
         /\ run.len + Weight(x.kind = "assistant") <= run.len
         /\ Weight(run.nudged) + Weight(x = Nudge) <= Weight(run.nudged)
         /\ run.len <= MaxIdentical
  BY <1>1, <1>2 DEF Weight
<1>4. ~(x.kind = "assistant" /\ x.calls > 0)
  OBVIOUS
<1>5. QED
  BY <1>1, <1>3, <1>4, AppendTracked

\* A batch of calls is appended, and the detector observes it.
LEMMA AppendObserved ==
    ASSUME NEW items \in Seq(Item), NEW run \in RunState, run.len < MaxIdentical,
           RunsBounded(items), Tracked(items, run),
           NEW sig \in Signatures, NEW n \in Nat
    PROVE  LET more == Append(items, Assistant(sig, n))
           IN /\ RunsBounded(more) /\ Tracked(more, Observe(run, sig))
              /\ Observe(run, sig).len <= MaxIdentical
<1> DEFINE x    == Assistant(sig, n)
           next == Observe(run, sig)
<1>1. /\ run.len \in Nat /\ run.nudged \in BOOLEAN /\ MaxIdentical \in Nat \ {0}
      /\ sig # NoSignature
  BY ItemsAssumption DEF RunState
<1>2. /\ x \in Item /\ x.kind = "assistant" /\ x.sig = sig /\ x # Nudge
  BY ItemKinds DEF Assistant
<1>3. /\ run.sig = sig => next.sig = sig /\ next.len = run.len + 1 /\ next.nudged = run.nudged
      /\ run.sig # sig => next.sig = sig /\ next.len = 1 /\ next.nudged = FALSE
  BY DEF Observe, RunState
<1> HIDE DEF x, next
<1>4. next.len \in Nat /\ next.nudged \in BOOLEAN /\ next.sig = sig /\ 1 <= next.len
      /\ next.len <= MaxIdentical
  <2>1. next.nudged \in BOOLEAN /\ next.sig = sig
    BY <1>1, <1>3, Zenon
  <2>2. next.len = run.len + 1 \/ next.len = 1
    BY <1>3, Zenon
  <2>3. QED
    BY <1>1, <2>1, <2>2
<1>5. run.sig # NoSignature /\ Continues(x, run.sig) =>
         /\ next.sig = run.sig
         /\ run.len + Weight(x.kind = "assistant") <= next.len
         /\ Weight(run.nudged) + Weight(x = Nudge) <= Weight(next.nudged)
         /\ next.len <= MaxIdentical
  BY <1>1, <1>2, <1>3, <1>4 DEF Continues, Weight
<1>6. RunsBounded(Append(items, x)) /\ Tracked(Append(items, x), next)
  BY <1>1, <1>2, <1>4, <1>5, AppendTracked
<1>7. QED
  BY <1>4, <1>6 DEF x, next

\* The nudge is appended, and latched.
LEMMA AppendNudge ==
    ASSUME NEW items \in Seq(Item), NEW run \in RunState, run.len <= MaxIdentical,
           RunsBounded(items), Tracked(items, run), ~run.nudged
    PROVE  LET more == Append(items, Nudge)
           IN RunsBounded(more) /\ Tracked(more, [run EXCEPT !.nudged = TRUE])
<1> DEFINE next == [run EXCEPT !.nudged = TRUE]
<1>1. run.len \in Nat /\ run.nudged \in BOOLEAN /\ Nudge \in Item /\ Nudge.kind = "system"
  BY ItemKinds DEF RunState
<1>2. next.len = run.len /\ next.nudged = TRUE /\ next.sig = run.sig
  BY DEF RunState
<1> HIDE DEF next
<1>3. run.sig # NoSignature /\ Continues(Nudge, run.sig) =>
         /\ next.sig = run.sig
         /\ run.len + Weight(Nudge.kind = "assistant") <= next.len
         /\ Weight(run.nudged) + Weight(Nudge = Nudge) <= Weight(next.nudged)
         /\ next.len <= MaxIdentical
  BY <1>1, <1>2 DEF Weight
<1>4. ~(Nudge.kind = "assistant" /\ Nudge.calls > 0)
  BY <1>1
<1>5. QED
  BY <1>1, <1>2, <1>3, <1>4, AppendTracked DEF next

\* Every step keeps the detector on the run that reaches the end of the items.
LEMMA RunStep == Typed /\ Begun /\ PairInv /\ RunInv /\ Next => RunInv'
<1> SUFFICES ASSUME Typed, Begun, PairInv, RunInv, Next PROVE RunInv'
  OBVIOUS
<1>c. ASSUME NEW c \in Chats
      PROVE  /\ chat[c] \in ChatState /\ chat[c].items \in Seq(Item) /\ chat[c].left \in Nat
             /\ chat[c].run \in RunState /\ chat[c].run.len \in Nat
             /\ chat[c].pc # "idle" => chat[c].session \in Sessions
  BY DEF Typed, ChatState, Begun, RunState
<1>r. ASSUME NEW c \in Chats
      PROVE  /\ chat[c].run.len <= MaxIdentical
             /\ chat[c].pc \in {"ask", "asking"} => chat[c].run.len < MaxIdentical
             /\ chat[c].pc \in Watching =>
                   RunsBounded(chat[c].items) /\ Tracked(chat[c].items, chat[c].run)
  BY DEF RunInv
<1>m. NoRun.len <= MaxIdentical /\ MaxIdentical \in Nat
  BY ItemsAssumption DEF NoRun
<1>f. ASSUME NEW c \in Chats, InFlight(c), NEW o \in Outcomes, Finish(c, o)
      PROVE  /\ chat'[c].pc = "done" /\ chat'[c].run.len <= MaxIdentical
             /\ \A d \in Chats : d # c => chat'[d] = chat[d]
  <2>1. chat[c].session \in Sessions
    BY <1>c, <1>f DEF InFlight
  <2>2. chat'[c] = [NewChat EXCEPT !.pc = "done", !.session = chat[c].session, !.outcome = o]
    BY <1>f DEF Finish, Typed
  <2>3. chat'[c].run = NoRun
    BY <2>2 DEF NewChat
  <2>4. QED
    BY <1>f, <1>m, <2>1, <2>3, FinishEffect
<1>o. "failed" \in Outcomes /\ "completed" \in Outcomes
  BY DEF Outcomes
<1>g. ASSUME NEW c \in Chats, disk' = disk, \A d \in Chats : d # c => chat'[d] = chat[d],
             chat[c].pc \in Watching, chat'[c].items = chat[c].items, chat'[c].run = chat[c].run,
             chat'[c].pc \in {"ask", "asking"} => chat[c].pc \in {"ask", "asking"}
      PROVE  RunInv'
  BY <1>g, <1>r, OneChatRuns
<1>1. ASSUME NEW c \in Chats, NEW s \in Sessions, BeginChat(c, s)
      PROVE  RunInv'
  <2>1. chat'[c].pc = "load" /\ \A d \in Chats : d # c => chat'[d] = chat[d]
    BY <1>1, StepsMove
  <2>2. disk' = disk /\ chat'[c].run = chat[c].run
    BY <1>1, <1>c DEF BeginChat, Typed, ChatState
  <2>3. QED
    BY <1>r, <2>1, <2>2, OneChatRuns DEF Watching
<1>2. ASSUME NEW c \in Chats, Fails(c)
      PROVE  RunInv'
  <2>1. /\ chat'[c].pc = "done" /\ chat'[c].run.len <= MaxIdentical
        /\ \A d \in Chats : d # c => chat'[d] = chat[d]
    BY <1>2, <1>f, <1>o DEF Fails
  <2>2. disk' = disk
    BY <1>2 DEF Fails
  <2>3. QED
    BY <2>1, <2>2, OneChatRuns DEF Watching
<1>3. ASSUME NEW c \in Chats, LoadSession(c)
      PROVE  RunInv'
  <2> DEFINE s == chat[c].session
  <2>1. s \in Sessions /\ Moves(c, "top") /\ disk' = disk
    BY <1>3, <1>c, StepsMove DEF LoadSession
  <2>2. chat'[c].items = Append(disk[s], User(c)) /\ chat'[c].run = chat[c].run
    BY <1>3, <1>c DEF LoadSession, Typed, ChatState
  <2>3. /\ disk[s] \in Seq(Item) /\ RunsBounded(disk[s])
        /\ User(c) \in Item /\ User(c).kind = "user" /\ User(c) # Nudge
    BY <2>1, ItemKinds DEF Typed, RunInv
  <2> HIDE DEF s
  <2>4. RunsBounded(chat'[c].items) /\ Tracked(chat'[c].items, chat'[c].run)
    BY <1>c, <1>r, <2>2, <2>3, AppendQuiet
  <2>5. QED
    BY <1>r, <2>1, <2>2, <2>4, OneChatRuns DEF Moves
<1>4. ASSUME NEW c \in Chats, NextRequest(c)
      PROVE  RunInv'
  <2> DEFINE items == chat[c].items
             more  == Compact(items)
  <2>1. Moves(c, "ask") /\ disk' = disk /\ chat[c].pc = "top" /\ chat[c].pc \in Watching
    BY <1>4, StepsMove DEF NextRequest, Watching
  <2>2. chat'[c].items = more /\ chat'[c].run = chat[c].run
    BY <1>4, <1>c DEF NextRequest, Typed, ChatState
  <2>3. chat[c].run.len < MaxIdentical
    BY <1>4, <1>c, <1>m DEF NextRequest, StopsAtTop, HardStop
  <2>4. items \in Seq(Item) /\ items # <<>>
    BY <1>c, <2>1 DEF PairInv
  <2>5. RunsBounded(items) /\ Tracked(items, chat[c].run)
    BY <1>r, <2>1
  <2> HIDE DEF items, more
  <2>6. \/ more = items
        \/ more \in Seq(Item) /\ more # <<>> /\ KeepsEnd(items, more)
    BY <2>4, CompactIsEnd DEF more
  <2>7. RunsBounded(more) /\ Tracked(more, chat[c].run)
    BY <1>c, <2>4, <2>5, <2>6, EndRuns
  <2>8. QED
    BY <1>r, <2>1, <2>2, <2>3, <2>7, OneChatRuns DEF Moves
<1>5. ASSUME NEW c \in Chats, SendRequest(c)
      PROVE  RunInv'
  <2>1. Moves(c, "asking") /\ disk' = disk /\ chat[c].pc = "ask" /\ chat[c].pc \in Watching
    BY <1>5, StepsMove DEF SendRequest, Watching
  <2>2. chat'[c].items = chat[c].items /\ chat'[c].run = chat[c].run
    BY <1>5, <1>c DEF SendRequest, Typed, ChatState
  <2>3. QED
    BY <1>g, <2>1, <2>2 DEF Moves
<1>6. ASSUME NEW c \in Chats, NEW a \in Answers[c], Answered(c, a)
      PROVE  RunInv'
  <2> DEFINE old == chat[c].items
             run == chat[c].run
             thought == IF a.reasoned THEN Append(old, Reasoning) ELSE old
             more == Append(thought, Assistant(a.sig, a.calls))
  <2>1. /\ Moves(c, IF a.calls = 0 THEN "save" ELSE "calls") /\ disk' = disk
        /\ chat[c].pc = "asking" /\ chat[c].pc \in Watching
    BY <1>6, StepsMove DEF Answered, Watching
  <2>2. /\ a \in Answer /\ a.calls \in Nat /\ a.sig \in Signatures \cup {NoSignature}
        /\ a.calls = 0 <=> a.sig = NoSignature
    BY EngineAssumption DEF Answer
  <2>3. /\ old \in Seq(Item) /\ RunsBounded(old) /\ Tracked(old, run) /\ run \in RunState
        /\ run.len < MaxIdentical /\ run.len <= MaxIdentical
    BY <1>c, <1>r, <2>1
  <2>4. chat'[c].items = more
    <3>1. chat'[c].items = old \o AnswerItems(a)
      BY <1>6, <1>c DEF Answered, Typed, ChatState
    <3>2. QED
      BY <2>2, <2>3, <3>1, AnswerAppends
  <2>5. chat'[c].run = IF a.calls = 0 THEN run ELSE Observe(run, a.sig)
    BY <1>6, <1>c DEF Answered, Typed, ChatState
  <2> HIDE DEF old, run
  <2>6. thought \in Seq(Item) /\ RunsBounded(thought) /\ Tracked(thought, run)
    <3>1. Reasoning \in Item /\ Reasoning.kind = "reasoning" /\ Reasoning # Nudge
      BY ItemKinds
    <3>2. QED
      BY <2>3, <3>1, AppendQuiet
  <2> HIDE DEF thought
  <2>7. CASE a.calls = 0
    <3>1. /\ Assistant(a.sig, a.calls) \in Item /\ Assistant(a.sig, a.calls) # Nudge
          /\ Assistant(a.sig, a.calls).calls = 0 /\ Assistant(a.sig, a.calls).sig = NoSignature
          /\ Assistant(a.sig, a.calls).kind = "assistant"
      BY <2>2, <2>7, ItemKinds DEF Assistant
    <3>2. RunsBounded(more) /\ Tracked(more, run)
      BY <2>3, <2>6, <3>1, AppendQuiet
    <3>3. chat'[c].pc = "save" /\ chat'[c].run = run
      BY <2>1, <2>5, <2>7 DEF Moves
    <3> HIDE DEF more
    <3>4. QED
      BY <2>1, <2>3, <2>4, <3>2, <3>3, OneChatRuns DEF Moves
  <2>8. CASE a.calls # 0
    <3>1. a.sig \in Signatures
      BY <2>2, <2>8
    <3>2. /\ RunsBounded(more) /\ Tracked(more, Observe(run, a.sig))
          /\ Observe(run, a.sig).len <= MaxIdentical
      BY <2>2, <2>3, <2>6, <3>1, AppendObserved
    <3>3. chat'[c].pc = "calls" /\ chat'[c].run = Observe(run, a.sig)
      BY <2>1, <2>5, <2>8 DEF Moves
    <3> HIDE DEF more
    <3>4. QED
      BY <2>1, <2>4, <3>2, <3>3, OneChatRuns DEF Moves
  <2>9. QED
    BY <2>7, <2>8
<1>7. ASSUME NEW c \in Chats, TakeCall(c), c \notin cancelled
      PROVE  RunInv'
  <2>1. Moves(c, "call") /\ disk' = disk /\ chat[c].pc = "calls" /\ chat[c].pc \in Watching
    BY <1>7, StepsMove DEF TakeCall, Watching
  <2>2. chat'[c].items = chat[c].items /\ chat'[c].run = chat[c].run
    BY <1>7, <1>c DEF TakeCall, Typed, ChatState
  <2>3. QED
    BY <1>g, <2>1, <2>2 DEF Moves
<1>8. ASSUME NEW c \in Chats, StartTool(c)
      PROVE  RunInv'
  <2>1. Moves(c, "tool") /\ disk' = disk /\ chat[c].pc = "call" /\ chat[c].pc \in Watching
    BY <1>8, StepsMove DEF StartTool, Watching
  <2>2. chat'[c].items = chat[c].items /\ chat'[c].run = chat[c].run
    BY <1>8, <1>c DEF StartTool, Typed, ChatState
  <2>3. QED
    BY <1>g, <2>1, <2>2 DEF Moves
<1>9. ASSUME NEW c \in Chats, ToolReturns(c)
      PROVE  RunInv'
  <2> DEFINE k == CallPosition(chat[c].items, chat[c].left)
             more == Append(chat[c].items, ToolResult(k))
  <2>1. Moves(c, "calls") /\ disk' = disk /\ chat[c].pc = "tool" /\ chat[c].pc \in Watching
    BY <1>9, StepsMove DEF ToolReturns, Watching
  <2>2. PICK b \in Nat : LastBatch(chat[c].items, chat[c].left, b)
    BY <2>1 DEF PairInv
  <2>3. k \in Nat
    BY <1>c, <2>1, <2>2, CallPositions DEF PairInv
  <2>4. ToolResult(k) \in Item /\ ToolResult(k).kind = "result" /\ ToolResult(k) # Nudge
    <3> HIDE DEF k
    <3> QED
      BY <2>3, ItemKinds
  <2>5. RunsBounded(more) /\ Tracked(more, chat[c].run)
    BY <1>c, <1>r, <2>1, <2>4, AppendQuiet
  <2>6. chat'[c].items = more /\ chat'[c].run = chat[c].run
    <3>1. chat' = [chat EXCEPT ![c] =
                     [chat[c] EXCEPT !.pc = "calls", !.left = @ - 1, !.items = more]]
      BY <1>9 DEF ToolReturns
    <3> HIDE DEF more
    <3>2. QED
      BY <1>c, <3>1 DEF Typed, ChatState
  <2> HIDE DEF more
  <2>7. QED
    BY <1>r, <2>1, <2>5, <2>6, OneChatRuns DEF Moves
<1>10. ASSUME NEW c \in Chats, BatchDone(c)
       PROVE  RunInv'
  <2> DEFINE nudge == TakesNudge(chat[c].run)
             items == IF nudge THEN Append(chat[c].items, Nudge) ELSE chat[c].items
             run   == [chat[c].run EXCEPT !.nudged = @ \/ nudge]
  <2>1. Moves(c, "save") /\ disk' = disk /\ chat[c].pc = "calls" /\ chat[c].pc \in Watching
    BY <1>10, StepsMove DEF BatchDone, Watching
  <2>2. RunsBounded(items) /\ Tracked(items, run) /\ run.len <= MaxIdentical
    <3>1. run.len = chat[c].run.len
      BY <1>c DEF RunState
    <3>2. CASE nudge
      <4>1. ~chat[c].run.nudged /\ run = [chat[c].run EXCEPT !.nudged = TRUE]
        BY <3>2 DEF TakesNudge
      <4> HIDE DEF run, nudge
      <4>2. QED
        BY <1>c, <1>r, <2>1, <3>1, <3>2, <4>1, AppendNudge
    <3>3. CASE ~nudge
      <4>1. run = chat[c].run
        BY <1>c, <3>3 DEF RunState
      <4> HIDE DEF run, nudge
      <4>2. QED
        BY <1>r, <2>1, <3>3, <4>1
    <3>4. QED
      BY <3>2, <3>3
  <2>3. chat' = [chat EXCEPT ![c] = [chat[c] EXCEPT !.pc = "save", !.run = run, !.items = items]]
    BY <1>10 DEF BatchDone
  <2> HIDE DEF items, run
  <2>4. chat'[c].items = items /\ chat'[c].run = run
    BY <1>c, <2>3 DEF Typed, ChatState
  <2>5. QED
    BY <2>1, <2>2, <2>4, OneChatRuns DEF Moves
<1>11. ASSUME NEW c \in Chats, SaveSession(c) \/ SaveFails(c)
       PROVE  RunInv'
  <2>1. /\ chat[c].pc = "save" /\ InFlight(c) /\ chat[c].pc \in Watching
        /\ disk' = disk \/ disk' = [disk EXCEPT ![chat[c].session] = chat[c].items]
    BY <1>11 DEF SaveSession, SaveFails, InFlight, Watching
  <2>2. \A s \in Sessions : RunsBounded(disk'[s])
    BY <1>c, <1>r, <2>1 DEF Typed, RunInv
  <2>3. CASE \E o \in {"failed", "completed"} : Finish(c, o)
    <3>1. /\ chat'[c].pc = "done" /\ chat'[c].run.len <= MaxIdentical
          /\ \A d \in Chats : d # c => chat'[d] = chat[d]
      BY <1>f, <1>o, <2>1, <2>3
    <3>2. QED
      BY <2>2, <3>1 DEF RunInv, Watching
  <2>4. CASE ~\E o \in {"failed", "completed"} : Finish(c, o)
    <3>1. chat' = [chat EXCEPT ![c].pc = "top"]
      BY <1>11, <2>4 DEF SaveSession, SaveFails
    <3>2. /\ chat'[c].pc = "top" /\ chat'[c].items = chat[c].items /\ chat'[c].run = chat[c].run
          /\ \A d \in Chats : d # c => chat'[d] = chat[d]
      BY <1>c, <3>1 DEF Typed, ChatState
    <3>3. QED
      BY <1>r, <2>1, <2>2, <3>2 DEF RunInv
  <2>5. QED
    BY <2>3, <2>4
<1>12. ASSUME NEW s \in Sessions, Cancel(s)
       PROVE  RunInv'
  BY <1>12 DEF Cancel, RunInv
<1>13. ASSUME NEW s \in Sessions, DeleteSession(s)
       PROVE  RunInv'
  <2>1. chat' = chat /\ \A t \in Sessions : disk'[t] = disk[t] \/ disk'[t] = NoFile
    BY <1>13 DEF DeleteSession, Typed
  <2>2. QED
    BY <2>1, NoFileBounded DEF RunInv
<1>14. ASSUME AbortHostStreams
       PROVE  RunInv'
  <2>1. /\ disk' = disk
        /\ \A c \in Chats : /\ chat'[c].pc = chat[c].pc /\ chat'[c].items = chat[c].items
                             /\ chat'[c].run = chat[c].run
    BY <1>14, <1>c DEF AbortHostStreams, Typed, ChatState
  <2>2. QED
    BY <2>1 DEF RunInv
<1>15. ASSUME Crash
       PROVE  RunInv'
  <2>1. /\ disk' = disk
        /\ \A c \in Chats : chat'[c] = chat[c] \/ (chat'[c].pc = "done" /\ chat'[c].run = NoRun)
    <3>1. ASSUME NEW c \in Chats, InFlight(c)
          PROVE  chat'[c].pc = "done" /\ chat'[c].run = NoRun
      <4>1. chat'[c] = [NewChat EXCEPT !.pc = "done", !.session = chat[c].session,
                                      !.outcome = "failed"]
        BY <1>15, <3>1 DEF Crash
      <4>2. QED
        BY <4>1 DEF NewChat
    <3>2. ASSUME NEW c \in Chats, ~InFlight(c)
          PROVE  chat'[c] = chat[c]
      BY <1>15, <3>2 DEF Crash
    <3>3. disk' = disk
      BY <1>15 DEF Crash
    <3>4. ASSUME NEW c \in Chats
          PROVE  chat'[c] = chat[c] \/ (chat'[c].pc = "done" /\ chat'[c].run = NoRun)
      <4>1. CASE InFlight(c)
        BY <3>1, <4>1
      <4>2. CASE ~InFlight(c)
        BY <3>2, <4>2
      <4>3. QED
        BY <4>1, <4>2
    <3>5. QED
      BY <3>3, <3>4
  <2>2. QED
    BY <1>m, <2>1 DEF RunInv, Watching
<1>16. QED
  BY <1>1, <1>2, <1>3, <1>4, <1>5, <1>6, <1>7, <1>8, <1>9, <1>10, <1>11, <1>12, <1>13, <1>14,
     <1>15, FailingSteps DEF Next, ChatStep

-----------------------------------------------------------------------------
\* What is known of the kept turns when one chat goes on, with more items, and
\* no file is written.
LEMMA MovesKeepTurns ==
    ASSUME Typed, KeptInv, UNCHANGED <<disk, overlapped>>, shrunk \subseteq shrunk',
           NEW c \in Chats, NEW pc \in Places, Loaded(c), Moves(c, pc),
           pc \notin {"idle", "load", "done"},
           chat[c].session \notin shrunk' =>
              \A d \in Chats : Said(chat[c].items, d) => Said(chat'[c].items, d)
    PROVE  KeptInv'
<1>1. \A d \in Chats : /\ (Loaded(d))' <=> Loaded(d)
                       /\ chat'[d].session = chat[d].session
                       /\ chat'[d].outcome = chat[d].outcome
  BY DEF Moves, Loaded, InFlight
<1>2. \A d, e \in Chats : chat[d].session \notin shrunk' /\ Said(chat[d].items, e)
                              => Said(chat'[d].items, e)
  BY DEF Moves
<1>3. \A d \in Chats : chat[d].outcome = "completed" => chat[d].pc = "done" /\ d # c
  BY DEF KeptInv, Loaded, InFlight
<1>4. ASSUME NEW d \in Chats
      PROVE  LET s == chat'[d].session
             IN /\ (Loaded(d))' /\ s \notin shrunk' => Said(chat'[d].items, d)
                /\ chat'[d].outcome = "completed" =>
                      /\ chat'[d].pc = "done"
                      /\ d \notin overlapped' /\ s \notin shrunk' =>
                            /\ Said(disk'[s], d)
                            /\ \A e \in Chats : (Loaded(e))' /\ chat'[e].session = s
                                                   => Said(chat'[e].items, d)
  <2>1. (Loaded(d))' /\ chat'[d].session \notin shrunk' => Said(chat'[d].items, d)
    BY <1>1, <1>2 DEF KeptInv
  <2>2. ASSUME chat'[d].outcome = "completed"
        PROVE  /\ chat'[d].pc = "done"
               /\ d \notin overlapped' /\ chat'[d].session \notin shrunk' =>
                     /\ Said(disk'[chat'[d].session], d)
                     /\ \A e \in Chats : (Loaded(e))' /\ chat'[e].session = chat'[d].session
                                            => Said(chat'[e].items, d)
    <3>1. d # c /\ chat'[d] = chat[d] /\ chat[d].pc = "done"
      BY <1>1, <1>3, <2>2 DEF Moves
    <3>2. ASSUME d \notin overlapped', chat'[d].session \notin shrunk'
          PROVE  /\ Said(disk'[chat'[d].session], d)
                 /\ \A e \in Chats : (Loaded(e))' /\ chat'[e].session = chat'[d].session
                                        => Said(chat'[e].items, d)
      BY <1>1, <1>2, <2>2, <3>1, <3>2 DEF KeptInv
    <3>3. QED
      BY <3>1, <3>2
  <2>3. QED
    BY <2>1, <2>2
<1>5. QED
  BY <1>4 DEF KeptInv

\* What is known of them when a turn fails: it took nothing back.
LEMMA FailuresKeepTurns ==
    ASSUME KeptInv, UNCHANGED <<overlapped, shrunk>>, NEW c \in Chats, InFlight(c),
           chat'[c].pc = "done", chat'[c].outcome = "failed",
           \A d \in Chats : d # c => chat'[d] = chat[d],
           \A d \in Chats : chat[d].outcome = "completed" /\ d \notin overlapped
                                /\ chat[d].session \notin shrunk
                                /\ Said(disk[chat[d].session], d)
                                => Said(disk'[chat[d].session], d)
    PROVE  KeptInv'
<1>1. \A d \in Chats : (Loaded(d))' => d # c /\ Loaded(d)
  BY DEF Loaded, InFlight
<1>2. QED
  BY <1>1 DEF KeptInv

\* What was said is still said when more is.
LEMMA SaidOn ==
    ASSUME NEW items \in Seq(Item), NEW c \in Chats
    PROVE  /\ \A x \in Item : Said(items, c) => Said(Append(items, x), c)
           /\ \A more \in Seq(Item) : Said(items, c) => Said(items \o more, c)
           /\ Said(Append(items, User(c)), c)
<1>1. ASSUME NEW x \in Item, Said(items, c)
      PROVE  Said(Append(items, x), c)
  <2>1. PICK i \in 1 .. Len(items) : items[i] = User(c)
    BY <1>1 DEF Said
  <2>2. i \in DOMAIN Append(items, x) /\ Append(items, x)[i] = items[i]
    OBVIOUS
  <2>3. QED
    BY <2>1, <2>2 DEF Said
<1>2. ASSUME NEW more \in Seq(Item), Said(items, c)
      PROVE  Said(items \o more, c)
  <2>1. PICK i \in 1 .. Len(items) : items[i] = User(c)
    BY <1>2 DEF Said
  <2>2. i \in DOMAIN (items \o more) /\ (items \o more)[i] = items[i]
    OBVIOUS
  <2>3. QED
    BY <2>1, <2>2 DEF Said
<1>3. Said(Append(items, User(c)), c)
  <2>1. User(c) \in Item
    BY ItemKinds
  <2>2. /\ Len(items) + 1 \in DOMAIN Append(items, User(c))
        /\ Append(items, User(c))[Len(items) + 1] = User(c)
    BY <2>1
  <2>3. QED
    BY <2>2 DEF Said
<1>4. QED
  BY <1>1, <1>2, <1>3

\* Every step keeps the completed turns.
LEMMA KeptStep == Typed /\ Begun /\ TokenInv /\ PairInv /\ KeptInv /\ Next => KeptInv'
<1> SUFFICES ASSUME Typed, Begun, TokenInv, PairInv, KeptInv, Next PROVE KeptInv'
  OBVIOUS
<1>p. {"top", "ask", "asking", "calls", "call", "tool", "save"} \subseteq Places
  BY DEF Places
<1>o. "failed" \in Outcomes /\ "completed" \in Outcomes
  BY DEF Outcomes
<1>c. ASSUME NEW c \in Chats
      PROVE  /\ chat[c] \in ChatState /\ chat[c].items \in Seq(Item) /\ chat[c].left \in Nat
             /\ chat[c].pc # "idle" => chat[c].session \in Sessions
  BY DEF Typed, ChatState, Begun
<1>f. ASSUME NEW c \in Chats, InFlight(c), NEW o \in Outcomes, Finish(c, o)
      PROVE  /\ chat'[c].pc = "done" /\ chat'[c].outcome = o
             /\ chat'[c].session = chat[c].session
             /\ \A d \in Chats : d # c => chat'[d] = chat[d]
  <2>1. chat[c].session \in Sessions
    BY <1>c, <1>f DEF InFlight
  <2>2. QED
    BY <1>f, <2>1, FinishEffect
<1>1. ASSUME NEW c \in Chats, NEW s \in Sessions, BeginChat(c, s)
      PROVE  KeptInv'
  <2>1. /\ chat[c].pc = "idle" /\ chat'[c].pc = "load"
        /\ chat'[c].outcome = chat[c].outcome
        /\ \A d \in Chats : d # c => chat'[d] = chat[d]
    BY <1>1, StepsMove DEF BeginChat
  <2>2. UNCHANGED <<disk, shrunk>> /\ overlapped \subseteq overlapped'
    BY <1>1 DEF BeginChat
  <2>3. chat[c].outcome # "completed"
    BY <2>1 DEF KeptInv
  <2>4. \A d \in Chats : (Loaded(d))' <=> d # c /\ Loaded(d)
    BY <2>1 DEF Loaded, InFlight
  <2>5. QED
    BY <2>1, <2>2, <2>3, <2>4 DEF KeptInv
<1>2. ASSUME NEW c \in Chats, Fails(c)
      PROVE  KeptInv'
  <2>1. /\ InFlight(c) /\ chat'[c].pc = "done" /\ chat'[c].outcome = "failed"
        /\ \A d \in Chats : d # c => chat'[d] = chat[d]
    BY <1>2, <1>f, <1>o DEF Fails
  <2>2. UNCHANGED <<disk, overlapped, shrunk>>
    BY <1>2 DEF Fails, historyVars
  <2>3. QED
    BY <2>1, <2>2, FailuresKeepTurns
<1>3. ASSUME NEW c \in Chats, LoadSession(c)
      PROVE  KeptInv'
  <2> DEFINE s == chat[c].session
  <2>1. s \in Sessions /\ Moves(c, "top") /\ chat[c].pc = "load"
    BY <1>3, <1>c, StepsMove DEF LoadSession
  <2>2. UNCHANGED <<disk, overlapped, shrunk>>
    BY <1>3 DEF LoadSession, historyVars
  <2>3. chat'[c].items = Append(disk[s], User(c))
    BY <1>3, <1>c DEF LoadSession, Typed, ChatState
  <2>4. disk[s] \in Seq(Item) /\ User(c) \in Item
    BY <2>1, ItemKinds DEF Typed
  <2>5. Said(chat'[c].items, c)
    BY <2>3, <2>4, SaidOn
  <2>6. \A d \in Chats : Said(disk[s], d) => Said(chat'[c].items, d)
    BY <2>3, <2>4, SaidOn
  <2>7. \A d \in Chats : /\ (Loaded(d))' <=> d = c \/ Loaded(d)
                         /\ chat'[d].session = chat[d].session
                         /\ chat'[d].outcome = chat[d].outcome
                         /\ d # c => chat'[d] = chat[d]
    BY <2>1 DEF Moves, Loaded, InFlight
  <2>8. chat[c].outcome # "completed"
    BY <2>1 DEF KeptInv
  <2> HIDE DEF s
  <2>9. ASSUME NEW d \in Chats, d # c
        PROVE  LET t == chat'[d].session
               IN /\ (Loaded(d))' /\ t \notin shrunk' => Said(chat'[d].items, d)
                  /\ chat'[d].outcome = "completed" =>
                        /\ chat'[d].pc = "done"
                        /\ d \notin overlapped' /\ t \notin shrunk' =>
                              /\ Said(disk'[t], d)
                              /\ \A e \in Chats : (Loaded(e))' /\ chat'[e].session = t
                                                     => Said(chat'[e].items, d)
    BY <2>2, <2>6, <2>7, <2>9 DEF KeptInv, s
  <2>10. QED
    BY <2>5, <2>7, <2>8, <2>9 DEF KeptInv
<1>4. ASSUME NEW c \in Chats, NextRequest(c)
      PROVE  KeptInv'
  <2>1. /\ Loaded(c) /\ Moves(c, "ask") /\ UNCHANGED <<disk, overlapped>>
        /\ shrunk' = IF Compact(chat[c].items) = chat[c].items THEN shrunk
                     ELSE shrunk \cup {chat[c].session}
    BY <1>4, StepsMove DEF NextRequest, Loaded, InFlight
  <2>2. chat'[c].items = Compact(chat[c].items)
    BY <1>4, <1>c DEF NextRequest, Typed, ChatState
  <2>3. QED
    BY <1>p, <2>1, <2>2, MovesKeepTurns
<1>5. ASSUME NEW c \in Chats,
             SendRequest(c) \/ StartTool(c) \/ (TakeCall(c) /\ c \notin cancelled)
      PROVE  KeptInv'
  <2>1. PICK pc \in {"asking", "tool", "call"} : Moves(c, pc)
    BY <1>5, StepsMove
  <2>2. Loaded(c) /\ UNCHANGED <<disk, overlapped, shrunk>>
    BY <1>5 DEF SendRequest, StartTool, TakeCall, Loaded, InFlight, historyVars
  <2>3. chat'[c].items = chat[c].items
    BY <1>5, <1>c DEF SendRequest, StartTool, TakeCall, Typed, ChatState
  <2>4. QED
    BY <1>p, <2>1, <2>2, <2>3, MovesKeepTurns
<1>6. ASSUME NEW c \in Chats, NEW a \in Answers[c], Answered(c, a)
      PROVE  KeptInv'
  <2>1. PICK pc \in {"save", "calls"} : Moves(c, pc)
    BY <1>6, StepsMove
  <2>2. Loaded(c) /\ UNCHANGED <<disk, overlapped, shrunk>>
    BY <1>6 DEF Answered, Loaded, InFlight, historyVars
  <2>3. chat'[c].items = chat[c].items \o AnswerItems(a)
    BY <1>6, <1>c DEF Answered, Typed, ChatState
  <2>4. a.calls \in Nat /\ a.sig \in Signatures \cup {NoSignature}
    BY EngineAssumption DEF Answer
  <2>5. Assistant(a.sig, a.calls) \in Item /\ Reasoning \in Item
    BY <2>4, ItemKinds
  <2>6. AnswerItems(a) \in Seq(Item)
    BY <2>5 DEF AnswerItems
  <2>7. \A d \in Chats : Said(chat[c].items, d) => Said(chat'[c].items, d)
    BY <1>c, <2>3, <2>6, SaidOn
  <2>8. QED
    BY <1>p, <2>1, <2>2, <2>7, MovesKeepTurns
<1>7. ASSUME NEW c \in Chats, ToolReturns(c)
      PROVE  KeptInv'
  <2> DEFINE k == CallPosition(chat[c].items, chat[c].left)
             more == Append(chat[c].items, ToolResult(k))
  <2>1. Moves(c, "calls") /\ Loaded(c) /\ UNCHANGED <<disk, overlapped, shrunk>>
    BY <1>7, StepsMove DEF ToolReturns, Loaded, InFlight, historyVars
  <2>2. PICK b \in Nat : LastBatch(chat[c].items, chat[c].left, b)
    BY <1>7 DEF ToolReturns, PairInv
  <2>3. ToolResult(k) \in Item
    BY <1>c, <2>2, CallPositions, ItemKinds
  <2>4. \A d \in Chats : Said(chat[c].items, d) => Said(more, d)
    BY <1>c, <2>3, SaidOn
  <2>5. chat' = [chat EXCEPT ![c] =
                   [chat[c] EXCEPT !.pc = "calls", !.left = @ - 1, !.items = more]]
    BY <1>7 DEF ToolReturns
  <2> HIDE DEF more
  <2>6. chat'[c].items = more
    BY <1>c, <2>5 DEF Typed, ChatState
  <2>7. QED
    BY <1>p, <2>1, <2>4, <2>6, MovesKeepTurns
<1>8. ASSUME NEW c \in Chats, BatchDone(c)
      PROVE  KeptInv'
  <2> DEFINE nudge == TakesNudge(chat[c].run)
             items == IF nudge THEN Append(chat[c].items, Nudge) ELSE chat[c].items
             run   == [chat[c].run EXCEPT !.nudged = @ \/ nudge]
  <2>1. Moves(c, "save") /\ Loaded(c) /\ UNCHANGED <<disk, overlapped, shrunk>>
    BY <1>8, StepsMove DEF BatchDone, Loaded, InFlight, historyVars
  <2>2. Nudge \in Item
    BY ItemKinds
  <2>3. \A d \in Chats : Said(chat[c].items, d) => Said(items, d)
    BY <1>c, <2>2, SaidOn
  <2>4. chat' = [chat EXCEPT ![c] = [chat[c] EXCEPT !.pc = "save", !.run = run, !.items = items]]
    BY <1>8 DEF BatchDone
  <2> HIDE DEF items, run
  <2>5. chat'[c].items = items
    BY <1>c, <2>4 DEF Typed, ChatState
  <2>6. QED
    BY <1>p, <2>1, <2>3, <2>5, MovesKeepTurns
<1>s. ASSUME NEW c \in Chats, Loaded(c), disk' = disk \/
                disk' = [disk EXCEPT ![chat[c].session] = chat[c].items]
      PROVE  \A d \in Chats : chat[d].outcome = "completed" /\ d \notin overlapped
                              /\ chat[d].session \notin shrunk
                              => Said(disk'[chat[d].session], d)
  <2> SUFFICES ASSUME NEW d \in Chats, chat[d].outcome = "completed", d \notin overlapped,
                      chat[d].session \notin shrunk
               PROVE  Said(disk'[chat[d].session], d)
    OBVIOUS
  <2>1. chat[d].pc = "done" /\ Said(disk[chat[d].session], d)
    BY DEF KeptInv
  <2>2. chat[d].session \in Sessions
    BY <1>c, <2>1
  <2>3. chat[c].session = chat[d].session => Said(chat[c].items, d)
    BY <1>s DEF KeptInv
  <2>4. QED
    BY <1>s, <2>1, <2>2, <2>3 DEF Typed
<1>9. ASSUME NEW c \in Chats, SaveSession(c)
      PROVE  KeptInv'
  <2> DEFINE s == chat[c].session
  <2>1. /\ chat[c].pc = "save" /\ Loaded(c) /\ InFlight(c) /\ s \in Sessions
        /\ disk' = [disk EXCEPT ![s] = chat[c].items]
        /\ UNCHANGED <<overlapped, shrunk>>
    BY <1>9, <1>c DEF SaveSession, Loaded, InFlight, historyVars
  <2>2. \A d \in Chats : chat[d].outcome = "completed" /\ d \notin overlapped
                         /\ chat[d].session \notin shrunk
                         => Said(disk'[chat[d].session], d)
    BY <1>s, <2>1
  <2>3. disk'[s] = chat[c].items
    BY <2>1 DEF Typed
  <2> HIDE DEF s
  <2>4. CASE Finish(c, "completed")
    <3>1. /\ chat'[c].pc = "done" /\ chat'[c].session = s
          /\ \A d \in Chats : d # c => chat'[d] = chat[d]
      BY <1>f, <1>o, <2>1, <2>4 DEF s
    <3>2. \A d \in Chats : (Loaded(d))' => d # c /\ Loaded(d)
      BY <3>1 DEF Loaded, InFlight
    <3>3. s \notin shrunk => Said(disk'[s], c)
      BY <2>1, <2>3 DEF KeptInv, s
    <3>4. c \notin overlapped => \A d \in Chats : (Loaded(d))' => chat'[d].session # s
      BY <2>1, <3>1, <3>2 DEF TokenInv, SharersKnown, Loaded, s
    <3>5. ASSUME NEW d \in Chats, d # c
          PROVE  LET t == chat'[d].session
                 IN /\ (Loaded(d))' /\ t \notin shrunk' => Said(chat'[d].items, d)
                    /\ chat'[d].outcome = "completed" =>
                          /\ chat'[d].pc = "done"
                          /\ d \notin overlapped' /\ t \notin shrunk' =>
                                /\ Said(disk'[t], d)
                                /\ \A e \in Chats : (Loaded(e))' /\ chat'[e].session = t
                                                       => Said(chat'[e].items, d)
      BY <2>1, <2>2, <3>1, <3>2, <3>5 DEF KeptInv
    <3>6. QED
      BY <2>1, <3>1, <3>2, <3>3, <3>4, <3>5 DEF KeptInv
  <2>5. CASE ~IsFinal(chat[c].items[Len(chat[c].items)])
    <3>1. Moves(c, "top")
      BY <1>9, <2>5, StepsMove
    <3>2. chat'[c].items = chat[c].items
      BY <1>9, <1>c, <2>5 DEF SaveSession, Typed, ChatState
    <3>3. \A d \in Chats : /\ (Loaded(d))' <=> Loaded(d)
                           /\ chat'[d].session = chat[d].session
                           /\ chat'[d].outcome = chat[d].outcome
                           /\ chat'[d].items = chat[d].items
                           /\ d # c => chat'[d].pc = chat[d].pc
      BY <2>1, <3>1, <3>2 DEF Moves, Loaded, InFlight
    <3>4. chat[c].outcome # "completed"
      BY <2>1 DEF KeptInv
    <3>5. QED
      BY <2>1, <2>2, <3>3, <3>4 DEF KeptInv
  <2>6. QED
    BY <1>9, <2>4, <2>5 DEF SaveSession
<1>10. ASSUME NEW c \in Chats, SaveFails(c)
       PROVE  KeptInv'
  <2>1. /\ Loaded(c) /\ InFlight(c) /\ Finish(c, "failed")
        /\ disk' = disk \/ disk' = [disk EXCEPT ![chat[c].session] = chat[c].items]
        /\ UNCHANGED <<overlapped, shrunk>>
    BY <1>10 DEF SaveFails, Loaded, InFlight, historyVars
  <2>2. /\ chat'[c].pc = "done" /\ chat'[c].outcome = "failed"
        /\ \A d \in Chats : d # c => chat'[d] = chat[d]
    BY <1>f, <1>o, <2>1
  <2>3. \A d \in Chats : chat[d].outcome = "completed" /\ d \notin overlapped
                         /\ chat[d].session \notin shrunk
                         => Said(disk'[chat[d].session], d)
    BY <1>s, <2>1
  <2>4. QED
    BY <2>1, <2>2, <2>3, FailuresKeepTurns
<1>11. ASSUME NEW s \in Sessions, Cancel(s)
       PROVE  KeptInv'
  BY <1>11 DEF Cancel, KeptInv, Loaded, InFlight
<1>12. ASSUME NEW s \in Sessions, DeleteSession(s)
       PROVE  KeptInv'
  <2>1. /\ UNCHANGED <<chat, overlapped>> /\ shrunk' = shrunk \cup {s}
        /\ \A t \in Sessions : t # s => disk'[t] = disk[t]
    BY <1>12 DEF DeleteSession, Typed
  <2>2. \A d \in Chats : chat[d].outcome = "completed" => chat[d].session \in Sessions
    BY <1>c DEF KeptInv
  <2>3. QED
    BY <2>1, <2>2 DEF KeptInv, Loaded, InFlight
<1>13. ASSUME AbortHostStreams
       PROVE  KeptInv'
  <2>1. /\ UNCHANGED <<disk, overlapped, shrunk>>
        /\ \A c \in Chats : /\ chat'[c].pc = chat[c].pc /\ chat'[c].items = chat[c].items
                             /\ chat'[c].session = chat[c].session
                             /\ chat'[c].outcome = chat[c].outcome
    BY <1>13, <1>c DEF AbortHostStreams, historyVars, Typed, ChatState
  <2>2. \A c \in Chats : (Loaded(c))' <=> Loaded(c)
    BY <2>1 DEF Loaded, InFlight
  <2>3. QED
    BY <2>1, <2>2 DEF KeptInv
<1>14. ASSUME Crash
       PROVE  KeptInv'
  <2>1. /\ UNCHANGED <<disk, overlapped, shrunk>>
        /\ \A c \in Chats : IF InFlight(c) THEN /\ chat'[c].pc = "done"
                                               /\ chat'[c].outcome = "failed"
                             ELSE chat'[c] = chat[c]
    BY <1>14 DEF Crash, NewChat
  <2>2. \A c \in Chats : ~(Loaded(c))'
    BY <2>1 DEF Loaded, InFlight
  <2>3. QED
    BY <2>1, <2>2 DEF KeptInv
<1>15. QED
  BY <1>1, <1>2, <1>3, <1>4, <1>5, <1>6, <1>7, <1>8, <1>9, <1>10, <1>11, <1>12, <1>13, <1>14,
     FailingSteps DEF Next, ChatStep

-----------------------------------------------------------------------------
\* Every state satisfies the invariant.
LEMMA Invariance == Spec => []Inv
<1>1. Init => Inv
  BY InitInv
<1>2. Inv /\ [Next]_vars => Inv'
  <2> SUFFICES ASSUME Inv, [Next]_vars PROVE Inv'
    OBVIOUS
  <2>1. CASE Next
    BY <2>1, TypeStep, TokenStep, PairStep, KeptStep, RunStep DEF Inv
  <2>2. CASE UNCHANGED vars
    BY <2>2 DEF vars, tokenVars, historyVars, Inv, Typed, Begun, TokenInv, Counted, StillbornStops,
       LateOnce, SharersKnown, LoneTurnCancellable, PairInv, KeptInv, RunInv, Loaded, InFlight
  <2>3. QED
    BY <2>1, <2>2
<1>3. QED
  BY <1>1, <1>2, PTL DEF Spec

\* The histories of the session files, and of what models are asked, pair each
\* call with its result (maybe_compact and the batch loop of run_turn).
THEOREM HistoriesPaired == Spec => []HistoriesWellPaired
<1>1. Inv => HistoriesWellPaired
  BY WellPairedOwesNothing DEF Inv, Typed, ChatState, PairInv, HistoriesWellPaired
<1>2. QED
  BY <1>1, Invariance, PTL

\* A run of identical steps in what is saved is nudged once at most, and stops at
\* the hard stop (IdenticalToolCallRun and its use in run_turn), over compactions.
THEOREM StationaryBounded == Spec => []StationaryRuns
<1>1. Inv => StationaryRuns
  BY DEF Inv, RunInv, Watching, StationaryRuns
<1>2. QED
  BY <1>1, Invariance, PTL

\* Once its token is cancelled a turn starts at most one more thing, and none
\* when it was cancelled before it began (chat_async, run_turn).
THEOREM CancelledTurnsStop == Spec => []CancelStops
<1>1. Inv => CancelStops
  BY DEF Inv, Typed, TokenInv, LateOnce, CancelStops
<1>2. QED
  BY <1>1, Invariance, PTL

\* A cancel puts down one turn at most (cancel, chat_async).
THEOREM CancelsAreSpent == Spec => []CancelStopsOneTurn
<1>1. Inv => CancelStopsOneTurn
  <2> SUFFICES ASSUME Inv PROVE Cardinality(cancelled) <= cancels
    BY DEF CancelStopsOneTurn
  <2>1. /\ IsFiniteSet(cancelled) /\ IsFiniteSet(pending) /\ cancels \in Nat
        /\ Cardinality(cancelled) + Cardinality(pending) <= cancels
    BY DEF Inv, Typed, TokenInv, Counted
  <2>2. Cardinality(cancelled) \in Nat /\ Cardinality(pending) \in Nat
    BY <2>1, FS_CardinalityType
  <2>3. QED
    BY <2>1, <2>2
<1>2. QED
  BY <1>1, Invariance, PTL

\* A turn alone in its session can be cancelled until it ends: no other chat
\* takes its token away (chat_async's removal by session).
THEOREM LoneTurns == Spec => []LoneTurnCancellable
<1>1. Inv => LoneTurnCancellable
  BY DEF Inv, TokenInv
<1>2. QED
  BY <1>1, Invariance, PTL

\* A turn reported as completed is in its session's file, over later turns,
\* failed saves and a crash (SessionStore::save).
THEOREM CompletedTurnsStay == Spec => []CompletedTurnsKept
<1>1. Inv => CompletedTurnsKept
  BY DEF Inv, KeptInv, CompletedTurnsKept, Said
<1>2. QED
  BY <1>1, Invariance, PTL

=============================================================================
