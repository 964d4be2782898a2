-------------------------- MODULE WebSearchProofs --------------------------
(***************************************************************************)
(* Proofs about the captures of a client whose routing is replaced under   *)
(* it, and about the searches beside it: for every set of configs,         *)
(* operations and searches, what is captured is one config's, and a search *)
(* that fails has asked each member it should have.                        *)
(***************************************************************************)
EXTENDS WebSearch, WellFoundedInduction, TLAPS

-----------------------------------------------------------------------------
(* The elements of a sequence that are in a set.                           *)

\* Induction on the naturals, over a set instead of a predicate.
LEMMA SetInduction ==
    ASSUME NEW S \in SUBSET Nat, 0 \in S, \A n \in S : n + 1 \in S
    PROVE  S = Nat
<1> SUFFICES ASSUME Nat \ S # {} PROVE FALSE
  OBVIOUS
<1> DEFINE T == Nat \ S
<1>1. T \subseteq Nat /\ T # {}
  OBVIOUS
<1> HIDE DEF T
<1>2. PICK x \in T : \A y \in T : <<y, x>> \notin OpToRel(<, Nat)
  BY <1>1, NatLessThanWellFounded, WFMin
<1>3. x \in Nat /\ x \notin S
  BY <1>1 DEF T
<1>4. x - 1 \in Nat
  BY <1>3
<1>5. \A y \in Nat : <<y, x>> \notin OpToRel(<, Nat) => x <= y
  BY <1>3 DEF OpToRel
<1>6. \A y \in T : x <= y
  BY <1>1, <1>2, <1>5
<1>7. x - 1 \notin T
  BY <1>3, <1>4, <1>6
<1>8. QED
  BY <1>3, <1>4, <1>7 DEF T

\* f(k) is what is among the first k of a sequence, for each k up to n.
Keeps(f, n, seq, S) ==
    f = [k \in 0 .. n |->
           IF k = 0 THEN <<>>
           ELSE IF seq[k] \in S THEN Append(f[k - 1], seq[k]) ELSE f[k - 1]]

\* The function that Among is defined with exists.
LEMMA KeepsExists ==
    ASSUME NEW seq, NEW S, NEW n \in Nat
    PROVE  \E f : Keeps(f, n, seq, S)
<1> DEFINE N == {m \in Nat : \E f : Keeps(f, m, seq, S)}
<1>1. 0 \in N
  <2> DEFINE f == [k \in 0 .. 0 |-> <<>>]
  <2>1. f = [k \in 0 .. 0 |->
               IF k = 0 THEN <<>>
               ELSE IF seq[k] \in S THEN Append(f[k - 1], seq[k]) ELSE f[k - 1]]
    OBVIOUS
  <2>2. Keeps(f, 0, seq, S)
    BY <2>1 DEF Keeps
  <2>3. QED BY <2>2
<1>2. ASSUME NEW m \in N PROVE m + 1 \in N
  <2>1. PICK f : Keeps(f, m, seq, S)
    OBVIOUS
  <2> DEFINE g == [k \in 0 .. m + 1 |->
                     IF k <= m THEN f[k]
                     ELSE IF seq[k] \in S THEN Append(f[m], seq[k]) ELSE f[m]]
  <2>2. m \in Nat
    OBVIOUS
  <2>3. \A k \in 0 .. m : f[k] = IF k = 0 THEN <<>>
                                 ELSE IF seq[k] \in S THEN Append(f[k - 1], seq[k])
                                 ELSE f[k - 1]
    BY <2>1, <2>2 DEF Keeps
  <2>4. ASSUME NEW k \in 0 .. m + 1
        PROVE  g[k] = IF k = 0 THEN <<>>
                      ELSE IF seq[k] \in S THEN Append(g[k - 1], seq[k]) ELSE g[k - 1]
    <3>1. CASE k = 0
      BY <2>2, <2>3, <3>1
    <3>2. CASE k \in 1 .. m
      <4>1. g[k] = f[k] /\ g[k - 1] = f[k - 1] /\ k \in 0 .. m /\ k # 0
        BY <2>2, <3>2
      <4> HIDE DEF g
      <4>2. QED BY <2>3, <4>1
    <3>3. CASE k = m + 1
      <4>1. /\ g[k] = IF seq[k] \in S THEN Append(f[m], seq[k]) ELSE f[m]
            /\ g[k - 1] = f[m] /\ k # 0
        BY <2>2, <3>3
      <4> HIDE DEF g
      <4>2. QED BY <4>1
    <3>4. QED BY <2>2, <3>1, <3>2, <3>3
  <2>5. Keeps(g, m + 1, seq, S)
    BY <2>4 DEF Keeps
  <2>6. QED BY <2>2, <2>5
<1>3. N = Nat
  <2> HIDE DEF N
  <2>1. N \subseteq Nat
    BY DEF N
  <2>2. QED BY <1>1, <1>2, <2>1, SetInduction
<1>4. QED BY <1>3

\* Among takes the elements one by one.
LEMMA AmongSteps ==
    ASSUME NEW P, NEW seq \in Seq(P), NEW S
    PROVE  \E f : /\ Among(seq, S) = f[Len(seq)]
                  /\ f[0] = <<>>
                  /\ \A n \in Nat : n + 1 <= Len(seq) =>
                        f[n + 1] = IF seq[n + 1] \in S THEN Append(f[n], seq[n + 1]) ELSE f[n]
<1> DEFINE f == CHOOSE f : Keeps(f, Len(seq), seq, S)
<1>1. Len(seq) \in Nat
  OBVIOUS
<1>2. Keeps(f, Len(seq), seq, S)
  BY <1>1, KeepsExists
<1>3. Among(seq, S) = f[Len(seq)]
  BY DEF Among, Keeps
<1> HIDE DEF f
<1>4. \A k \in 0 .. Len(seq) : f[k] = IF k = 0 THEN <<>>
                                      ELSE IF seq[k] \in S THEN Append(f[k - 1], seq[k])
                                      ELSE f[k - 1]
  BY <1>1, <1>2 DEF Keeps
<1>5. f[0] = <<>>
  BY <1>1, <1>4
<1>6. ASSUME NEW n \in Nat, n + 1 <= Len(seq)
      PROVE  f[n + 1] = IF seq[n + 1] \in S THEN Append(f[n], seq[n + 1]) ELSE f[n]
  <2>1. n + 1 \in 0 .. Len(seq) /\ n + 1 # 0 /\ (n + 1) - 1 = n
    BY <1>1, <1>6
  <2>2. QED BY <1>4, <2>1
<1>7. QED BY <1>3, <1>5, <1>6

\* An element at the end of a sequence.
LEMMA AppendFacts ==
    ASSUME NEW P, NEW t \in Seq(P), NEW x \in P
    PROVE  /\ Append(t, x) \in Seq(P)
           /\ Range(Append(t, x)) = Range(t) \cup {x}
           /\ IsInjective(t) /\ x \notin Range(t) => IsInjective(Append(t, x))
<1> DEFINE u == Append(t, x)
<1>1. /\ u \in Seq(P) /\ Len(t) \in Nat
      /\ DOMAIN u = 1 .. Len(t) + 1 /\ DOMAIN t = 1 .. Len(t)
      /\ \A i \in 1 .. Len(t) : u[i] = t[i]
      /\ u[Len(t) + 1] = x
  OBVIOUS
<1> HIDE DEF u
<1>2. Range(u) = Range(t) \cup {x}
  <2>1. \A i \in DOMAIN u : u[i] \in Range(t) \cup {x}
    BY <1>1 DEF Range
  <2>2. \A i \in DOMAIN t : i \in DOMAIN u /\ u[i] = t[i]
    BY <1>1
  <2>3. Len(t) + 1 \in DOMAIN u
    BY <1>1
  <2>4. QED BY <1>1, <2>1, <2>2, <2>3 DEF Range
<1>3. ASSUME IsInjective(t), x \notin Range(t) PROVE IsInjective(u)
  <2>1. \A i \in 1 .. Len(t) : u[i] # x
    BY <1>1, <1>3 DEF Range
  <2>2. \A i, j \in 1 .. Len(t) : u[i] = u[j] => i = j
    BY <1>1, <1>3 DEF IsInjective
  <2>3. QED BY <1>1, <2>1, <2>2 DEF IsInjective
<1>4. QED BY <1>1, <1>2, <1>3 DEF u

\* Among is what its name says: the elements of the sequence that are in S, each
\* as often as in the sequence, and the sequence itself when they all are.
LEMMA AmongFacts ==
    ASSUME NEW P, NEW seq \in Seq(P), NEW S
    PROVE  /\ Among(seq, S) \in Seq(P)
           /\ Range(Among(seq, S)) = Range(seq) \cap S
           /\ IsInjective(seq) => IsInjective(Among(seq, S))
           /\ Range(seq) \subseteq S => Among(seq, S) = seq
<1>1. PICK f : /\ Among(seq, S) = f[Len(seq)]
               /\ f[0] = <<>>
               /\ \A n \in Nat : n + 1 <= Len(seq) =>
                     f[n + 1] = IF seq[n + 1] \in S THEN Append(f[n], seq[n + 1]) ELSE f[n]
  BY AmongSteps
<1>2. /\ Len(seq) \in Nat /\ DOMAIN seq = 1 .. Len(seq)
      /\ \A i \in 1 .. Len(seq) : seq[i] \in P
  OBVIOUS
<1> DEFINE Good(n) ==
             /\ f[n] \in Seq(P)
             /\ Range(f[n]) = {seq[i] : i \in 1 .. n} \cap S
             /\ IsInjective(seq) => IsInjective(f[n])
             /\ Range(seq) \subseteq S => Len(f[n]) = n /\ \A i \in 1 .. n : f[n][i] = seq[i]
           N == {n \in Nat : n <= Len(seq) => Good(n)}
<1>3. 0 \in N
  <2>1. Good(0)
    BY <1>1 DEF Range, IsInjective
  <2>2. QED BY <2>1
<1>4. ASSUME NEW n \in N PROVE n + 1 \in N
  <2> SUFFICES ASSUME n + 1 <= Len(seq) PROVE Good(n + 1)
    OBVIOUS
  <2>1. /\ n \in Nat /\ Good(n) /\ n + 1 \in 1 .. Len(seq)
        /\ f[n + 1] = IF seq[n + 1] \in S THEN Append(f[n], seq[n + 1]) ELSE f[n]
        /\ seq[n + 1] \in P
    BY <1>1, <1>2
  <2>2. {seq[i] : i \in 1 .. n + 1} = {seq[i] : i \in 1 .. n} \cup {seq[n + 1]}
    <3>1. \A i \in 1 .. n + 1 : i \in 1 .. n \/ i = n + 1
      BY <2>1
    <3>2. n + 1 \in 1 .. n + 1 /\ \A i \in 1 .. n : i \in 1 .. n + 1
      BY <2>1
    <3>3. QED BY <3>1, <3>2
  <2>3. CASE seq[n + 1] \notin S
    <3>1. f[n + 1] = f[n] /\ ~(Range(seq) \subseteq S)
      BY <1>2, <2>1, <2>3 DEF Range
    <3>2. QED BY <2>1, <2>2, <2>3, <3>1
  <2>4. CASE seq[n + 1] \in S
    <3>1. f[n + 1] = Append(f[n], seq[n + 1])
      BY <2>1, <2>4
    <3>2. /\ f[n + 1] \in Seq(P)
          /\ Range(f[n + 1]) = Range(f[n]) \cup {seq[n + 1]}
          /\ IsInjective(f[n]) /\ seq[n + 1] \notin Range(f[n]) => IsInjective(f[n + 1])
      BY <2>1, <3>1, AppendFacts
    <3>3. Range(f[n + 1]) = {seq[i] : i \in 1 .. n + 1} \cap S
      BY <2>1, <2>2, <2>4, <3>2
    <3>4. IsInjective(seq) => seq[n + 1] \notin Range(f[n])
      <4>1. SUFFICES ASSUME IsInjective(seq), NEW i \in 1 .. n, seq[i] = seq[n + 1]
                     PROVE  FALSE
        BY <2>1
      <4>2. i \in DOMAIN seq /\ n + 1 \in DOMAIN seq /\ i # n + 1
        BY <1>2, <2>1
      <4>3. QED BY <4>1, <4>2 DEF IsInjective
    <3>5. ASSUME Range(seq) \subseteq S
          PROVE  Len(f[n + 1]) = n + 1 /\ \A i \in 1 .. n + 1 : f[n + 1][i] = seq[i]
      <4>1. f[n] \in Seq(P) /\ Len(f[n]) = n /\ \A i \in 1 .. n : f[n][i] = seq[i]
        BY <2>1, <3>5
      <4>2. QED BY <2>1, <3>1, <4>1
    <3>6. QED BY <2>1, <3>2, <3>3, <3>4, <3>5
  <2>5. QED BY <2>3, <2>4
<1>5. N = Nat
  <2> HIDE DEF N
  <2>1. N \subseteq Nat
    BY DEF N
  <2>2. QED BY <1>3, <1>4, <2>1, SetInduction
<1>6. Good(Len(seq))
  <2>1. Len(seq) \in N
    BY <1>2, <1>5
  <2>2. Len(seq) <= Len(seq)
    BY <1>2
  <2>3. QED BY <2>1, <2>2
<1>7. Range(seq) = {seq[i] : i \in 1 .. Len(seq)}
  BY <1>2 DEF Range
<1>8. Range(seq) \subseteq S => f[Len(seq)] = seq
  BY <1>2, <1>6
<1>9. QED BY <1>1, <1>6, <1>7, <1>8

-----------------------------------------------------------------------------
(* The invariant of the captures.  An operation that nothing disturbed has *)
(* seen the config in force, is bound to its slots, and plans from them.   *)

States == {"idle", "checking", "binding", "storing", "bound", "planning", "planned", "again",
           "captured", "not_configured", "exhausted", "unbound", "changed"}

OpStates == [at : States, seen : Nat, fresh : Nat, allowed : SUBSET Providers,
             planned : Nat, plan : Seq(Providers), slots : Nat, tries : Nat,
             disturbed : BOOLEAN]

Visitable(r) == Bindable(r) \cap r.enabled

\* What holds of an operation, with the configs rs set so far.
OpSound(rs, x) ==
    /\ x.at = "checking" => x.seen \in 1 .. Len(rs)
    /\ x.at = "storing" => x.fresh \in 1 .. Len(rs)
    /\ x.at = "planned" =>
          /\ x.planned \in 1 .. Len(rs)
          /\ Range(x.plan) \subseteq Range(rs[x.planned].members) \cap rs[x.planned].enabled
    /\ x.at = "captured" =>
          /\ x.slots = x.planned /\ x.planned \in 1 .. Len(rs)
          /\ Range(x.plan) \subseteq Visitable(rs[x.planned])

\* What holds of one that was not disturbed, with the slots sl.
OpCurrent(rs, sl, x) ==
    /\ x.at = "checking" => x.seen = Len(rs)
    /\ x.at = "storing" => x.fresh = Len(rs)
    /\ x.at \in {"bound", "planning", "planned"} => sl.generation = Len(rs)
    /\ x.at = "planning" => x.allowed = sl.bound
    /\ x.at = "planned" => x.planned = Len(rs) /\ Range(x.plan) = Visitable(rs[Len(rs)])
    /\ x.at = "captured" => Range(x.plan) = Visitable(rs[x.planned])
    /\ x.at \in {"not_configured", "exhausted"} =>
          \E g \in 1 .. Len(rs) : Visitable(rs[g]) = {}
    /\ x.at \notin {"again", "unbound", "changed"}

SlotsSound(rs, sl) ==
    \E g \in 1 .. Len(rs) : sl = [generation |-> g, bound |-> Bindable(rs[g])]

BindingInv ==
    /\ routings \in Seq(Routings) /\ routings # <<>>
    /\ SlotsSound(routings, slots)
    /\ op \in [Operations -> OpStates]
    /\ \A o \in Operations : /\ OpSound(routings, op[o])
                             /\ ~op[o].disturbed => OpCurrent(routings, slots, op[o])

\* The slots bound for a config are of members of it.
LEMMA RoutingFacts ==
    ASSUME BindingInv, NEW g \in 1 .. Generation
    PROVE  /\ Generation \in Nat \ {0} /\ routings[g] \in Routings
           /\ routings[g].members \in Seq(Providers)
           /\ IsInjective(routings[g].members)
           /\ routings[g].keyed \subseteq Providers
           /\ Range(routings[g].members) \subseteq Providers
           /\ Bindable(routings[g]) \subseteq Range(routings[g].members)
<1>1. /\ Generation \in Nat \ {0} /\ routings[g] \in Routings
  BY DEF BindingInv, Generation
<1>2. /\ routings[g].members \in Seq(Providers)
      /\ IsInjective(routings[g].members)
      /\ routings[g].keyed \subseteq Providers
  BY <1>1, BindingAssumption
<1>3. Range(routings[g].members) \subseteq Providers
  BY <1>2 DEF Range
<1>4. QED BY <1>1, <1>2, <1>3 DEF Bindable

\* The invariant holds initially.
LEMMA InitBinding == BindingInit => BindingInv
<1> SUFFICES ASSUME BindingInit PROVE BindingInv
  OBVIOUS
<1>1. PICK r \in Routings : routings = <<r>>
  BY DEF BindingInit
<1>2. routings \in Seq(Routings) /\ routings # <<>> /\ Len(routings) = 1
  BY <1>1
<1>3. SlotsSound(routings, slots)
  BY <1>2 DEF BindingInit, SlotsSound
<1>4. Idle \in OpStates
  BY DEF Idle, OpStates, States
<1>5. OpSound(routings, Idle) /\ OpCurrent(routings, slots, Idle)
  BY DEF Idle, OpSound, OpCurrent
<1>6. QED BY <1>2, <1>3, <1>4, <1>5 DEF BindingInit, BindingInv

\* A step of one operation that leaves the configs and the slots.
LEMMA OneMoves ==
    ASSUME BindingInv, NEW o \in Operations, NEW x \in OpStates,
           op' = [op EXCEPT ![o] = x], routings' = routings, slots' = slots,
           OpSound(routings, x), ~x.disturbed => OpCurrent(routings, slots, x)
    PROVE  BindingInv'
<1>1. op' \in [Operations -> OpStates]
  BY DEF BindingInv
<1>2. ASSUME NEW p \in Operations
      PROVE  /\ OpSound(routings', op'[p])
             /\ ~op'[p].disturbed => OpCurrent(routings', slots', op'[p])
  <2>1. op'[p] = IF p = o THEN x ELSE op[p]
    BY DEF BindingInv
  <2>2. QED BY <2>1 DEF BindingInv
<1>3. QED BY <1>1, <1>2 DEF BindingInv

\* The steps of an operation that only read the configs and the slots.
LEMMA ReadingSteps ==
    ASSUME BindingInv, NEW o \in Operations,
           TakeSnapshot(o) \/ CheckSlots(o) \/ BindSlots(o) \/ ReadAllowed(o)
    PROVE  BindingInv'
<1>0. /\ op[o] \in OpStates /\ Generation \in Nat \ {0} /\ Generation \in 1 .. Generation
      /\ Generation = Len(routings) /\ Routing = routings[Len(routings)]
      /\ OpSound(routings, op[o])
      /\ ~op[o].disturbed => OpCurrent(routings, slots, op[o])
  BY DEF BindingInv, Generation, Routing
<1>1. CASE TakeSnapshot(o)
  <2> DEFINE x == [op[o] EXCEPT !.at = "checking", !.seen = Generation,
                                !.tries = op[o].tries + 1]
  <2>1. op' = [op EXCEPT ![o] = x] /\ routings' = routings /\ slots' = slots
    BY <1>1 DEF TakeSnapshot, BindingInv
  <2>2. x \in OpStates /\ x.at = "checking" /\ x.seen = Generation
    <3>1. op[o].tries + 1 \in Nat
      BY <1>0 DEF OpStates
    <3> HIDE DEF Generation
    <3>2. QED BY <1>0, <3>1 DEF OpStates, States
  <2> HIDE DEF x
  <2>3. OpSound(routings, x) /\ OpCurrent(routings, slots, x)
    BY <1>0, <2>2 DEF OpSound, OpCurrent
  <2>4. QED BY <2>1, <2>2, <2>3, OneMoves
<1>2. CASE CheckSlots(o)
  <2> DEFINE x == [op[o] EXCEPT !.at = IF slots.generation = op[o].seen THEN "bound"
                                       ELSE "binding",
                                !.seen = 0]
  <2>1. /\ op' = [op EXCEPT ![o] = x] /\ routings' = routings /\ slots' = slots
        /\ op[o].at = "checking"
    BY <1>2 DEF CheckSlots, BindingInv
  <2>2. /\ x \in OpStates /\ x.at \in {"bound", "binding"} /\ x.disturbed = op[o].disturbed
        /\ x.at = "bound" => slots.generation = op[o].seen
    BY <1>0 DEF OpStates, States
  <2> HIDE DEF x
  <2>3. OpSound(routings, x)
    BY <2>2 DEF OpSound
  <2>4. ~x.disturbed => OpCurrent(routings, slots, x)
    BY <1>0, <2>1, <2>2 DEF OpCurrent
  <2>5. QED BY <2>1, <2>2, <2>3, <2>4, OneMoves
<1>3. CASE BindSlots(o)
  <2> DEFINE x == [op[o] EXCEPT !.at = IF Routing.members = <<>> THEN "not_configured"
                                       ELSE "storing",
                                !.fresh = Generation]
  <2>1. /\ op' = [op EXCEPT ![o] = x] /\ routings' = routings /\ slots' = slots
    BY <1>3 DEF BindSlots, BindingInv
  <2>2. /\ x \in OpStates /\ x.at \in {"not_configured", "storing"} /\ x.fresh = Generation
        /\ x.at = "not_configured" => Routing.members = <<>>
    BY <1>0 DEF OpStates, States
  <2> HIDE DEF x
  <2>3. Routing.members = <<>> => Visitable(routings[Len(routings)]) = {}
    BY <1>0 DEF Visitable, Bindable, Range
  <2>4. OpSound(routings, x) /\ OpCurrent(routings, slots, x)
    BY <1>0, <2>2, <2>3 DEF OpSound, OpCurrent
  <2>5. QED BY <2>1, <2>2, <2>4, OneMoves
<1>4. CASE ReadAllowed(o)
  <2> DEFINE x == [op[o] EXCEPT !.at = "planning", !.allowed = slots.bound]
  <2>1. /\ op' = [op EXCEPT ![o] = x] /\ routings' = routings /\ slots' = slots
        /\ op[o].at = "bound"
    BY <1>4 DEF ReadAllowed, BindingInv
  <2>2. slots.bound \subseteq Providers
    <3>1. PICK g \in 1 .. Generation : slots.bound = Bindable(routings[g])
      BY <1>0 DEF BindingInv, SlotsSound
    <3>2. QED BY <3>1, RoutingFacts
  <2>3. /\ x \in OpStates /\ x.at = "planning" /\ x.allowed = slots.bound
        /\ x.disturbed = op[o].disturbed
    BY <1>0, <2>2 DEF OpStates, States
  <2> HIDE DEF x
  <2>4. OpSound(routings, x)
    BY <2>3 DEF OpSound
  <2>5. ~x.disturbed => OpCurrent(routings, slots, x)
    BY <1>0, <2>1, <2>3 DEF OpCurrent
  <2>6. QED BY <2>1, <2>3, <2>4, <2>5, OneMoves
<1>5. QED BY <1>1, <1>2, <1>3, <1>4

\* A plan is of members that are allowed and enabled, all of them.
LEMMA PlanningStep ==
    ASSUME BindingInv, NEW o \in Operations, PlanVisit(o)
    PROVE  BindingInv'
<1> DEFINE enabled == Among(Routing.members, op[o].allowed \cap Routing.enabled)
           x == [op[o] EXCEPT !.at = IF Routing.members = <<>> THEN "not_configured"
                                     ELSE IF enabled = <<>> THEN "exhausted" ELSE "planned",
                              !.allowed = {},
                              !.planned = Generation,
                              !.plan = enabled]
<1>0. /\ op[o] \in OpStates /\ Generation \in Nat \ {0} /\ Generation \in 1 .. Generation
      /\ Generation = Len(routings) /\ Routing = routings[Len(routings)]
      /\ ~op[o].disturbed => OpCurrent(routings, slots, op[o])
  BY DEF BindingInv, Generation, Routing
<1>1. Routing.members \in Seq(Providers)
  BY <1>0, RoutingFacts
<1>2. /\ op' = [op EXCEPT ![o] = x] /\ routings' = routings /\ slots' = slots
      /\ op[o].at = "planning"
  BY DEF PlanVisit, BindingInv
<1>3. /\ enabled \in Seq(Providers)
      /\ Range(enabled) = Range(Routing.members) \cap (op[o].allowed \cap Routing.enabled)
  BY <1>1, AmongFacts
<1> HIDE DEF enabled
<1>4. /\ x \in OpStates
      /\ x.at = IF Routing.members = <<>> THEN "not_configured"
                ELSE IF enabled = <<>> THEN "exhausted" ELSE "planned"
      /\ x.planned = Generation /\ x.plan = enabled /\ x.disturbed = op[o].disturbed
  BY <1>0, <1>3 DEF OpStates, States
<1> HIDE DEF x
<1>5. OpSound(routings, x)
  BY <1>0, <1>3, <1>4 DEF OpSound
<1>6. ASSUME ~x.disturbed PROVE OpCurrent(routings, slots, x)
  <2>1. slots.generation = Len(routings) /\ op[o].allowed = slots.bound
    BY <1>0, <1>2, <1>4, <1>6 DEF OpCurrent
  <2>2. slots.bound = Bindable(routings[Len(routings)])
    BY <2>1 DEF BindingInv, SlotsSound
  <2>3. Range(enabled) = Visitable(routings[Len(routings)])
    BY <1>0, <1>3, <2>1, <2>2 DEF Visitable, Bindable
  <2>4. Routing.members = <<>> \/ enabled = <<>> => Visitable(routings[Len(routings)]) = {}
    <3>1. Routing.members = <<>> => Range(Routing.members) = {}
      BY DEF Range
    <3>2. enabled = <<>> => Range(enabled) = {}
      BY DEF Range
    <3>3. QED BY <1>3, <2>3, <3>1, <3>2
  <2>5. QED BY <1>0, <1>4, <2>1, <2>3, <2>4 DEF OpCurrent
<1>7. QED BY <1>2, <1>4, <1>5, <1>6, OneMoves

\* A plan is captured with the slots of its generation.
LEMMA CapturingSteps ==
    ASSUME BindingInv, NEW o \in Operations, CaptureOperation(o) \/ FinishOperation(o)
    PROVE  BindingInv'
<1>0. /\ op[o] \in OpStates /\ Generation \in Nat \ {0}
      /\ Generation = Len(routings) /\ Routing = routings[Len(routings)]
      /\ OpSound(routings, op[o])
      /\ ~op[o].disturbed => OpCurrent(routings, slots, op[o])
  BY DEF BindingInv, Generation, Routing
<1>1. CASE CaptureOperation(o)
  <2> DEFINE at == IF slots.generation # op[o].planned
                   THEN IF op[o].tries < Attempts THEN "again" ELSE "changed"
                   ELSE IF Range(op[o].plan) \subseteq slots.bound THEN "captured"
                   ELSE "unbound"
             x == [op[o] EXCEPT !.at = at, !.slots = slots.generation]
  <2>1. /\ op' = [op EXCEPT ![o] = x] /\ routings' = routings /\ slots' = slots
        /\ op[o].at = "planned"
    BY <1>1 DEF CaptureOperation, BindingInv
  <2>2. PICK g \in 1 .. Len(routings) :
               slots = [generation |-> g, bound |-> Bindable(routings[g])]
    BY DEF BindingInv, SlotsSound
  <2> DEFINE whole == Range(op[o].plan) \subseteq slots.bound
  <2>3. /\ at \in {"again", "changed", "captured", "unbound"}
        /\ at = "captured" <=> slots.generation = op[o].planned /\ whole
    <3> HIDE DEF whole
    <3>1. at = IF slots.generation # op[o].planned
               THEN IF op[o].tries < Attempts THEN "again" ELSE "changed"
               ELSE IF whole THEN "captured" ELSE "unbound"
      BY DEF whole
    <3> HIDE DEF at
    <3>2. QED BY <3>1
  <2> HIDE DEF at
  <2>4. /\ x \in OpStates /\ x.at = at /\ x.slots = slots.generation /\ x.plan = op[o].plan
        /\ x.planned = op[o].planned /\ x.disturbed = op[o].disturbed
    <3>1. at \in States /\ slots.generation \in Nat
      BY <1>0, <2>2, <2>3 DEF States
    <3>2. QED BY <1>0, <3>1 DEF OpStates
  <2> HIDE DEF x
  <2>5. OpSound(routings, x)
    BY <1>0, <2>1, <2>2, <2>3, <2>4 DEF OpSound, Visitable
  <2>6. ASSUME ~x.disturbed PROVE OpCurrent(routings, slots, x)
    <3>1. /\ slots.generation = op[o].planned /\ op[o].planned = Len(routings)
          /\ Range(op[o].plan) = Visitable(routings[Len(routings)])
      BY <1>0, <2>1, <2>4, <2>6 DEF OpCurrent
    <3>2. Range(op[o].plan) \subseteq slots.bound
      BY <2>2, <3>1 DEF Visitable
    <3>3. x.at = "captured"
      BY <2>3, <2>4, <3>1, <3>2
    <3>4. QED BY <2>4, <3>1, <3>3 DEF OpCurrent
  <2>7. QED BY <2>1, <2>4, <2>5, <2>6, OneMoves
<1>2. CASE FinishOperation(o)
  <2>1. op' = [op EXCEPT ![o] = Idle] /\ routings' = routings /\ slots' = slots
    BY <1>2 DEF FinishOperation
  <2>2. Idle \in OpStates
    BY DEF Idle, OpStates, States
  <2>3. OpSound(routings, Idle) /\ OpCurrent(routings, slots, Idle)
    BY DEF Idle, OpSound, OpCurrent
  <2>4. QED BY <2>1, <2>2, <2>3, OneMoves
<1>3. QED BY <1>1, <1>2

\* Slots stored late disturb every operation that runs.
LEMMA StoringStep ==
    ASSUME BindingInv, NEW o \in Operations, StoreSlots(o)
    PROVE  BindingInv'
<1>1. /\ op[o] \in OpStates /\ op[o].at = "storing"
      /\ op[o].fresh \in 1 .. Len(routings)
      /\ slots' = [generation |-> op[o].fresh, bound |-> Bindable(routings[op[o].fresh])]
      /\ routings' = routings /\ Generation = Len(routings) /\ Len(routings) \in Nat
  <2>1. op[o].at = "storing" /\ OpSound(routings, op[o])
    BY DEF BindingInv, StoreSlots
  <2>2. op[o].fresh \in 1 .. Len(routings)
    BY <2>1 DEF OpSound
  <2>3. op[o] \in OpStates /\ Generation = Len(routings) /\ Len(routings) \in Nat
    BY DEF BindingInv, Generation
  <2>4. QED BY <2>1, <2>2, <2>3 DEF StoreSlots
<1>2. SlotsSound(routings', slots')
  BY <1>1 DEF SlotsSound
<1>3. ASSUME NEW p \in Operations
      PROVE  /\ op'[p] \in OpStates
             /\ OpSound(routings, op'[p])
             /\ ~op'[p].disturbed => OpCurrent(routings, slots', op'[p])
  <2> DEFINE y == [op[p] EXCEPT !.at = IF p = o THEN "bound" ELSE @,
                                !.fresh = IF p = o THEN 0 ELSE @,
                                !.disturbed = @ \/ (Busy(p) /\ op[o].fresh < Generation)]
  <2>1. op'[p] = y
    BY DEF StoreSlots
  <2>2. /\ op[p] \in OpStates /\ OpSound(routings, op[p])
        /\ ~op[p].disturbed => OpCurrent(routings, slots, op[p])
    BY DEF BindingInv
  <2>3. (op[p].disturbed \/ (Busy(p) /\ op[o].fresh < Generation)) \in BOOLEAN
    BY <2>2 DEF OpStates, Busy
  <2>4. /\ y \in OpStates
        /\ y.at = IF p = o THEN "bound" ELSE op[p].at
        /\ y.fresh = IF p = o THEN 0 ELSE op[p].fresh
        /\ y.disturbed = (op[p].disturbed \/ (Busy(p) /\ op[o].fresh < Generation))
        /\ y.seen = op[p].seen /\ y.allowed = op[p].allowed /\ y.planned = op[p].planned
        /\ y.plan = op[p].plan /\ y.slots = op[p].slots
    BY <2>2, <2>3 DEF OpStates, States
  <2> HIDE DEF y
  <2>5. OpSound(routings, y)
    BY <2>2, <2>4 DEF OpSound
  <2>6. ASSUME ~y.disturbed PROVE OpCurrent(routings, slots', y)
    <3>1. OpCurrent(routings, slots, op[p]) /\ ~(Busy(p) /\ op[o].fresh < Generation)
      BY <2>2, <2>4, <2>6
    <3>2. CASE Busy(p)
      <4>1. op[o].fresh = Len(routings)
        BY <1>1, <3>1, <3>2
      <4>2. slots'.generation = Len(routings) /\ slots'.bound = Bindable(routings[Len(routings)])
        BY <1>1, <4>1
      <4>3. slots.generation = Len(routings) => slots = slots'
        BY <1>1, <4>1 DEF BindingInv, SlotsSound
      <4>4. CASE p = o
        BY <2>4, <4>2, <4>4 DEF OpCurrent
      <4>5. CASE p # o
        BY <2>4, <3>1, <4>2, <4>3, <4>5 DEF OpCurrent
      <4>6. QED BY <4>4, <4>5
    <3>3. CASE ~Busy(p)
      <4>1. p # o /\ op[p].at \notin {"bound", "planning", "planned", "checking", "storing"}
        BY <1>1, <3>3 DEF Busy
      <4>2. QED BY <2>4, <3>1, <4>1 DEF OpCurrent
    <3>4. QED BY <3>2, <3>3
  <2>7. QED BY <2>1, <2>4, <2>5, <2>6
<1>4. op' \in [Operations -> OpStates]
  BY <1>3 DEF StoreSlots
<1>5. QED BY <1>1, <1>2, <1>3, <1>4 DEF BindingInv

\* A config set anew disturbs every operation that runs, and is the last.
LEMMA ReplacingStep ==
    ASSUME BindingInv, ReplaceRouting
    PROVE  BindingInv'
<1>1. PICK r \in Routings : routings' = Append(routings, r)
  BY DEF ReplaceRouting
<1>2. /\ routings' \in Seq(Routings) /\ routings' # <<>> /\ Len(routings) \in Nat
      /\ Len(routings') = Len(routings) + 1
      /\ \A g \in 1 .. Len(routings) : g \in 1 .. Len(routings') /\ routings'[g] = routings[g]
  BY <1>1 DEF BindingInv
<1>3. SlotsSound(routings', slots')
  <2>1. slots' = slots
    BY DEF ReplaceRouting
  <2>2. PICK g \in 1 .. Len(routings) :
               slots = [generation |-> g, bound |-> Bindable(routings[g])]
    BY DEF BindingInv, SlotsSound
  <2>3. QED BY <1>2, <2>1, <2>2 DEF SlotsSound
<1>4. ASSUME NEW p \in Operations
      PROVE  /\ op'[p] \in OpStates
             /\ OpSound(routings', op'[p])
             /\ ~op'[p].disturbed => OpCurrent(routings', slots', op'[p])
  <2>1. /\ op[p] \in OpStates /\ OpSound(routings, op[p])
        /\ ~op[p].disturbed => OpCurrent(routings, slots, op[p])
    BY DEF BindingInv
  <2>2. /\ op'[p] \in OpStates
        /\ op'[p].at = op[p].at /\ op'[p].seen = op[p].seen /\ op'[p].fresh = op[p].fresh
        /\ op'[p].planned = op[p].planned /\ op'[p].plan = op[p].plan
        /\ op'[p].slots = op[p].slots
        /\ ~op'[p].disturbed => ~Busy(p) /\ ~op[p].disturbed
    BY <2>1 DEF ReplaceRouting, OpStates
  <2>3. OpSound(routings', op'[p])
    BY <1>2, <2>1, <2>2 DEF OpSound
  <2>4. ASSUME ~op'[p].disturbed PROVE OpCurrent(routings', slots', op'[p])
    <3>1. OpCurrent(routings, slots, op[p])
      BY <2>1, <2>2, <2>4
    <3>2. op[p].at \in {"idle", "captured", "not_configured", "exhausted", "unbound", "changed"}
      BY <2>2, <2>4 DEF Busy
    <3>3. op[p].at = "captured" => routings'[op[p].planned] = routings[op[p].planned]
      BY <1>2, <2>1 DEF OpSound
    <3>4. QED BY <1>2, <2>2, <3>1, <3>2, <3>3 DEF OpCurrent
  <2>5. QED BY <2>2, <2>3, <2>4
<1>5. op' \in [Operations -> OpStates]
  BY <1>4 DEF ReplaceRouting
<1>6. QED BY <1>2, <1>3, <1>4, <1>5 DEF BindingInv

\* Every step keeps the invariant: searches leave the client alone.
LEMMA NextBinding == BindingInv /\ [Next]_vars => BindingInv'
<1> SUFFICES ASSUME BindingInv, [Next]_vars PROVE BindingInv'
  OBVIOUS
<1>1. CASE ReplaceRouting
  BY <1>1, ReplacingStep
<1>2. ASSUME NEW o \in Operations, OperationStep(o) PROVE BindingInv'
  BY <1>2, ReadingSteps, PlanningStep, CapturingSteps, StoringStep DEF OperationStep
<1>3. CASE UNCHANGED bindingVars
  BY <1>3 DEF bindingVars, BindingInv
<1>4. ASSUME NEW s \in Searches, SearchStep(s) PROVE UNCHANGED bindingVars
  BY <1>4 DEF SearchStep, BeginSearch, TryDuckDuckGo, TriggerCooldown, ClearCooldown,
              CollectCurrent, CollectRest, AskHosted, SearchFails, EndSearch
<1>5. Tick => UNCHANGED bindingVars
  BY DEF Tick
<1>6. UNCHANGED vars => UNCHANGED bindingVars
  BY DEF vars
<1>7. QED BY <1>1, <1>2, <1>3, <1>4, <1>5, <1>6 DEF Next, ClientStep

\* What an operation captures is of one config, the slots and the plan, and it
\* is all there is to visit when nothing disturbed it, however other operations
\* and replacements of the config come between its steps.
THEOREM CapturesSafe == Spec => []CapturesCoherent
<1>1. Init => BindingInv
  BY InitBinding DEF Init
<1>2. BindingInv => CapturesCoherent
  <2> SUFFICES ASSUME BindingInv, NEW o \in Operations
               PROVE  LET settled == op[o].at # "idle" /\ ~Busy(o)
                          visitable(r) == Bindable(r) \cap r.enabled
                      IN  /\ op[o].at = "captured" =>
                                /\ op[o].slots = op[o].planned
                                /\ Range(op[o].plan) \subseteq
                                      visitable(routings[op[o].planned])
                          /\ settled /\ ~op[o].disturbed =>
                                \/ /\ op[o].at = "captured"
                                   /\ Range(op[o].plan) = visitable(routings[op[o].planned])
                                \/ /\ op[o].at \in {"not_configured", "exhausted"}
                                   /\ \E r \in Range(routings) : visitable(r) = {}
    BY DEF CapturesCoherent
  <2>1. /\ OpSound(routings, op[o]) /\ op[o] \in OpStates
        /\ ~op[o].disturbed => OpCurrent(routings, slots, op[o])
    BY DEF BindingInv
  <2>2. \A g \in 1 .. Len(routings) : routings[g] \in Range(routings)
    BY DEF BindingInv, Range
  <2>3. QED BY <2>1, <2>2 DEF OpSound, OpCurrent, Visitable, Busy, OpStates, States
<1>3. QED BY <1>1, <1>2, NextBinding, PTL DEF Spec

-----------------------------------------------------------------------------
(* The invariant of the searches.  What a search has asked and what it has *)
(* yet to ask are what was due, unless the endpoints moved as it collected.*)

CallStates == {"idle", "trying", "found", "failed", "collecting", "collecting_rest",
               "asking", "error"}

SearchSound(x) ==
    /\ IsInjective(x.asked \o x.queue)
    /\ x.at \notin {"asking", "error"} => x.asked = <<>>
    /\ x.at \in {"asking", "error"} /\ ~x.moved => x.asked \o x.queue = x.due
    /\ x.at = "error" => x.queue = <<>>

\* What a search that is between its two reads has read still holds.
SearchCurrent(x) ==
    x.at = "collecting_rest" /\ ~x.moved =>
        /\ x.queue = Hosted(CurrentEndpoint)
        /\ x.due = x.queue \o Hosted(FallbackEndpoints)

Calls == [at : CallStates, queue : Seq(Providers), asked : Seq(Providers),
          moved : BOOLEAN, due : Seq(Providers)]

SearchInv ==
    /\ search \in [Searches -> Calls]
    /\ \A s \in Searches : SearchSound(search[s]) /\ SearchCurrent(search[s])

\* The endpoints are members, each once, and the current one is not among the others.
LEMMA EndpointFacts ==
    ASSUME BindingInv
    PROVE  /\ Hosted(CurrentEndpoint) \in Seq(Providers) /\ IsInjective(Hosted(CurrentEndpoint))
           /\ Hosted(FallbackEndpoints) \in Seq(Providers)
           /\ IsInjective(Hosted(FallbackEndpoints))
           /\ Range(Hosted(CurrentEndpoint)) \cap Range(Hosted(FallbackEndpoints)) = {}
<1>1. /\ Routing.members \in Seq(Providers) /\ IsInjective(Routing.members)
      /\ Routing.keyed \subseteq Providers
  <2>1. Generation \in 1 .. Generation
    BY DEF BindingInv, Generation
  <2>2. QED BY <2>1, RoutingFacts DEF Routing
<1>2. /\ CurrentEndpoint \in Seq(Providers) /\ IsInjective(CurrentEndpoint)
      /\ Range(CurrentEndpoint) \subseteq {CurrentMember}
  <2>1. CASE CurrentMember \in Routing.keyed
    <3>1. CurrentEndpoint = <<CurrentMember>> /\ CurrentMember \in Providers
      BY <1>1, <2>1 DEF CurrentEndpoint
    <3>2. QED BY <3>1 DEF IsInjective, Range
  <2>2. CASE CurrentMember \notin Routing.keyed
    BY <2>2 DEF CurrentEndpoint, IsInjective, Range
  <2>3. QED BY <2>1, <2>2
<1>3. /\ FallbackEndpoints \in Seq(Providers) /\ IsInjective(FallbackEndpoints)
      /\ CurrentMember \notin Range(FallbackEndpoints)
  BY <1>1, AmongFacts DEF FallbackEndpoints
<1>4. /\ Hosted(CurrentEndpoint) \in Seq(Providers) /\ IsInjective(Hosted(CurrentEndpoint))
      /\ Range(Hosted(CurrentEndpoint)) \subseteq {CurrentMember}
  BY <1>2, AmongFacts DEF Hosted
<1>5. /\ Hosted(FallbackEndpoints) \in Seq(Providers)
      /\ IsInjective(Hosted(FallbackEndpoints))
      /\ CurrentMember \notin Range(Hosted(FallbackEndpoints))
  BY <1>3, AmongFacts DEF Hosted
<1>6. QED BY <1>4, <1>5

\* Sequences that share no element.
LEMMA DisjointConcat ==
    ASSUME NEW P, NEW s \in Seq(P), NEW t \in Seq(P), IsInjective(s), IsInjective(t),
           Range(s) \cap Range(t) = {}
    PROVE  s \o t \in Seq(P) /\ IsInjective(s \o t)
<1>1. /\ s \o t \in Seq(P) /\ Len(s) \in Nat /\ Len(t) \in Nat
      /\ DOMAIN s = 1 .. Len(s) /\ DOMAIN t = 1 .. Len(t)
      /\ DOMAIN (s \o t) = 1 .. Len(s) + Len(t)
      /\ \A i \in 1 .. Len(s) + Len(t) :
            (s \o t)[i] = IF i <= Len(s) THEN s[i] ELSE t[i - Len(s)]
  OBVIOUS
<1>2. \A i \in 1 .. Len(s), j \in 1 .. Len(t) : s[i] # t[j]
  BY <1>1 DEF Range
<1>3. \A i, j \in 1 .. Len(s) : s[i] = s[j] => i = j
  BY <1>1 DEF IsInjective
<1>4. \A i, j \in 1 .. Len(t) : t[i] = t[j] => i = j
  BY <1>1 DEF IsInjective
<1>5. ASSUME NEW i \in 1 .. Len(s) + Len(t), NEW j \in 1 .. Len(s) + Len(t),
             (s \o t)[i] = (s \o t)[j]
      PROVE  i = j
  <2>1. \A k \in 1 .. Len(s) + Len(t) :
            \/ k \in 1 .. Len(s) /\ (s \o t)[k] = s[k]
            \/ k - Len(s) \in 1 .. Len(t) /\ (s \o t)[k] = t[k - Len(s)]
    BY <1>1
  <2>2. CASE i \in 1 .. Len(s) /\ j \in 1 .. Len(s)
    BY <1>1, <1>3, <1>5, <2>2
  <2>3. CASE i - Len(s) \in 1 .. Len(t) /\ j - Len(s) \in 1 .. Len(t)
    <3>1. i - Len(s) = j - Len(s)
      BY <1>1, <1>4, <1>5, <2>3
    <3>2. QED BY <1>1, <3>1
  <2>4. QED BY <1>1, <1>2, <1>5, <2>1, <2>2, <2>3
<1>6. QED BY <1>1, <1>5 DEF IsInjective

\* A step of one search, which is collecting only when the endpoints are as it
\* has read them.
LEMMA SearchMoves ==
    ASSUME SearchInv, NEW s \in Searches, NEW x \in Calls, search' = [search EXCEPT ![s] = x],
           UNCHANGED bindingVars, SearchSound(x), SearchCurrent(x)
    PROVE  SearchInv'
<1>1. \A r \in Searches : search'[r] = IF r = s THEN x ELSE search[r]
  BY DEF SearchInv
<1>2. search' \in [Searches -> Calls]
  BY DEF SearchInv
<1>3. /\ Hosted(CurrentEndpoint)' = Hosted(CurrentEndpoint)
      /\ Hosted(FallbackEndpoints)' = Hosted(FallbackEndpoints)
  BY DEF bindingVars, Hosted, CurrentEndpoint, FallbackEndpoints, CurrentMember, Routing,
         Generation
<1>4. QED BY <1>1, <1>2, <1>3 DEF SearchInv, SearchSound, SearchCurrent

\* A step of a search.
LEMMA SearchSteps ==
    ASSUME BindingInv, SearchInv, NEW s \in Searches, SearchStep(s)
    PROVE  SearchInv'
<1>0. search[s] \in Calls /\ SearchSound(search[s]) /\ SearchCurrent(search[s])
  BY DEF SearchInv
<1>n. NoSearch \in Calls /\ SearchSound(NoSearch) /\ SearchCurrent(NoSearch)
  <2>1. NoSearch \in Calls
    BY DEF NoSearch, Calls, CallStates
  <2>2. SearchSound(NoSearch) /\ SearchCurrent(NoSearch)
    BY DEF NoSearch, SearchSound, SearchCurrent, IsInjective
  <2>3. QED BY <2>1, <2>2
<1>1. ASSUME NEW at \in {"collecting", "trying", "found", "failed"}, SearchGoes(s, at),
             search[s].at \notin {"asking", "error"}, UNCHANGED bindingVars
      PROVE  SearchInv'
  <2> DEFINE x == [search[s] EXCEPT !.at = at]
  <2>1. search' = [search EXCEPT ![s] = x]
    BY <1>1 DEF SearchGoes
  <2>2. /\ x \in Calls /\ x.at = at /\ x.queue = search[s].queue /\ x.asked = search[s].asked
    BY <1>0 DEF Calls, CallStates
  <2> HIDE DEF x
  <2>3. SearchSound(x) /\ SearchCurrent(x)
    BY <1>0, <1>1, <2>2 DEF SearchSound, SearchCurrent
  <2>4. QED BY <1>1, <2>1, <2>2, <2>3, SearchMoves
<1>2. CASE search' = [search EXCEPT ![s] = NoSearch] /\ UNCHANGED bindingVars
  BY <1>n, <1>2, SearchMoves
<1>3. CASE CollectCurrent(s)
  <2> DEFINE x == [search[s] EXCEPT !.at = "collecting_rest", !.queue = Hosted(CurrentEndpoint),
                                    !.due = Hosted(CurrentEndpoint) \o Hosted(FallbackEndpoints)]
  <2>1. search' = [search EXCEPT ![s] = x] /\ UNCHANGED bindingVars /\ search[s].at = "collecting"
    BY <1>3 DEF CollectCurrent
  <2>2. /\ Hosted(CurrentEndpoint) \in Seq(Providers)
        /\ Hosted(CurrentEndpoint) \o Hosted(FallbackEndpoints) \in Seq(Providers)
        /\ IsInjective(Hosted(CurrentEndpoint))
    BY EndpointFacts, DisjointConcat
  <2>3. /\ x \in Calls /\ x.at = "collecting_rest" /\ x.queue = Hosted(CurrentEndpoint)
        /\ x.due = x.queue \o Hosted(FallbackEndpoints) /\ x.asked = search[s].asked
    BY <1>0, <2>2 DEF Calls, CallStates
  <2> HIDE DEF x
  <2>4. x.asked = <<>> /\ x.asked \o x.queue = x.queue
    BY <1>0, <2>1, <2>2, <2>3 DEF SearchSound
  <2>5. SearchSound(x) /\ SearchCurrent(x)
    BY <2>2, <2>3, <2>4 DEF SearchSound, SearchCurrent
  <2>6. QED BY <2>1, <2>3, <2>5, SearchMoves
<1>4. CASE CollectRest(s)
  <2> DEFINE q    == search[s].queue
             h    == Hosted(FallbackEndpoints)
             rest == Among(h, Providers \ Range(q))
             x    == [search[s] EXCEPT !.at = "asking", !.queue = q \o rest]
  <2>1. /\ search' = [search EXCEPT ![s] = x] /\ UNCHANGED bindingVars
        /\ search[s].at = "collecting_rest"
    BY <1>4 DEF CollectRest
  <2>2. /\ q \in Seq(Providers) /\ h \in Seq(Providers)
        /\ IsInjective(h) /\ Range(h) \subseteq Providers
    BY <1>0, EndpointFacts DEF Calls, Range
  <2>3. search[s].asked = <<>> /\ IsInjective(q)
    <3>1. search[s].asked = <<>> /\ IsInjective(search[s].asked \o q)
      BY <1>0, <2>1 DEF SearchSound
    <3>2. <<>> \o q = q
      BY <2>2
    <3>3. QED BY <3>1, <3>2
  <2> HIDE DEF h, q
  <2>4. /\ rest \in Seq(Providers) /\ IsInjective(rest)
        /\ Range(rest) = Range(h) \cap (Providers \ Range(q))
        /\ Range(h) \cap Range(q) = {} => rest = h
    BY <2>2, AmongFacts
  <2> HIDE DEF rest
  <2>5. q \o rest \in Seq(Providers) /\ IsInjective(q \o rest)
    BY <2>2, <2>3, <2>4, DisjointConcat
  <2>6. /\ x \in Calls /\ x.at = "asking" /\ x.queue = q \o rest /\ x.moved = search[s].moved
        /\ x.due = search[s].due /\ x.asked = <<>>
    BY <1>0, <2>3, <2>5 DEF Calls, CallStates
  <2> HIDE DEF x
  <2>7. x.asked \o x.queue = q \o rest
    BY <2>5, <2>6
  <2>8. ~x.moved => x.due = q \o rest
    <3>1. ~x.moved => q = Hosted(CurrentEndpoint) /\ x.due = q \o h
      BY <1>0, <2>1, <2>6 DEF SearchCurrent, q, h
    <3>2. ~x.moved => Range(h) \cap Range(q) = {}
      BY <3>1, EndpointFacts DEF h
    <3>3. QED BY <2>4, <3>1, <3>2
  <2>9. SearchSound(x) /\ SearchCurrent(x)
    BY <2>5, <2>6, <2>7, <2>8 DEF SearchSound, SearchCurrent
  <2>10. QED BY <2>1, <2>6, <2>9, SearchMoves
<1>5. CASE AskHosted(s)
  <2> DEFINE q == search[s].queue
             a == search[s].asked
             x == [search[s] EXCEPT !.queue = Tail(q), !.asked = Append(a, Head(q))]
  <2>1. /\ search' = [search EXCEPT ![s] = x] /\ UNCHANGED bindingVars
        /\ search[s].at = "asking" /\ q # <<>>
    BY <1>5 DEF AskHosted
  <2>2. q \in Seq(Providers) /\ a \in Seq(Providers)
    BY <1>0 DEF Calls
  <2> HIDE DEF q, a
  <2>3. /\ Tail(q) \in Seq(Providers) /\ Append(a, Head(q)) \in Seq(Providers)
        /\ Append(a, Head(q)) \o Tail(q) = a \o q
    BY <2>1, <2>2
  <2>4. /\ x \in Calls /\ x.at = "asking" /\ x.queue = Tail(q) /\ x.asked = Append(a, Head(q))
        /\ x.moved = search[s].moved /\ x.due = search[s].due
    BY <1>0, <2>1, <2>3 DEF Calls
  <2> HIDE DEF x
  <2>5. SearchSound(x) /\ SearchCurrent(x)
    BY <1>0, <2>1, <2>3, <2>4 DEF SearchSound, SearchCurrent, q, a
  <2>6. QED BY <2>1, <2>4, <2>5, SearchMoves
<1>6. CASE SearchFails(s)
  <2> DEFINE x == [search[s] EXCEPT !.at = "error"]
  <2>1. /\ search' = [search EXCEPT ![s] = x] /\ UNCHANGED bindingVars
        /\ search[s].at = "asking" /\ search[s].queue = <<>>
    BY <1>6 DEF SearchFails, SearchGoes
  <2>2. /\ x \in Calls /\ x.at = "error" /\ x.queue = search[s].queue
        /\ x.asked = search[s].asked /\ x.moved = search[s].moved /\ x.due = search[s].due
    BY <1>0 DEF Calls, CallStates
  <2> HIDE DEF x
  <2>3. SearchSound(x) /\ SearchCurrent(x)
    BY <1>0, <2>1, <2>2 DEF SearchSound, SearchCurrent
  <2>4. QED BY <2>1, <2>2, <2>3, SearchMoves
<1>7. CASE BeginSearch(s)
  BY <1>1, <1>7 DEF BeginSearch
<1>8. CASE TryDuckDuckGo(s) \/ TriggerCooldown(s)
  BY <1>1, <1>8 DEF TryDuckDuckGo, TriggerCooldown
<1>9. CASE ClearCooldown(s) \/ EndSearch(s)
  BY <1>2, <1>9 DEF ClearCooldown, EndSearch
<1>10. QED BY <1>3, <1>4, <1>5, <1>6, <1>7, <1>8, <1>9 DEF SearchStep

\* A step of the client or of the router: a search it moves the endpoints of is
\* marked, and nothing is claimed of what that one collects.
LEMMA ClientSteps ==
    ASSUME SearchInv, ClientStep
    PROVE  SearchInv'
<1> DEFINE changed == <<Routing, lastSuccess>> # <<routings'[Len(routings')], lastSuccess'>>
           marked(s) == [search[s] EXCEPT !.moved = TRUE, !.due = <<>>]
<1>1. search' = [s \in Searches |-> IF search[s].at = "collecting_rest" /\ changed
                                   THEN marked(s) ELSE search[s]]
  BY DEF ClientStep
<1>2. ~changed => /\ Hosted(CurrentEndpoint)' = Hosted(CurrentEndpoint)
                  /\ Hosted(FallbackEndpoints)' = Hosted(FallbackEndpoints)
  <2>1. ~changed => Routing' = Routing /\ lastSuccess' = lastSuccess
    BY DEF Routing, Generation
  <2>2. QED BY <2>1 DEF Hosted, CurrentEndpoint, FallbackEndpoints, CurrentMember
<1> HIDE DEF changed
<1>3. ASSUME NEW s \in Searches
      PROVE  search'[s] \in Calls /\ SearchSound(search'[s]) /\ SearchCurrent(search[s])'
  <2>0. search[s] \in Calls /\ SearchSound(search[s]) /\ SearchCurrent(search[s])
    BY DEF SearchInv
  <2>1. CASE search[s].at = "collecting_rest" /\ changed
    <3>1. search'[s] = marked(s)
      BY <1>1, <2>1
    <3>2. /\ marked(s) \in Calls /\ marked(s).at = "collecting_rest" /\ marked(s).moved
          /\ marked(s).queue = search[s].queue /\ marked(s).asked = search[s].asked
      <4>1. <<>> \in Seq(Providers)
        OBVIOUS
      <4>2. marked(s) \in Calls
        BY <2>0, <4>1 DEF Calls
      <4>3. QED BY <2>0, <2>1, <4>2 DEF Calls
    <3> HIDE DEF marked
    <3>3. QED BY <2>0, <2>1, <3>1, <3>2 DEF SearchSound, SearchCurrent
  <2>2. CASE ~(search[s].at = "collecting_rest" /\ changed)
    <3>1. search'[s] = search[s]
      BY <1>1, <2>2
    <3>2. QED BY <1>2, <2>0, <2>2, <3>1 DEF SearchCurrent
  <2>3. QED BY <2>1, <2>2
<1>4. QED BY <1>1, <1>3 DEF SearchInv

\* A search that reports failure has asked the members that offer hosted search
\* in their order, the current one first, unless they moved as it collected
\* them, and has asked none twice in any case.
THEOREM SearchesAsk == Spec => []AllAsked
<1>1. Init => BindingInv /\ SearchInv
  <2> SUFFICES ASSUME Init PROVE SearchInv
    BY InitBinding DEF Init
  <2>1. NoSearch \in Calls
    BY DEF NoSearch, Calls, CallStates
  <2>2. SearchSound(NoSearch) /\ SearchCurrent(NoSearch)
    BY DEF NoSearch, SearchSound, SearchCurrent, IsInjective
  <2>3. QED BY <2>1, <2>2 DEF Init, SearchInit, SearchInv
<1>2. BindingInv /\ SearchInv /\ [Next]_vars => SearchInv'
  <2> SUFFICES ASSUME BindingInv, SearchInv, [Next]_vars PROVE SearchInv'
    OBVIOUS
  <2>1. ASSUME UNCHANGED bindingVars, search' = search PROVE SearchInv'
    <3>1. /\ Hosted(CurrentEndpoint)' = Hosted(CurrentEndpoint)
          /\ Hosted(FallbackEndpoints)' = Hosted(FallbackEndpoints)
      BY <2>1 DEF bindingVars, Hosted, CurrentEndpoint, FallbackEndpoints, CurrentMember,
                  Routing, Generation
    <3>2. QED BY <2>1, <3>1 DEF SearchInv, SearchSound, SearchCurrent
  <2>2. Tick \/ UNCHANGED vars => UNCHANGED bindingVars /\ search' = search
    BY DEF Tick, vars, searchVars
  <2>3. QED BY <2>1, <2>2, ClientSteps, SearchSteps DEF Next
<1>3. SearchInv => AllAsked
  <2> SUFFICES ASSUME SearchInv, NEW s \in Searches
               PROVE  /\ IsInjective(search[s].asked)
                      /\ search[s].at = "error" /\ ~search[s].moved =>
                            search[s].asked = search[s].due
    BY DEF AllAsked
  <2>1. search[s] \in Calls /\ SearchSound(search[s])
    BY DEF SearchInv
  <2>2. IsInjective(search[s].asked)
    <3> DEFINE a == search[s].asked
               q == search[s].queue
    <3>1. a \in Seq(Providers) /\ q \in Seq(Providers) /\ IsInjective(a \o q)
      BY <2>1 DEF Calls, SearchSound
    <3> HIDE DEF a, q
    <3>2. \A i \in DOMAIN a : i \in DOMAIN (a \o q) /\ (a \o q)[i] = a[i]
      BY <3>1
    <3>3. QED BY <3>1, <3>2 DEF IsInjective, a
  <2>3. search[s].queue = <<>> => search[s].asked \o search[s].queue = search[s].asked
    BY <2>1 DEF Calls
  <2>4. QED BY <2>1, <2>2, <2>3 DEF SearchSound
<1>4. QED BY <1>1, <1>2, <1>3, NextBinding, PTL DEF Spec

=============================================================================
