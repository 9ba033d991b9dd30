------------------------------- MODULE NodeDbProofs -------------------------------
(***************************************************************************)
(* Proofs about NodeDb, for a flash of any size, any finite sets of names, *)
(* any number of power cuts and of deletions: wherever the power is cut,   *)
(* the nodes that can be reached form whole sorted lists and nothing       *)
(* stored is lost; until a cut hits an operation, the back links are       *)
(* right, and the block writes implement CredentialStore.                  *)
(*                                                                         *)
(* The argument: the flash holds lists P (services) and C (the logins of   *)
(* each), and orphans O, nodes a power cut left in no list but to which    *)
(* back links still point.  An insertion goes through stages, named for    *)
(* what is written, and each write either leaves the lists as they were or *)
(* adds the new node to one of them.                                       *)
(***************************************************************************)
EXTENDS NodeDb, FiniteSetTheorems, WellFoundedInduction, SequenceTheorems, TLAPS

-----------------------------------------------------------------------------
(* Numbers, recursive functions and walks *)

\* A set of numbers has a least one, which is its Min.
LEMMA MinIn ==
  ASSUME NEW S, S \subseteq Nat, S # {}
  PROVE  Min(S) \in S /\ \A y \in S : Min(S) <= y
<1> DEFINE R == OpToRel(<, Nat)
<1>1. IsWellFoundedOn(R, Nat)
  BY NatLessThanWellFounded
<1>2. \A x, y \in Nat : x < y => <<x, y>> \in R
  BY DEF OpToRel
<1> HIDE DEF R
<1>3. PICK x \in S : \A y \in S : ~(<<y, x>> \in R)
  BY <1>1, WFMin
<1>4. ASSUME NEW y \in S PROVE x <= y
  <2>1. x \in Nat /\ y \in Nat /\ ~(y < x)
    BY <1>2, <1>3
  <2> QED BY <2>1
<1> QED BY <1>4 DEF Min

\* Set-form induction.
LEMMA Induction ==
  ASSUME NEW S, 0 \in S, NEW N \in Nat, \A n \in 0..N : n \in S /\ n < N => n + 1 \in S
  PROVE  0..N \subseteq S
<1> SUFFICES ASSUME (0..N) \ S # {} PROVE FALSE
  OBVIOUS
<1> DEFINE m == Min((0..N) \ S)
<1>1. m \in (0..N) \ S /\ \A y \in (0..N) \ S : m <= y
  <2>1. (0..N) \ S \subseteq Nat
    OBVIOUS
  <2> QED BY <2>1, MinIn
<1> HIDE DEF m
<1>2. m # 0
  BY <1>1
<1>3. m - 1 \in 0..N /\ m - 1 < N /\ ~(m <= m - 1)
  BY <1>1, <1>2
<1>4. m - 1 \in S
  BY <1>1, <1>3
<1>5. (m - 1) + 1 \in S
  BY <1>3, <1>4
<1> QED BY <1>1, <1>5

\* The recursive function that starts with a and goes on with next exists.
Iterates(A, a, next, N) ==
  \E g \in [0..N -> A] : g = [k \in 0..N |-> IF k = 0 THEN a ELSE next[<<k, g[k - 1]>>]]

\* It does, as long as the values it goes on with are in the same set.
LEMMA Iterated ==
  ASSUME NEW A, NEW a \in A, NEW next \in [Nat \X A -> A], NEW N \in Nat
  PROVE  Iterates(A, a, next, N)
<1> DEFINE Defined(n, g) == g \in [0..n -> A] /\ g[0] = a
                            /\ \A k \in 1..n : g[k] = next[<<k, g[k - 1]>>]
           S == {n \in 0..N : \E g : Defined(n, g)}
<1>1. 0 \in S
  <2> DEFINE h == [k \in 0..0 |-> a]
  <2>1. Defined(0, h)
    OBVIOUS
  <2> HIDE DEF h, Defined
  <2> QED BY <2>1
<1>2. ASSUME NEW n \in 0..N, n \in S, n < N PROVE n + 1 \in S
  <2>1. PICK g : Defined(n, g)
    BY <1>2
  <2> DEFINE h == [k \in 0..(n + 1) |-> IF k <= n THEN g[k] ELSE next[<<n + 1, g[n]>>]]
  <2>2. Defined(n + 1, h)
    <3>1. g[n] \in A /\ <<n + 1, g[n]>> \in Nat \X A
      BY <2>1
    <3>2. h \in [0..(n + 1) -> A]
      BY <2>1, <3>1
    <3>3. h[0] = a
      BY <2>1
    <3>4. ASSUME NEW k \in 1..(n + 1) PROVE h[k] = next[<<k, h[k - 1]>>]
      <4>1. CASE k <= n
        BY <2>1, <4>1
      <4>2. CASE k = n + 1
        <5>1. h[n] = g[n] /\ k - 1 = n
          BY <4>2
        <5>2. h[n + 1] = next[<<n + 1, g[n]>>]
          OBVIOUS
        <5> HIDE DEF h, Defined, S
        <5> QED BY <4>2, <5>1, <5>2
      <4> QED BY <4>1, <4>2
    <3> QED BY <3>2, <3>3, <3>4
  <2> HIDE DEF h, Defined
  <2> QED BY <1>2, <2>2
<1>3. N \in S
  <2> HIDE DEF S
  <2>1. 0..N \subseteq S
    BY <1>1, <1>2, Induction
  <2> QED BY <2>1
<1>4. PICK g : Defined(N, g)
  BY <1>3
<1>5. g = [k \in 0..N |-> IF k = 0 THEN a ELSE next[<<k, g[k - 1]>>]]
  BY <1>4
<1> QED BY <1>4, <1>5 DEF Iterates

Blocks == [{Profile} \cup Slots -> Nodes]

\* The walk of NodeDb in any flash f.
WalkIn(f, owner) ==
  LET nth[k \in Steps] ==
        IF k = 0 THEN f[owner].child
        ELSE LET s == nth[k - 1] IN IF s = Nil THEN Nil ELSE f[s].next
  IN nth

\* Walk is that, now and in the next state.
LEMMA WalkIsIn == \A owner : Walk(owner) = WalkIn(flash, owner)
  BY DEF Walk, WalkIn
LEMMA WalkIsInP == \A owner : Walk(owner)' = WalkIn(flash', owner)
  BY DEF Walk, WalkIn

\* The names are finitely many, so the steps of a walk are numbered up to their count.
LEMMA StepsNat == /\ Cardinality(Services \cup Logins) \in Nat
                  /\ Steps = 0..Cardinality(Services \cup Logins)
  BY NamesAssumption, FS_CardinalityType DEF Steps

\* A walk is a function that starts at the head and follows the links.
LEMMA Walked ==
  ASSUME NEW f \in Blocks, NEW owner \in {Profile} \cup Slots
  PROVE  /\ WalkIn(f, owner) \in [Steps -> Addresses]
         /\ WalkIn(f, owner)[0] = f[owner].child
         /\ \A k \in Steps : k > 0 =>
              WalkIn(f, owner)[k] = IF WalkIn(f, owner)[k - 1] = Nil THEN Nil
                                    ELSE f[WalkIn(f, owner)[k - 1]].next
<1> DEFINE next == [p \in Nat \X Addresses |-> IF p[2] = Nil THEN Nil ELSE f[p[2]].next]
           a == f[owner].child
           N == Cardinality(Services \cup Logins)
           Step(g, k) == IF k = 0 THEN a ELSE LET s == g[k - 1] IN IF s = Nil THEN Nil ELSE f[s].next
           OK(g) == g = [k \in Steps |-> Step(g, k)]
           w == WalkIn(f, owner)
<1>1. a \in Addresses /\ next \in [Nat \X Addresses -> Addresses]
  BY DEF Blocks, Nodes, Addresses, Nil, Profile
<1>2. N \in Nat /\ Steps = 0..N
  BY StepsNat
<1>3. w = CHOOSE g : OK(g)
  BY DEF WalkIn
<1> HIDE DEF a, N, w
<1>4. PICK g \in [0..N -> Addresses] :
        g = [k \in 0..N |-> IF k = 0 THEN a ELSE next[<<k, g[k - 1]>>]]
  <2> HIDE DEF next
  <2>1. N \in Nat
    BY <1>2
  <2>2. Iterates(Addresses, a, next, N)
    BY <1>1, <2>1, Iterated
  <2> QED BY <2>2 DEF Iterates
<1>5. OK(g)
  <2>1. ASSUME NEW k \in Steps PROVE g[k] = Step(g, k)
    <3>1. CASE k = 0
      BY <1>2, <1>4, <3>1
    <3>2. CASE k # 0
      <4>1. k \in 0..N /\ k - 1 \in 0..N /\ k \in Nat
        BY <1>2, <3>2
      <4>2. g[k] = next[<<k, g[k - 1]>>] /\ g[k - 1] \in Addresses
        <5> HIDE DEF next
        <5> QED BY <1>4, <3>2, <4>1
      <4> QED BY <3>2, <4>1, <4>2
    <3> QED BY <3>1, <3>2
  <2>2. g = [k \in Steps |-> g[k]]
    BY <1>2, <1>4
  <2> HIDE DEF Step
  <2> QED BY <2>1, <2>2
<1>6. OK(w)
  <2> HIDE DEF OK
  <2> QED BY <1>3, <1>5
<1>7. w = [k \in Steps |-> w[k]]
  <2> HIDE DEF Step
  <2> QED BY <1>6
<1>12. \A k \in Steps : w[k] = Step(w, k)
  <2> HIDE DEF Step
  <2> QED BY <1>6
<1>8. w[0] = a
  <2>1. w[0] = Step(w, 0)
    <3> HIDE DEF Step
    <3> QED BY <1>2, <1>12
  <2> QED BY <2>1
<1>9. ASSUME NEW k \in Steps, k > 0
      PROVE  w[k] = IF w[k - 1] = Nil THEN Nil ELSE f[w[k - 1]].next
  <2>1. w[k] = Step(w, k) /\ k # 0
    <3> HIDE DEF Step
    <3> QED BY <1>2, <1>12, <1>9
  <2> QED BY <2>1
<1>10. 0..N \subseteq {k \in Nat : w[k] \in Addresses}
  <2> DEFINE S == {k \in Nat : w[k] \in Addresses}
  <2>1. 0 \in S
    BY <1>1, <1>8
  <2>2. ASSUME NEW k \in 0..N, k \in S, k < N PROVE k + 1 \in S
    <3>1. k + 1 \in Steps /\ k + 1 > 0 /\ (k + 1) - 1 = k
      BY <1>2, <2>2
    <3>2. w[k + 1] = IF w[k] = Nil THEN Nil ELSE f[w[k]].next
      BY <1>9, <3>1
    <3>3. w[k] \in Addresses
      BY <2>2
    <3> QED BY <3>1, <3>2, <3>3 DEF Blocks, Nodes, Addresses, Nil, Profile
  <2> HIDE DEF S
  <2>3. 0..N \subseteq S
    BY <2>1, <2>2, <1>2, Induction
  <2> QED BY <2>3 DEF S
<1>11. w \in [Steps -> Addresses]
  BY <1>2, <1>7, <1>10
<1> QED BY <1>8, <1>9, <1>11 DEF w, a

Names == Services \cup Logins

\* A walk along which the names rise comes to an end.
LEMMA Ends ==
  ASSUME NEW f \in Blocks, NEW w \in [Steps -> Addresses],
         \A k \in Steps : w[k] # Nil => f[w[k]].name \in Names,
         \A k \in Steps : k > 0 /\ w[k] # Nil => w[k - 1] # Nil /\ f[w[k - 1]].name < f[w[k]].name
  PROVE  \E k \in Steps : w[k] = Nil
<1> SUFFICES ASSUME \A k \in Steps : w[k] # Nil PROVE FALSE
  OBVIOUS
<1> DEFINE N == Cardinality(Names)
           name(k) == f[w[k]].name
           Below(k) == {n \in Names : n < name(k)}
           S == {k \in Nat : k \in Steps /\ k <= Cardinality(Below(k))}
<1>1. N \in Nat /\ Steps = 0..N /\ IsFiniteSet(Names) /\ Names \subseteq Nat
  BY StepsNat, NamesAssumption DEF Names
<1>2. \A k \in Steps : name(k) \in Names
  OBVIOUS
<1>3. \A k \in Steps : k > 0 => name(k - 1) < name(k)
  OBVIOUS
<1> HIDE DEF name, N
<1>4. ASSUME NEW k \in Steps
      PROVE  IsFiniteSet(Below(k)) /\ Cardinality(Below(k)) \in Nat /\ Cardinality(Below(k)) < N
  <2>1. Below(k) \in SUBSET Names /\ name(k) \in Names /\ name(k) \notin Below(k)
    <3>1. name(k) \in Names /\ name(k) \in Nat
      BY <1>1, <1>2
    <3>2. ~(name(k) < name(k))
      BY <3>1
    <3> QED BY <3>1, <3>2
  <2> HIDE DEF Below
  <2>2. IsFiniteSet(Below(k)) /\ Cardinality(Below(k)) <= N
        /\ (N = Cardinality(Below(k)) => Names = Below(k))
    BY <1>1, <2>1, FS_Subset DEF N
  <2>3. Cardinality(Below(k)) \in Nat
    BY <2>2, FS_CardinalityType
  <2> QED BY <1>1, <2>1, <2>2, <2>3
<1>5. 0 \in S
  <2>1. 0 \in Steps
    BY <1>1
  <2>2. Cardinality(Below(0)) \in Nat
    BY <1>4, <2>1
  <2> HIDE DEF Below
  <2> QED BY <2>1, <2>2
<1>6. ASSUME NEW k \in 0..N, k \in S, k < N PROVE k + 1 \in S
  <2>1. k \in Steps /\ k + 1 \in Steps /\ (k + 1) - 1 = k /\ k + 1 > 0 /\ k <= Cardinality(Below(k))
    BY <1>1, <1>6
  <2>2. name(k) < name(k + 1) /\ name(k) \in Names /\ name(k + 1) \in Names
    BY <1>2, <1>3, <2>1
  <2>3. name(k) \notin Below(k) /\ Below(k) \cup {name(k)} \in SUBSET Below(k + 1)
    <3>1. name(k) \in Nat /\ name(k + 1) \in Nat
      BY <1>1, <2>2
    <3>2. ~(name(k) < name(k))
      BY <3>1
    <3>3. ASSUME NEW n \in Below(k) PROVE n \in Below(k + 1)
      <4>1. n \in Nat /\ n < name(k) /\ n \in Names
        BY <1>1
      <4> QED BY <2>2, <3>1, <4>1
    <3> QED BY <2>2, <3>2, <3>3
  <2> HIDE DEF Below
  <2>4. Cardinality(Below(k) \cup {name(k)}) = Cardinality(Below(k)) + 1
    BY <1>4, <2>1, <2>3, FS_AddElement
  <2>5. Cardinality(Below(k) \cup {name(k)}) <= Cardinality(Below(k + 1))
    BY <1>4, <2>1, <2>3, FS_Subset
  <2>6. Cardinality(Below(k + 1)) \in Nat /\ Cardinality(Below(k)) \in Nat
    BY <1>4, <2>1
  <2>7. k + 1 <= Cardinality(Below(k + 1))
    BY <2>1, <2>4, <2>5, <2>6
  <2> QED BY <2>1, <2>7
<1>7. N \in S
  <2> HIDE DEF S
  <2>1. 0..N \subseteq S
    BY <1>1, <1>5, <1>6, Induction
  <2> QED BY <1>1, <2>1
<1> QED
  <2>1. N \in Steps /\ N <= Cardinality(Below(N))
    BY <1>7
  <2>2. Cardinality(Below(N)) \in Nat /\ Cardinality(Below(N)) < N
    BY <1>4, <2>1
  <2> HIDE DEF Below
  <2> QED BY <1>1, <2>1, <2>2

-----------------------------------------------------------------------------
(* The lists of the flash *)

\* S is the list of owner, in rising order of names.
Ordered(f, owner, S) ==
  /\ S \subseteq Slots
  /\ \A s \in S : f[s].name \in Names
  /\ \A s, t \in S : f[s].name = f[t].name => s = t
  /\ f[owner].child = Nil => S = {}
  /\ f[owner].child # Nil =>
       f[owner].child \in S /\ \A s \in S : f[f[owner].child].name <= f[s].name
  /\ \A s \in S : f[s].next = Nil => \A t \in S : f[t].name <= f[s].name
  /\ \A s \in S : f[s].next # Nil =>
       /\ f[s].next \in S /\ f[s].name < f[f[s].next].name
       /\ \A t \in S : f[t].name <= f[s].name \/ f[f[s].next].name <= f[t].name

\* The walk along a sorted list stays in it, in rising order, and comes to its end.
LEMMA WalkStays ==
  ASSUME NEW f \in Blocks, NEW owner \in {Profile} \cup Slots, NEW S, Ordered(f, owner, S),
         NEW w, w = WalkIn(f, owner)
  PROVE  /\ \A k \in Steps : w[k] \in S \cup {Nil}
         /\ \A k \in Steps : k > 0 /\ w[k] # Nil => w[k - 1] # Nil /\ f[w[k - 1]].name < f[w[k]].name
         /\ \E k \in Steps : w[k] = Nil
<1>1. /\ w \in [Steps -> Addresses] /\ w[0] = f[owner].child
      /\ \A k \in Steps : k > 0 => w[k] = IF w[k - 1] = Nil THEN Nil ELSE f[w[k - 1]].next
  BY Walked
<1> DEFINE N == Cardinality(Services \cup Logins)
           T == {k \in Nat : w[k] \in S \cup {Nil}}
<1>2. N \in Nat /\ Steps = 0..N
  BY StepsNat
<1> HIDE DEF N
<1>3. 0 \in T
  BY <1>1 DEF Ordered
<1>4. ASSUME NEW k \in 0..N, k \in T, k < N PROVE k + 1 \in T
  <2>1. k + 1 \in Steps /\ k + 1 > 0 /\ (k + 1) - 1 = k
    BY <1>2, <1>4
  <2>2. w[k + 1] = IF w[k] = Nil THEN Nil ELSE f[w[k]].next
    BY <1>1, <2>1
  <2> QED BY <1>4, <2>1, <2>2 DEF Ordered
<1>5. \A k \in Steps : w[k] \in S \cup {Nil}
  <2> HIDE DEF T
  <2>1. 0..N \subseteq T
    BY <1>2, <1>3, <1>4, Induction
  <2> QED BY <1>2, <2>1 DEF T
<1>6. ASSUME NEW k \in Steps, k > 0, w[k] # Nil
      PROVE  w[k - 1] # Nil /\ f[w[k - 1]].name < f[w[k]].name
  <2>1. k - 1 \in Steps
    BY <1>2, <1>6
  <2> QED BY <1>1, <1>5, <1>6, <2>1 DEF Ordered
<1>7. \A k \in Steps : w[k] # Nil => f[w[k]].name \in Names
  BY <1>5 DEF Ordered
<1>8. \E k \in Steps : w[k] = Nil
  BY <1>1, <1>6, <1>7, Ends
<1> QED BY <1>5, <1>6, <1>8

\* The place in the walk w where a search for n in the list S stops.
Stopped(f, owner, S, w, n, stop) ==
  /\ stop \in Steps
  /\ w[stop] # Nil => w[stop] \in S /\ f[w[stop]].name >= n
  /\ stop = 0 => w[stop] = f[owner].child /\ \A s \in S : f[s].name >= n
  /\ stop # 0 => /\ stop - 1 \in Steps /\ w[stop - 1] \in S /\ f[w[stop - 1]].name < n
                 /\ f[w[stop - 1]].next = w[stop]
  /\ \A s \in S : f[s].name >= n => w[stop] # Nil /\ f[w[stop]].name <= f[s].name

\* Numbers are in one order or the other.
LEMMA NotAtLeast == \A a, b \in Nat : ~(a >= b) => a < b
  OBVIOUS

\* Where a search for a name stops: at the first node that has not a lesser one.
LEMMA Stops ==
  ASSUME NEW f \in Blocks, NEW owner \in {Profile} \cup Slots, NEW S, Ordered(f, owner, S),
         NEW w, w = WalkIn(f, owner), NEW n \in Nat,
         NEW stop, stop = Min({k \in Steps : w[k] = Nil \/ f[w[k]].name >= n})
  PROVE  Stopped(f, owner, S, w, n, stop)
<1> DEFINE K == {k \in Steps : w[k] = Nil \/ f[w[k]].name >= n}
           N == Cardinality(Services \cup Logins)
<1>1. /\ w \in [Steps -> Addresses] /\ w[0] = f[owner].child
      /\ \A k \in Steps : k > 0 => w[k] = IF w[k - 1] = Nil THEN Nil ELSE f[w[k - 1]].next
  BY Walked
<1>2. N \in Nat /\ Steps = 0..N
  BY StepsNat
<1> HIDE DEF N
<1>3. (\A k \in Steps : w[k] \in S \cup {Nil}) /\ \E k \in Steps : w[k] = Nil
  BY WalkStays
<1>4. stop \in K /\ \A k \in K : stop <= k
  <2>1. K \subseteq Nat /\ K # {}
    BY <1>2, <1>3
  <2> HIDE DEF K
  <2>2. stop = Min(K)
    BY DEF K
  <2> QED BY <2>1, <2>2, MinIn
<1>5. Names \subseteq Nat
  BY NamesAssumption DEF Names
<1>6. stop = 0 => w[stop] = f[owner].child /\ \A s \in S : f[s].name >= n
  <2> SUFFICES ASSUME stop = 0, NEW s \in S PROVE w[0] = f[owner].child /\ f[s].name >= n
    BY <1>1
  <2>1. w[0] \in S /\ f[w[0]].name >= n
    BY <1>1, <1>3, <1>4 DEF Ordered
  <2>2. f[w[0]].name <= f[s].name /\ f[w[0]].name \in Nat /\ f[s].name \in Nat
    BY <1>1, <1>5, <2>1 DEF Ordered
  <2> QED BY <1>1, <2>1, <2>2
<1>7. stop # 0 => /\ stop - 1 \in Steps /\ w[stop - 1] \in S /\ f[w[stop - 1]].name < n
                  /\ f[w[stop - 1]].next = w[stop]
  <2> SUFFICES ASSUME stop # 0
               PROVE  /\ stop - 1 \in Steps /\ w[stop - 1] \in S /\ f[w[stop - 1]].name < n
                      /\ f[w[stop - 1]].next = w[stop]
    OBVIOUS
  <2>1. stop - 1 \in Steps /\ ~(stop <= stop - 1) /\ stop > 0
    <3>1. stop \in Steps
      BY <1>4
    <3> HIDE DEF K
    <3> QED BY <1>2, <3>1
  <2>2. stop - 1 \notin K
    BY <1>4, <2>1
  <2>3. w[stop - 1] \in S /\ ~(f[w[stop - 1]].name >= n)
    BY <1>3, <2>1, <2>2
  <2>4. f[w[stop - 1]].name \in Nat
    BY <1>5, <2>3 DEF Ordered
  <2>5. w[stop - 1] # Nil /\ f[w[stop - 1]].next = w[stop]
    BY <1>1, <1>4, <2>1, <2>3 DEF Ordered, Slots, Nil
  <2> HIDE DEF K
  <2>6. f[w[stop - 1]].name < n
    BY <2>3, <2>4, NotAtLeast, Zenon
  <2> QED BY <2>1, <2>3, <2>5, <2>6
<1>8. w[stop] # Nil => w[stop] \in S /\ f[w[stop]].name >= n
  BY <1>3, <1>4
<1>9. ASSUME NEW s \in S, f[s].name >= n PROVE w[stop] # Nil /\ f[w[stop]].name <= f[s].name
  <2>1. CASE stop = 0
    BY <1>6, <1>9, <2>1 DEF Ordered
  <2>2. CASE stop # 0
    <3> DEFINE b == w[stop - 1]
    <3>1. b \in S /\ f[b].name < n /\ f[b].next = w[stop] /\ f[b].name \in Nat /\ f[s].name \in Nat
      BY <1>5, <1>7, <2>2 DEF Ordered
    <3> HIDE DEF b, K
    <3>2. ~(f[s].name <= f[b].name)
      BY <1>9, <3>1
    <3> QED BY <3>1, <3>2 DEF Ordered
  <2> QED BY <2>1, <2>2
<1> QED BY <1>4, <1>6, <1>7, <1>8, <1>9 DEF Stopped

\* The addresses of the walk are those of the list.
ListedIn(f, owner) == {WalkIn(f, owner)[k] : k \in Steps} \ {Nil}

\* The walk along a sorted list reaches every node of it.
LEMMA ListedIsList ==
  ASSUME NEW f \in Blocks, NEW owner \in {Profile} \cup Slots, NEW S, Ordered(f, owner, S)
  PROVE  ListedIn(f, owner) = S
<1> DEFINE w == WalkIn(f, owner)
<1>1. ListedIn(f, owner) \subseteq S
  BY WalkStays DEF ListedIn
<1>2. ASSUME NEW s \in S PROVE s \in ListedIn(f, owner)
  <2> DEFINE n == f[s].name
             stop == Min({k \in Steps : w[k] = Nil \/ f[w[k]].name >= n})
  <2>1. n \in Nat
    BY NamesAssumption DEF Ordered, Names
  <2> HIDE DEF w, n, stop
  <2>2. /\ stop \in Steps
        /\ w[stop] # Nil => w[stop] \in S /\ f[w[stop]].name >= n
        /\ \A t \in S : f[t].name >= n => w[stop] # Nil /\ f[w[stop]].name <= f[t].name
    <3>1. Stopped(f, owner, S, w, n, stop)
      BY <2>1, Stops DEF w, stop
    <3> QED BY <3>1 DEF Stopped
  <2>3. f[s].name >= n /\ n = f[s].name
    BY <2>1 DEF n
  <2>4. w[stop] \in S /\ f[w[stop]].name \in Nat /\ f[w[stop]].name = f[s].name
    BY <2>1, <2>2, <2>3, NamesAssumption DEF Ordered, Names
  <2>5. w[stop] = s
    BY <2>4 DEF Ordered
  <2>6. s # Nil
    BY DEF Ordered, Slots, Nil
  <2> QED BY <2>2, <2>5, <2>6 DEF ListedIn, w
<1> QED BY <1>1, <1>2
-----------------------------------------------------------------------------
(* Stages of an insertion *)

\* Each back link is right, or points to an orphan: a node of no list.
Linked(f, owner, S, O) ==
  \A s \in S :
    \/ f[s].prev = Nil /\ f[owner].child = s
    \/ f[s].prev \in O
    \/ f[s].prev \in S /\ f[f[s].prev].next = s

\* The nodes of the lists of a flash f: P are the parents, C[p] the children of p; and
\* the orphans that a power cut left them linked to.
Lists(f, P, C, O) ==
  /\ C \in [Slots -> SUBSET Slots] /\ O \subseteq Slots
  /\ Ordered(f, Profile, P) /\ Linked(f, Profile, P, O)
  /\ \A p \in P : f[p].kind = "parent" /\ f[p].name \in Services
  /\ \A p \in P : Ordered(f, p, C[p]) /\ Linked(f, p, C[p], O)
  /\ \A p \in P : \A c \in C[p] :
       f[c].kind = "child" /\ f[c].name \in Logins /\ c + 1 \in Slots /\ f[c + 1].kind = "second"
  /\ \A p, q \in P : p # q => C[p] \cap C[q] = {}
  /\ \A s \in O : f[s].kind # "free" /\ s \notin P /\ \A p \in P : s \notin C[p]

\* Every slot is free, in the lists, or in X.
Whole(f, P, C, X) ==
  \A s \in Slots :
    f[s].kind = "free" \/ s \in P \/ (\E p \in P : \E c \in C[p] : s \in {c, c + 1}) \/ s \in X

\* An insertion i: of a node of a kind and a name, in a slot, between two nodes of the
\* list of owner, at the head of it or not; and whether no slot was lost before.
NewNode(i) == [kind |-> i.kind, prev |-> i.before, next |-> i.after, child |-> Nil, name |-> i.name]
Taken(i) == IF i.kind = "child" THEN {i.slot, i.slot + 1} ELSE {i.slot}
ListOf(P, C, i) ==
  IF i.kind = "parent" THEN P ELSE IF i.owner \in P THEN C[i.owner] ELSE {}

\* The owner is the profile, a parent of the list, or one whose list is empty.
Owned(f, P, i) ==
  IF i.kind = "parent" THEN i.owner = Profile /\ i.name \in Services
  ELSE /\ i.kind = "child" /\ i.owner \in Slots /\ f[i.owner].kind = "parent"
       /\ i.owner \in P \/ f[i.owner].child = Nil
       /\ i.name \in Logins

\* Where the node goes.
Place(f, S, O, i) ==
  /\ \A s \in S : f[s].name # i.name
  /\ i.after # Nil => i.after \in S /\ i.name < f[i.after].name
  /\ i.first => i.after = f[i.owner].child /\ (i.before = Nil \/ (i.after # Nil /\ i.before \in O))
  /\ ~i.first => \E p \in S : /\ f[p].next = i.after /\ f[p].name < i.name
                              /\ i.before = p \/ (i.after # Nil /\ i.before \in O)

\* The writes that are left.
BackWrite(f, i) == When(i.after # Nil, Write(i.after, [f[i.after] EXCEPT !.prev = i.slot]))
ForwardWrite(f, i) == When(i.before # Nil, Write(i.before, [f[i.before] EXCEPT !.next = i.slot]))
Rest4(f, i) == When(i.first, Write(i.owner, [f[i.owner] EXCEPT !.child = i.slot]))
Rest3(f, i) == ForwardWrite(f, i) \o Rest4(f, i)
Rest2(f, i) == BackWrite(f, i) \o Rest3(f, i)
Rest1(f, i) == When(i.kind = "child", Write(i.slot + 1, Blank("second"))) \o Rest2(f, i)
Rest0(f, i) == Write(i.slot, NewNode(i)) \o Rest1(f, i)

\* The slot is in no list yet.
Aside(P, C, O, i) == i.slot \in Slots /\ i.slot \notin P \cup O /\ \A p \in P : i.slot \notin C[p]
Second(f, i) == i.kind = "child" => i.slot + 1 \in Slots /\ f[i.slot + 1].kind = "second"
Placed(f, P, C, O, i) ==
  /\ Owned(f, P, i) /\ i.owner # i.slot /\ i.first \in BOOLEAN
  /\ Place(f, ListOf(P, C, i), O, i)
  /\ Aside(P, C, O, i)
  /\ i.kind = "child" /\ i.owner \notin P => O # {}
  /\ i.whole => O = {} /\ Whole(f, P, C, Taken(i))

\* Nothing is written.
Stage0(f, P, C, O, i) ==
  /\ Lists(f, P, C, O) /\ Placed(f, P, C, O, i)
  /\ \A s \in Taken(i) : s \in Slots /\ f[s].kind = "free"
\* The node is.
Stage1(f, P, C, O, i) ==
  /\ Lists(f, P, C, O) /\ Placed(f, P, C, O, i) /\ f[i.slot] = NewNode(i)
  /\ i.kind = "child" => i.slot + 1 \in Slots /\ f[i.slot + 1].kind = "free"
\* Its second half is.
Stage2(f, P, C, O, i) ==
  /\ Lists(f, P, C, O) /\ Placed(f, P, C, O, i) /\ f[i.slot] = NewNode(i) /\ Second(f, i)
\* The node after it links back to it, and no other.
Stage3(f, P, C, O, i) ==
  /\ Lists(f, P, C, O \cup {i.slot}) /\ Placed(f, P, C, O, i) /\ f[i.slot] = NewNode(i)
  /\ Second(f, i)
  /\ i.after # Nil => f[i.after].prev = i.slot
  /\ \A s \in P : f[s].prev = i.slot => s = i.after
  /\ \A p \in P : \A s \in C[p] : f[s].prev = i.slot => s = i.after
\* All is written: the node is in the list, unless there were orphans.
Done(f, P, C, O, i) ==
  /\ Lists(f, P, C, O) /\ i.slot \in Slots /\ f[i.slot].kind = i.kind
  /\ f[i.slot].name = i.name /\ f[i.slot].child = Nil
  /\ i.slot \in ListOf(P, C, i) \/ O # {}
  /\ i.whole => O = {} /\ Whole(f, P, C, {})

Inserting(f, t, P, C, O, i) ==
  \/ Stage0(f, P, C, O, i) /\ t = Rest0(f, i)
  \/ Stage1(f, P, C, O, i) /\ t = Rest1(f, i)
  \/ Stage2(f, P, C, O, i) /\ t = Rest2(f, i)
  \/ Stage3(f, P, C, O, i) /\ t = Rest3(f, i)
  \/ Stage3(f, P, C, O, i) /\ i.first /\ t = Rest4(f, i)
  \/ Done(f, P, C, O, i) /\ t = <<>>

\* The credentials of the lists.
Creds(f, P, C) == UNION {{<<f[p].name, f[c].name>> : c \in C[p]} : p \in P}

\* What a write of an insertion may do to them: nothing, or add the one it is about.
Outcome(f, g, P, C, P2, C2, i) ==
  /\ i.owner \in P2 => i.owner \in P /\ g[i.owner].name = f[i.owner].name
  /\ \/ Creds(g, P2, C2) = Creds(f, P, C)
     \/ /\ i.kind = "child" /\ i.owner \in P
        /\ <<f[i.owner].name, i.name>> \notin Creds(f, P, C)
        /\ Creds(g, P2, C2) = Creds(f, P, C) \cup {<<f[i.owner].name, i.name>>}
Advanced(f, g, t, P, C, O, i) ==
  \E P2, C2, O2 :
    /\ Inserting(g, t, P2, C2, O2, i)
    /\ O = {} => O2 = {}
    /\ Outcome(f, g, P, C, P2, C2, i)

-----------------------------------------------------------------------------
(* The inductive invariant *)

\* The lists between two insertions.
Idle(P, C, O) ==
  /\ Lists(flash, P, C, O)
  /\ cuts = 0 => O = {}
  /\ cuts = 0 /\ deletes = 0 => Whole(flash, P, C, {})

\* The service whose login is next.
Current(P, O) ==
  /\ parentAddr \in Slots /\ flash[parentAddr].kind = "parent"
  /\ IF parentAddr \in P THEN flash[parentAddr].name = request[1]
     ELSE flash[parentAddr].child = Nil /\ O # {}

Storing(P, C, O, i) ==
  /\ Inserting(flash, todo, P, C, O, i)
  /\ cuts = 0 => O = {}
  /\ cuts = 0 /\ deletes = 0 => i.whole

StoringService(P, C, O, i) ==
  /\ Storing(P, C, O, i)
  /\ i.kind = "parent" /\ i.owner = Profile /\ i.slot = freeParent /\ i.name = request[1]
StoringLogin(P, C, O, i) ==
  /\ Storing(P, C, O, i)
  /\ i.kind = "child" /\ i.slot = freeChild /\ i.name = request[2]
  /\ i.owner \in P => flash[i.owner].name = request[1]

\* The first write of a deletion takes all services out of the list, the others are
\* of slots only.
Freeing == [at : Slots, node : {Blank("free")}]
Erasing(t) == t \in Seq(Freeing)

Control ==
  /\ phase \in {"idle", "login"} => todo = <<>>
  /\ phase # "idle" => session
  /\ freeParent = Nil <=> freeChild = Nil
  /\ phase = "erase" => deletes > 0

\* What holds in each phase.
Deleting(P, C, O, t) ==
  Idle(P, C, O) /\ Erasing(t) /\ todo = Write(Profile, Blank("profile")) \o t
Deletion ==
  \/ \E P, C, O, t : Deleting(P, C, O, t)
  \/ flash[Profile].child = Nil /\ Erasing(todo)
PhaseInv ==
  /\ phase = "idle" => \E P, C, O : Idle(P, C, O)
  /\ phase = "login" => \E P, C, O : Idle(P, C, O) /\ Current(P, O)
  /\ phase = "service" => \E P, C, O, i : StoringService(P, C, O, i)
  /\ phase = "credential" => \E P, C, O, i : StoringLogin(P, C, O, i)
  /\ phase = "erase" => Deletion

IInv == TypeOK /\ Control /\ FreeSlotsFree /\ PhaseInv
-----------------------------------------------------------------------------
(* What a write does to the lists *)

\* Nil and the profile are no slots; names and slots are numbers.
LEMMA Apart == /\ Profile \notin Slots /\ Nil \notin Slots
               /\ Slots \subseteq Nat /\ Names \subseteq Nat
               /\ Services \subseteq Names /\ Logins \subseteq Names
  BY NamesAssumption DEF Profile, Nil, Slots, Names

\* A list is as sorted and as linked as before when its names and links are the same.
LEMMA OrderedFramed ==
  ASSUME NEW f, NEW g, NEW owner, NEW S, Ordered(f, owner, S), g[owner].child = f[owner].child,
         \A s \in S : g[s].name = f[s].name /\ g[s].next = f[s].next
  PROVE  Ordered(g, owner, S)
<1>1. f[owner].child # Nil => f[owner].child \in S
  BY DEF Ordered
<1>2. \A s \in S : f[s].next # Nil => f[s].next \in S
  BY DEF Ordered
<1> QED BY <1>1, <1>2 DEF Ordered

LEMMA LinkedFramed ==
  ASSUME NEW f, NEW g, NEW owner, NEW S, NEW O, NEW Q, Linked(f, owner, S, O), O \subseteq Q,
         g[owner].child = f[owner].child,
         \A s \in S : g[s].prev = f[s].prev /\ g[s].next = f[s].next
  PROVE  Linked(g, owner, S, Q)
  BY DEF Linked

\* A slot that is in no list can be written, as long as it does not become free.
LEMMA AsideWritten ==
  ASSUME NEW f \in Blocks, NEW P, NEW C, NEW O, Lists(f, P, C, O),
         NEW x \in Slots, x \notin P, \A p \in P : x \notin C[p],
         NEW node, node.kind = f[x].kind \/ f[x].kind = "free",
         NEW g, g = [f EXCEPT ![x] = node]
  PROVE  Lists(g, P, C, O)
<1>1. Profile # x /\ P \subseteq Slots /\ DOMAIN f = {Profile} \cup Slots
  BY Apart DEF Lists, Ordered, Blocks
<1>2. \A p \in P : C[p] \subseteq Slots
  BY DEF Lists, Ordered
<1>3. \A s \in {Profile} \cup Slots : g[s] = IF s = x THEN node ELSE f[s]
  BY <1>1
<1>4. g[Profile] = f[Profile] /\ \A p \in P : g[p] = f[p] /\ \A c \in C[p] : g[c] = f[c]
  BY <1>1, <1>2, <1>3
<1>5. Ordered(g, Profile, P) /\ Linked(g, Profile, P, O)
  <2>1. Ordered(f, Profile, P) /\ Linked(f, Profile, P, O)
    BY DEF Lists
  <2>2. Ordered(g, Profile, P)
    BY <1>4, <2>1, OrderedFramed
  <2>3. Linked(g, Profile, P, O)
    BY <1>4, <2>1, LinkedFramed
  <2> QED BY <2>2, <2>3
<1>6. ASSUME NEW p \in P PROVE Ordered(g, p, C[p]) /\ Linked(g, p, C[p], O)
  <2>1. Ordered(f, p, C[p]) /\ Linked(f, p, C[p], O)
    BY DEF Lists
  <2>2. g[p] = f[p] /\ \A c \in C[p] : g[c] = f[c]
    BY <1>4
  <2>3. Ordered(g, p, C[p])
    BY <2>1, <2>2, OrderedFramed
  <2>4. Linked(g, p, C[p], O)
    BY <2>1, <2>2, LinkedFramed
  <2> QED BY <2>3, <2>4
<1>7. ASSUME NEW p \in P, NEW c \in C[p]
      PROVE  g[c].kind = "child" /\ g[c].name \in Logins /\ c + 1 \in Slots /\ g[c + 1].kind = "second"
  <2>1. f[c].kind = "child" /\ f[c].name \in Logins /\ c + 1 \in Slots /\ f[c + 1].kind = "second"
    BY DEF Lists
  <2> QED BY <1>3, <1>4, <2>1
<1>8. ASSUME NEW s \in O PROVE g[s].kind # "free" /\ s \notin P /\ \A p \in P : s \notin C[p]
  BY <1>3 DEF Lists
<1>9. \A p \in P : g[p].kind = "parent" /\ g[p].name \in Services
  BY <1>4 DEF Lists
<1> QED BY <1>5, <1>6, <1>7, <1>8, <1>9 DEF Lists

\* A slot that is in use and in no list can be an orphan.
LEMMA Orphaned ==
  ASSUME NEW f, NEW P, NEW C, NEW O, Lists(f, P, C, O),
         NEW x \in Slots, x \notin P, \A p \in P : x \notin C[p], f[x].kind # "free"
  PROVE  Lists(f, P, C, O \cup {x})
<1>1. Linked(f, Profile, P, O \cup {x})
  BY LinkedFramed DEF Lists
<1>2. ASSUME NEW p \in P PROVE Linked(f, p, C[p], O \cup {x})
  BY LinkedFramed DEF Lists
<1> QED BY <1>1, <1>2 DEF Lists

\* A back link to an orphan.
LEMMA BackWritten ==
  ASSUME NEW f \in Blocks, NEW P, NEW C, NEW O, Lists(f, P, C, O), NEW x \in O,
         NEW a \in Slots, f[a].kind # "free", f[a].kind # "second",
         NEW g, g = [f EXCEPT ![a] = [f[a] EXCEPT !.prev = x]]
  PROVE  Lists(g, P, C, O)
<1>1. P \subseteq Slots /\ DOMAIN f = {Profile} \cup Slots /\ Profile # a
      /\ \A s \in {Profile} \cup Slots : f[s] \in Nodes
  BY Apart DEF Lists, Ordered, Blocks
<1>2. \A p \in P : C[p] \subseteq Slots
  BY DEF Lists, Ordered
<1>3. \A s \in {Profile} \cup Slots :
        /\ g[s].kind = f[s].kind /\ g[s].name = f[s].name /\ g[s].next = f[s].next
        /\ g[s].child = f[s].child
        /\ g[s].prev = IF s = a THEN x ELSE f[s].prev
  BY <1>1 DEF Nodes
<1>4. ASSUME NEW owner \in {Profile} \cup Slots, NEW S, S \subseteq Slots,
             Ordered(f, owner, S), Linked(f, owner, S, O)
      PROVE  Ordered(g, owner, S) /\ Linked(g, owner, S, O)
  <2>1. Ordered(g, owner, S)
    <3>1. g[owner].child = f[owner].child
          /\ \A s \in S : g[s].name = f[s].name /\ g[s].next = f[s].next
      BY <1>3, <1>4
    <3> QED BY <1>4, <3>1, OrderedFramed
  <2>2. Linked(g, owner, S, O)
    BY <1>3, <1>4 DEF Linked
  <2> QED BY <2>1, <2>2
<1>5. Ordered(g, Profile, P) /\ Linked(g, Profile, P, O)
  BY <1>1, <1>4 DEF Lists
<1>6. ASSUME NEW p \in P PROVE Ordered(g, p, C[p]) /\ Linked(g, p, C[p], O)
  BY <1>1, <1>2, <1>4 DEF Lists
<1>7. ASSUME NEW p \in P, NEW c \in C[p]
      PROVE  g[c].kind = "child" /\ g[c].name \in Logins /\ c + 1 \in Slots /\ g[c + 1].kind = "second"
  <2>1. f[c].kind = "child" /\ f[c].name \in Logins /\ c + 1 \in Slots /\ f[c + 1].kind = "second"
    BY DEF Lists
  <2> QED BY <1>2, <1>3, <2>1
<1>8. ASSUME NEW s \in O PROVE g[s].kind # "free" /\ s \notin P /\ \A p \in P : s \notin C[p]
  BY <1>3 DEF Lists
<1>9. \A p \in P : g[p].kind = "parent" /\ g[p].name \in Services
  BY <1>1, <1>3 DEF Lists
<1> QED BY <1>5, <1>6, <1>7, <1>8, <1>9 DEF Lists

\* The slot x comes into the list of owner, where b (or the owner itself) begins to
\* link to it and it links to a.
Joins(f, g, owner, S, x, a, b) ==
  /\ x \in Slots \ S /\ owner \notin S /\ owner # x
  /\ g[x].name \in Names /\ g[x].next = a
  /\ \A s \in S : f[s].name # g[x].name /\ g[s].name = f[s].name /\ g[s].prev = f[s].prev
  /\ a # Nil => a \in S /\ g[x].name < f[a].name
  /\ IF b = owner
     THEN /\ f[owner].child = a /\ g[owner].child = x
          /\ \A s \in S : g[s].next = f[s].next
     ELSE /\ b \in S /\ f[b].next = a /\ f[b].name < g[x].name
          /\ g[owner].child = f[owner].child
          /\ \A s \in S : g[s].next = IF s = b THEN x ELSE f[s].next

\* The list with the node is sorted,
LEMMA OrderedJoined ==
  ASSUME NEW f, NEW g, NEW owner, NEW S, NEW x, NEW a, NEW b,
         Ordered(f, owner, S), Joins(f, g, owner, S, x, a, b)
  PROVE  Ordered(g, owner, S \cup {x})
<1> DEFINE T == S \cup {x}
<1>1. x \in Slots /\ x # Nil /\ S \subseteq Slots /\ \A s \in S : s # Nil
  BY Apart DEF Joins, Ordered
<1>2. \A s \in S : g[s].name = f[s].name /\ g[s].name \in Nat /\ g[s].name \in Names
  BY Apart DEF Joins, Ordered
<1>3. g[x].name \in Nat /\ g[x].name \in Names /\ \A s \in S : g[s].name # g[x].name
  BY <1>2, Apart DEF Joins
<1>4. T \subseteq Slots /\ \A s \in T : g[s].name \in Names
  BY <1>1, <1>2, <1>3
<1>5. \A s, t \in T : g[s].name = g[t].name => s = t
  BY <1>2, <1>3 DEF Ordered
<1>6. CASE b = owner
  <2>1. g[owner].child = x
    BY <1>6 DEF Joins
  <2>2. \A s \in S : g[x].name <= g[s].name
    <3>1. CASE a = Nil
      BY <1>6, <3>1 DEF Joins, Ordered
    <3>2. CASE a # Nil
      <4>1. a \in S /\ g[x].name < g[a].name /\ \A s \in S : g[a].name <= g[s].name
        BY <1>2, <1>6, <3>2 DEF Joins, Ordered
      <4> QED BY <1>2, <1>3, <4>1
    <3> QED BY <3>1, <3>2
  <2>3. \A s \in S : g[s].next = f[s].next /\ g[x].next = a
    BY <1>6 DEF Joins
  <2>4. ASSUME NEW s \in S PROVE
          /\ g[s].next = Nil => \A t \in T : g[t].name <= g[s].name
          /\ g[s].next # Nil =>
               /\ g[s].next \in T /\ g[s].name < g[g[s].next].name
               /\ \A t \in T : g[t].name <= g[s].name \/ g[g[s].next].name <= g[t].name
    <3>1. /\ f[s].next = Nil => \A t \in S : f[t].name <= f[s].name
          /\ f[s].next # Nil =>
               /\ f[s].next \in S /\ f[s].name < f[f[s].next].name
               /\ \A t \in S : f[t].name <= f[s].name \/ f[f[s].next].name <= f[t].name
      BY DEF Ordered
    <3> QED BY <1>2, <2>2, <2>3, <3>1
  <2>5. /\ a = Nil => S = {}
        /\ a # Nil => a \in S /\ g[x].name < g[a].name /\ \A t \in S : g[a].name <= g[t].name
    BY <1>2, <1>6 DEF Joins, Ordered
  <2>6. /\ g[x].next = Nil => \A t \in T : g[t].name <= g[x].name
        /\ g[x].next # Nil =>
               /\ g[x].next \in T /\ g[x].name < g[g[x].next].name
               /\ \A t \in T : g[t].name <= g[x].name \/ g[g[x].next].name <= g[t].name
    <3>1. CASE a = Nil
      <4>1. S = {}
        BY <2>5, <3>1
      <4>2. g[x].name <= g[x].name
        BY <1>3
      <4>3. \A t \in T : g[t].name <= g[x].name
        BY <4>1, <4>2
      <4>4. g[x].next = Nil
        BY <3>1 DEF Joins
      <4> QED BY <4>3, <4>4
    <3>2. CASE a # Nil
      BY <1>3, <2>3, <2>5, <3>2
    <3> QED BY <3>1, <3>2
  <2>7. /\ g[owner].child # Nil /\ g[owner].child \in T
        /\ \A s \in T : g[g[owner].child].name <= g[s].name
    BY <1>1, <1>3, <2>1, <2>2
  <2> QED BY <1>4, <1>5, <2>4, <2>6, <2>7 DEF Ordered
<1>7. CASE b # owner
  <2>1. /\ b \in S /\ f[b].next = a /\ g[b].name < g[x].name /\ g[owner].child = f[owner].child
        /\ g[b].next = x /\ g[x].next = a
        /\ \A s \in S : s # b => g[s].next = f[s].next
    BY <1>7 DEF Joins
  <2>2. /\ a = Nil => \A t \in S : g[t].name <= g[b].name
        /\ a # Nil => /\ a \in S /\ g[x].name < g[a].name
                      /\ \A t \in S : g[t].name <= g[b].name \/ g[a].name <= g[t].name
    BY <1>2, <2>1 DEF Joins, Ordered
  <2>3. \A t \in S : g[t].name <= g[b].name \/ g[x].name <= g[t].name
    BY <1>2, <1>3, <2>2
  <2>4. ASSUME NEW s \in S, s # b PROVE
          /\ g[s].next = Nil => \A t \in T : g[t].name <= g[s].name
          /\ g[s].next # Nil =>
               /\ g[s].next \in T /\ g[s].name < g[g[s].next].name
               /\ \A t \in T : g[t].name <= g[s].name \/ g[g[s].next].name <= g[t].name
    <3>1. /\ f[s].next = Nil => \A t \in S : g[t].name <= g[s].name
          /\ f[s].next # Nil =>
               /\ f[s].next \in S /\ g[s].name < g[f[s].next].name
               /\ \A t \in S : g[t].name <= g[s].name \/ g[f[s].next].name <= g[t].name
      BY <1>2 DEF Ordered
    <3>2. g[s].next = f[s].next
      BY <2>1, <2>4
    <3>3. g[s].name # g[b].name
      BY <1>5, <2>1, <2>4
    <3>4. CASE f[s].next = Nil
      <4>1. g[b].name <= g[s].name /\ g[x].name <= g[s].name
        BY <1>2, <1>3, <2>1, <2>3, <3>1, <3>3, <3>4
      <4> QED BY <3>1, <3>2, <3>4, <4>1
    <3>5. CASE f[s].next # Nil
      <4> DEFINE n == f[s].next
      <4>1. n \in S /\ g[s].name < g[n].name /\ (g[b].name <= g[s].name \/ g[n].name <= g[b].name)
        BY <2>1, <3>1, <3>5
      <4>2. g[x].name <= g[s].name \/ g[n].name <= g[x].name
        BY <1>2, <1>3, <2>1, <2>3, <3>3, <4>1
      <4> QED BY <3>1, <3>2, <3>5, <4>1, <4>2
    <3> QED BY <3>4, <3>5
  <2>5. /\ x # Nil /\ x \in T /\ g[b].name < g[x].name
        /\ \A t \in T : g[t].name <= g[b].name \/ g[x].name <= g[t].name
    BY <1>1, <1>3, <2>1, <2>3
  <2>6. /\ g[x].next = Nil => \A t \in T : g[t].name <= g[x].name
        /\ g[x].next # Nil =>
               /\ g[x].next \in T /\ g[x].name < g[g[x].next].name
               /\ \A t \in T : g[t].name <= g[x].name \/ g[g[x].next].name <= g[t].name
    BY <1>2, <1>3, <2>1, <2>2
  <2>7. /\ g[owner].child # Nil /\ g[owner].child \in S
        /\ \A s \in S : g[g[owner].child].name <= g[s].name
    BY <1>2, <2>1 DEF Ordered
  <2>8. g[g[owner].child].name <= g[x].name
    BY <1>2, <1>3, <2>1, <2>7
  <2>9. \A s \in T : g[g[owner].child].name <= g[s].name
    BY <2>7, <2>8
  <2>10. \A s \in S : s = b \/ s # b
    OBVIOUS
  <2> QED BY <1>4, <1>5, <2>1, <2>4, <2>5, <2>6, <2>7, <2>9, <2>10 DEF Ordered
<1> QED BY <1>6, <1>7

\* ... and linked back, when only the node after it was linked to it before.
LEMMA LinkedJoined ==
  ASSUME NEW f, NEW g, NEW owner, NEW S, NEW x, NEW a, NEW b, NEW O,
         Ordered(f, owner, S), Linked(f, owner, S, O \cup {x}), Joins(f, g, owner, S, x, a, b),
         a # Nil => f[a].prev = x, \A s \in S : f[s].prev = x => s = a,
         x \notin O,
         g[x].prev \in O \/ (g[x].prev = Nil /\ b = owner) \/ (g[x].prev = b /\ b \in S)
  PROVE  Linked(g, owner, S \cup {x}, O)
<1>1. x # Nil /\ S \subseteq Slots /\ \A s \in S : s # Nil
  BY Apart DEF Joins, Ordered
<1>2. ASSUME NEW s \in S
      PROVE  \/ g[s].prev = Nil /\ g[owner].child = s
             \/ g[s].prev \in O
             \/ g[s].prev \in S \cup {x} /\ g[g[s].prev].next = s
  <2>1. g[s].prev = f[s].prev
    BY DEF Joins
  <2>2. CASE s = a
    BY <1>1, <2>1, <2>2 DEF Joins
  <2>3. CASE s # a
    <3>1. f[s].prev # x
      BY <2>3
    <3>2. CASE f[s].prev = Nil /\ f[owner].child = s
      BY <2>1, <2>3, <3>2 DEF Joins
    <3>3. CASE f[s].prev \in O
      BY <2>1, <3>3
    <3>4. CASE f[s].prev \in S /\ f[f[s].prev].next = s
      BY <2>1, <2>3, <3>4 DEF Joins
    <3> QED BY <3>1, <3>2, <3>3, <3>4 DEF Linked
  <2> QED BY <2>2, <2>3
<1>3. \/ g[x].prev = Nil /\ g[owner].child = x
      \/ g[x].prev \in O
      \/ g[x].prev \in S /\ g[g[x].prev].next = x
  <2>1. b \in S => b # owner
    BY DEF Joins
  <2> QED BY <2>1 DEF Joins
<1> QED BY <1>2, <1>3 DEF Linked
-----------------------------------------------------------------------------
(* The write that puts the node in its list *)

\* The node goes where a search finds it.
Findable(P, O, i) == (i.kind = "parent" \/ i.owner \in P) /\ (i.first \/ i.before \notin O)
LinkWritten(f, i) ==
  IF i.first THEN [f EXCEPT ![i.owner] = [f[i.owner] EXCEPT !.child = i.slot]]
  ELSE [f EXCEPT ![i.before] = [f[i.before] EXCEPT !.next = i.slot]]
NewParents(P, i) == IF i.kind = "parent" THEN P \cup {i.slot} ELSE P
NewChildren(C, i) ==
  IF i.kind = "parent" THEN [C EXCEPT ![i.slot] = {}]
  ELSE [C EXCEPT ![i.owner] = C[i.owner] \cup {i.slot}]

\* The list of an insertion is one of the lists of the flash.
LEMMA ListProperties ==
  ASSUME NEW f, NEW P, NEW C, NEW O, Lists(f, P, C, O), NEW i, Owned(f, P, i),
         i.kind = "parent" \/ i.owner \in P
  PROVE  /\ ListOf(P, C, i) \subseteq Slots /\ i.owner \notin ListOf(P, C, i)
         /\ Ordered(f, i.owner, ListOf(P, C, i)) /\ Linked(f, i.owner, ListOf(P, C, i), O)
         /\ \A s \in ListOf(P, C, i) : f[s].kind = i.kind
<1>1. CASE i.kind = "parent"
  <2>1. i.owner = Profile /\ ListOf(P, C, i) = P
    BY <1>1 DEF Owned, ListOf
  <2>2. P \subseteq Slots /\ Profile \notin P
    BY Apart DEF Lists, Ordered
  <2> QED BY <1>1, <2>1, <2>2 DEF Lists
<1>2. CASE i.kind # "parent"
  <2>1. i.kind = "child" /\ i.owner \in P /\ ListOf(P, C, i) = C[i.owner]
    BY <1>2 DEF Owned, ListOf
  <2> QED BY <2>1 DEF Lists, Ordered
<1> QED BY <1>1, <1>2

\* After the write, S with the new node is the list of the owner, and all else as it was.
LinkJoined(f, g, S, O, i) ==
  /\ Ordered(g, i.owner, S \cup {i.slot}) /\ Linked(g, i.owner, S \cup {i.slot}, O)
  /\ \A s \in {Profile} \cup Slots :
       /\ g[s].kind = f[s].kind /\ g[s].name = f[s].name /\ g[s].prev = f[s].prev
       /\ s # i.owner => g[s].child = f[s].child
       /\ s # i.owner /\ s \notin S => g[s] = f[s]
       /\ s \notin S => g[s].next = f[s].next
  /\ i.after # Nil => i.after \in S

\* It is so when the node goes where a search finds it,
LEMMA LinkJoins ==
  ASSUME NEW f \in Blocks, NEW P, NEW C, NEW O, NEW i, Stage3(f, P, C, O, i), Findable(P, O, i),
         NEW g, g = LinkWritten(f, i)
  PROVE  LinkJoined(f, g, ListOf(P, C, i), O, i)
<1> DEFINE S == ListOf(P, C, i)
           x == i.slot
           b == IF i.first THEN i.owner ELSE i.before
           owner == i.owner
           a == i.after
<1>1. /\ S \subseteq Slots /\ owner \notin S /\ Ordered(f, owner, S) /\ Linked(f, owner, S, O \cup {x})
      /\ \A s \in S : f[s].kind = i.kind
  BY ListProperties DEF Stage3, Placed, Findable
<1>2. /\ i.first \in BOOLEAN /\ Place(f, S, O, i) /\ Aside(P, C, O, i) /\ Owned(f, P, i)
      /\ f[x] = NewNode(i)
  BY DEF Stage3, Placed
<1>3. x \in Slots \ S /\ x \notin O /\ owner # x /\ owner \in {Profile} \cup Slots
  BY <1>2, Apart DEF Aside, ListOf, Owned, Findable
<1>4. /\ f[x].name = i.name /\ f[x].next = a /\ f[x].prev = i.before /\ i.name \in Names
      /\ f[x].kind = i.kind
  <2>1. i.name \in Names
    BY <1>2, Apart DEF Owned
  <2> QED BY <1>2, <2>1 DEF NewNode
<1>5. ~i.first => i.before \in S /\ f[i.before].next = a /\ f[i.before].name < i.name
  BY <1>2 DEF Place, Findable
<1>6. DOMAIN f = {Profile} \cup Slots /\ \A s \in {Profile} \cup Slots : f[s] \in Nodes
  BY DEF Blocks
<1>7. \A s \in {Profile} \cup Slots :
        /\ g[s].kind = f[s].kind /\ g[s].name = f[s].name /\ g[s].prev = f[s].prev
        /\ g[s].next = IF ~i.first /\ s = i.before THEN x ELSE f[s].next
        /\ g[s].child = IF i.first /\ s = owner THEN x ELSE f[s].child
        /\ s # b => g[s] = f[s]
  BY <1>3, <1>5, <1>6 DEF LinkWritten, Nodes
<1>8. b \in {owner} \cup S
  BY <1>5
<1>9. a # Nil => a \in S /\ i.name < f[a].name
  BY <1>2 DEF Place
<1>10. Joins(f, g, owner, S, x, a, b)
  <2>1. i.first => f[owner].child = a
    BY <1>2 DEF Place
  <2>2. \A s \in S : f[s].name # i.name
    BY <1>2 DEF Place
  <2>3. CASE i.first
    BY <1>1, <1>3, <1>4, <1>7, <1>9, <2>1, <2>2, <2>3 DEF Joins
  <2>4. CASE ~i.first
    BY <1>1, <1>3, <1>4, <1>5, <1>7, <1>9, <2>2, <2>4 DEF Joins
  <2> QED BY <2>3, <2>4
<1>11. Ordered(g, owner, S \cup {x})
  BY <1>1, <1>10, OrderedJoined
<1>12. a # Nil => f[a].prev = x
  BY DEF Stage3
<1>13. ASSUME NEW s \in S, f[s].prev = x PROVE s = a
  BY <1>13 DEF Stage3, ListOf
<1>14. g[x].prev \in O \/ (g[x].prev = Nil /\ b = owner) \/ (g[x].prev = b /\ b \in S)
  BY <1>2, <1>3, <1>4, <1>5, <1>7 DEF Place
<1>15. Linked(g, owner, S \cup {x}, O)
  BY <1>1, <1>3, <1>10, <1>12, <1>13, <1>14, LinkedJoined
<1> QED BY <1>7, <1>8, <1>9, <1>11, <1>15, <1>5, <1>1 DEF LinkJoined

\* ... and then the lists of the flash are those with the new service,
LEMMA ParentJoined ==
  ASSUME NEW f \in Blocks, NEW P, NEW C, NEW O, NEW i, Stage3(f, P, C, O, i), Findable(P, O, i),
         i.kind = "parent", NEW g, g = LinkWritten(f, i)
  PROVE  Lists(g, NewParents(P, i), NewChildren(C, i), O)
<1> DEFINE x == i.slot
           a == i.after
           L == O \cup {x}
<1>1. /\ Lists(f, P, C, L) /\ Aside(P, C, O, i) /\ f[x] = NewNode(i) /\ ListOf(P, C, i) = P
      /\ i.owner = Profile /\ i.name \in Services
  BY DEF Stage3, Placed, ListOf, Owned
<1>2. /\ Ordered(g, Profile, P \cup {x}) /\ Linked(g, Profile, P \cup {x}, O)
      /\ \A s \in {Profile} \cup Slots :
              /\ g[s].kind = f[s].kind /\ g[s].name = f[s].name /\ g[s].prev = f[s].prev
              /\ s # Profile => g[s].child = f[s].child
              /\ s \notin P => g[s].next = f[s].next
      /\ a # Nil => a \in P
  <2>1. LinkJoined(f, g, P, O, i)
    BY <1>1, LinkJoins
  <2> QED BY <1>1, <2>1 DEF LinkJoined
<1>3. P \subseteq Slots /\ C \in [Slots -> SUBSET Slots] /\ x \in Slots /\ x \notin P /\ x \notin O
      /\ \A p \in P : x \notin C[p]
  BY <1>1 DEF Lists, Ordered, Aside
<1> DEFINE Q == P \cup {x}
           D == [C EXCEPT ![x] = {}]
<1>4. D \in [Slots -> SUBSET Slots] /\ D[x] = {} /\ \A p \in P : D[p] = C[p]
  BY <1>3
<1>5. \A p \in P : f[p].kind = "parent" /\ f[p].name \in Services
  BY <1>1 DEF Lists
<1>6. \A p \in P : \A c \in C[p] :
       c \in Slots /\ f[c].kind = "child" /\ f[c].name \in Logins /\ c + 1 \in Slots
       /\ f[c + 1].kind = "second" /\ c \notin P /\ c # a
  BY <1>1, <1>2, <1>3, <1>5, Apart DEF Lists
<1>7. f[x].kind = "parent" /\ f[x].name \in Services /\ f[x].child = Nil
  BY <1>1 DEF NewNode
<1>8. \A p \in Q : g[p].kind = "parent" /\ g[p].name \in Services
  BY <1>2, <1>3, <1>5, <1>7
<1>9. ASSUME NEW p \in P PROVE Ordered(g, p, C[p]) /\ Linked(g, p, C[p], O)
  <2>1. Ordered(f, p, C[p]) /\ Linked(f, p, C[p], L)
    BY <1>1 DEF Lists
  <2>2. /\ g[p].child = f[p].child
        /\ \A c \in C[p] : g[c].name = f[c].name /\ g[c].next = f[c].next /\ g[c].prev = f[c].prev
    BY <1>2, <1>3, <1>6, Apart
  <2>3. \A c \in C[p] : f[c].prev # x
    BY <1>6 DEF Stage3
  <2>4. Ordered(g, p, C[p])
    BY <2>1, <2>2, OrderedFramed
  <2>5. Linked(g, p, C[p], O)
    BY <2>1, <2>2, <2>3 DEF Linked
  <2> QED BY <2>4, <2>5
<1>10. Ordered(g, x, {}) /\ Linked(g, x, {}, O)
  <2>1. g[x].child = Nil
    BY <1>2, <1>3, <1>7, Apart
  <2> QED BY <2>1 DEF Ordered, Linked
<1>11. ASSUME NEW p \in Q PROVE Ordered(g, p, D[p]) /\ Linked(g, p, D[p], O)
  BY <1>4, <1>9, <1>10
<1>12. ASSUME NEW p \in Q, NEW c \in D[p]
       PROVE  g[c].kind = "child" /\ g[c].name \in Logins /\ c + 1 \in Slots /\ g[c + 1].kind = "second"
  <2>1. p \in P /\ c \in C[p]
    BY <1>4
  <2> QED BY <2>1, <1>2, <1>6
<1>13. \A p, q \in Q : p # q => D[p] \cap D[q] = {}
  BY <1>1, <1>4 DEF Lists
<1>14. ASSUME NEW s \in O PROVE g[s].kind # "free" /\ s \notin Q /\ \A p \in Q : s \notin D[p]
  BY <1>1, <1>2, <1>3, <1>4 DEF Lists
<1>15. O \subseteq Slots /\ NewParents(P, i) = Q /\ NewChildren(C, i) = D
  BY <1>1 DEF Lists, NewParents, NewChildren
<1> QED BY <1>2, <1>4, <1>8, <1>11, <1>12, <1>13, <1>14, <1>15 DEF Lists

\* ... or with the new login.
LEMMA ChildJoined ==
  ASSUME NEW f \in Blocks, NEW P, NEW C, NEW O, NEW i, Stage3(f, P, C, O, i), Findable(P, O, i),
         i.kind = "child", NEW g, g = LinkWritten(f, i)
  PROVE  Lists(g, NewParents(P, i), NewChildren(C, i), O)
<1> DEFINE x == i.slot
           a == i.after
           o == i.owner
           L == O \cup {x}
<1>1. /\ Lists(f, P, C, L) /\ Aside(P, C, O, i) /\ f[x] = NewNode(i) /\ ListOf(P, C, i) = C[o]
      /\ o \in P /\ i.name \in Logins
      /\ x + 1 \in Slots /\ f[x + 1].kind = "second"
  BY DEF Stage3, Placed, ListOf, Owned, Findable, Second
<1>2. /\ Ordered(g, o, C[o] \cup {x}) /\ Linked(g, o, C[o] \cup {x}, O)
      /\ \A s \in {Profile} \cup Slots :
              /\ g[s].kind = f[s].kind /\ g[s].name = f[s].name /\ g[s].prev = f[s].prev
              /\ s # o => g[s].child = f[s].child
              /\ s \notin C[o] => g[s].next = f[s].next
      /\ a # Nil => a \in C[o]
  <2>1. LinkJoined(f, g, C[o], O, i)
    BY <1>1, LinkJoins
  <2> QED BY <1>1, <2>1 DEF LinkJoined
<1>3. P \subseteq Slots /\ C \in [Slots -> SUBSET Slots] /\ x \in Slots /\ x \notin P /\ x \notin O
      /\ \A p \in P : x \notin C[p]
  BY <1>1 DEF Lists, Ordered, Aside
<1> DEFINE D == [C EXCEPT ![o] = C[o] \cup {x}]
<1>4. D \in [Slots -> SUBSET Slots] /\ D[o] = C[o] \cup {x} /\ \A p \in P : p # o => D[p] = C[p]
  BY <1>1, <1>3
<1>5. \A p \in P : f[p].kind = "parent" /\ f[p].name \in Services /\ p \notin C[o] /\ p # a
  <2>1. \A p \in P : f[p].kind = "parent" /\ f[p].name \in Services /\ p # Nil
    BY <1>1, <1>3, Apart DEF Lists
  <2>2. \A c \in C[o] : f[c].kind = "child"
    BY <1>1 DEF Lists
  <2> QED BY <1>2, <2>1, <2>2
<1>6. \A p \in P : \A c \in C[p] :
       c \in Slots /\ f[c].kind = "child" /\ f[c].name \in Logins /\ c + 1 \in Slots
       /\ f[c + 1].kind = "second"
  BY <1>1, <1>3 DEF Lists
<1>7. \A p \in P : p # o => \A c \in C[p] : c \notin C[o] /\ c # a
  BY <1>1, <1>2, <1>6, Apart DEF Lists
<1>8. f[x].kind = "child" /\ f[x].name \in Logins
  BY <1>1 DEF NewNode
<1>9. Ordered(g, Profile, P) /\ Linked(g, Profile, P, O)
  <2>1. Ordered(f, Profile, P) /\ Linked(f, Profile, P, L)
    BY <1>1 DEF Lists
  <2>2. /\ g[Profile].child = f[Profile].child
        /\ \A p \in P : g[p].name = f[p].name /\ g[p].next = f[p].next /\ g[p].prev = f[p].prev
    BY <1>1, <1>2, <1>3, <1>5, Apart
  <2>3. \A p \in P : f[p].prev # x
    BY <1>5 DEF Stage3
  <2>4. Ordered(g, Profile, P)
    BY <2>1, <2>2, OrderedFramed
  <2>5. Linked(g, Profile, P, O)
    BY <2>1, <2>2, <2>3 DEF Linked
  <2> QED BY <2>4, <2>5
<1>10. ASSUME NEW p \in P, p # o PROVE Ordered(g, p, C[p]) /\ Linked(g, p, C[p], O)
  <2>1. Ordered(f, p, C[p]) /\ Linked(f, p, C[p], L)
    BY <1>1 DEF Lists
  <2>2. /\ g[p].child = f[p].child
        /\ \A c \in C[p] : g[c].name = f[c].name /\ g[c].next = f[c].next /\ g[c].prev = f[c].prev
    BY <1>2, <1>3, <1>6, <1>7, <1>10
  <2>3. \A c \in C[p] : f[c].prev # x
    BY <1>7, <1>10 DEF Stage3
  <2>4. Ordered(g, p, C[p])
    BY <2>1, <2>2, OrderedFramed
  <2>5. Linked(g, p, C[p], O)
    BY <2>1, <2>2, <2>3 DEF Linked
  <2> QED BY <2>4, <2>5
<1>11. ASSUME NEW p \in P PROVE Ordered(g, p, D[p]) /\ Linked(g, p, D[p], O)
  BY <1>2, <1>4, <1>10
<1>12. ASSUME NEW p \in P, NEW c \in D[p]
       PROVE  g[c].kind = "child" /\ g[c].name \in Logins /\ c + 1 \in Slots /\ g[c + 1].kind = "second"
  <2>1. c = x \/ c \in C[p]
    BY <1>4
  <2> QED BY <2>1, <1>1, <1>2, <1>3, <1>6, <1>8
<1>13. ASSUME NEW p \in P, NEW q \in P, p # q PROVE D[p] \cap D[q] = {}
  <2>1. C[p] \cap C[q] = {}
    BY <1>1, <1>13 DEF Lists
  <2> QED BY <1>3, <1>4, <1>13, <2>1
<1>14. ASSUME NEW s \in O PROVE g[s].kind # "free" /\ s \notin P /\ \A p \in P : s \notin D[p]
  BY <1>1, <1>2, <1>3, <1>4 DEF Lists
<1>15. O \subseteq Slots /\ NewParents(P, i) = P /\ NewChildren(C, i) = D
  BY <1>1 DEF Lists, NewParents, NewChildren
<1>16. \A p \in P : g[p].kind = "parent" /\ g[p].name \in Services
  BY <1>2, <1>3, <1>5
<1> QED BY <1>4, <1>9, <1>11, <1>12, <1>13, <1>14, <1>15, <1>16 DEF Lists
-----------------------------------------------------------------------------
(* The writes of an insertion *)

\* The slots an insertion writes are different ones, of the kinds one expects.
LEMMA Around ==
  ASSUME NEW f, NEW P, NEW C, NEW O, NEW L, Lists(f, P, C, L), O \subseteq L,
         NEW i, Placed(f, P, C, O, i)
  PROVE  /\ i.after # Nil => /\ i.after \in Slots /\ f[i.after].kind = i.kind
                             /\ i.after \notin {i.before, i.owner, i.slot}
         /\ i.before # Nil => /\ i.before \in Slots /\ f[i.before].kind # "free"
                              /\ i.before \notin {i.owner, i.slot}
         /\ i.owner \in {Profile} \cup Slots
         /\ i.owner \in Slots => f[i.owner].kind = "parent" /\ i.kind = "child"
         /\ i.kind = "child" => i.owner \in Slots
         /\ i.kind \in {"parent", "child"} /\ i.slot \in Slots
         /\ \A s \in ListOf(P, C, i) : s # i.slot /\ s # i.owner /\ f[s].kind = i.kind
<1> DEFINE S == ListOf(P, C, i)
<1>1. Owned(f, P, i) /\ Place(f, S, O, i) /\ Aside(P, C, O, i) /\ i.owner # i.slot /\ i.first \in BOOLEAN
  BY DEF Placed
<1>2. i.kind \in {"parent", "child"} /\ i.owner \in {Profile} \cup Slots
  BY <1>1 DEF Owned
<1>3. i.owner \in Slots => f[i.owner].kind = "parent" /\ i.kind = "child"
  BY <1>1, Apart DEF Owned
<1>4. i.kind = "child" => i.owner \in Slots
  BY <1>1 DEF Owned
<1>5. ASSUME NEW s \in S PROVE s \in Slots /\ s # i.slot /\ s # i.owner /\ f[s].kind = i.kind /\ s \notin L
  <2>1. CASE i.kind = "parent"
    BY <1>1, <2>1, Apart DEF ListOf, Lists, Ordered, Aside, Owned
  <2>2. CASE i.kind = "child"
    <3>1. i.owner \in P /\ s \in C[i.owner]
      BY <2>2 DEF ListOf
    <3> QED BY <1>1, <2>2, <3>1 DEF Lists, Ordered, Aside
  <2> QED BY <1>2, <2>1, <2>2
<1>6. i.owner \notin S
  BY <1>5
<1>7. i.owner \in P \/ i.owner = Profile => i.owner \notin L
  BY Apart DEF Lists
<1>8. S # {} => i.owner \in P \/ i.owner = Profile
  BY <1>1 DEF ListOf, Owned
<1> HIDE DEF S
<1>9. i.after # Nil => /\ i.after \in S /\ \A n \in Nat : ~(n < n)
  BY <1>1 DEF Place
<1>10. i.before # Nil => i.before \in S \/ (i.before \in O /\ i.after # Nil)
  BY <1>1 DEF Place
<1>11. i.after # Nil => i.after # i.before
  <2> SUFFICES ASSUME i.after # Nil, i.after = i.before PROVE FALSE
    OBVIOUS
  <2>1. i.after \in S /\ i.name < f[i.after].name /\ i.before \notin O
    BY <1>1, <1>5 DEF Place
  <2>2. ~i.first /\ f[i.before].name < i.name
    BY <1>1, <2>1 DEF Place
  <2>3. f[i.after].name \in Nat /\ i.name \in Nat
    <3>1. i.name \in Nat
      BY <1>1, Apart DEF Owned
    <3>2. f[i.after].name \in Nat
      BY <2>1, Apart DEF S, ListOf, Lists, Ordered
    <3> QED BY <3>1, <3>2
  <2> QED BY <2>1, <2>2, <2>3
<1>12. i.before # Nil => /\ i.before \in Slots /\ f[i.before].kind # "free"
                         /\ i.before \notin {i.owner, i.slot}
  <2>1. CASE i.before \in S
    BY <1>2, <1>5, <2>1
  <2>2. CASE i.before \in O /\ i.after # Nil
    BY <1>1, <1>7, <1>8, <1>9, <2>2 DEF Lists, Aside
  <2> QED BY <1>10, <2>1, <2>2
<1> QED BY <1>1, <1>2, <1>3, <1>4, <1>5, <1>9, <1>11, <1>12 DEF S, Aside

\* The writes that are left do not change with other blocks.
LEMMA RestAfterSame ==
  ASSUME NEW f, NEW g, NEW i,
         i.before # Nil => g[i.before] = f[i.before], i.first => g[i.owner] = f[i.owner]
  PROVE  Rest3(g, i) = Rest3(f, i) /\ Rest4(g, i) = Rest4(f, i)
<1>1. Rest4(g, i) = Rest4(f, i)
  BY DEF Rest4, When
<1>2. ForwardWrite(g, i) = ForwardWrite(f, i)
  BY DEF ForwardWrite, When
<1> QED BY <1>1, <1>2 DEF Rest3

LEMMA RestSame ==
  ASSUME NEW f, NEW g, NEW i,
         i.after # Nil => g[i.after] = f[i.after],
         i.before # Nil => g[i.before] = f[i.before], i.first => g[i.owner] = f[i.owner]
  PROVE  Rest1(g, i) = Rest1(f, i) /\ Rest2(g, i) = Rest2(f, i)
<1>1. Rest3(g, i) = Rest3(f, i)
  BY RestAfterSame
<1>2. BackWrite(g, i) = BackWrite(f, i)
  BY DEF BackWrite, When
<1> QED BY <1>1, <1>2 DEF Rest1, Rest2

\* Place and Owned depend on the list and its owner only.
LEMMA PlacedSame ==
  ASSUME NEW f, NEW g, NEW P, NEW C, NEW O, NEW i, Placed(f, P, C, O, i),
         \A s \in ListOf(P, C, i) : g[s].name = f[s].name /\ g[s].next = f[s].next,
         g[i.owner].child = f[i.owner].child,
         i.owner \in Slots => g[i.owner].kind = f[i.owner].kind,
         \A s \in Slots : g[s].kind = f[s].kind \/ s \in Taken(i)
  PROVE  Placed(g, P, C, O, i)
<1>1. Owned(g, P, i)
  BY DEF Placed, Owned
<1>2. Place(g, ListOf(P, C, i), O, i)
  <2> DEFINE S == ListOf(P, C, i)
  <2> HIDE DEF S
  <2>1. Place(f, S, O, i)
    BY DEF Placed, S
  <2>2. \A s \in S : g[s].name = f[s].name /\ g[s].next = f[s].next
    BY DEF S
  <2>3. Place(g, S, O, i)
    BY <2>1, <2>2 DEF Place
  <2> QED BY <2>3 DEF S
<1>3. i.whole => Whole(g, P, C, Taken(i))
  BY DEF Placed, Whole
<1> QED BY <1>1, <1>2, <1>3 DEF Placed

\* The write of the node itself,
LEMMA Write0 ==
  ASSUME NEW f \in Blocks, NEW P, NEW C, NEW O, NEW i, Stage0(f, P, C, O, i),
         NEW g, g = [f EXCEPT ![i.slot] = NewNode(i)]
  PROVE  Advanced(f, g, Rest1(f, i), P, C, O, i)
<1>1. /\ Lists(f, P, C, O) /\ Placed(f, P, C, O, i) /\ Aside(P, C, O, i)
      /\ f[i.slot].kind = "free"
      /\ i.kind = "child" => i.slot + 1 \in Slots /\ f[i.slot + 1].kind = "free"
  BY DEF Stage0, Placed, Taken
<1>2. \A s \in {Profile} \cup Slots : g[s] = IF s = i.slot THEN NewNode(i) ELSE f[s]
  BY <1>1 DEF Blocks, Aside
<1>3. /\ i.after # Nil => i.after \in Slots /\ i.after # i.slot
      /\ i.before # Nil => i.before \in Slots /\ i.before # i.slot
      /\ i.owner \in {Profile} \cup Slots /\ i.owner # i.slot /\ i.slot \in Slots
      /\ \A s \in ListOf(P, C, i) : s # i.slot
  <2>1. O \subseteq O /\ i.owner # i.slot
    BY <1>1 DEF Placed
  <2> QED BY <1>1, <2>1, Around
<1>4. Lists(g, P, C, O)
  BY <1>1, AsideWritten DEF Aside
<1>5. P \subseteq Slots /\ (\A p \in P : C[p] \subseteq Slots) /\ ListOf(P, C, i) \subseteq Slots
  BY <1>1 DEF Lists, Ordered, ListOf
<1>6. Placed(g, P, C, O, i)
  <2>1. \A s \in ListOf(P, C, i) : g[s].name = f[s].name /\ g[s].next = f[s].next
    BY <1>2, <1>3, <1>5
  <2>2. g[i.owner] = f[i.owner]
    BY <1>2, <1>3
  <2>3. \A s \in Slots : g[s].kind = f[s].kind \/ s \in Taken(i)
    BY <1>2 DEF Taken
  <2> QED BY <1>1, <2>1, <2>2, <2>3, PlacedSame
<1>7. Rest1(g, i) = Rest1(f, i)
  <2>1. i.after # Nil => g[i.after] = f[i.after]
    BY <1>2, <1>3
  <2>2. i.before # Nil => g[i.before] = f[i.before]
    BY <1>2, <1>3
  <2>3. i.first => g[i.owner] = f[i.owner]
    BY <1>2, <1>3
  <2> QED BY <2>1, <2>2, <2>3, RestSame, ZenonT(40)
<1>8. i.kind = "child" => g[i.slot + 1].kind = "free"
  BY <1>1, <1>2, <1>3, Apart
<1>9. Outcome(f, g, P, C, P, C, i)
  <2>1. Creds(g, P, C) = Creds(f, P, C)
    <3>1. \A p \in P : g[p].name = f[p].name
      BY <1>1, <1>2, <1>5 DEF Aside
    <3>2. \A p \in P : \A c \in C[p] : g[c].name = f[c].name
      BY <1>1, <1>2, <1>5 DEF Aside
    <3> QED BY <3>1, <3>2 DEF Creds
  <2> QED BY <1>2, <1>3, <2>1 DEF Outcome
<1>10. Stage1(g, P, C, O, i)
  BY <1>1, <1>2, <1>3, <1>4, <1>6, <1>7, <1>8 DEF Stage1
<1>11. Inserting(g, Rest1(f, i), P, C, O, i)
  BY <1>7, <1>10 DEF Inserting
<1> QED BY <1>9, <1>11 DEF Advanced

\* ... of its second half,
LEMMA Write1 ==
  ASSUME NEW f \in Blocks, NEW P, NEW C, NEW O, NEW i, Stage1(f, P, C, O, i), i.kind = "child",
         NEW g, g = [f EXCEPT ![i.slot + 1] = Blank("second")]
  PROVE  Advanced(f, g, Rest2(f, i), P, C, O, i)
<1> DEFINE x == i.slot + 1
<1>1. /\ Lists(f, P, C, O) /\ Placed(f, P, C, O, i) /\ Aside(P, C, O, i)
      /\ x \in Slots /\ f[x].kind = "free" /\ f[i.slot] = NewNode(i) /\ i.slot \in Slots
  BY DEF Stage1, Placed, Aside
<1>2. \A s \in {Profile} \cup Slots : g[s] = IF s = x THEN Blank("second") ELSE f[s]
  BY <1>1 DEF Blocks
<1>3. /\ i.after # Nil => i.after \in Slots /\ i.after # x
      /\ i.before # Nil => i.before \in Slots /\ i.before # x
      /\ i.owner \in {Profile} \cup Slots /\ i.owner # x
      /\ \A s \in ListOf(P, C, i) : s # x
  <2>1. /\ i.after # Nil => i.after \in Slots /\ f[i.after].kind = i.kind
        /\ i.before # Nil => i.before \in Slots /\ f[i.before].kind # "free"
        /\ i.owner \in {Profile} \cup Slots
        /\ i.owner \in Slots => f[i.owner].kind = "parent"
        /\ \A s \in ListOf(P, C, i) : f[s].kind = i.kind
    <3>1. O \subseteq O
      OBVIOUS
    <3> HIDE DEF x
    <3> QED BY <1>1, <3>1, Around
  <2>2. i.owner # x
    BY <1>1, <2>1, Apart
  <2> QED BY <1>1, <2>1, <2>2
<1>4. x \notin P /\ \A p \in P : x \notin C[p]
  BY <1>1 DEF Lists
<1>5. Lists(g, P, C, O)
  BY <1>1, <1>4, AsideWritten
<1>6. P \subseteq Slots /\ (\A p \in P : C[p] \subseteq Slots) /\ ListOf(P, C, i) \subseteq Slots
  BY <1>1 DEF Lists, Ordered, ListOf
<1>7. Placed(g, P, C, O, i)
  <2>1. \A s \in ListOf(P, C, i) : g[s].name = f[s].name /\ g[s].next = f[s].next
    BY <1>2, <1>3, <1>6
  <2>2. g[i.owner] = f[i.owner]
    BY <1>2, <1>3
  <2>3. \A s \in Slots : g[s].kind = f[s].kind \/ s \in Taken(i)
    BY <1>2 DEF Taken
  <2> QED BY <1>1, <2>1, <2>2, <2>3, PlacedSame
<1>8. Rest2(g, i) = Rest2(f, i)
  <2>1. i.after # Nil => g[i.after] = f[i.after]
    BY <1>2, <1>3
  <2>2. i.before # Nil => g[i.before] = f[i.before]
    BY <1>2, <1>3
  <2>3. i.first => g[i.owner] = f[i.owner]
    BY <1>2, <1>3
  <2> QED BY <2>1, <2>2, <2>3, RestSame, ZenonT(40)
<1>9. Second(g, i) /\ g[i.slot] = NewNode(i)
  <2>1. i.slot # x
    <3>1. i.slot \in Nat
      BY <1>1, Apart
    <3> QED BY <3>1
  <2>2. g[x].kind = "second"
    BY <1>1, <1>2 DEF Blank
  <2> QED BY <1>1, <1>2, <2>1, <2>2 DEF Second
<1>10. Outcome(f, g, P, C, P, C, i)
  <2>1. Creds(g, P, C) = Creds(f, P, C)
    <3>1. \A p \in P : g[p].name = f[p].name
      BY <1>2, <1>4, <1>6
    <3>2. \A p \in P : \A c \in C[p] : g[c].name = f[c].name
      BY <1>2, <1>4, <1>6
    <3> QED BY <3>1, <3>2 DEF Creds
  <2> QED BY <1>2, <1>3, <2>1 DEF Outcome
<1>11. Stage2(g, P, C, O, i)
  BY <1>5, <1>7, <1>8, <1>9 DEF Stage2
<1>12. Inserting(g, Rest2(f, i), P, C, O, i)
  BY <1>8, <1>11 DEF Inserting
<1> QED BY <1>10, <1>12 DEF Advanced

\* The node in place and no list with a link to it.
LEMMA Unlinked ==
  ASSUME NEW f, NEW P, NEW C, NEW O, NEW i, Stage2(f, P, C, O, i)
  PROVE  /\ Lists(f, P, C, O \cup {i.slot})
         /\ \A s \in P : f[s].prev # i.slot
         /\ \A p \in P : \A s \in C[p] : f[s].prev # i.slot
<1>1. /\ Lists(f, P, C, O) /\ Aside(P, C, O, i) /\ f[i.slot].kind = i.kind /\ i.kind # "free"
      /\ i.slot \in Slots /\ i.slot \notin P /\ i.slot \notin O /\ i.slot # Nil
      /\ \A p \in P : i.slot \notin C[p]
  BY Apart DEF Stage2, Placed, Aside, NewNode, Owned
<1>2. Lists(f, P, C, O \cup {i.slot})
  BY <1>1, Orphaned
<1>3. \A s \in P : f[s].prev # i.slot
  BY <1>1 DEF Lists, Linked
<1>4. \A p \in P : \A s \in C[p] : f[s].prev # i.slot
  BY <1>1 DEF Lists, Linked
<1> QED BY <1>2, <1>3, <1>4

\* ... of the back link to it,
LEMMA Write2 ==
  ASSUME NEW f \in Blocks, NEW P, NEW C, NEW O, NEW i, Stage2(f, P, C, O, i), i.after # Nil,
         NEW g, g = [f EXCEPT ![i.after] = [f[i.after] EXCEPT !.prev = i.slot]]
  PROVE  Advanced(f, g, Rest3(f, i), P, C, O, i)
<1> DEFINE a == i.after
<1>1. /\ Lists(f, P, C, O) /\ Placed(f, P, C, O, i) /\ Aside(P, C, O, i)
      /\ f[i.slot] = NewNode(i) /\ i.slot \in Slots /\ Second(f, i)
  BY DEF Stage2, Placed, Aside
<1>2. /\ a \in Slots /\ f[a].kind = i.kind /\ i.kind \in {"parent", "child"}
      /\ a # i.slot /\ a # i.before /\ a # i.owner
      /\ i.before # Nil => i.before \in Slots
      /\ i.owner \in {Profile} \cup Slots
  BY <1>1, Around
<1>3. \A s \in {Profile} \cup Slots :
        /\ s # a => g[s] = f[s]
        /\ g[s].kind = f[s].kind /\ g[s].name = f[s].name /\ g[s].next = f[s].next
        /\ g[s].child = f[s].child
        /\ g[s].prev = IF s = a THEN i.slot ELSE f[s].prev
  BY <1>2 DEF Blocks, Nodes
<1>4. Lists(g, P, C, O \cup {i.slot})
  <2>1. Lists(f, P, C, O \cup {i.slot})
    BY Unlinked
  <2> QED BY <1>2, <2>1, BackWritten
<1>5. P \subseteq Slots /\ (\A p \in P : C[p] \subseteq Slots) /\ ListOf(P, C, i) \subseteq Slots
  BY <1>1 DEF Lists, Ordered, ListOf
<1>6. Placed(g, P, C, O, i)
  <2>1. \A s \in ListOf(P, C, i) : g[s].name = f[s].name /\ g[s].next = f[s].next
    BY <1>3, <1>5
  <2>2. g[i.owner] = f[i.owner]
    BY <1>2, <1>3
  <2>3. \A s \in Slots : g[s].kind = f[s].kind \/ s \in Taken(i)
    BY <1>3
  <2> QED BY <1>1, <2>1, <2>2, <2>3, PlacedSame
<1>7. Rest3(g, i) = Rest3(f, i)
  <2>1. i.before # Nil => g[i.before] = f[i.before]
    BY <1>2, <1>3
  <2>2. i.first => g[i.owner] = f[i.owner]
    BY <1>2, <1>3
  <2>3. ForwardWrite(g, i) = ForwardWrite(f, i)
    BY <2>1 DEF ForwardWrite, When
  <2>4. Rest4(g, i) = Rest4(f, i)
    BY <2>2 DEF Rest4, When
  <2> QED BY <2>3, <2>4 DEF Rest3
<1>8. Second(g, i) /\ g[i.slot] = NewNode(i) /\ g[a].prev = i.slot
  BY <1>1, <1>2, <1>3 DEF Second
<1>9. /\ \A s \in P : g[s].prev = i.slot => s = a
      /\ \A p \in P : \A s \in C[p] : g[s].prev = i.slot => s = a
  <2>1. /\ \A s \in P : f[s].prev # i.slot
        /\ \A p \in P : \A s \in C[p] : f[s].prev # i.slot
    BY Unlinked
  <2> QED BY <1>3, <1>5, <2>1
<1>10. Outcome(f, g, P, C, P, C, i)
  <2>1. Creds(g, P, C) = Creds(f, P, C)
    <3>1. \A p \in P : g[p].name = f[p].name
      BY <1>3, <1>5
    <3>2. \A p \in P : \A c \in C[p] : g[c].name = f[c].name
      BY <1>3, <1>5
    <3> QED BY <3>1, <3>2 DEF Creds
  <2> QED BY <1>2, <1>3, <2>1 DEF Outcome
<1>11. Stage3(g, P, C, O, i)
  BY <1>4, <1>6, <1>7, <1>8, <1>9 DEF Stage3
<1>12. Inserting(g, Rest3(f, i), P, C, O, i)
  BY <1>7, <1>11 DEF Inserting
<1> QED BY <1>10, <1>12 DEF Advanced
\* The node comes into the list.
LEMMA Joined ==
  ASSUME NEW f \in Blocks, NEW P, NEW C, NEW O, NEW i, Stage3(f, P, C, O, i), Findable(P, O, i),
         NEW g, g = LinkWritten(f, i)
  PROVE  Advanced(f, g, <<>>, P, C, O, i)
<1> DEFINE P2 == NewParents(P, i)
           C2 == NewChildren(C, i)
           x == i.slot
<1>1. /\ Placed(f, P, C, O, i) /\ Lists(f, P, C, O \cup {x}) /\ f[x] = NewNode(i)
      /\ Owned(f, P, i) /\ Aside(P, C, O, i) /\ Place(f, ListOf(P, C, i), O, i)
      /\ i.whole => O = {} /\ Whole(f, P, C, Taken(i))
  BY DEF Stage3, Placed
<1>2. i.kind \in {"parent", "child"}
  BY <1>1 DEF Owned
<1>3. Lists(g, P2, C2, O)
  BY <1>2, ParentJoined, ChildJoined
<1>4. /\ \A s \in {Profile} \cup Slots : g[s].kind = f[s].kind /\ g[s].name = f[s].name
      /\ \A s \in Slots : s # i.owner => g[s].child = f[s].child
  <2>1. LinkJoined(f, g, ListOf(P, C, i), O, i)
    BY LinkJoins
  <2> QED BY <2>1 DEF LinkJoined
<1>5. /\ P \subseteq Slots /\ C \in [Slots -> SUBSET Slots] /\ x \in Slots /\ x \notin P
      /\ \A p \in P : C[p] \subseteq Slots
  BY <1>1 DEF Lists, Ordered, Aside
<1>6. i.kind = "child" => i.owner \in P /\ ListOf(P, C, i) = C[i.owner]
  BY DEF Findable, ListOf
<1>7. /\ i.kind = "parent" => P2 = P \cup {x} /\ C2[x] = {} /\ \A p \in P : C2[p] = C[p]
      /\ i.kind = "child" => P2 = P /\ C2[i.owner] = C[i.owner] \cup {x}
                             /\ \A p \in P : p # i.owner => C2[p] = C[p]
  BY <1>5, <1>6 DEF NewParents, NewChildren
<1> HIDE DEF P2, C2
<1>8. Done(g, P2, C2, O, i)
  <2>1. g[x].kind = i.kind /\ g[x].name = i.name
    BY <1>1, <1>4, <1>5 DEF NewNode
  <2>2. g[x].child = Nil
    BY <1>1, <1>4, <1>5 DEF NewNode, Placed
  <2>3. x \in ListOf(P2, C2, i)
    BY <1>2, <1>6, <1>7 DEF ListOf
  <2>4. ASSUME i.whole PROVE Whole(g, P2, C2, {})
    <3>1. ASSUME NEW s \in Slots
          PROVE g[s].kind = "free" \/ s \in P2 \/ \E p \in P2 : \E c \in C2[p] : s \in {c, c + 1}
      <4>1. f[s].kind = "free" \/ s \in P \/ (\E p \in P : \E c \in C[p] : s \in {c, c + 1})
            \/ s \in Taken(i)
        BY <1>1, <2>4 DEF Whole
      <4>2. P \subseteq P2 /\ \A p \in P : C[p] \subseteq C2[p]
        BY <1>2, <1>6, <1>7
      <4>3. ASSUME s \in Taken(i)
            PROVE  s \in P2 \/ \E p \in P2 : \E c \in C2[p] : s \in {c, c + 1}
        <5>1. CASE i.kind = "parent"
          BY <1>7, <4>3, <5>1 DEF Taken
        <5>2. CASE i.kind = "child"
          <6>1. s \in {x, x + 1} /\ i.owner \in P2 /\ x \in C2[i.owner]
            BY <1>6, <1>7, <4>3, <5>2 DEF Taken
          <6> QED BY <6>1
        <5> QED BY <1>2, <5>1, <5>2
      <4>4. ASSUME NEW p \in P, NEW c \in C[p], s \in {c, c + 1}
            PROVE  \E q \in P2 : \E d \in C2[q] : s \in {d, d + 1}
        <5>1. p \in P2 /\ c \in C2[p]
          BY <4>2
        <5> QED BY <4>4, <5>1
      <4> QED BY <1>4, <4>1, <4>2, <4>3, <4>4
    <3> QED BY <3>1 DEF Whole
  <2> QED BY <1>1, <1>3, <1>5, <2>1, <2>2, <2>3, <2>4 DEF Done
<1>9. Outcome(f, g, P, C, P2, C2, i)
  <2>1. i.owner \in P2 => i.owner \in P /\ g[i.owner].name = f[i.owner].name
    <3>1. i.kind = "parent" => i.owner \notin P2
      BY <1>1, <1>5, <1>7, Apart DEF Owned
    <3> QED BY <1>2, <1>4, <1>5, <1>6, <3>1
  <2>2. \A p \in P : g[p].name = f[p].name /\ \A c \in C[p] : g[c].name = f[c].name
    BY <1>4, <1>5
  <2>3. CASE i.kind = "parent"
    <3>1. Creds(g, P2, C2) = Creds(f, P, C)
      BY <1>7, <2>2, <2>3 DEF Creds
    <3> QED BY <2>1, <3>1 DEF Outcome
  <2>4. CASE i.kind = "child"
    <3> DEFINE new == <<f[i.owner].name, i.name>>
    <3>1. g[x].name = i.name /\ i.owner \in P /\ g[i.owner].name = f[i.owner].name
      BY <1>1, <1>4, <1>5, <1>6, <2>2, <2>4 DEF NewNode
    <3>2. P2 = P /\ C2[i.owner] = C[i.owner] \cup {x} /\ \A p \in P : p # i.owner => C2[p] = C[p]
      BY <1>7, <2>4
    <3>3. Creds(g, P2, C2) \subseteq Creds(f, P, C) \cup {new}
      BY <2>2, <3>1, <3>2 DEF Creds
    <3>4. Creds(f, P, C) \subseteq Creds(g, P2, C2)
      BY <2>2, <3>1, <3>2 DEF Creds
    <3>5. new \in Creds(g, P2, C2)
      BY <3>1, <3>2 DEF Creds
    <3>6. new \notin Creds(f, P, C)
      <4>1. ASSUME NEW p \in P, NEW c \in C[p], new = <<f[p].name, f[c].name>> PROVE FALSE
        <5>1. p = i.owner
          BY <1>1, <3>1, <4>1 DEF Lists, Ordered
        <5>2. f[c].name # i.name
          BY <1>1, <1>6, <2>4, <5>1 DEF Place
        <5> QED BY <4>1, <5>2
      <4> QED BY <4>1 DEF Creds
    <3> HIDE DEF new
    <3>7. Creds(g, P2, C2) = Creds(f, P, C) \cup {new}
      BY <3>3, <3>4, <3>5
    <3> QED BY <2>1, <2>4, <3>1, <3>6, <3>7 DEF Outcome, new
  <2> QED BY <1>2, <2>3, <2>4
<1>10. Inserting(g, <<>>, P2, C2, O, i)
  BY <1>8 DEF Inserting
<1> QED BY <1>9, <1>10 DEF Advanced

\* The node is linked to orphans only.
LEMMA Lost ==
  ASSUME NEW f \in Blocks, NEW P, NEW C, NEW O, NEW i, Stage3(f, P, C, O, i), O # {},
         NEW x \in Slots, x # i.slot, f[x].kind # "free", x \notin P, \A p \in P : x \notin C[p],
         NEW node, node.kind = f[x].kind,
         NEW g, g = [f EXCEPT ![x] = node]
  PROVE  Advanced(f, g, <<>>, P, C, O, i)
<1> DEFINE O2 == O \cup {i.slot}
<1>1. /\ Placed(f, P, C, O, i) /\ Lists(f, P, C, O2) /\ f[i.slot] = NewNode(i)
      /\ Owned(f, P, i) /\ i.slot \in Slots /\ (i.whole => O = {})
  BY DEF Stage3, Placed, Aside
<1>2. Lists(g, P, C, O2)
  BY <1>1, AsideWritten
<1>3. P \subseteq Slots /\ \A p \in P : C[p] \subseteq Slots
  BY <1>1 DEF Lists, Ordered
<1>4. \A s \in {Profile} \cup Slots : s # x => g[s] = f[s]
  BY DEF Blocks
<1>5. Done(g, P, C, O2, i)
  <2>1. g[i.slot] = NewNode(i) /\ NewNode(i).kind = i.kind /\ NewNode(i).name = i.name
        /\ NewNode(i).child = Nil
    BY <1>1, <1>4 DEF NewNode
  <2> QED BY <1>1, <1>2, <2>1 DEF Done
<1>6. Outcome(f, g, P, C, P, C, i)
  <2>1. \A p \in P : g[p].name = f[p].name /\ \A c \in C[p] : g[c].name = f[c].name
    BY <1>3, <1>4
  <2>2. Creds(g, P, C) = Creds(f, P, C)
    BY <2>1 DEF Creds
  <2> QED BY <2>1, <2>2 DEF Outcome
<1>7. Inserting(g, <<>>, P, C, O2, i)
  BY <1>5 DEF Inserting
<1> HIDE DEF O2
<1> QED BY <1>6, <1>7 DEF Advanced

\* ... of the link of the node before it,
LEMMA Write3 ==
  ASSUME NEW f \in Blocks, NEW P, NEW C, NEW O, NEW i, Stage3(f, P, C, O, i), i.before # Nil,
         NEW g, g = [f EXCEPT ![i.before] = [f[i.before] EXCEPT !.next = i.slot]]
  PROVE  Advanced(f, g, Rest4(f, i), P, C, O, i)
<1> DEFINE b == i.before
           L == O \cup {i.slot}
           S == ListOf(P, C, i)
<1>1. /\ Placed(f, P, C, O, i) /\ Lists(f, P, C, L) /\ f[i.slot] = NewNode(i)
      /\ Owned(f, P, i) /\ Aside(P, C, O, i) /\ Place(f, S, O, i) /\ i.first \in BOOLEAN
      /\ i.slot \in Slots /\ Second(f, i)
  BY DEF Stage3, Placed, Aside
<1>2. /\ b \in Slots /\ f[b].kind # "free" /\ b # i.slot /\ b # i.owner
      /\ i.owner \in {Profile} \cup Slots
      /\ i.after # Nil => i.after \in Slots
  <2>1. O \subseteq L /\ Lists(f, P, C, L) /\ Placed(f, P, C, O, i)
    BY <1>1
  <2> HIDE DEF L
  <2>2. /\ i.before # Nil => /\ i.before \in Slots /\ f[i.before].kind # "free"
                              /\ i.before \notin {i.owner, i.slot}
        /\ i.owner \in {Profile} \cup Slots
        /\ i.after # Nil => /\ i.after \in Slots /\ f[i.after].kind = i.kind
                             /\ i.after \notin {i.before, i.owner, i.slot}
    BY <2>1, Around
  <2> QED BY <2>2
<1>3. b \in O => b \notin P /\ \A p \in P : b \notin C[p]
  BY <1>1 DEF Lists
<1>4. CASE ~i.first /\ b \in O
  <2>1. Rest4(f, i) = <<>>
    BY <1>4 DEF Rest4, When
  <2>2. [f[b] EXCEPT !.next = i.slot].kind = f[b].kind
    BY <1>2 DEF Blocks, Nodes
  <2>3. Advanced(f, g, <<>>, P, C, O, i)
    BY <1>2, <1>3, <1>4, <2>2, Lost
  <2> QED BY <2>1, <2>3
<1>5. CASE ~i.first /\ b \notin O
  <2>1. Rest4(f, i) = <<>>
    BY <1>5 DEF Rest4, When
  <2>2. Findable(P, O, i)
    BY <1>1, <1>5 DEF Findable, Place, ListOf
  <2>3. g = LinkWritten(f, i)
    BY <1>5 DEF LinkWritten
  <2>4. Advanced(f, g, <<>>, P, C, O, i)
    BY <2>2, <2>3, Joined
  <2> QED BY <2>1, <2>4
<1>6. CASE i.first
  <2>1. b \in O
    BY <1>1, <1>6 DEF Place
  <2>2. \A s \in {Profile} \cup Slots : s # b => g[s] = f[s]
    BY <1>2 DEF Blocks
  <2>3. [f[b] EXCEPT !.next = i.slot].kind = f[b].kind /\ g[b].kind = f[b].kind
        /\ g[b].prev = f[b].prev
    BY <1>2 DEF Blocks, Nodes
  <2>4. Lists(g, P, C, L)
    <3>1. b \notin P /\ (\A p \in P : b \notin C[p])
      BY <1>3, <2>1
    <3> QED BY <1>1, <1>2, <2>3, <3>1, AsideWritten
  <2>5. P \subseteq Slots /\ (\A p \in P : C[p] \subseteq Slots) /\ S \subseteq Slots /\ b \notin S
    BY <1>1, <1>3, <2>1 DEF Lists, Ordered, ListOf
  <2>6. Placed(g, P, C, O, i)
    <3>1. \A s \in S : g[s].name = f[s].name /\ g[s].next = f[s].next
      BY <2>2, <2>5
    <3>2. g[i.owner] = f[i.owner]
      BY <1>2, <2>2
    <3>3. \A s \in Slots : g[s].kind = f[s].kind \/ s \in Taken(i)
      BY <2>2, <2>3
    <3> QED BY <1>1, <3>1, <3>2, <3>3, PlacedSame
  <2>7. Second(g, i) /\ g[i.slot] = NewNode(i)
    BY <1>1, <1>2, <2>2, <2>3 DEF Second
  <2>8. /\ i.after # Nil => g[i.after].prev = i.slot
        /\ \A s \in P : g[s].prev = i.slot => s = i.after
        /\ \A p \in P : \A s \in C[p] : g[s].prev = i.slot => s = i.after
    <3>1. \A s \in Slots : g[s].prev = f[s].prev
      BY <2>2, <2>3
    <3> QED BY <1>2, <2>5, <3>1 DEF Stage3
  <2>9. Stage3(g, P, C, O, i)
    BY <2>4, <2>6, <2>7, <2>8 DEF Stage3
  <2>10. Rest4(g, i) = Rest4(f, i)
    BY <1>2, <2>2 DEF Rest4
  <2>11. Inserting(g, Rest4(f, i), P, C, O, i)
    BY <1>6, <2>9, <2>10 DEF Inserting
  <2>12. Outcome(f, g, P, C, P, C, i)
    <3>1. \A p \in P : g[p].name = f[p].name /\ \A c \in C[p] : g[c].name = f[c].name
      BY <1>3, <2>1, <2>2, <2>5
    <3>2. Creds(g, P, C) = Creds(f, P, C)
      BY <3>1 DEF Creds
    <3> QED BY <3>1, <3>2 DEF Outcome
  <2> QED BY <2>11, <2>12 DEF Advanced
<1> QED BY <1>1, <1>4, <1>5, <1>6

\* ... and of the head of the list.
LEMMA Write4 ==
  ASSUME NEW f \in Blocks, NEW P, NEW C, NEW O, NEW i, Stage3(f, P, C, O, i), i.first,
         NEW g, g = [f EXCEPT ![i.owner] = [f[i.owner] EXCEPT !.child = i.slot]]
  PROVE  Advanced(f, g, <<>>, P, C, O, i)
<1>1. g = LinkWritten(f, i)
  BY DEF LinkWritten
<1>2. CASE i.kind = "parent" \/ i.owner \in P
  BY <1>1, <1>2, Joined DEF Findable
<1>3. CASE i.kind # "parent" /\ i.owner \notin P
  <2>1. /\ i.owner \in Slots /\ f[i.owner].kind = "parent" /\ i.owner # i.slot /\ O # {}
        /\ Lists(f, P, C, O \cup {i.slot})
    BY <1>3 DEF Stage3, Placed, Owned
  <2>2. \A p \in P : i.owner \notin C[p]
    BY <2>1 DEF Lists
  <2>3. [f[i.owner] EXCEPT !.child = i.slot].kind = f[i.owner].kind
    BY <2>1 DEF Blocks, Nodes
  <2> QED BY <1>3, <2>1, <2>2, <2>3, Lost
<1> QED BY <1>2, <1>3
-----------------------------------------------------------------------------
(* The next write of an insertion *)

\* The first write, and those after it.
LEMMA FirstWrite ==
  ASSUME NEW at, NEW node, NEW T, NEW r \in Seq(T)
  PROVE  /\ Head(Write(at, node) \o r) = [at |-> at, node |-> node]
         /\ Tail(Write(at, node) \o r) = r
<1> DEFINE w == [at |-> at, node |-> node]
           s == <<w>> \o r
<1>1. r \in Seq(T \cup {w}) /\ <<w>> \in Seq(T \cup {w}) /\ Len(<<w>>) = 1 /\ Len(r) \in Nat
  OBVIOUS
<1> HIDE DEF w
<1>2. s \in Seq(T \cup {w}) /\ Len(s) = Len(r) + 1 /\ s[1] = w
      /\ \A k \in 1..Len(r) : s[k + 1] = r[k]
  <2>1. s \in Seq(T \cup {w}) /\ Len(s) = 1 + Len(r)
    BY <1>1, ConcatProperties
  <2>2. \A k \in 1..Len(s) : s[k] = IF k <= 1 THEN <<w>>[k] ELSE r[k - 1]
    BY <1>1, ConcatProperties
  <2>3. s[1] = w
    BY <1>1, <2>1, <2>2
  <2>4. ASSUME NEW k \in 1..Len(r) PROVE s[k + 1] = r[k]
    <3>1. k + 1 \in 1..Len(s) /\ ~(k + 1 <= 1) /\ (k + 1) - 1 = k
      BY <1>1, <2>1
    <3> QED BY <2>2, <3>1
  <2> QED BY <1>1, <2>1, <2>3, <2>4
<1> HIDE DEF s
<1>3. s # <<>> /\ Head(s) = w
  BY <1>1, <1>2
<1>4. Tail(s) \in Seq(T \cup {w}) /\ Len(Tail(s)) = Len(r) /\ \A k \in 1..Len(r) : Tail(s)[k] = r[k]
  BY <1>1, <1>2, <1>3, HeadTailProperties
<1>5. Tail(s) = r
  BY <1>1, <1>4, SeqEqual
<1> QED BY <1>3, <1>5 DEF s, w, Write

\* Every write of an insertion.
WritesOf(f, i) ==
  {[at |-> i.slot, node |-> NewNode(i)], [at |-> i.slot + 1, node |-> Blank("second")],
   [at |-> i.after, node |-> [f[i.after] EXCEPT !.prev = i.slot]],
   [at |-> i.before, node |-> [f[i.before] EXCEPT !.next = i.slot]],
   [at |-> i.owner, node |-> [f[i.owner] EXCEPT !.child = i.slot]]}

\* The writes that are left are among those of any set that has each that applies.
LEMMA RestsIn ==
  ASSUME NEW f, NEW i, NEW T,
         [at |-> i.slot, node |-> NewNode(i)] \in T,
         i.kind = "child" => [at |-> i.slot + 1, node |-> Blank("second")] \in T,
         i.after # Nil => [at |-> i.after, node |-> [f[i.after] EXCEPT !.prev = i.slot]] \in T,
         i.before # Nil => [at |-> i.before, node |-> [f[i.before] EXCEPT !.next = i.slot]] \in T,
         i.first => [at |-> i.owner, node |-> [f[i.owner] EXCEPT !.child = i.slot]] \in T
  PROVE  /\ Write(i.slot, NewNode(i)) \in Seq(T)
         /\ When(i.kind = "child", Write(i.slot + 1, Blank("second"))) \in Seq(T)
         /\ BackWrite(f, i) \in Seq(T) /\ ForwardWrite(f, i) \in Seq(T)
         /\ Rest4(f, i) \in Seq(T)
         /\ Rest3(f, i) \in Seq(T) /\ Rest2(f, i) \in Seq(T)
         /\ Rest1(f, i) \in Seq(T) /\ Rest0(f, i) \in Seq(T)
<1>1. \A w \in T : <<w>> \in Seq(T)
  OBVIOUS
<1>2. <<>> \in Seq(T)
  OBVIOUS
<1>3. \A s, t \in Seq(T) : s \o t \in Seq(T)
  OBVIOUS
<1>4. Rest4(f, i) \in Seq(T)
  BY <1>1, <1>2 DEF Rest4, When, Write
<1>5. ForwardWrite(f, i) \in Seq(T)
  BY <1>1, <1>2 DEF ForwardWrite, When, Write
<1>6. BackWrite(f, i) \in Seq(T)
  BY <1>1, <1>2 DEF BackWrite, When, Write
<1>7. When(i.kind = "child", Write(i.slot + 1, Blank("second"))) \in Seq(T)
  BY <1>1, <1>2 DEF When, Write
<1>8. Write(i.slot, NewNode(i)) \in Seq(T)
  BY <1>1 DEF Write
<1>9. Rest3(f, i) \in Seq(T)
  BY <1>3, <1>4, <1>5 DEF Rest3
<1>10. Rest2(f, i) \in Seq(T)
  BY <1>3, <1>6, <1>9 DEF Rest2
<1>11. Rest1(f, i) \in Seq(T)
  BY <1>3, <1>7, <1>10 DEF Rest1
<1>12. Rest0(f, i) \in Seq(T)
  BY <1>3, <1>8, <1>11 DEF Rest0
<1> QED BY <1>4, <1>5, <1>6, <1>7, <1>8, <1>9, <1>10, <1>11, <1>12

\* The writes that are left are a sequence of such writes.
LEMMA RestsAre ==
  ASSUME NEW f, NEW i
  PROVE  /\ Write(i.slot, NewNode(i)) \in Seq(WritesOf(f, i))
         /\ When(i.kind = "child", Write(i.slot + 1, Blank("second"))) \in Seq(WritesOf(f, i))
         /\ BackWrite(f, i) \in Seq(WritesOf(f, i)) /\ ForwardWrite(f, i) \in Seq(WritesOf(f, i))
         /\ Rest4(f, i) \in Seq(WritesOf(f, i))
         /\ Rest3(f, i) \in Seq(WritesOf(f, i)) /\ Rest2(f, i) \in Seq(WritesOf(f, i))
         /\ Rest1(f, i) \in Seq(WritesOf(f, i)) /\ Rest0(f, i) \in Seq(WritesOf(f, i))
<1> DEFINE T == WritesOf(f, i)
<1>1. /\ [at |-> i.slot, node |-> NewNode(i)] \in T
      /\ [at |-> i.slot + 1, node |-> Blank("second")] \in T
      /\ [at |-> i.after, node |-> [f[i.after] EXCEPT !.prev = i.slot]] \in T
      /\ [at |-> i.before, node |-> [f[i.before] EXCEPT !.next = i.slot]] \in T
      /\ [at |-> i.owner, node |-> [f[i.owner] EXCEPT !.child = i.slot]] \in T
  BY DEF WritesOf
<1> HIDE DEF T
<1>2. /\ Write(i.slot, NewNode(i)) \in Seq(T)
      /\ When(i.kind = "child", Write(i.slot + 1, Blank("second"))) \in Seq(T)
      /\ BackWrite(f, i) \in Seq(T) /\ ForwardWrite(f, i) \in Seq(T)
      /\ Rest4(f, i) \in Seq(T)
      /\ Rest3(f, i) \in Seq(T) /\ Rest2(f, i) \in Seq(T)
      /\ Rest1(f, i) \in Seq(T) /\ Rest0(f, i) \in Seq(T)
  BY <1>1, RestsIn
<1> QED BY <1>2 DEF T

\* The flash after the first of the writes t.
After1(f, t) == [f EXCEPT ![Head(t).at] = Head(t).node]

\* A write changes the block it names.
LEMMA After1Is ==
  ASSUME NEW f, NEW t, NEW at, NEW node, Head(t) = [at |-> at, node |-> node]
  PROVE  After1(f, t) = [f EXCEPT ![at] = node]
<1>1. Head(t).at = at /\ Head(t).node = node
  OBVIOUS
<1> QED BY <1>1, Zenon DEF After1

\* The next write when the head is left to write, and from there back to all of them.
LEMMA FromStage4 ==
  ASSUME NEW f \in Blocks, NEW P, NEW C, NEW O, NEW i, Stage3(f, P, C, O, i), i.first,
         NEW t, t = Rest4(f, i)
  PROVE  Advanced(f, After1(f, t), Tail(t), P, C, O, i)
<1>1. /\ Head(t) = [at |-> i.owner, node |-> [f[i.owner] EXCEPT !.child = i.slot]]
      /\ Tail(t) = <<>>
  BY DEF Rest4, When, Write
<1>2. After1(f, t) = [f EXCEPT ![i.owner] = [f[i.owner] EXCEPT !.child = i.slot]]
  BY <1>1, After1Is
<1>3. Advanced(f, After1(f, t), <<>>, P, C, O, i)
  BY <1>2, Write4
<1> QED BY <1>1, <1>3

LEMMA FromStage3 ==
  ASSUME NEW f \in Blocks, NEW P, NEW C, NEW O, NEW i, Stage3(f, P, C, O, i),
         NEW t, t = Rest3(f, i), t # <<>>
  PROVE  Advanced(f, After1(f, t), Tail(t), P, C, O, i)
<1>1. Rest4(f, i) \in Seq(WritesOf(f, i))
  BY RestsAre
<1>2. CASE i.before # Nil
  <2> DEFINE node == [f[i.before] EXCEPT !.next = i.slot]
  <2>1. t = Write(i.before, node) \o Rest4(f, i)
    BY <1>2 DEF Rest3, ForwardWrite, When
  <2>2. Head(t) = [at |-> i.before, node |-> node] /\ Tail(t) = Rest4(f, i)
    <3> HIDE DEF node
    <3> QED BY <1>1, <2>1, FirstWrite
  <2>3. After1(f, t) = [f EXCEPT ![i.before] = node]
    BY <2>2, After1Is
  <2>4. Advanced(f, After1(f, t), Rest4(f, i), P, C, O, i)
    BY <1>2, <2>3, Write3
  <2> QED BY <2>2, <2>4
<1>3. CASE i.before = Nil
  <2>1. t = Rest4(f, i)
    BY <1>1, <1>3, ConcatEmptySeq DEF Rest3, ForwardWrite, When
  <2>2. i.first
    BY <2>1 DEF Rest4, When
  <2> QED BY <2>1, <2>2, FromStage4
<1> QED BY <1>2, <1>3

LEMMA FromStage2 ==
  ASSUME NEW f \in Blocks, NEW P, NEW C, NEW O, NEW i, Stage2(f, P, C, O, i),
         NEW t, t = Rest2(f, i), t # <<>>
  PROVE  Advanced(f, After1(f, t), Tail(t), P, C, O, i)
<1>1. Rest3(f, i) \in Seq(WritesOf(f, i))
  BY RestsAre
<1>2. CASE i.after # Nil
  <2> DEFINE node == [f[i.after] EXCEPT !.prev = i.slot]
             g == After1(f, t)
  <2>1. t = Write(i.after, node) \o Rest3(f, i)
    BY <1>2 DEF Rest2, BackWrite, When
  <2>2. Head(t) = [at |-> i.after, node |-> node] /\ Tail(t) = Rest3(f, i)
    <3> HIDE DEF node
    <3> QED BY <1>1, <2>1, FirstWrite
  <2>3. g = [f EXCEPT ![i.after] = node]
    BY <2>2, After1Is
  <2> HIDE DEF g
  <2>4. Advanced(f, g, Rest3(f, i), P, C, O, i)
    BY <1>2, <2>3, Write2
  <2> QED BY <2>2, <2>4 DEF g
<1>3. CASE i.after = Nil
  <2>1. t = Rest3(f, i)
    BY <1>1, <1>3, ConcatEmptySeq DEF Rest2, BackWrite, When
  <2>2. Stage3(f, P, C, O, i)
    <3>1. /\ Lists(f, P, C, O \cup {i.slot})
          /\ \A s \in P : f[s].prev # i.slot
          /\ \A p \in P : \A s \in C[p] : f[s].prev # i.slot
      BY Unlinked
    <3> QED BY <1>3, <3>1 DEF Stage2, Stage3
  <2> QED BY <2>1, <2>2, FromStage3
<1> QED BY <1>2, <1>3

LEMMA FromStage1 ==
  ASSUME NEW f \in Blocks, NEW P, NEW C, NEW O, NEW i, Stage1(f, P, C, O, i),
         NEW t, t = Rest1(f, i), t # <<>>
  PROVE  Advanced(f, After1(f, t), Tail(t), P, C, O, i)
<1>1. Rest2(f, i) \in Seq(WritesOf(f, i))
  BY RestsAre
<1>2. CASE i.kind = "child"
  <2> DEFINE node == Blank("second")
             g == After1(f, t)
  <2>1. t = Write(i.slot + 1, node) \o Rest2(f, i)
    BY <1>2 DEF Rest1, When
  <2>2. Head(t) = [at |-> i.slot + 1, node |-> node] /\ Tail(t) = Rest2(f, i)
    <3> HIDE DEF node
    <3> QED BY <1>1, <2>1, FirstWrite
  <2>3. g = [f EXCEPT ![i.slot + 1] = node]
    BY <2>2, After1Is
  <2> HIDE DEF g
  <2>4. Advanced(f, g, Rest2(f, i), P, C, O, i)
    BY <1>2, <2>3, Write1
  <2> QED BY <2>2, <2>4 DEF g
<1>3. CASE i.kind # "child"
  <2>1. t = Rest2(f, i)
    BY <1>1, <1>3, ConcatEmptySeq DEF Rest1, When
  <2>2. Stage2(f, P, C, O, i)
    BY <1>3 DEF Stage1, Stage2, Second
  <2> QED BY <2>1, <2>2, FromStage2
<1> QED BY <1>2, <1>3

\* Whatever is left to write, the next write brings the insertion one stage on.
LEMMA InsertionAdvances ==
  ASSUME NEW f \in Blocks, NEW P, NEW C, NEW O, NEW i, NEW t, Inserting(f, t, P, C, O, i), t # <<>>
  PROVE  Advanced(f, After1(f, t), Tail(t), P, C, O, i)
<1>1. CASE Stage0(f, P, C, O, i) /\ t = Rest0(f, i)
  <2> DEFINE g == After1(f, t)
  <2>1. Rest1(f, i) \in Seq(WritesOf(f, i))
    BY RestsAre
  <2>2. Head(t) = [at |-> i.slot, node |-> NewNode(i)] /\ Tail(t) = Rest1(f, i)
    BY <1>1, <2>1, FirstWrite DEF Rest0
  <2>3. g = [f EXCEPT ![i.slot] = NewNode(i)]
    BY <2>2, After1Is
  <2> HIDE DEF g
  <2>4. Advanced(f, g, Rest1(f, i), P, C, O, i)
    BY <1>1, <2>3, Write0
  <2> QED BY <2>2, <2>4 DEF g
<1> QED BY <1>1, FromStage1, FromStage2, FromStage3, FromStage4 DEF Inserting
-----------------------------------------------------------------------------
(* The beginning of an insertion *)

\* Where a search in a list stops, and what it finds.
LEMMA Searched ==
  ASSUME flash \in Blocks, NEW owner \in {Profile} \cup Slots, NEW S, Ordered(flash, owner, S),
         NEW n \in Nat
  PROVE  /\ StopAt(owner, n) \in Steps
         /\ After(owner, n) # Nil => After(owner, n) \in S /\ flash[After(owner, n)].name >= n
         /\ StopAt(owner, n) = 0 => /\ After(owner, n) = flash[owner].child
                                    /\ \A s \in S : flash[s].name >= n
         /\ StopAt(owner, n) # 0 =>
              \E p \in S : /\ Walk(owner)[StopAt(owner, n) - 1] = p
                           /\ flash[p].name < n /\ flash[p].next = After(owner, n)
         /\ \A s \in S : flash[s].name >= n =>
              After(owner, n) # Nil /\ flash[After(owner, n)].name <= flash[s].name
<1> DEFINE w == Walk(owner)
           stop == StopAt(owner, n)
<1>1. w = WalkIn(flash, owner) /\ After(owner, n) = w[stop]
  BY WalkIsIn DEF After
<1>2. stop = Min({k \in Steps : w[k] = Nil \/ flash[w[k]].name >= n})
  BY DEF StopAt
<1> HIDE DEF w, stop
<1>3. /\ stop \in Steps
      /\ w[stop] # Nil => w[stop] \in S /\ flash[w[stop]].name >= n
      /\ stop = 0 => w[stop] = flash[owner].child /\ \A s \in S : flash[s].name >= n
      /\ stop # 0 => /\ stop - 1 \in Steps /\ w[stop - 1] \in S /\ flash[w[stop - 1]].name < n
                     /\ flash[w[stop - 1]].next = w[stop]
      /\ \A s \in S : flash[s].name >= n => w[stop] # Nil /\ flash[w[stop]].name <= flash[s].name
  <2>1. Stopped(flash, owner, S, w, n, stop)
    BY <1>1, <1>2, Stops
  <2> QED BY <2>1 DEF Stopped
<1> QED BY <1>1, <1>3 DEF w, stop

\* A search finds the node of that name, or there is none.
LEMMA SearchFinds ==
  ASSUME flash \in Blocks, NEW owner \in {Profile} \cup Slots, NEW S, Ordered(flash, owner, S),
         NEW n \in Nat
  PROVE  /\ Search(owner, n) # Nil =>
              Search(owner, n) \in S /\ flash[Search(owner, n)].name = n
         /\ Search(owner, n) = Nil =>
              /\ \A s \in S : flash[s].name # n
              /\ After(owner, n) # Nil => n < flash[After(owner, n)].name
<1> DEFINE a == After(owner, n)
<1>1. Search(owner, n) = IF a # Nil /\ flash[a].name = n THEN a ELSE Nil
  BY DEF Search, After
<1>2. /\ a # Nil => a \in S /\ flash[a].name >= n
      /\ \A s \in S : flash[s].name >= n => a # Nil /\ flash[a].name <= flash[s].name
  BY Searched
<1>3. \A s \in S : flash[s].name \in Nat /\ s # Nil
  BY Apart DEF Ordered
<1> HIDE DEF a
<1>4. ASSUME Search(owner, n) = Nil, NEW s \in S, flash[s].name = n PROVE FALSE
  <2>1. a # Nil /\ flash[a].name <= n /\ flash[a].name \in Nat /\ flash[a].name >= n
    BY <1>2, <1>3, <1>4
  <2>2. flash[a].name = n
    BY <2>1
  <2> QED BY <1>1, <1>4, <2>1, <2>2
<1>5. ASSUME Search(owner, n) = Nil, a # Nil PROVE n < flash[a].name
  <2>1. flash[a].name \in Nat /\ flash[a].name >= n /\ flash[a].name # n
    BY <1>1, <1>2, <1>3, <1>5
  <2> QED BY <2>1
<1> QED BY <1>1, <1>2, <1>4, <1>5 DEF a

\* The insertion that the code begins.
Insertion(owner, kind, name, whole) ==
  [kind |-> kind, owner |-> owner, slot |-> FreeSlot(kind), name |-> name,
   after |-> After(owner, name), before |-> Before(owner, name),
   first |-> (StopAt(owner, name) = 0), whole |-> whole]

\* Sequences joined in another order are the same.
Joint(s, t) == s \o t
Rejoined(a, b, c, d, e) == ((a \o b) \o (c \o d)) \o e = a \o (b \o (c \o (d \o e)))

LEMMA ThreeJoined ==
  ASSUME NEW T, NEW r \in Seq(T), NEW s \in Seq(T), NEW t \in Seq(T)
  PROVE  Joint(r, s) \in Seq(T) /\ Joint(Joint(r, s), t) = Joint(r, Joint(s, t))
<1>1. r \o s \in Seq(T)
  OBVIOUS
<1>2. (r \o s) \o t = r \o (s \o t)
  BY ConcatAssociative
<1> QED BY <1>1, <1>2 DEF Joint

LEMMA FiveJoined ==
  ASSUME NEW T, NEW a \in Seq(T), NEW b \in Seq(T), NEW c \in Seq(T),
         NEW d \in Seq(T), NEW e \in Seq(T)
  PROVE  Rejoined(a, b, c, d, e)
<1>1. Joint(a, b) \in Seq(T) /\ Joint(c, d) \in Seq(T) /\ Joint(d, e) \in Seq(T)
  BY ThreeJoined
<1>2. Joint(c, Joint(d, e)) \in Seq(T)
  BY <1>1, ThreeJoined
<1>3. Joint(Joint(Joint(a, b), Joint(c, d)), e) = Joint(Joint(a, b), Joint(Joint(c, d), e))
  BY <1>1, ThreeJoined
<1>4. Joint(Joint(c, d), e) = Joint(c, Joint(d, e))
  BY ThreeJoined
<1>5. Joint(Joint(a, b), Joint(c, Joint(d, e))) = Joint(a, Joint(b, Joint(c, Joint(d, e))))
  BY <1>2, ThreeJoined
<1>6. Joint(Joint(Joint(a, b), Joint(c, d)), e) = Joint(a, Joint(b, Joint(c, Joint(d, e))))
  BY <1>3, <1>4, <1>5
<1> QED BY <1>6 DEF Joint, Rejoined

\* The writes of the code are those of the insertion.
LEMMA WritesAre ==
  ASSUME NEW owner, NEW kind, NEW name, NEW whole,
         NEW i, i = Insertion(owner, kind, name, whole)
  PROVE  CreateWrites(owner, kind, name) = Rest0(flash, i)
<1> DEFINE a == Write(i.slot, NewNode(i))
           b == When(i.kind = "child", Write(i.slot + 1, Blank("second")))
           c == BackWrite(flash, i)
           d == ForwardWrite(flash, i)
           e == Rest4(flash, i)
           T == WritesOf(flash, i)
<1>1. NodeWrites(owner, kind, name) = a \o b
  BY DEF NodeWrites, Insertion, NewNode
<1>2. NeighbourWrites(owner, kind, name) = c \o d
  BY DEF NeighbourWrites, Insertion, BackWrite, ForwardWrite
<1>3. HeadWrites(owner, kind, name) = e
  BY DEF HeadWrites, Insertion, Rest4
<1>4. a \in Seq(T) /\ b \in Seq(T) /\ c \in Seq(T) /\ d \in Seq(T) /\ e \in Seq(T)
  BY RestsAre
<1>5. Rest0(flash, i) = a \o (b \o (c \o (d \o e)))
  BY DEF Rest0, Rest1, Rest2, Rest3
<1>6. CreateWrites(owner, kind, name) = ((a \o b) \o (c \o d)) \o e
  BY <1>1, <1>2, <1>3 DEF CreateWrites
<1> HIDE DEF a, b, c, d, e, T
<1>7. Rejoined(a, b, c, d, e)
  BY <1>4, FiveJoined
<1> QED BY <1>5, <1>6, <1>7 DEF Rejoined

\* A search that fails finds the place of the node.
LEMMA PlaceFound ==
  ASSUME flash \in Blocks, NEW owner \in {Profile} \cup Slots, NEW S, NEW O,
         Ordered(flash, owner, S), Linked(flash, owner, S, O), NEW n \in Nat,
         Search(owner, n) = Nil, NEW kind, NEW whole,
         NEW i, i = Insertion(owner, kind, n, whole)
  PROVE  Place(flash, S, O, i)
<1> DEFINE a == After(owner, n)
           b == Before(owner, n)
           stop == StopAt(owner, n)
<1>1. /\ i.name = n /\ i.after = a /\ i.before = b /\ i.owner = owner
      /\ i.first = (stop = 0)
  BY DEF Insertion
<1>2. b = IF a # Nil THEN flash[a].prev ELSE IF stop = 0 THEN Nil ELSE Walk(owner)[stop - 1]
  BY DEF Before
<1>3. (\A s \in S : flash[s].name # n) /\ (a # Nil => n < flash[a].name)
  BY SearchFinds
<1>4. /\ stop \in Steps
      /\ a # Nil => a \in S /\ flash[a].name >= n
      /\ stop = 0 => a = flash[owner].child
      /\ stop # 0 => \E p \in S : Walk(owner)[stop - 1] = p /\ flash[p].name < n /\ flash[p].next = a
  BY Searched
<1>5. \A s \in S : flash[s].name \in Nat /\ s # Nil
  BY Apart DEF Ordered
<1> HIDE DEF a, b, stop
<1>6. a # Nil => \/ b = Nil /\ flash[owner].child = a
                 \/ b \in O
                 \/ b \in S /\ flash[b].next = a
  BY <1>2, <1>4 DEF Linked
<1>7. CASE stop = 0
  <2>1. a # Nil => ~(b \in S /\ flash[b].next = a)
    <3> SUFFICES ASSUME a # Nil, b \in S, flash[b].next = a PROVE FALSE
      OBVIOUS
    <3>1. flash[b].name < flash[a].name /\ flash[a].name <= flash[b].name
      BY <1>4, <1>7 DEF Ordered
    <3> QED BY <1>4, <1>5, <3>1
  <2>2. b = Nil \/ (a # Nil /\ b \in O)
    BY <1>2, <1>6, <1>7, <2>1
  <2> QED BY <1>1, <1>3, <1>4, <1>7, <2>2 DEF Place
<1>8. CASE stop # 0
  <2>1. PICK p \in S : Walk(owner)[stop - 1] = p /\ flash[p].name < n /\ flash[p].next = a
    BY <1>4, <1>8
  <2>2. a # Nil => flash[owner].child # a
    <3> SUFFICES ASSUME a # Nil, flash[owner].child = a PROVE FALSE
      OBVIOUS
    <3>1. flash[a].name <= flash[p].name
      BY <2>1 DEF Ordered
    <3> QED BY <1>3, <1>4, <1>5, <2>1, <3>1
  <2>3. a # Nil /\ b \in S /\ flash[b].next = a => b = p
    <3> SUFFICES ASSUME a # Nil, b \in S, flash[b].next = a PROVE b = p
      OBVIOUS
    <3>1. /\ flash[b].name < flash[a].name /\ flash[p].name < flash[a].name
          /\ flash[b].name <= flash[p].name \/ flash[a].name <= flash[b].name
          /\ flash[p].name <= flash[b].name \/ flash[a].name <= flash[p].name
      BY <2>1 DEF Ordered
    <3>2. flash[b].name = flash[p].name
      BY <1>4, <1>5, <2>1, <3>1
    <3> QED BY <2>1, <3>2 DEF Ordered
  <2>4. b = p \/ (a # Nil /\ b \in O)
    BY <1>2, <1>6, <1>8, <2>1, <2>2, <2>3
  <2>5. ~i.first
    BY <1>1, <1>8
  <2> QED BY <1>1, <1>3, <1>4, <2>1, <2>4, <2>5 DEF Place
<1> QED BY <1>7, <1>8

\* An operation that can create a node begins an insertion.
LEMMA InsertionBegins ==
  ASSUME flash \in Blocks, NEW P, NEW C, NEW O, Lists(flash, P, C, O),
         NEW owner, NEW kind, NEW name, NEW whole, CanCreate(owner, kind, name),
         NEW i, i = Insertion(owner, kind, name, whole), Owned(flash, P, i),
         \A s \in Taken(i) : s \in Slots /\ flash[s].kind = "free",
         kind = "child" /\ owner \notin P => O # {},
         whole => O = {} /\ Whole(flash, P, C, {})
  PROVE  Stage0(flash, P, C, O, i)
<1> DEFINE S == ListOf(P, C, i)
<1>1. /\ i.kind = kind /\ i.owner = owner /\ i.slot = FreeSlot(kind) /\ i.name = name
      /\ i.first \in BOOLEAN /\ i.whole = whole
  BY DEF Insertion
<1>2. Search(owner, name) = Nil
  BY DEF CanCreate
<1>3. owner \in {Profile} \cup Slots /\ name \in Nat
  BY <1>1, Apart DEF Owned
<1>4. Ordered(flash, owner, S) /\ Linked(flash, owner, S, O)
  <2>1. CASE kind = "parent" \/ owner \in P
    BY <1>1, <2>1, ListProperties
  <2>2. CASE kind # "parent" /\ owner \notin P
    <3>1. flash[owner].child = Nil /\ S = {}
      BY <1>1, <2>2 DEF Owned, ListOf
    <3> QED BY <3>1 DEF Ordered, Linked
  <2> QED BY <2>1, <2>2
<1>5. i.slot \in Taken(i) /\ i.slot \in Slots /\ flash[i.slot].kind = "free"
  BY DEF Taken
<1>6. Aside(P, C, O, i)
  BY <1>5 DEF Aside, Lists
<1>7. owner # i.slot
  BY <1>1, <1>5, Apart DEF Owned
<1>8. Place(flash, S, O, i)
  <2> HIDE DEF S
  <2> QED BY <1>2, <1>3, <1>4, PlaceFound
<1>9. whole => O = {} /\ Whole(flash, P, C, Taken(i))
  BY DEF Whole
<1>10. Placed(flash, P, C, O, i)
  BY <1>1, <1>6, <1>7, <1>8, <1>9 DEF Placed
<1> QED BY <1>10 DEF Stage0
-----------------------------------------------------------------------------
(* The writes of a deletion *)

\* Sequences over a set, one after the other, are a sequence over it.
LEMMA Flattened ==
  ASSUME NEW A, NEW L \in Nat, NEW ss \in [1..L -> Seq(A)]
  PROVE  FlattenSeq(ss) \in Seq(A)
<1>1. ss \in Seq(Seq(A)) /\ Len(ss) = L
  OBVIOUS
<1>2. CASE L = 0
  <2>1. ss = <<>> /\ FlattenSeq(ss) = ss
    BY <1>1, <1>2 DEF FlattenSeq
  <2>2. <<>> \in Seq(A)
    OBVIOUS
  <2> QED BY <2>1, <2>2
<1>3. CASE L # 0
  <2> DEFINE B == Seq(A)
             N == L - 1
             next == [q \in Nat \X B |-> IF q[1] + 1 \in 1..L THEN q[2] \o ss[q[1] + 1] ELSE <<>>]
             Flat(g, i) == IF i = 1 THEN ss[i] ELSE g[i - 1] \o ss[i]
             OK(g) == g = [i \in 1..L |-> Flat(g, i)]
             flatten == CHOOSE g : OK(g)
  <2>1. FlattenSeq(ss) = flatten[L]
    BY <1>1, <1>3 DEF FlattenSeq
  <2>2. N \in Nat /\ 1 \in 1..L
    BY <1>3
  <2>3. ss[1] \in B /\ next \in [Nat \X B -> B]
    <3>1. \A q \in Nat \X B : (IF q[1] + 1 \in 1..L THEN q[2] \o ss[q[1] + 1] ELSE <<>>) \in B
      <4>1. ASSUME NEW q \in Nat \X B, q[1] + 1 \in 1..L PROVE q[2] \o ss[q[1] + 1] \in B
        <5>1. q[2] \in Seq(A) /\ ss[q[1] + 1] \in Seq(A)
          BY <4>1
        <5> QED BY <5>1, ConcatProperties
      <4>2. <<>> \in B
        OBVIOUS
      <4> HIDE DEF B
      <4> QED BY <4>1, <4>2
    <3>2. ss[1] \in B
      BY <2>2
    <3> HIDE DEF B
    <3> QED BY <3>1, <3>2
  <2>4. PICK h \in [0..N -> B] :
          h = [k \in 0..N |-> IF k = 0 THEN ss[1] ELSE next[<<k, h[k - 1]>>]]
    <3> HIDE DEF next, N, B
    <3>1. Iterates(B, ss[1], next, N)
      BY <2>2, <2>3, Iterated
    <3> QED BY <3>1 DEF Iterates
  <2> DEFINE g == [i \in 1..L |-> h[i - 1]]
  <2>5. ASSUME NEW i \in 1..L PROVE g[i] = Flat(g, i)
    <3>1. CASE i = 1
      <4>1. g[i] = h[0] /\ h[0] = ss[1]
        <5> HIDE DEF next
        <5> QED BY <2>2, <2>4, <3>1
      <4> QED BY <3>1, <4>1
    <3>2. CASE i # 1
      <4>1. i - 1 \in 0..N /\ i - 1 # 0 /\ i - 1 \in Nat /\ (i - 1) - 1 \in 0..N /\ i - 1 \in 1..L
            /\ (i - 1) + 1 = i
        BY <3>2
      <4>2. h[i - 1] = next[<<i - 1, h[(i - 1) - 1]>>] /\ h[(i - 1) - 1] \in B
        <5> HIDE DEF next, B, N
        <5> QED BY <2>4, <4>1
      <4>3. next[<<i - 1, h[(i - 1) - 1]>>] = h[(i - 1) - 1] \o ss[i]
        <5> HIDE DEF B
        <5> QED BY <4>1, <4>2
      <4>4. g[i] = h[i - 1] /\ g[i - 1] = h[(i - 1) - 1]
        BY <4>1
      <4>5. g[i] = g[i - 1] \o ss[i]
        <5> HIDE DEF g, next
        <5> QED BY <4>2, <4>3, <4>4
      <4> QED BY <3>2, <4>5
    <3> QED BY <3>1, <3>2
  <2>6. OK(g)
    <3>1. g = [i \in 1..L |-> g[i]]
      OBVIOUS
    <3> HIDE DEF g, Flat
    <3> QED BY <2>5, <3>1
  <2>7. OK(flatten)
    <3> HIDE DEF OK, g
    <3> QED BY <2>6
  <2> HIDE DEF flatten
  <2>8. \A i \in 1..L : flatten[i] = Flat(flatten, i)
    <3> HIDE DEF Flat
    <3> QED BY <2>7
  <2> DEFINE S == {k \in Nat : flatten[k + 1] \in B}
  <2>9. 0 \in S
    <3>1. flatten[1] = ss[1]
      BY <2>2, <2>8
    <3> HIDE DEF B
    <3> QED BY <2>3, <3>1
  <2>10. ASSUME NEW k \in 0..N, k \in S, k < N PROVE k + 1 \in S
    <3>1. (k + 1) + 1 \in 1..L /\ (k + 1) + 1 # 1 /\ ((k + 1) + 1) - 1 = k + 1 /\ k + 1 \in Nat
      BY <2>10
    <3>2. flatten[(k + 1) + 1] = flatten[k + 1] \o ss[(k + 1) + 1]
      BY <2>8, <3>1
    <3>3. flatten[k + 1] \in Seq(A) /\ ss[(k + 1) + 1] \in Seq(A)
      BY <2>10, <3>1
    <3>4. flatten[(k + 1) + 1] \in Seq(A)
      BY <3>2, <3>3, ConcatProperties
    <3> QED BY <3>1, <3>4
  <2>11. N \in S
    <3> HIDE DEF S, N
    <3>1. 0..N \subseteq S
      BY <2>2, <2>9, <2>10, Induction
    <3> QED BY <2>2, <3>1
  <2>12. N + 1 = L
    OBVIOUS
  <2> QED BY <2>1, <2>11, <2>12
<1> QED BY <1>2, <1>3

\* A slot to free is a write of a deletion.
LEMMA Erased ==
  ASSUME NEW s \in Slots, NEW r \in Seq(Freeing)
  PROVE  Erase(s) \in Seq(Freeing) /\ r \o Erase(s) \in Seq(Freeing)
<1>1. [at |-> s, node |-> Blank("free")] \in Freeing
  BY DEF Freeing
<1>2. Erase(s) \in Seq(Freeing)
  BY <1>1 DEF Erase, Write
<1> QED BY <1>2, ConcatProperties

\* The logins of a service are freed, and the loop stops or goes on to the next service.
LEMMA ChildrenErased ==
  ASSUME flash \in Blocks, NEW P, NEW C, NEW O, Lists(flash, P, C, O), NEW p \in P
  PROVE  EraseChildren(p) \in Seq(Freeing) /\ NextToErase(p) \in {flash[p].next, Nil}
<1> DEFINE w == Walk(p)
           K == {k \in Steps : w[k] = Nil}
           n == Min(K)
<1>1. w = WalkIn(flash, p) /\ p \in {Profile} \cup Slots /\ Ordered(flash, p, C[p])
      /\ C[p] \subseteq Slots
  BY WalkIsIn DEF Lists, Ordered
<1>2. (\A k \in Steps : w[k] \in C[p] \cup {Nil}) /\ \E k \in Steps : w[k] = Nil
  <2> HIDE DEF w
  <2> QED BY <1>1, WalkStays
<1>3. /\ w[0] = flash[p].child
      /\ \A k \in Steps : k > 0 => w[k] = IF w[k - 1] = Nil THEN Nil ELSE flash[w[k - 1]].next
  BY <1>1, Walked
<1>4. \A s \in Slots : s + 1 \in Slots \/ s \notin C[p]
  BY DEF Lists
<1> DEFINE N == Cardinality(Services \cup Logins)
<1>5. N \in Nat /\ Steps = 0..N
  BY StepsNat
<1> HIDE DEF w, N
<1>6. K \subseteq Nat /\ K # {}
  BY <1>2, <1>5
<1>7. n \in K /\ \A k \in K : n <= k
  <2> HIDE DEF K
  <2> QED BY <1>6, MinIn
<1>8. n \in Nat /\ n \in Steps /\ w[n] = Nil
  BY <1>6, <1>7
<1>9. ASSUME NEW i \in 1..n PROVE w[i - 1] \in C[p]
  <2>1. i - 1 \in Steps /\ ~(n <= i - 1)
    <3> HIDE DEF n
    <3> QED BY <1>5, <1>8
  <2>2. i - 1 \notin K
    <3> HIDE DEF K, n
    <3> QED BY <1>7, <2>1
  <2> QED BY <1>2, <2>1, <2>2
<1> HIDE DEF n
<1>10. EraseChildren(p) \in Seq(Freeing)
  <2> DEFINE ss == [i \in 1..n |-> Erase(w[i - 1]) \o Erase(w[i - 1] + 1)]
  <2>1. EraseChildren(p) = FlattenSeq(ss)
    BY DEF EraseChildren, w, n
  <2>2. ASSUME NEW i \in 1..n PROVE Erase(w[i - 1]) \o Erase(w[i - 1] + 1) \in Seq(Freeing)
    <3>1. w[i - 1] \in Slots /\ w[i - 1] + 1 \in Slots
      BY <1>1, <1>4, <1>9
    <3>2. Erase(w[i - 1]) \in Seq(Freeing)
      <4>1. <<>> \in Seq(Freeing)
        OBVIOUS
      <4> QED BY <3>1, <4>1, Erased
    <3> QED BY <3>1, <3>2, Erased
  <2>3. ss \in [1..n -> Seq(Freeing)]
    BY <2>2
  <2> HIDE DEF ss
  <2> QED BY <1>8, <2>1, <2>3, Flattened
<1>11. NextToErase(p) \in {flash[p].next, Nil}
  <2>1. NextToErase(p) = IF n = 0 THEN flash[p].next ELSE flash[w[n - 1]].next
    BY DEF NextToErase, w, n
  <2>2. n # 0 => flash[w[n - 1]].next = Nil
    <3> SUFFICES ASSUME n # 0 PROVE flash[w[n - 1]].next = Nil
      OBVIOUS
    <3>1. n > 0 /\ n \in 1..n
      BY <1>8
    <3>2. w[n - 1] \in C[p] /\ w[n - 1] # Nil
      BY <1>1, <1>9, <3>1, Apart
    <3> QED BY <1>3, <1>8, <3>1, <3>2
  <2> QED BY <2>1, <2>2
<1> QED BY <1>10, <1>11

\* The writes of a deletion: the profile first, then slots only.
LEMMA DeletionWrites ==
  ASSUME flash \in Blocks, NEW P, NEW C, NEW O, Lists(flash, P, C, O)
  PROVE  \E t \in Seq(Freeing) : EraseWrites = Write(Profile, Blank("profile")) \o t
<1> DEFINE A == P \cup {Nil}
           a == flash[Profile].child
           N == Cardinality(Services \cup Logins)
           next == [q \in Nat \X A |-> IF q[2] = Nil THEN Nil ELSE NextToErase(q[2])]
           Step(g, k) == IF k = 0 THEN a ELSE LET p == g[k - 1] IN IF p = Nil THEN Nil ELSE NextToErase(p)
           OK(g) == g = [k \in Steps |-> Step(g, k)]
           parent == CHOOSE g : OK(g)
           K == {k \in Steps : parent[k] = Nil}
           n == Min(K)
           ss == [i \in 1..n |-> EraseChildren(parent[i - 1]) \o Erase(parent[i - 1])]
<1>1. EraseWrites = Write(Profile, Blank("profile")) \o FlattenSeq(ss)
  BY DEF EraseWrites
<1>2. N \in Nat /\ Steps = 0..N
  BY StepsNat
<1>3. Ordered(flash, Profile, P) /\ P \subseteq Slots
  BY DEF Lists, Ordered
<1>4. \A p \in P : EraseChildren(p) \in Seq(Freeing) /\ NextToErase(p) \in {flash[p].next, Nil}
  BY ChildrenErased
<1>5. a \in A /\ \A p \in P : NextToErase(p) \in A
  BY <1>3, <1>4 DEF Ordered
<1>6. next \in [Nat \X A -> A]
  BY <1>5
<1> HIDE DEF a, N
<1>7. PICK g \in [0..N -> A] : g = [k \in 0..N |-> IF k = 0 THEN a ELSE next[<<k, g[k - 1]>>]]
  <2> HIDE DEF next, A
  <2>1. Iterates(A, a, next, N)
    BY <1>2, <1>5, <1>6, Iterated
  <2> QED BY <2>1 DEF Iterates
<1>8. OK(g)
  <2>1. ASSUME NEW k \in Steps PROVE g[k] = Step(g, k)
    <3>1. CASE k = 0
      BY <1>2, <1>7, <3>1
    <3>2. CASE k # 0
      <4>1. k \in 0..N /\ k - 1 \in 0..N /\ k \in Nat
        BY <1>2, <3>2
      <4>2. g[k] = next[<<k, g[k - 1]>>] /\ g[k - 1] \in A
        <5> HIDE DEF next, A
        <5> QED BY <1>7, <3>2, <4>1
      <4> QED BY <3>2, <4>1, <4>2
    <3> QED BY <3>1, <3>2
  <2>2. g = [k \in Steps |-> g[k]]
    BY <1>2, <1>7
  <2> HIDE DEF Step
  <2> QED BY <2>1, <2>2
<1>9. OK(parent)
  <2> HIDE DEF OK
  <2> QED BY <1>8
<1> HIDE DEF parent
<1>10. parent = [k \in Steps |-> parent[k]] /\ \A k \in Steps : parent[k] = Step(parent, k)
  <2> HIDE DEF Step
  <2> QED BY <1>9
<1> DEFINE S == {k \in Nat : parent[k] \in A}
<1>11. 0 \in S
  <2>1. 0 \in Steps
    BY <1>2
  <2>2. parent[0] = Step(parent, 0)
    <3> HIDE DEF Step
    <3> QED BY <1>10, <2>1
  <2> QED BY <1>5, <2>2
<1>12. ASSUME NEW k \in 0..N, k \in S, k < N PROVE k + 1 \in S
  <2>1. k + 1 \in Steps /\ k + 1 # 0 /\ (k + 1) - 1 = k /\ k + 1 \in Nat
    BY <1>2, <1>12
  <2>2. parent[k + 1] = IF parent[k] = Nil THEN Nil ELSE NextToErase(parent[k])
    BY <1>10, <2>1
  <2> QED BY <1>5, <1>12, <2>1, <2>2
<1>13. \A k \in Steps : parent[k] \in A
  <2> HIDE DEF S
  <2>1. 0..N \subseteq S
    BY <1>2, <1>11, <1>12, Induction
  <2> QED BY <1>2, <2>1 DEF S
<1>14. \E k \in Steps : parent[k] = Nil
  <2>1. parent \in [Steps -> Addresses]
    BY <1>3, <1>10, <1>13 DEF Addresses
  <2>2. \A k \in Steps : parent[k] # Nil => flash[parent[k]].name \in Names
    BY <1>3, <1>13 DEF Ordered
  <2>3. ASSUME NEW k \in Steps, k > 0, parent[k] # Nil
        PROVE  parent[k - 1] # Nil /\ flash[parent[k - 1]].name < flash[parent[k]].name
    <3>1. k # 0 /\ k - 1 \in Steps
      BY <1>2, <2>3
    <3>2. parent[k] = IF parent[k - 1] = Nil THEN Nil ELSE NextToErase(parent[k - 1])
      BY <1>10, <3>1
    <3>3. parent[k - 1] \in P /\ parent[k] = flash[parent[k - 1]].next
      BY <1>4, <1>13, <2>3, <3>1, <3>2
    <3> QED BY <1>3, <2>3, <3>3, Apart DEF Ordered
  <2> QED BY <2>1, <2>2, <2>3, Ends
<1>15. n \in K /\ \A k \in K : n <= k
  <2>1. K \subseteq Nat /\ K # {}
    BY <1>2, <1>14
  <2> HIDE DEF K
  <2> QED BY <2>1, MinIn
<1>16. n \in Nat /\ n \in Steps
  BY <1>2, <1>15
<1> HIDE DEF n
<1>17. ss \in [1..n -> Seq(Freeing)]
  <2>1. ASSUME NEW i \in 1..n
        PROVE  EraseChildren(parent[i - 1]) \o Erase(parent[i - 1]) \in Seq(Freeing)
    <3>1. i - 1 \in Steps /\ ~(n <= i - 1)
      BY <1>2, <1>16
    <3>2. i - 1 \notin K
      <4> HIDE DEF K
      <4> QED BY <1>15, <3>1
    <3>3. parent[i - 1] \in P
      BY <1>13, <3>1, <3>2
    <3> QED BY <1>3, <1>4, <3>3, Erased
  <2> QED BY <2>1
<1>18. FlattenSeq(ss) \in Seq(Freeing)
  <2> HIDE DEF ss
  <2> QED BY <1>16, <1>17, Flattened
<1> HIDE DEF ss
<1> QED BY <1>1, <1>18
-----------------------------------------------------------------------------
(* Around the invariant *)

\* What the type invariant says of the flash and the counters.
LEMMA TypeFacts ==
  ASSUME TypeOK
  PROVE  flash \in Blocks /\ cuts \in Nat /\ deletes \in Nat
  BY BoundsAssumption DEF TypeOK, Blocks

\* What a scan of the flash remembers is free.
LEMMA Scanned ==
  ASSUME TypeOK, ScanNodeUsage
  PROVE  /\ freeParent' \in Addresses /\ freeChild' \in Addresses
         /\ freeParent' = Nil <=> freeChild' = Nil
         /\ freeParent' # Nil =>
              /\ IsFree(freeParent') /\ IsFree(freeChild') /\ IsFree(freeChild' + 1)
              /\ freeParent' \notin {freeChild', freeChild' + 1}
<1>1. CASE ScanFails
  BY <1>1 DEF ScanNodeUsage, Addresses
<1>2. CASE ~ScanFails
  <2> DEFINE p == Min(FreeParents)
             c == Min(FreeChildren)
  <2>1. freeParent' = p /\ freeChild' = c /\ FreeParents # {} /\ FreeChildren # {}
    BY <1>2 DEF ScanNodeUsage, ScanFails
  <2>2. FreeParents \subseteq Slots /\ FreeChildren \subseteq Slots
    BY DEF FreeParents, FreeChildren, IsFree
  <2>3. p \in FreeParents /\ c \in FreeChildren
    <3>1. FreeParents \subseteq Nat /\ FreeChildren \subseteq Nat
      BY <2>2, Apart
    <3> QED BY <2>1, <3>1, MinIn
  <2>4. IsFree(p)
    BY <2>3 DEF FreeParents
  <2>5. c > p /\ IsFree(c) /\ IsFree(c + 1)
    <3> HIDE DEF c
    <3> QED BY <2>3 DEF FreeChildren
  <2>6. p \in Slots /\ c \in Slots /\ p \in Nat /\ c \in Nat
    BY <2>2, <2>3, Apart
  <2> HIDE DEF p, c
  <2> QED BY <2>1, <2>4, <2>5, <2>6, Apart DEF Addresses
<1> QED BY <1>1, <1>2

\* A write and what follows it are not nothing.
LEMMA NotEmpty ==
  ASSUME NEW T, NEW at, NEW node, NEW r \in Seq(T)
  PROVE  Write(at, node) \o r # <<>>
<1> DEFINE w == [at |-> at, node |-> node]
<1>1. r \in Seq(T \cup {w}) /\ <<w>> \in Seq(T \cup {w}) /\ Len(<<w>>) = 1 /\ Len(r) \in Nat
  OBVIOUS
<1> HIDE DEF w
<1>2. Len(<<w>> \o r) = 1 + Len(r)
  BY <1>1, ConcatProperties
<1>3. <<w>> \o r # <<>>
  BY <1>1, <1>2
<1> QED BY <1>3 DEF Write, w

\* An insertion with no write left is done.
LEMMA Finished ==
  ASSUME NEW f, NEW P, NEW C, NEW O, NEW i, Inserting(f, <<>>, P, C, O, i)
  PROVE  Done(f, P, C, O, i)
<1>1. /\ Rest4(f, i) \in Seq(WritesOf(f, i)) /\ Rest3(f, i) \in Seq(WritesOf(f, i))
      /\ Rest2(f, i) \in Seq(WritesOf(f, i)) /\ Rest1(f, i) \in Seq(WritesOf(f, i))
  BY RestsAre
<1>2. \A T : \A at, node : \A r \in Seq(T) : Write(at, node) \o r # <<>>
  BY NotEmpty
<1>3. Rest0(f, i) # <<>>
  BY <1>1, <1>2 DEF Rest0
<1>4. i.kind = "child" => Rest1(f, i) # <<>>
  BY <1>1, <1>2 DEF Rest1, When
<1>5. i.kind # "child" => Rest1(f, i) = Rest2(f, i)
  BY <1>1, ConcatEmptySeq DEF Rest1, When
<1>6. i.after # Nil => Rest2(f, i) # <<>>
  BY <1>1, <1>2 DEF Rest2, BackWrite, When
<1>7. i.after = Nil => Rest2(f, i) = Rest3(f, i)
  BY <1>1, ConcatEmptySeq DEF Rest2, BackWrite, When
<1>8. i.before # Nil => Rest3(f, i) # <<>>
  BY <1>1, <1>2 DEF Rest3, ForwardWrite, When
<1>9. i.before = Nil => Rest3(f, i) = Rest4(f, i)
  BY <1>1, ConcatEmptySeq DEF Rest3, ForwardWrite, When
<1>10. i.first => Rest4(f, i) # <<>>
  BY DEF Rest4, When, Write
<1>11. ASSUME Placed(f, P, C, O, i), O \subseteq Slots, ListOf(P, C, i) \subseteq Slots
       PROVE  Rest3(f, i) # <<>>
  <2>1. ~i.first => i.before # Nil
    BY <1>11, Apart DEF Placed, Place
  <2> QED BY <1>8, <1>9, <1>10, <1>11, <2>1 DEF Placed
<1>12. ASSUME NEW L, Lists(f, P, C, L), O \subseteq L PROVE O \subseteq Slots /\ ListOf(P, C, i) \subseteq Slots
  BY <1>12 DEF Lists, Ordered, ListOf
<1>13. Stage1(f, P, C, O, i) \/ Stage2(f, P, C, O, i) \/ Stage3(f, P, C, O, i) => Rest3(f, i) # <<>>
  BY <1>11, <1>12 DEF Stage1, Stage2, Stage3
<1> QED BY <1>3, <1>4, <1>5, <1>6, <1>7, <1>10, <1>13 DEF Inserting

\* The lists of a flash whose profile has none.
LEMMA NoLists ==
  ASSUME NEW f, f[Profile].child = Nil
  PROVE  \E C : Lists(f, {}, C, {})
<1> DEFINE C == [s \in Slots |-> {}]
<1>1. Ordered(f, Profile, {}) /\ Linked(f, Profile, {}, {})
  BY DEF Ordered, Linked
<1>2. C \in [Slots -> SUBSET Slots]
  OBVIOUS
<1> HIDE DEF C
<1>3. Lists(f, {}, C, {})
  BY <1>1, <1>2 DEF Lists
<1> QED BY <1>3

\* At every stage of an insertion there are lists.
LEMMA InsertingLists ==
  ASSUME NEW f, NEW t, NEW P, NEW C, NEW O, NEW i, Inserting(f, t, P, C, O, i)
  PROVE  \E Q : Lists(f, P, C, Q)
  BY DEF Inserting, Stage0, Stage1, Stage2, Stage3, Done

\* In every state there are lists.
LEMMA SomeLists ==
  ASSUME IInv
  PROVE  \E P, C, O : Lists(flash, P, C, O)
<1>1. CASE phase = "idle" \/ phase = "login"
  BY <1>1 DEF IInv, PhaseInv, Idle
<1>2. CASE phase = "service"
  BY <1>2, InsertingLists DEF IInv, PhaseInv, StoringService, Storing
<1>3. CASE phase = "credential"
  BY <1>3, InsertingLists DEF IInv, PhaseInv, StoringLogin, Storing
<1>4. CASE phase = "erase"
  <2>1. CASE flash[Profile].child = Nil
    BY <2>1, NoLists
  <2>2. CASE flash[Profile].child # Nil
    BY <1>4, <2>2 DEF IInv, PhaseInv, Deletion, Deleting, Idle
  <2> QED BY <2>1, <2>2
<1> QED BY <1>1, <1>2, <1>3, <1>4 DEF IInv, TypeOK

\* There is a request.
LEMMA AnyRequestIs == AnyRequest \in Services \X Logins
<1>1. PICK s \in Services, l \in Logins : TRUE
  BY NamesAssumption
<1>2. <<s, l>> \in Services \X Logins
  OBVIOUS
<1>3. \E r \in Services \X Logins : TRUE
  BY <1>2
<1> HIDE DEF AnyRequest
<1> QED BY <1>3 DEF AnyRequest

\* A blank flash satisfies the invariant.
LEMMA InitInv == Init => IInv
<1> SUFFICES ASSUME Init PROVE IInv
  OBVIOUS
<1>1. \A k \in Kinds : Blank(k) \in Nodes
  BY DEF Blank, Nodes, Addresses
<1>2. flash \in [{Profile} \cup Slots -> Nodes]
  BY <1>1 DEF Init, Kinds
<1>3. AnyRequest \in Services \X Logins
  BY AnyRequestIs
<1>4. TypeOK
  <2>1. freeParent \in Addresses /\ freeChild \in Addresses /\ parentAddr \in Addresses
    BY DEF Init, Addresses
  <2>2. todo \in Seq(Writes)
    BY DEF Init
  <2>3. cuts \in 0..MaxCuts /\ deletes \in 0..MaxDeletes
    BY BoundsAssumption DEF Init
  <2> QED BY <1>2, <1>3, <2>1, <2>2, <2>3 DEF Init, TypeOK
<1>5. Control /\ FreeSlotsFree
  BY DEF Init, Control, FreeSlotsFree
<1>6. \E P, C, O : Idle(P, C, O)
  <2>1. flash[Profile].child = Nil
    BY DEF Init, Blank
  <2>2. PICK C : Lists(flash, {}, C, {})
    BY <2>1, NoLists
  <2>3. \A s \in Slots : flash[s].kind = "free"
    BY Apart DEF Init, Blank
  <2>4. Idle({}, C, {})
    BY <2>2, <2>3 DEF Idle, Whole
  <2> QED BY <2>4
<1>7. PhaseInv
  BY <1>6 DEF Init, PhaseInv
<1> QED BY <1>4, <1>5, <1>7 DEF IInv
-----------------------------------------------------------------------------
(* The operations keep the invariant *)

\* The writes of an insertion are writes of nodes to addresses.
LEMMA WritesTyped ==
  ASSUME NEW f \in Blocks, NEW P, NEW C, NEW O, NEW i, Stage0(f, P, C, O, i)
  PROVE  Rest0(f, i) \in Seq(Writes)
<1>1. Lists(f, P, C, O) /\ O \subseteq O /\ Placed(f, P, C, O, i)
  BY DEF Stage0
<1>2. /\ i.after # Nil => /\ i.after \in Slots /\ f[i.after].kind = i.kind
                          /\ i.after \notin {i.before, i.owner, i.slot}
      /\ i.before # Nil => /\ i.before \in Slots /\ f[i.before].kind # "free"
                           /\ i.before \notin {i.owner, i.slot}
      /\ i.owner \in {Profile} \cup Slots
      /\ i.kind \in {"parent", "child"} /\ i.slot \in Slots
  BY <1>1, Around
<1>3. i.kind = "child" => i.slot + 1 \in Slots
  BY DEF Stage0, Taken
<1>4. i.name \in Services \cup Logins
  BY <1>1 DEF Placed, Owned
<1>5. NewNode(i) \in Nodes
  BY <1>2, <1>4 DEF NewNode, Nodes, Kinds, Addresses
<1>6. Blank("second") \in Nodes
  BY DEF Blank, Nodes, Kinds, Addresses
<1>7. \A s \in {Profile} \cup Slots :
        /\ f[s] \in Nodes
        /\ [f[s] EXCEPT !.prev = i.slot] \in Nodes
        /\ [f[s] EXCEPT !.next = i.slot] \in Nodes
        /\ [f[s] EXCEPT !.child = i.slot] \in Nodes
  BY <1>2 DEF Blocks, Nodes, Addresses
<1>8. \A s \in {Profile} \cup Slots : \A n \in Nodes : [at |-> s, node |-> n] \in Writes
  BY DEF Writes
<1>9. [at |-> i.slot, node |-> NewNode(i)] \in Writes
  BY <1>2, <1>5, <1>8
<1>10. i.kind = "child" => [at |-> i.slot + 1, node |-> Blank("second")] \in Writes
  BY <1>3, <1>6, <1>8
<1>11. i.after # Nil => [at |-> i.after, node |-> [f[i.after] EXCEPT !.prev = i.slot]] \in Writes
  BY <1>2, <1>7, <1>8
<1>12. i.before # Nil => [at |-> i.before, node |-> [f[i.before] EXCEPT !.next = i.slot]] \in Writes
  BY <1>2, <1>7, <1>8
<1>13. i.first => [at |-> i.owner, node |-> [f[i.owner] EXCEPT !.child = i.slot]] \in Writes
  BY <1>2, <1>7, <1>8
<1> HIDE DEF Writes
<1> QED BY <1>9, <1>10, <1>11, <1>12, <1>13, RestsIn

\* Between insertions, a step that leaves the flash and the counters alone is quiet.
LEMMA IdleSame ==
  ASSUME NEW P, NEW C, NEW O, Idle(P, C, O),
         flash' = flash, cuts' = cuts, deletes' = deletes
  PROVE  Idle(P, C, O)'
  BY DEF Idle

\* nodemgmt_init_context scans the flash.
LEMMA LoginInv == IInv /\ Login => IInv'
<1> SUFFICES ASSUME IInv, Login PROVE IInv'
  OBVIOUS
<1>1. TypeOK /\ Control /\ phase = "idle" /\ ScanNodeUsage
  BY DEF IInv, Login, Control
<1>2. PICK P, C, O : Idle(P, C, O)
  BY <1>1 DEF IInv, PhaseInv
<1>3. /\ freeParent' \in Addresses /\ freeChild' \in Addresses
      /\ freeParent' = Nil <=> freeChild' = Nil
      /\ freeParent' # Nil =>
           /\ IsFree(freeParent') /\ IsFree(freeChild') /\ IsFree(freeChild' + 1)
           /\ freeParent' \notin {freeChild', freeChild' + 1}
  BY <1>1, Scanned
<1>4. TypeOK'
  BY <1>1, <1>3 DEF Login, TypeOK
<1>5. Control'
  BY <1>1, <1>3 DEF Login, Control
<1>6. FreeSlotsFree'
  BY <1>3 DEF Login, FreeSlotsFree, IsFree
<1>7. PhaseInv'
  <2>1. Idle(P, C, O)'
    BY <1>2, IdleSame DEF Login
  <2> QED BY <1>1, <2>1 DEF Login, PhaseInv
<1> QED BY <1>4, <1>5, <1>6, <1>7 DEF IInv

\* A logout leaves the flash alone.
LEMMA LogoutInv == IInv /\ Logout => IInv'
<1> SUFFICES ASSUME IInv, Logout PROVE IInv'
  OBVIOUS
<1>1. PICK P, C, O : Idle(P, C, O)
  BY DEF IInv, PhaseInv, Logout
<1>2. TypeOK' /\ Control' /\ FreeSlotsFree'
  BY DEF IInv, Logout, TypeOK, Control, FreeSlotsFree
<1>3. Idle(P, C, O)'
  BY <1>1, IdleSame DEF Logout
<1>4. PhaseInv'
  BY <1>3 DEF Logout, PhaseInv
<1> QED BY <1>2, <1>4 DEF IInv

\* A request that is answered at once.
LEMMA ReportInv ==
  ASSUME IInv, NEW P, NEW C, NEW O, Idle(P, C, O), NEW success, Report(success),
         session, phase \in {"idle", "login"}, request' \in Services \X Logins,
         UNCHANGED <<flash, freeParent, freeChild, session, parentAddr, cuts, deletes>>
  PROVE  IInv'
<1>1. todo' \in Seq(Writes)
  BY DEF Report
<1>2. acked' \in SUBSET (Services \X Logins)
  BY DEF IInv, TypeOK, Report
<1>3. TypeOK'
  BY <1>1, <1>2 DEF IInv, TypeOK, Report
<1>4. Control'
  BY DEF IInv, Control, Report
<1>5. FreeSlotsFree'
  BY DEF IInv, FreeSlotsFree, Report, IsFree
<1>6. Idle(P, C, O)'
  BY IdleSame
<1>7. PhaseInv'
  BY <1>6 DEF PhaseInv, Report
<1> QED BY <1>3, <1>4, <1>5, <1>7 DEF IInv

\* A request that begins an insertion.
LEMMA BeginInv ==
  ASSUME IInv, NEW P, NEW C, NEW O, Idle(P, C, O), NEW newPhase \in {"service", "credential"},
         NEW owner, NEW kind \in {"parent", "child"}, NEW name,
         Begin(newPhase, CreateWrites(owner, kind, name)),
         session, phase \in {"idle", "login"}, request' \in Services \X Logins,
         UNCHANGED <<flash, freeParent, freeChild, session, parentAddr, cuts, deletes>>,
         CanCreate(owner, kind, name), kind = "child" /\ owner \notin P => O # {},
         NEW i, i = Insertion(owner, kind, name, cuts = 0 /\ deletes = 0), Owned(flash, P, i)
  PROVE  TypeOK' /\ Control' /\ FreeSlotsFree' /\ Storing(P, C, O, i)'
<1>1. flash \in Blocks /\ TypeOK /\ Control /\ FreeSlotsFree
  BY TypeFacts DEF IInv
<1>2. Lists(flash, P, C, O) /\ (cuts = 0 => O = {})
      /\ (cuts = 0 /\ deletes = 0 => O = {} /\ Whole(flash, P, C, {}))
  BY DEF Idle
<1>3. i.kind = kind /\ i.slot = FreeSlot(kind) /\ i.whole = (cuts = 0 /\ deletes = 0)
  BY DEF Insertion
<1>4. FreeSlot(kind) # Nil
  BY DEF CanCreate
<1>5. freeParent # Nil /\ IsFree(freeParent) /\ IsFree(freeChild) /\ IsFree(freeChild + 1)
  BY <1>1, <1>4 DEF FreeSlotsFree, Control, FreeSlot
<1>6. \A s \in Taken(i) : s \in Slots /\ flash[s].kind = "free"
  BY <1>3, <1>5 DEF Taken, FreeSlot, IsFree
<1>7. Stage0(flash, P, C, O, i)
  <2> DEFINE whole == cuts = 0 /\ deletes = 0
  <2>1. i = Insertion(owner, kind, name, whole) /\ (whole => O = {} /\ Whole(flash, P, C, {}))
    BY <1>2
  <2> HIDE DEF whole
  <2> QED BY <1>1, <1>2, <1>6, <2>1, InsertionBegins
<1>8. todo' = Rest0(flash, i)
  BY WritesAre DEF Begin
<1>9. todo' \in Seq(Writes)
  BY <1>1, <1>7, <1>8, WritesTyped
<1>10. TypeOK'
  BY <1>1, <1>9 DEF TypeOK, Begin
<1>11. Control' /\ FreeSlotsFree'
  BY <1>1 DEF Control, FreeSlotsFree, Begin
<1>12. Inserting(flash', todo', P, C, O, i)
  <2>1. Inserting(flash, Rest0(flash, i), P, C, O, i)
    BY <1>7 DEF Inserting
  <2> QED BY <1>8, <2>1
<1>13. Storing(P, C, O, i)'
  BY <1>2, <1>3, <1>12 DEF Storing
<1> QED BY <1>10, <1>11, <1>13

\* The login of a request, for a service in the lists or for a lost one.
LEMMA AddCredentialInv ==
  ASSUME IInv, NEW P, NEW C, NEW O, Idle(P, C, O), NEW p \in Slots, NEW login \in Logins,
         flash[p].kind = "parent",
         IF p \in P THEN flash[p].name = request'[1] ELSE flash[p].child = Nil /\ O # {},
         AddCredential(p, login), request' \in Services \X Logins, request'[2] = login,
         session, phase \in {"idle", "login"},
         UNCHANGED <<flash, freeParent, freeChild, session, parentAddr, cuts, deletes>>
  PROVE  IInv'
<1>1. CASE ~CanCreate(p, "child", login)
  <2>1. Report(FALSE)
    BY <1>1 DEF AddCredential
  <2> QED BY <2>1, ReportInv
<1>2. CASE CanCreate(p, "child", login)
  <2>1. Begin("credential", CreateWrites(p, "child", login))
    BY <1>2 DEF AddCredential
  <2>2. PICK i : i = Insertion(p, "child", login, cuts = 0 /\ deletes = 0)
    OBVIOUS
  <2>3. i.kind = "child" /\ i.slot = freeChild /\ i.name = login /\ i.owner = p
    BY <2>2 DEF Insertion, FreeSlot
  <2>4. TypeOK' /\ Control' /\ FreeSlotsFree' /\ Storing(P, C, O, i)'
    <3>1. Owned(flash, P, i)
      BY <2>3 DEF Owned
    <3>2. p \notin P => O # {}
      OBVIOUS
    <3> QED BY <1>2, <2>1, <2>2, <3>1, <3>2, BeginInv
  <2>5. StoringLogin(P, C, O, i)'
    BY <2>3, <2>4 DEF StoringLogin
  <2>6. PhaseInv'
    BY <2>1, <2>5 DEF PhaseInv, Begin
  <2> QED BY <2>4, <2>6 DEF IInv
<1> QED BY <1>1, <1>2

\* A request of logic_user_store_credential.
LEMMA StoreCredentialInv ==
  ASSUME IInv, NEW service \in Services, NEW login \in Logins, StoreCredential(service, login)
  PROVE  IInv'
<1> DEFINE p == Search(Profile, service)
<1>1. /\ session /\ phase = "idle" /\ request' = <<service, login>>
      /\ request' \in Services \X Logins /\ request'[1] = service /\ request'[2] = login
      /\ UNCHANGED <<flash, freeParent, freeChild, session, parentAddr, cuts, deletes>>
  BY DEF StoreCredential
<1>2. PICK P, C, O : Idle(P, C, O)
  BY <1>1 DEF IInv, PhaseInv
<1>3. flash \in Blocks /\ Lists(flash, P, C, O)
  BY <1>2, TypeFacts DEF IInv, Idle
<1>4. p # Nil => p \in P /\ flash[p].name = service
  <2>1. Ordered(flash, Profile, P) /\ service \in Nat
    BY <1>3, Apart DEF Lists
  <2> QED BY <1>3, <2>1, SearchFinds
<1>5. p \in P => p \in Slots /\ flash[p].kind = "parent"
  BY <1>3 DEF Lists, Ordered
<1> HIDE DEF p
<1>6. CASE p = Nil /\ CanCreate(Profile, "parent", service)
  <2>1. Begin("service", CreateWrites(Profile, "parent", service))
    BY <1>6 DEF StoreCredential, p
  <2>2. PICK i : i = Insertion(Profile, "parent", service, cuts = 0 /\ deletes = 0)
    OBVIOUS
  <2>3. i.kind = "parent" /\ i.slot = freeParent /\ i.name = service /\ i.owner = Profile
    BY <2>2 DEF Insertion, FreeSlot
  <2>4. TypeOK' /\ Control' /\ FreeSlotsFree' /\ Storing(P, C, O, i)'
    <3>1. Owned(flash, P, i)
      BY <2>3 DEF Owned
    <3> QED BY <1>1, <1>2, <1>6, <2>1, <2>2, <3>1, BeginInv
  <2>5. StoringService(P, C, O, i)'
    BY <1>1, <2>3, <2>4 DEF StoringService
  <2>6. PhaseInv'
    BY <2>1, <2>5 DEF PhaseInv, Begin
  <2> QED BY <2>4, <2>6 DEF IInv
<1>7. CASE p # Nil /\ Search(p, login) = Nil
  <2>1. AddCredential(p, login)
    BY <1>7 DEF StoreCredential, p
  <2>2. p \in P /\ p \in Slots /\ flash[p].kind = "parent" /\ flash[p].name = request'[1]
    BY <1>1, <1>4, <1>5, <1>7
  <2> QED BY <1>1, <1>2, <2>1, <2>2, AddCredentialInv
<1>8. CASE \/ p = Nil /\ ~CanCreate(Profile, "parent", service)
           \/ p # Nil /\ Search(p, login) # Nil
  <2>1. Report(FALSE) \/ Report(TRUE)
    BY <1>8 DEF StoreCredential, p
  <2> QED BY <1>1, <1>2, <2>1, ReportInv
<1> QED BY <1>6, <1>7, <1>8
\* A block write keeps the types.
LEMMA WriteTyped ==
  ASSUME TypeOK, WriteBlock
  PROVE  TypeOK' /\ Head(todo) \in Writes /\ flash' = After1(flash, todo)
<1>1. todo \in Seq(Writes) /\ todo # <<>>
  BY DEF TypeOK, WriteBlock
<1>2. Head(todo) \in Writes /\ Tail(todo) \in Seq(Writes)
  BY <1>1
<1>3. flash' \in [{Profile} \cup Slots -> Nodes]
  BY <1>2 DEF TypeOK, WriteBlock, Writes
<1>4. acked' \in SUBSET (Services \X Logins)
  BY DEF TypeOK, WriteBlock
<1>5. TypeOK'
  BY <1>2, <1>3, <1>4 DEF TypeOK, WriteBlock
<1> QED BY <1>2, <1>5 DEF WriteBlock, After1

\* The next write of a deletion.
DeletionStep == flash'[Profile].child = Nil /\ Erasing(todo')

\* The next write of a deletion empties the profile, or frees a slot.
LEMMA DeletionAdvances ==
  ASSUME IInv, WriteBlock, phase = "erase"
  PROVE  DeletionStep
<1>1. flash \in Blocks /\ todo # <<>> /\ flash' = [flash EXCEPT ![Head(todo).at] = Head(todo).node]
      /\ todo' = Tail(todo)
  BY TypeFacts DEF IInv, WriteBlock
<1>2. CASE flash[Profile].child = Nil /\ Erasing(todo)
  <2>1. Head(todo) \in Freeing /\ Tail(todo) \in Seq(Freeing)
    BY <1>1, <1>2 DEF Erasing
  <2>2. Head(todo).at # Profile
    BY <2>1, Apart DEF Freeing
  <2>3. flash'[Profile] = flash[Profile]
    BY <1>1, <2>2 DEF Blocks
  <2> QED BY <1>1, <1>2, <2>1, <2>3 DEF DeletionStep, Erasing
<1>3. ASSUME NEW P, NEW C, NEW O, NEW t, Deleting(P, C, O, t)
      PROVE  DeletionStep
  <2>1. t \in Seq(Freeing) /\ todo = Write(Profile, Blank("profile")) \o t
    BY <1>3 DEF Deleting, Erasing
  <2>2. Head(todo) = [at |-> Profile, node |-> Blank("profile")] /\ Tail(todo) = t
    <3> DEFINE node == Blank("profile")
    <3> HIDE DEF node
    <3>1. t \in Seq(Freeing)
      BY <2>1
    <3>2. Head(Write(Profile, node) \o t) = [at |-> Profile, node |-> node]
      BY <3>1, FirstWrite
    <3>3. Tail(Write(Profile, node) \o t) = t
      BY <3>1, FirstWrite
    <3> QED BY <2>1, <3>2, <3>3 DEF node
  <2>3. Head(todo).at = Profile /\ Head(todo).node = Blank("profile")
    BY <2>2
  <2>4. flash'[Profile] = Blank("profile")
    BY <1>1, <2>3 DEF Blocks
  <2>5. flash'[Profile].child = Nil
    BY <2>4 DEF Blank
  <2> QED BY <1>1, <2>1, <2>2, <2>5 DEF DeletionStep, Erasing
<1> QED BY <1>2, <1>3 DEF IInv, PhaseInv, Deletion

\* The next write of an insertion, and what it does to the credentials of the lists.
LEMMA StoringAdvances ==
  ASSUME TypeOK, WriteBlock, NEW P, NEW C, NEW O, NEW i, Storing(P, C, O, i)
  PROVE  \E P2, C2, O2 : Storing(P2, C2, O2, i)' /\ Outcome(flash, flash', P, C, P2, C2, i)
<1>1. /\ flash \in Blocks /\ todo # <<>> /\ todo' = Tail(todo) /\ cuts' = cuts /\ deletes' = deletes
      /\ flash' = After1(flash, todo)
  BY TypeFacts, WriteTyped DEF WriteBlock
<1>2. Inserting(flash, todo, P, C, O, i)
  BY DEF Storing
<1>3. Advanced(flash, flash', todo', P, C, O, i)
  <2>1. Advanced(flash, After1(flash, todo), Tail(todo), P, C, O, i)
    BY <1>1, <1>2, InsertionAdvances
  <2> QED BY <1>1, <2>1
<1>4. PICK P2, C2, O2 : /\ Inserting(flash', todo', P2, C2, O2, i)
                        /\ O = {} => O2 = {}
                        /\ Outcome(flash, flash', P, C, P2, C2, i)
  BY <1>3 DEF Advanced
<1>5. Storing(P2, C2, O2, i)'
  BY <1>1, <1>4 DEF Storing
<1> QED BY <1>4, <1>5

\* Any block write.
LEMMA WriteBlockInv == IInv /\ WriteBlock => IInv'
<1> SUFFICES ASSUME IInv, WriteBlock PROVE IInv'
  OBVIOUS
<1>1. TypeOK /\ TypeOK'
  BY WriteTyped DEF IInv
<1>2. phase \in {"service", "credential", "erase"} /\ phase' = phase
  BY DEF IInv, TypeOK, Control, WriteBlock
<1>3. Control' /\ FreeSlotsFree'
  BY <1>2 DEF IInv, Control, WriteBlock, FreeSlotsFree
<1>4. CASE phase = "service"
  <2>1. PICK P, C, O, i : StoringService(P, C, O, i)
    BY <1>4 DEF IInv, PhaseInv
  <2>2. PICK P2, C2, O2 : Storing(P2, C2, O2, i)'
    BY <1>1, <2>1, StoringAdvances DEF StoringService
  <2>3. StoringService(P2, C2, O2, i)'
    BY <2>1, <2>2 DEF StoringService, WriteBlock
  <2>4. PhaseInv'
    BY <1>2, <1>4, <2>3 DEF PhaseInv
  <2> QED BY <1>1, <1>3, <2>4 DEF IInv
<1>5. CASE phase = "credential"
  <2>1. PICK P, C, O, i : StoringLogin(P, C, O, i)
    BY <1>5 DEF IInv, PhaseInv
  <2>2. PICK P2, C2, O2 : Storing(P2, C2, O2, i)' /\ Outcome(flash, flash', P, C, P2, C2, i)
    BY <1>1, <2>1, StoringAdvances DEF StoringLogin
  <2>3. i.owner \in P2 => flash'[i.owner].name = request'[1]
    BY <2>1, <2>2 DEF StoringLogin, Outcome, WriteBlock
  <2>4. StoringLogin(P2, C2, O2, i)'
    BY <2>1, <2>2, <2>3 DEF StoringLogin, WriteBlock
  <2>5. PhaseInv'
    BY <1>2, <1>5, <2>4 DEF PhaseInv
  <2> QED BY <1>1, <1>3, <2>5 DEF IInv
<1>6. CASE phase = "erase"
  <2>1. DeletionStep
    BY <1>6, DeletionAdvances
  <2>2. PhaseInv'
    BY <1>2, <1>6, <2>1 DEF PhaseInv, Deletion, DeletionStep, Erasing
  <2> QED BY <1>1, <1>3, <2>2 DEF IInv
<1> QED BY <1>2, <1>4, <1>5, <1>6

\* An insertion with nothing left to write leaves the flash as between insertions.
LEMMA DoneIdle ==
  ASSUME NEW P, NEW C, NEW O, NEW i, Storing(P, C, O, i), todo = <<>>
  PROVE  Done(flash, P, C, O, i) /\ Idle(P, C, O)
<1>1. Done(flash, P, C, O, i)
  BY Finished DEF Storing
<1>2. Idle(P, C, O)
  BY <1>1 DEF Done, Storing, Idle
<1> QED BY <1>1, <1>2

\* The service is written.
LEMMA ServiceWrittenInv == IInv /\ ServiceWritten => IInv'
<1> SUFFICES ASSUME IInv, ServiceWritten PROVE IInv'
  OBVIOUS
<1>1. TypeOK /\ Control /\ phase = "service" /\ todo = <<>> /\ ScanNodeUsage
  BY DEF IInv, ServiceWritten
<1>2. PICK P, C, O, i : StoringService(P, C, O, i)
  BY <1>1 DEF IInv, PhaseInv
<1>3. Done(flash, P, C, O, i) /\ Idle(P, C, O)
  BY <1>1, <1>2, DoneIdle DEF StoringService
<1>4. /\ freeParent' \in Addresses /\ freeChild' \in Addresses
      /\ freeParent' = Nil <=> freeChild' = Nil
      /\ freeParent' # Nil =>
           /\ IsFree(freeParent') /\ IsFree(freeChild') /\ IsFree(freeChild' + 1)
           /\ freeParent' \notin {freeChild', freeChild' + 1}
  BY <1>1, Scanned
<1>5. TypeOK'
  BY <1>1, <1>4 DEF ServiceWritten, TypeOK
<1>6. Control'
  BY <1>1, <1>4 DEF ServiceWritten, Control
<1>7. FreeSlotsFree'
  BY <1>4 DEF ServiceWritten, FreeSlotsFree, IsFree
<1>8. Idle(P, C, O)'
  BY <1>3, IdleSame DEF ServiceWritten
<1>9. Current(P, O)'
  <2>1. parentAddr' = i.slot /\ i.kind = "parent" /\ i.name = request[1]
    BY <1>2 DEF ServiceWritten, StoringService
  <2>2. /\ i.slot \in Slots /\ flash[i.slot].kind = "parent" /\ flash[i.slot].name = i.name
        /\ flash[i.slot].child = Nil /\ (i.slot \in P \/ O # {})
    BY <1>3, <2>1 DEF Done, ListOf
  <2> QED BY <2>1, <2>2 DEF Current, ServiceWritten
<1>10. PhaseInv'
  BY <1>8, <1>9 DEF ServiceWritten, PhaseInv
<1> QED BY <1>5, <1>6, <1>7, <1>10 DEF IInv

\* The operation goes on with the login.
LEMMA StoreLoginInv == IInv /\ StoreLogin => IInv'
<1> SUFFICES ASSUME IInv, StoreLogin PROVE IInv'
  OBVIOUS
<1>1. /\ phase = "login" /\ session /\ request' = request /\ AddCredential(parentAddr, request[2])
      /\ request' \in Services \X Logins /\ request[2] \in Logins
      /\ UNCHANGED <<flash, freeParent, freeChild, session, parentAddr, cuts, deletes>>
  BY DEF IInv, TypeOK, Control, StoreLogin
<1>2. PICK P, C, O : Idle(P, C, O) /\ Current(P, O)
  BY <1>1 DEF IInv, PhaseInv
<1>3. /\ parentAddr \in Slots /\ flash[parentAddr].kind = "parent"
      /\ IF parentAddr \in P THEN flash[parentAddr].name = request'[1]
         ELSE flash[parentAddr].child = Nil /\ O # {}
  BY <1>1, <1>2 DEF Current
<1>4. request'[2] = request[2]
  BY <1>1
<1> QED BY <1>1, <1>2, <1>3, <1>4, AddCredentialInv

\* The login is written.
LEMMA CredentialWrittenInv == IInv /\ CredentialWritten => IInv'
<1> SUFFICES ASSUME IInv, CredentialWritten PROVE IInv'
  OBVIOUS
<1>1. /\ TypeOK /\ Control /\ phase = "credential" /\ todo = <<>> /\ ScanNodeUsage
      /\ request' = request /\ Report(TRUE)
  BY DEF IInv, CredentialWritten
<1>2. PICK P, C, O, i : StoringLogin(P, C, O, i)
  BY <1>1 DEF IInv, PhaseInv
<1>3. Idle(P, C, O)
  BY <1>1, <1>2, DoneIdle DEF StoringLogin
<1>4. /\ freeParent' \in Addresses /\ freeChild' \in Addresses
      /\ freeParent' = Nil <=> freeChild' = Nil
      /\ freeParent' # Nil =>
           /\ IsFree(freeParent') /\ IsFree(freeChild') /\ IsFree(freeChild' + 1)
           /\ freeParent' \notin {freeChild', freeChild' + 1}
  BY <1>1, Scanned
<1>5. TypeOK'
  <2>1. acked' \in SUBSET (Services \X Logins) /\ todo' \in Seq(Writes)
    BY <1>1 DEF TypeOK, Report
  <2> QED BY <1>1, <1>4, <2>1 DEF CredentialWritten, TypeOK, Report
<1>6. Control'
  BY <1>1, <1>4 DEF CredentialWritten, Control, Report
<1>7. FreeSlotsFree'
  BY <1>4 DEF CredentialWritten, FreeSlotsFree, IsFree
<1>8. Idle(P, C, O)'
  BY <1>3, IdleSame DEF CredentialWritten
<1>9. PhaseInv'
  BY <1>1, <1>8 DEF Report, PhaseInv
<1> QED BY <1>5, <1>6, <1>7, <1>9 DEF IInv

\* The deletion of the user begins.
LEMMA DeleteUserInv == IInv /\ DeleteUser => IInv'
<1> SUFFICES ASSUME IInv, DeleteUser PROVE IInv'
  OBVIOUS
<1>1. TypeOK /\ Control /\ flash \in Blocks
  BY TypeFacts DEF IInv
<1>2. PICK P, C, O : Idle(P, C, O)
  BY DEF IInv, PhaseInv, DeleteUser
<1>3. PICK t \in Seq(Freeing) : EraseWrites = Write(Profile, Blank("profile")) \o t
  BY <1>1, <1>2, DeletionWrites DEF Idle
<1>4. todo' \in Seq(Writes)
  <2>1. Blank("profile") \in Nodes /\ Blank("free") \in Nodes
    BY DEF Blank, Nodes, Kinds, Addresses
  <2>2. Write(Profile, Blank("profile")) \in Seq(Writes)
    <3>1. [at |-> Profile, node |-> Blank("profile")] \in Writes
      BY <2>1 DEF Writes
    <3> QED BY <3>1 DEF Write
  <2>3. t \in Seq(Writes)
    <3>1. Freeing \subseteq Writes
      BY <2>1 DEF Freeing, Writes
    <3> QED BY <1>3, <3>1
  <2>4. Write(Profile, Blank("profile")) \o t \in Seq(Writes)
    BY <2>2, <2>3, ConcatProperties
  <2> QED BY <1>3, <2>4 DEF DeleteUser
<1>5. deletes' \in 0..MaxDeletes /\ deletes' > 0
  BY <1>1, BoundsAssumption DEF TypeOK, DeleteUser
<1>6. TypeOK' /\ Control' /\ FreeSlotsFree'
  BY <1>1, <1>4, <1>5 DEF DeleteUser, TypeOK, Control, FreeSlotsFree
<1>7. Deleting(P, C, O, t)'
  <2>1. Idle(P, C, O)'
    BY <1>1, <1>2, <1>5 DEF Idle, DeleteUser
  <2> QED BY <1>3, <2>1 DEF Deleting, Erasing, DeleteUser
<1>8. PhaseInv'
  <2>1. Deletion'
    BY <1>7 DEF Deletion
  <2>2. phase' = "erase"
    BY DEF DeleteUser
  <2> QED BY <2>1, <2>2 DEF PhaseInv
<1> QED BY <1>6, <1>8 DEF IInv

\* It ends.
LEMMA UserDeletedInv == IInv /\ UserDeleted => IInv'
<1> SUFFICES ASSUME IInv, UserDeleted PROVE IInv'
  OBVIOUS
<1>1. TypeOK /\ Control /\ phase = "erase" /\ todo = <<>>
  BY DEF IInv, UserDeleted
<1>2. ~ \E P, C, O, t : Deleting(P, C, O, t)
  <2> SUFFICES ASSUME NEW P, NEW C, NEW O, NEW t, Deleting(P, C, O, t) PROVE FALSE
    OBVIOUS
  <2>1. t \in Seq(Freeing) /\ <<>> = Write(Profile, Blank("profile")) \o t
    BY <1>1 DEF Deleting, Erasing
  <2>2. Write(Profile, Blank("profile")) \o t # <<>>
    BY <2>1, NotEmpty
  <2> QED BY <2>1, <2>2
<1>3. flash[Profile].child = Nil
  BY <1>1, <1>2 DEF IInv, PhaseInv, Deletion
<1>4. TypeOK' /\ Control' /\ FreeSlotsFree'
  BY <1>1 DEF UserDeleted, TypeOK, Control, FreeSlotsFree
<1>5. PICK C : Lists(flash, {}, C, {})
  BY <1>3, NoLists
<1>6. Idle({}, C, {})'
  <2>1. deletes' # 0
    BY <1>1, TypeFacts DEF Control, UserDeleted
  <2> QED BY <1>5, <2>1 DEF Idle, UserDeleted
<1>7. PhaseInv'
  BY <1>6 DEF UserDeleted, PhaseInv
<1> QED BY <1>4, <1>7 DEF IInv

\* A power cut at any write leaves lists, and maybe orphans.
LEMMA PowerCutInv == IInv /\ PowerCut => IInv'
<1> SUFFICES ASSUME IInv, PowerCut PROVE IInv'
  OBVIOUS
<1>1. TypeOK /\ Control /\ cuts \in Nat /\ flash' = flash /\ deletes' = deletes /\ phase' = "idle"
  BY TypeFacts DEF IInv, PowerCut
<1>2. cuts' \in 0..MaxCuts /\ (phase # "idle" => cuts' # 0)
  BY <1>1, BoundsAssumption DEF TypeOK, PowerCut
<1>3. TypeOK'
  <2>1. todo' \in Seq(Writes) /\ Nil \in Addresses
    BY DEF PowerCut, Addresses
  <2> QED BY <1>1, <1>2, <2>1, AnyRequestIs DEF TypeOK, PowerCut
<1>4. Control' /\ FreeSlotsFree'
  BY DEF PowerCut, Control, FreeSlotsFree
<1>5. \E P, C, O : Idle(P, C, O)'
  <2>1. CASE phase = "idle"
    <3>1. PICK P, C, O : Idle(P, C, O)
      BY <2>1 DEF IInv, PhaseInv
    <3>2. cuts' = cuts
      BY <2>1 DEF PowerCut
    <3>3. Idle(P, C, O)'
      BY <1>1, <3>1, <3>2, IdleSame
    <3> QED BY <3>3
  <2>2. CASE phase # "idle"
    <3>1. PICK P, C, O : Lists(flash, P, C, O)
      BY SomeLists
    <3>2. Idle(P, C, O)'
      BY <1>1, <1>2, <2>2, <3>1 DEF Idle
    <3> QED BY <3>2
  <2> QED BY <2>1, <2>2
<1>6. PhaseInv'
  BY <1>1, <1>5 DEF PhaseInv
<1> QED BY <1>3, <1>4, <1>6 DEF IInv

\* Every step keeps the invariant.
LEMMA NextInv == IInv /\ [Next]_vars => IInv'
<1> SUFFICES ASSUME IInv, [Next]_vars PROVE IInv'
  OBVIOUS
<1>1. CASE UNCHANGED vars
  <2>1. TypeOK' /\ Control' /\ FreeSlotsFree'
    BY <1>1 DEF vars, IInv, TypeOK, Control, FreeSlotsFree, IsFree
  <2>2. PhaseInv'
    BY <1>1 DEF vars, IInv, PhaseInv, Idle, Current, StoringService, StoringLogin, Storing,
                Deletion, Deleting, Erasing
  <2> QED BY <2>1, <2>2 DEF IInv
<1>2. CASE \E service \in Services, login \in Logins : StoreCredential(service, login)
  BY <1>2, StoreCredentialInv
<1> QED BY <1>1, <1>2, LoginInv, LogoutInv, WriteBlockInv, ServiceWrittenInv, StoreLoginInv,
           CredentialWrittenInv, DeleteUserInv, UserDeletedInv, PowerCutInv DEF Next

-----------------------------------------------------------------------------
(* What the lists say of the database *)

\* The credentials that can be found in a flash f.
CredsIn(f) ==
  UNION {{<<f[p].name, f[c].name>> : c \in ListedIn(f, p)} : p \in ListedIn(f, Profile)}

\* Listed and Credentials read the flash of this state or of the next.
LEMMA ListedIsIn == \A owner : Listed(owner) = ListedIn(flash, owner)
  BY WalkIsIn DEF Listed, ListedIn
LEMMA ListedIsInP == \A owner : Listed(owner)' = ListedIn(flash', owner)
  BY WalkIsInP DEF Listed, ListedIn
LEMMA CredentialsAreIn == Credentials = CredsIn(flash)
  BY ListedIsIn DEF Credentials, CredsIn
LEMMA CredentialsAreInP == Credentials' = CredsIn(flash')
  BY ListedIsInP DEF Credentials, CredsIn

\* The loops of the code go through the lists, all of them and nothing else.
LEMMA Reached ==
  ASSUME NEW f \in Blocks, NEW P, NEW C, NEW O, Lists(f, P, C, O)
  PROVE  /\ ListedIn(f, Profile) = P /\ \A p \in P : ListedIn(f, p) = C[p]
         /\ CredsIn(f) = Creds(f, P, C)
<1>1. Ordered(f, Profile, P) /\ P \subseteq Slots /\ \A p \in P : Ordered(f, p, C[p])
  BY DEF Lists, Ordered
<1>2. ListedIn(f, Profile) = P
  BY <1>1, ListedIsList
<1>3. \A p \in P : ListedIn(f, p) = C[p]
  BY <1>1, ListedIsList
<1> QED BY <1>2, <1>3 DEF CredsIn, Creds

\* A step that leaves the flash alone leaves the credentials alone.
LEMMA SameFlash == flash' = flash => Credentials' = Credentials
  BY CredentialsAreIn, CredentialsAreInP

\* A list is sorted, and linked back if there are no orphans.
LEMMA SortedAre ==
  ASSUME flash \in Blocks, NEW owner \in {Profile} \cup Slots, NEW S, Ordered(flash, owner, S),
         NEW kind, \A s \in S : flash[s].kind = kind
  PROVE  SortedList(owner, kind)
<1>1. Listed(owner) = S
  BY ListedIsIn, ListedIsList
<1> QED BY <1>1 DEF SortedList, Ordered

\* Without orphans, the back link of a node is the node before it, and Nil at the head.
LEMMA BackLinkedAre ==
  ASSUME flash \in Blocks, NEW owner \in {Profile} \cup Slots, NEW S, Ordered(flash, owner, S),
         Linked(flash, owner, S, {})
  PROVE  BackLinked(owner)
<1>1. Listed(owner) = S
  BY ListedIsIn, ListedIsList
<1>2. \A s \in S : flash[s].name \in Nat /\ s # Nil
  BY Apart DEF Ordered
<1>3. ASSUME NEW s \in S, s = flash[owner].child
      PROVE  flash[s].prev = Nil
  <2>1. ASSUME flash[s].prev \in S, flash[flash[s].prev].next = s PROVE FALSE
    <3>1. flash[flash[s].prev].name < flash[s].name
      BY <1>2, <2>1 DEF Ordered
    <3>2. flash[s].name <= flash[flash[s].prev].name
      BY <1>2, <1>3, <2>1 DEF Ordered
    <3> QED BY <1>2, <2>1, <3>1, <3>2
  <2> QED BY <2>1 DEF Linked
<1>4. ASSUME NEW s \in S, flash[s].next # Nil
      PROVE  flash[flash[s].next].prev = s
  <2> DEFINE t == flash[s].next
             b == flash[t].prev
  <2>1. t \in S /\ flash[s].name < flash[t].name
    BY <1>4 DEF Ordered
  <2>2. flash[owner].child # t
    <3> SUFFICES ASSUME flash[owner].child = t PROVE FALSE
      OBVIOUS
    <3>1. flash[t].name <= flash[s].name
      BY <1>4 DEF Ordered
    <3> QED BY <1>2, <2>1, <3>1
  <2>3. b \in S /\ flash[b].next = t
    BY <2>1, <2>2 DEF Linked
  <2> HIDE DEF b
  <2>4. /\ flash[b].name < flash[t].name
        /\ flash[b].name <= flash[s].name \/ flash[t].name <= flash[b].name
        /\ flash[s].name <= flash[b].name \/ flash[t].name <= flash[s].name
    BY <1>4, <2>3 DEF Ordered
  <2>5. flash[b].name = flash[s].name
    BY <1>2, <2>1, <2>3, <2>4
  <2> QED BY <2>3, <2>5 DEF Ordered, b
<1> QED BY <1>1, <1>3, <1>4 DEF BackLinked

\* The writes of a request add at most the credential that it is about.
Grown ==
  \/ Credentials' = Credentials
  \/ \E c \in Services \X Logins : c \notin Credentials /\ Credentials' = Credentials \cup {c}

\* A block write of a request.
LEMMA WriteGrows ==
  ASSUME IInv, WriteBlock, phase # "erase"
  PROVE  Grown
<1>1. TypeOK /\ TypeOK' /\ todo # <<>> /\ request[2] \in Logins
  BY WriteTyped DEF IInv, WriteBlock, TypeOK
<1>2. flash \in Blocks /\ flash' \in Blocks
  BY <1>1 DEF TypeOK, Blocks
<1>3. phase \in {"service", "credential"}
  BY <1>1 DEF IInv, TypeOK, Control
<1>4. \E P, C, O, i : Storing(P, C, O, i) /\ (i.kind = "child" => i.name \in Logins)
  <2>1. CASE phase = "service"
    BY <2>1 DEF IInv, PhaseInv, StoringService
  <2>2. CASE phase = "credential"
    BY <1>1, <2>2 DEF IInv, PhaseInv, StoringLogin
  <2> QED BY <1>3, <2>1, <2>2
<1>5. PICK P, C, O, i : Storing(P, C, O, i) /\ (i.kind = "child" => i.name \in Logins)
  BY <1>4
<1>6. PICK P2, C2, O2 : Storing(P2, C2, O2, i)' /\ Outcome(flash, flash', P, C, P2, C2, i)
  BY <1>1, <1>5, StoringAdvances
<1>7. PICK Q : Lists(flash, P, C, Q)
  BY <1>5, InsertingLists DEF Storing
<1>8. PICK Q2 : Lists(flash', P2, C2, Q2)
  <2>1. Inserting(flash', todo', P2, C2, O2, i)
    BY <1>6 DEF Storing
  <2> QED BY <2>1, InsertingLists
<1>9. Credentials = Creds(flash, P, C)
  BY <1>2, <1>7, Reached, CredentialsAreIn
<1>10. Credentials' = Creds(flash', P2, C2)
  BY <1>2, <1>8, Reached, CredentialsAreInP
<1>11. \A p \in P : flash[p].name \in Services
  BY <1>7 DEF Lists
<1>12. CASE Creds(flash', P2, C2) = Creds(flash, P, C)
  BY <1>9, <1>10, <1>12 DEF Grown
<1>13. CASE /\ i.kind = "child" /\ i.owner \in P
            /\ <<flash[i.owner].name, i.name>> \notin Creds(flash, P, C)
            /\ Creds(flash', P2, C2) = Creds(flash, P, C) \cup {<<flash[i.owner].name, i.name>>}
  <2>1. <<flash[i.owner].name, i.name>> \in Services \X Logins
    BY <1>5, <1>11, <1>13
  <2> QED BY <1>9, <1>10, <1>13, <2>1 DEF Grown
<1> QED BY <1>6, <1>12, <1>13 DEF Outcome

\* The first write of a deletion takes all of them away.
LEMMA DeletionEmpties ==
  ASSUME IInv, WriteBlock, phase = "erase"
  PROVE  Credentials' = {} /\ acked' = {}
<1>1. flash'[Profile].child = Nil /\ flash' \in Blocks
  BY DeletionAdvances, WriteTyped DEF IInv, DeletionStep, TypeOK, Blocks
<1>2. PICK C : Lists(flash', {}, C, {})
  BY <1>1, NoLists
<1>3. Credentials' = Creds(flash', {}, C)
  BY <1>1, <1>2, Reached, CredentialsAreInP
<1> QED BY <1>3 DEF Creds, WriteBlock

\* No other step writes the flash.
LEMMA NotWritten ==
  ASSUME [Next]_vars, ~WriteBlock
  PROVE  Credentials' = Credentials
<1>1. flash' = flash
  BY DEF Next, vars, Login, Logout, StoreCredential, ServiceWritten, StoreLogin,
         CredentialWritten, DeleteUser, UserDeleted, PowerCut
<1> QED BY <1>1, SameFlash

\* A request is answered at once with success when its login exists.
LEMMA FoundIsStored ==
  ASSUME IInv, NEW service \in Services, NEW login \in Logins, StoreCredential(service, login)
  PROVE  \/ acked' = acked
         \/ <<service, login>> \in Credentials /\ acked' = acked \cup {<<service, login>>}
<1>1. flash \in Blocks /\ service \in Nat /\ login \in Nat
  BY TypeFacts, Apart DEF IInv
<1>2. PICK P, C, O : Lists(flash, P, C, O)
  BY SomeLists
<1>3. PICK p : p = Search(Profile, service)
  OBVIOUS
<1>4. CASE p # Nil /\ Search(p, login) # Nil
  <2>1. Ordered(flash, Profile, P)
    BY <1>2 DEF Lists
  <2>2. p \in P /\ flash[p].name = service
    BY <1>1, <1>3, <1>4, <2>1, SearchFinds
  <2>3. Ordered(flash, p, C[p]) /\ p \in Slots
    BY <1>2, <2>2 DEF Lists, Ordered
  <2>4. PICK c : c = Search(p, login)
    OBVIOUS
  <2>5. c \in C[p] /\ flash[c].name = login
    BY <1>1, <1>4, <2>3, <2>4, SearchFinds
  <2>6. <<service, login>> \in Creds(flash, P, C)
    BY <2>2, <2>5 DEF Creds
  <2>7. Credentials = Creds(flash, P, C)
    BY <1>1, <1>2, Reached, CredentialsAreIn
  <2>8. Report(TRUE) /\ request' = <<service, login>>
    BY <1>3, <1>4 DEF StoreCredential
  <2> QED BY <2>6, <2>7, <2>8 DEF Report
<1>5. CASE p = Nil
  <2>1. \/ Begin("service", CreateWrites(Profile, "parent", service))
        \/ Report(FALSE)
    BY <1>3, <1>5 DEF StoreCredential
  <2> QED BY <2>1 DEF Begin, Report
<1>6. CASE p # Nil /\ Search(p, login) = Nil
  <2>1. AddCredential(p, login)
    BY <1>3, <1>6 DEF StoreCredential
  <2> QED BY <2>1 DEF AddCredential, Begin, Report
<1> QED BY <1>4, <1>5, <1>6

\* A request is answered with success after its login was written, and then it is there,
\* unless a power cut had left its service out of the list.
LEMMA WrittenIsStored ==
  ASSUME IInv, CredentialWritten, cuts = 0
  PROVE  request \in Credentials /\ acked' = acked \cup {request}
<1>1. flash \in Blocks /\ todo = <<>> /\ phase = "credential" /\ request \in Services \X Logins
  BY TypeFacts DEF IInv, CredentialWritten, TypeOK
<1>2. PICK P, C, O, i : StoringLogin(P, C, O, i)
  BY <1>1 DEF IInv, PhaseInv
<1>3. Storing(P, C, O, i) /\ i.kind = "child" /\ i.name = request[2]
      /\ (i.owner \in P => flash[i.owner].name = request[1]) /\ O = {}
  BY <1>2 DEF StoringLogin, Storing
<1>4. Done(flash, P, C, O, i)
  BY <1>1, <1>3, DoneIdle
<1>5. i.owner \in P /\ i.slot \in C[i.owner] /\ flash[i.slot].name = i.name /\ Lists(flash, P, C, O)
  BY <1>3, <1>4 DEF Done, ListOf
<1>6. <<request[1], request[2]>> \in Creds(flash, P, C)
  BY <1>3, <1>5 DEF Creds
<1>7. request = <<request[1], request[2]>>
  BY <1>1
<1>8. Credentials = Creds(flash, P, C)
  BY <1>1, <1>5, Reached, CredentialsAreIn
<1>9. acked' = acked \cup {request}
  BY DEF CredentialWritten, Report
<1> QED BY <1>6, <1>7, <1>8, <1>9

-----------------------------------------------------------------------------
(* The theorems *)

\* The inductive invariant holds in every reachable state: wherever the power is cut,
\* the nodes that can be reached form whole sorted lists, and what the operation under way
\* has left to write fits them.
THEOREM SpecIInv == Spec => []IInv
  BY InitInv, NextInv, PTL DEF Spec

\* The addresses that nodemgmt.c writes to, keeps in RAM and finds in the nodes are
\* addresses of the flash or Nil, in every reachable state.
THEOREM SpecTypeOK == Spec => []TypeOK
<1>1. IInv => TypeOK
  BY DEF IInv
<1> QED BY <1>1, SpecIInv, PTL

\* The slots nodemgmt_scan_node_usage remembers are still free, and apart, whenever a node
\* can be created: none is overwritten.
THEOREM SpecFreeSlotsFree == Spec => []FreeSlotsFree
<1>1. IInv => FreeSlotsFree
  BY DEF IInv
<1> QED BY <1>1, SpecIInv, PTL

\* Between any two block writes and after any power cut, the loops of logic_database.c go
\* through strictly sorted lists of parent nodes and of whole child nodes.
THEOREM SpecListsSorted == Spec => []ListsSorted
<1>1. IInv => ListsSorted
  <2> SUFFICES ASSUME IInv PROVE ListsSorted
    OBVIOUS
  <2>1. flash \in Blocks
    BY TypeFacts DEF IInv
  <2>2. PICK P, C, O : Lists(flash, P, C, O)
    BY SomeLists
  <2>3. /\ Ordered(flash, Profile, P) /\ P \subseteq Slots
        /\ \A p \in P : flash[p].kind = "parent"
        /\ \A p \in P : Ordered(flash, p, C[p])
        /\ \A p \in P : \A c \in C[p] : flash[c].kind = "child" /\ flash[c + 1].kind = "second"
    BY <2>2 DEF Lists, Ordered
  <2>4. Listed(Profile) = P /\ \A p \in P : Listed(p) = C[p]
    BY <2>1, <2>2, Reached, ListedIsIn
  <2>5. SortedList(Profile, "parent")
    BY <2>1, <2>3, SortedAre
  <2>6. \A p \in P : SortedList(p, "child")
    BY <2>1, <2>3, SortedAre
  <2> QED BY <2>3, <2>4, <2>5, <2>6 DEF ListsSorted
<1> QED BY <1>1, SpecIInv, PTL

\* As long as no power cut hit an operation, every back link nodemgmt_create_generic_node
\* left behind is the inverse of a forward link.
THEOREM SpecBackLinks == Spec => []BackLinks
<1>1. IInv => BackLinks
  <2> SUFFICES ASSUME IInv, phase = "idle", cuts = 0
               PROVE  BackLinked(Profile) /\ \A p \in Listed(Profile) : BackLinked(p)
    BY DEF BackLinks
  <2>1. flash \in Blocks
    BY TypeFacts DEF IInv
  <2>2. PICK P, C : Lists(flash, P, C, {})
    BY DEF IInv, PhaseInv, Idle
  <2>3. /\ P \subseteq Slots
        /\ Ordered(flash, Profile, P) /\ Linked(flash, Profile, P, {})
        /\ \A p \in P : Ordered(flash, p, C[p]) /\ Linked(flash, p, C[p], {})
    BY <2>2 DEF Lists, Ordered
  <2>4. Listed(Profile) = P
    BY <2>1, <2>2, Reached, ListedIsIn
  <2>5. BackLinked(Profile)
    BY <2>1, <2>3, BackLinkedAre
  <2>6. \A p \in P : BackLinked(p)
    BY <2>1, <2>3, BackLinkedAre
  <2> QED BY <2>4, <2>5, <2>6
<1> QED BY <1>1, SpecIInv, PTL

\* Until a power cut or a deletion, failures for lack of space use up no slot: each one
\* that is not free belongs to a node the loops reach.
THEOREM SpecNoLeak == Spec => []NoLeak
<1>1. IInv => NoLeak
  <2> SUFFICES ASSUME IInv, phase = "idle", cuts = 0, deletes = 0, NEW s \in Slots
               PROVE  IsFree(s) \/ s \in Used
    BY DEF NoLeak
  <2>1. flash \in Blocks
    BY TypeFacts DEF IInv
  <2>2. PICK P, C, O : Lists(flash, P, C, O) /\ Whole(flash, P, C, {})
    BY DEF IInv, PhaseInv, Idle
  <2>3. Listed(Profile) = P /\ \A p \in P : Listed(p) = C[p]
    BY <2>1, <2>2, Reached, ListedIsIn
  <2>4. Used = UNION {{p} \cup UNION {{c, c + 1} : c \in C[p]} : p \in P}
    BY <2>3 DEF Used
  <2> QED BY <2>2, <2>4 DEF Whole, IsFree
<1> QED BY <1>1, SpecIInv, PTL

\* Storing a credential never takes another one from the lists, at any write of it and
\* wherever the power is cut; only the deletion of the user does.
THEOREM SpecNothingLost == Spec => NothingLost
<1>1. IInv /\ [Next]_vars => [phase # "erase" => Credentials \subseteq Credentials']_vars
  BY WriteGrows, NotWritten DEF Grown
<1> QED BY <1>1, SpecIInv, PTL DEF Spec, NothingLost

\* Every step until a power cut is one of the store, or leaves it alone.
LEMMA StepIsStore ==
  ASSUME IInv, [Next]_vars, cuts' = 0
  PROVE  Store!Next \/ UNCHANGED <<Credentials, acked>>
<1>1. cuts = 0 \/ PowerCut
  BY DEF Next, vars, Login, Logout, StoreCredential, WriteBlock, ServiceWritten, StoreLogin,
         CredentialWritten, DeleteUser, UserDeleted
<1>2. CASE WriteBlock /\ phase = "erase"
  BY <1>2, DeletionEmpties DEF Store!Next, Store!DeleteUser
<1>3. CASE WriteBlock /\ phase # "erase"
  <2>1. acked' = acked /\ Grown
    BY <1>3, WriteGrows DEF WriteBlock
  <2> QED BY <2>1 DEF Grown, Store!Next, Store!Store
<1>4. CASE CredentialWritten
  <2>1. cuts = 0
    BY <1>4 DEF CredentialWritten
  <2>2. request \in Services \X Logins /\ request \in Credentials /\ acked' = acked \cup {request}
    BY <1>4, <2>1, WrittenIsStored DEF IInv, TypeOK
  <2>3. Credentials' = Credentials
    BY <1>4, SameFlash DEF CredentialWritten
  <2> QED BY <2>2, <2>3 DEF Store!Next, Store!Acknowledge
<1>5. ASSUME NEW service \in Services, NEW login \in Logins, StoreCredential(service, login)
      PROVE  Store!Next \/ UNCHANGED <<Credentials, acked>>
  <2>1. Credentials' = Credentials
    BY <1>5, SameFlash DEF StoreCredential
  <2>2. <<service, login>> \in Services \X Logins
    OBVIOUS
  <2> QED BY <1>5, <2>1, <2>2, FoundIsStored DEF Store!Next, Store!Acknowledge
<1>6. CASE \/ Login \/ Logout \/ ServiceWritten \/ StoreLogin \/ DeleteUser \/ UserDeleted
           \/ PowerCut \/ UNCHANGED vars
  <2>1. flash' = flash /\ acked' = acked
    BY <1>6 DEF vars, Login, Logout, ServiceWritten, StoreLogin, DeleteUser, UserDeleted,
                PowerCut, AddCredential, Begin, Report
  <2> QED BY <2>1, SameFlash
<1> QED BY <1>2, <1>3, <1>4, <1>5, <1>6 DEF Next

\* Until a power cut hits an operation, the flash and its block writes implement the set of
\* credentials that logic_user_store_credential promises: one appears at one instant, its
\* success is reported after that, and only the deletion of the user takes any away.
THEOREM SpecImplementsStore == Spec => ImplementsStore
<1>1. Init => Store!Init
  <2> SUFFICES ASSUME Init PROVE Store!Init
    OBVIOUS
  <2>1. flash \in Blocks /\ flash[Profile].child = Nil
    BY InitInv, TypeFacts DEF IInv, Init, Blank
  <2>2. PICK C : Lists(flash, {}, C, {})
    BY <2>1, NoLists
  <2>3. Credentials = Creds(flash, {}, C)
    BY <2>1, <2>2, Reached, CredentialsAreIn
  <2> QED BY <2>3 DEF Creds, Store!Init, Init
<1>2. IInv /\ [Next]_vars => [cuts' = 0 => Store!Next]_<<Credentials, acked>>
  BY StepIsStore
<1> QED BY <1>1, <1>2, SpecIInv, PTL DEF Spec, ImplementsStore
===================================================================================
