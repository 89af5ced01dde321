-------------------------- MODULE RoutingInfoProofs --------------------------
(***************************************************************************)
(* Proofs about RoutingInfo, for forests of any size.                      *)
(*                                                                         *)
(* Induction is over sets of numbers: a set that contains 0 and, with each *)
(* number, the next one contains all (Induct); it follows from the         *)
(* library's WFMin, which speaks of sets only.  A recursive function is a  *)
(* CHOOSE, so that there must be a function that obeys the equation: for   *)
(* that, Recursion iterates any function from states to states.            *)
(***************************************************************************)
EXTENDS RoutingInfo, FiniteSetTheorems, SequenceTheorems, WellFoundedInduction, TLAPS

-----------------------------------------------------------------------------
(* Induction and recursion                                                 *)

LEMMA LeastNumber ==
    ASSUME NEW S, S \subseteq Nat, S # {}
    PROVE  \E m \in S : \A n \in S : m <= n
<1> DEFINE R == OpToRel(<, Nat)
<1>1. IsWellFoundedOn(R, Nat)
  BY NatLessThanWellFounded
<1>2. \A x \in S, y \in S : y < x => <<y, x>> \in R
  BY DEF OpToRel
<1> HIDE DEF R
<1>3. \E x \in S : \A y \in S : ~ (<<y, x>> \in R)
  BY <1>1, WFMin
<1>4. PICK m \in S : \A n \in S : ~ (<<n, m>> \in R)
  BY <1>3
<1>5. \A n \in S : ~ (n < m)
  BY <1>2, <1>4
<1> QED
  BY <1>5

LEMMA Induct ==
    ASSUME NEW S, 0 \in S, \A n \in Nat : n \in S => n + 1 \in S
    PROVE  Nat \subseteq S
<1> DEFINE B == {n \in Nat : n \notin S}
<1>1. SUFFICES ASSUME B # {} PROVE FALSE
  OBVIOUS
<1>2. B \subseteq Nat
  OBVIOUS
<1> HIDE DEF B
<1>3. PICK m \in B : \A n \in B : m <= n
  BY <1>1, <1>2, LeastNumber
<1> QED
  BY <1>3 DEF B

\* Strong induction on the numbers from 1 to N
LEMMA InductBelow ==
    ASSUME NEW N \in Nat, NEW S,
           \A i \in 1 .. N : (\A j \in 1 .. N : j < i => j \in S) => i \in S
    PROVE  1 .. N \subseteq S
<1> DEFINE B == {n \in 1 .. N : n \notin S}
<1>1. SUFFICES ASSUME B # {} PROVE FALSE
  OBVIOUS
<1>2. B \subseteq Nat
  OBVIOUS
<1> HIDE DEF B
<1>3. PICK m \in B : \A n \in B : m <= n
  BY <1>1, <1>2, LeastNumber
<1> QED
  BY <1>3 DEF B

\* Induction on the numbers up to N
LEMMA InductTo ==
    ASSUME NEW N \in Nat, NEW S, 0 \in S, \A n \in 1 .. N : n - 1 \in S => n \in S
    PROVE  0 .. N \subseteq S
<1> DEFINE T == {n \in Nat : n <= N => n \in S}
<1>1. 0 \in T
  OBVIOUS
<1>2. \A n \in Nat : n \in T => n + 1 \in T
  <2> SUFFICES ASSUME NEW n \in Nat, n \in T, n + 1 <= N PROVE n + 1 \in S
    OBVIOUS
  <2>1. n \in S /\ n + 1 \in 1 .. N /\ (n + 1) - 1 = n
    OBVIOUS
  <2> QED
    BY <2>1
<1> HIDE DEF T
<1>3. Nat \subseteq T
  BY <1>1, <1>2, Induct
<1> QED
  BY <1>3 DEF T

\* f is what comes of a when G is applied to it step by step.
Iterates(f, N, X, a, G) ==
    /\ f \in [0 .. N -> X]
    /\ f[0] = a
    /\ \A k \in 1 .. N : f[k] = G[k][f[k - 1]]

LEMMA Recursion ==
    ASSUME NEW N \in Nat, NEW X, NEW a \in X, NEW G \in [1 .. N -> [X -> X]]
    PROVE  \E f : Iterates(f, N, X, a, G)
<1> DEFINE S == {n \in 0 .. N : \E f : Iterates(f, n, X, a, G)}
<1>1. 0 \in S
  <2> DEFINE f == [k \in 0 .. 0 |-> a]
  <2>1. Iterates(f, 0, X, a, G)
    BY DEF Iterates
  <2>2. 0 \in 0 .. N
    OBVIOUS
  <2> QED
    BY <2>1, <2>2, Zenon
<1>2. \A n \in 1 .. N : n - 1 \in S => n \in S
  <2> SUFFICES ASSUME NEW n \in 1 .. N, n - 1 \in S PROVE n \in S
    OBVIOUS
  <2>1. PICK g : Iterates(g, n - 1, X, a, G)
    BY Zenon
  <2> DEFINE f == [k \in 0 .. n |-> IF k = n THEN G[n][g[n - 1]] ELSE g[k]]
  <2>2. f \in [0 .. n -> X]
    BY <2>1 DEF Iterates
  <2>3. f[0] = a /\ \A k \in 1 .. n - 1 : f[k] = G[k][f[k - 1]]
    BY <2>1 DEF Iterates
  <2>4. f[n] = G[n][f[n - 1]]
    OBVIOUS
  <2> HIDE DEF f
  <2>5. \A k \in 1 .. n : k \in 1 .. n - 1 \/ k = n
    OBVIOUS
  <2>6. Iterates(f, n, X, a, G)
    BY <2>2, <2>3, <2>4, <2>5 DEF Iterates
  <2>7. n \in 0 .. N
    OBVIOUS
  <2> QED
    BY <2>6, <2>7, Zenon
<1> HIDE DEF S
<1>3. 0 .. N \subseteq S
  BY <1>1, <1>2, InductTo
<1>4. N \in S
  BY <1>3
<1> QED
  BY <1>4, Zenon DEF S

-----------------------------------------------------------------------------
(* The order of siblings                                                   *)

IsRange(s, S) ==
    /\ \A k \in 1 .. Len(s) : s[k] \in S
    /\ \A x \in S : \E k \in 1 .. Len(s) : s[k] = x
IsIncreasing(s) == \A k, l \in 1 .. Len(s) : k < l => s[k] < s[l]

\* InOrder lists the numbers of a set, each once and in order.
LEMMA InOrderLists ==
    ASSUME NEW S, S \subseteq 1 .. MaxNodes
    PROVE  /\ InOrder(S) \in Seq(Nat)
           /\ IsRange(InOrder(S), S)
           /\ IsIncreasing(InOrder(S))
<1> DEFINE Is(f) == f = [n \in 0 .. MaxNodes |->
                           IF n = 0 THEN <<>>
                           ELSE IF n \in S THEN Append(f[n - 1], n)
                           ELSE f[n - 1]]
           upTo == CHOOSE f : Is(f)
           G == [n \in 1 .. MaxNodes |->
                   [q \in Seq(Nat) |-> IF n \in S THEN Append(q, n) ELSE q]]
<1>1. MaxNodes \in Nat
  BY RoutingInfoAssumption
<1> USE <1>1
<1>2. \E f : Is(f)
  <2> DEFINE X == Seq(Nat)
             a == <<>>
  <2>1. G \in [1 .. MaxNodes -> [X -> X]] /\ a \in X
    OBVIOUS
  <2> HIDE DEF G, X, a
  <2>2. PICK f : Iterates(f, MaxNodes, X, a, G)
    BY <2>1, Recursion, Zenon
  <2>3. \A n \in 1 .. MaxNodes : n \in 0 .. MaxNodes /\ n # 0 /\ f[n - 1] \in X
    BY <2>2 DEF Iterates
  <2>4. \A n \in 1 .. MaxNodes :
           f[n] = IF n \in S THEN Append(f[n - 1], n) ELSE f[n - 1]
    <3> TAKE n \in 1 .. MaxNodes
    <3>1. G[n] = [q \in X |-> IF n \in S THEN Append(q, n) ELSE q]
      BY Zenon DEF G, X
    <3> QED
      BY <2>2, <2>3, <3>1, Zenon DEF Iterates
  <2>5. \A n \in 0 .. MaxNodes : n = 0 \/ n \in 1 .. MaxNodes
    OBVIOUS
  <2>6. \A n \in 0 .. MaxNodes :
           f[n] = IF n = 0 THEN <<>> ELSE IF n \in S THEN Append(f[n - 1], n) ELSE f[n - 1]
    BY <2>2, <2>3, <2>4, <2>5, Zenon DEF a, Iterates
  <2>7. f = [n \in 0 .. MaxNodes |-> f[n]]
    BY <2>2 DEF Iterates
  <2>8. Is(f)
    BY <2>6, <2>7, Zenon
  <2> QED
    BY <2>8, Zenon
<1>3. Is(upTo)
  BY <1>2, Zenon
<1>4. InOrder(S) = upTo[MaxNodes]
  BY Zenon DEF InOrder
<1> HIDE DEF upTo
<1> DEFINE Lists(n) ==
              /\ upTo[n] \in Seq(Nat)
              /\ IsRange(upTo[n], S \cap 1 .. n)
              /\ IsIncreasing(upTo[n])
           T == {n \in 0 .. MaxNodes : Lists(n)}
<1>5. 0 \in T
  <2>1. 0 \in 0 .. MaxNodes
    OBVIOUS
  <2>2. upTo[0] = <<>>
    BY <1>3, <2>1, Zenon
  <2>3. Lists(0)
    BY <2>2 DEF IsRange, IsIncreasing
  <2> QED
    BY <2>1, <2>3
<1>6. ASSUME NEW n \in 1 .. MaxNodes, n - 1 \in T PROVE n \in T
  <2> DEFINE p == upTo[n - 1]
  <2>1. p \in Seq(Nat) /\ IsRange(p, S \cap 1 .. n - 1) /\ IsIncreasing(p)
    BY <1>6
  <2>2. n \in 0 .. MaxNodes /\ n # 0
    OBVIOUS
  <2>3. upTo[n] = IF n \in S THEN Append(p, n) ELSE p
    BY <1>3, <2>2, Zenon
  <2> HIDE DEF p
  <2>4. \A k \in 1 .. Len(p) : p[k] < n
    BY <2>1 DEF IsRange
  <2>5. CASE n \in S
    <3> DEFINE u == upTo[n]
    <3>1. /\ u \in Seq(Nat) /\ Len(u) = Len(p) + 1
          /\ \A k \in 1 .. Len(p) : u[k] = p[k]
          /\ u[Len(p) + 1] = n
      BY <2>1, <2>3, <2>5
    <3> HIDE DEF u
    <3>2. Len(p) \in Nat
      BY <2>1
    <3>3. \A k \in 1 .. Len(u) : k \in 1 .. Len(p) \/ k = Len(p) + 1
      BY <3>1, <3>2
    <3>4. IsIncreasing(u)
      <4> SUFFICES ASSUME NEW k \in 1 .. Len(u), NEW l \in 1 .. Len(u), k < l
                   PROVE  u[k] < u[l]
        BY DEF IsIncreasing
      <4>1. k \in 1 .. Len(p)
        BY <3>1, <3>2
      <4>2. CASE l \in 1 .. Len(p)
        BY <2>1, <3>1, <4>1, <4>2 DEF IsIncreasing
      <4>3. CASE l = Len(p) + 1
        BY <2>4, <3>1, <4>1, <4>3
      <4> QED
        BY <3>3, <4>2, <4>3
    <3>5. IsRange(u, S \cap 1 .. n)
      <4>1. ASSUME NEW k \in 1 .. Len(u) PROVE u[k] \in S \cap 1 .. n
        <5>1. CASE k \in 1 .. Len(p)
          BY <2>1, <3>1, <5>1 DEF IsRange
        <5>2. CASE k = Len(p) + 1
          BY <2>5, <3>1, <5>2
        <5> QED
          BY <3>3, <5>1, <5>2
      <4>2. ASSUME NEW x \in S \cap 1 .. n PROVE \E k \in 1 .. Len(u) : u[k] = x
        <5>1. CASE x = n
          BY <3>1, <3>2, <5>1
        <5>2. CASE x # n
          <6>1. PICK k \in 1 .. Len(p) : p[k] = x
            BY <2>1, <5>2 DEF IsRange
          <6> QED
            BY <3>1, <3>2, <6>1
        <5> QED
          BY <5>1, <5>2
      <4> QED
        BY <4>1, <4>2 DEF IsRange
    <3> QED
      BY <2>2, <3>1, <3>4, <3>5 DEF u
  <2>6. CASE n \notin S
    <3>1. upTo[n] = p
      BY <2>3, <2>6
    <3>2. S \cap 1 .. n = S \cap 1 .. n - 1
      BY <2>6
    <3> QED
      BY <2>1, <2>2, <3>1, <3>2, Zenon
  <2> QED
    BY <2>5, <2>6
<1> HIDE DEF T
<1>7. 0 .. MaxNodes \subseteq T
  BY <1>5, <1>6, InductTo
<1>8. MaxNodes \in T
  BY <1>7
<1>9. Lists(MaxNodes)
  BY <1>8, Zenon DEF T
<1>10. S \cap 1 .. MaxNodes = S
  OBVIOUS
<1> QED
  BY <1>4, <1>9, <1>10, Zenon

-----------------------------------------------------------------------------
(* Forests and depths                                                      *)

\* A parent comes before its children.
IsForest(t) ==
    /\ DOMAIN t \subseteq 1 .. MaxNodes
    /\ \A j \in DOMAIN t :
          /\ t[j].parent \in 0 .. j - 1
          /\ t[j].parent # 0 => t[j].parent \in DOMAIN t

ParentIn(t, j) == IF j = 0 THEN 0 ELSE t[j].parent

LEMMA UpSteps ==
    ASSUME NEW t, IsForest(t), NEW i \in DOMAIN t
    PROVE  /\ Up(t, i)[0] = i
           /\ \A k \in 1 .. MaxNodes : Up(t, i)[k] = ParentIn(t, Up(t, i)[k - 1])
<1> DEFINE Is(f) == f = [k \in 0 .. MaxNodes |->
                           IF k = 0 THEN i ELSE IF f[k - 1] = 0 THEN 0 ELSE t[f[k - 1]].parent]
           up == CHOOSE f : Is(f)
           X == DOMAIN t \cup {0}
           G == [k \in 1 .. MaxNodes |-> [j \in X |-> IF j = 0 THEN 0 ELSE t[j].parent]]
<1>1. MaxNodes \in Nat
  BY RoutingInfoAssumption
<1>2. G \in [1 .. MaxNodes -> [X -> X]] /\ i \in X
  BY DEF IsForest
<1> HIDE DEF X, G
<1>3. PICK f : Iterates(f, MaxNodes, X, i, G)
  BY <1>1, <1>2, Recursion, Zenon
<1>4. \A k \in 0 .. MaxNodes : k = 0 \/ k \in 1 .. MaxNodes
  BY <1>1
<1>5. \A k \in 1 .. MaxNodes : k # 0 /\ k \in 0 .. MaxNodes /\ f[k - 1] \in X
  BY <1>1, <1>3 DEF Iterates
<1>6. \A k \in 1 .. MaxNodes : f[k] = IF f[k - 1] = 0 THEN 0 ELSE t[f[k - 1]].parent
  <2> TAKE k \in 1 .. MaxNodes
  <2>1. G[k] = [j \in X |-> IF j = 0 THEN 0 ELSE t[j].parent]
    BY Zenon DEF G
  <2> QED
    BY <1>3, <1>5, <2>1, Zenon DEF Iterates
<1>7. f = [k \in 0 .. MaxNodes |-> f[k]]
  BY <1>3 DEF Iterates
<1>8. \A k \in 0 .. MaxNodes :
         f[k] = IF k = 0 THEN i ELSE IF f[k - 1] = 0 THEN 0 ELSE t[f[k - 1]].parent
  BY <1>3, <1>4, <1>6, Zenon DEF Iterates
<1>9. Is(f)
  BY <1>7, <1>8, Zenon
<1>10. Is(up)
  BY <1>9, Zenon
<1>11. Up(t, i) = up
  BY Zenon DEF Up
<1> HIDE DEF up
<1>12. up[0] = i
  <2>1. 0 \in 0 .. MaxNodes
    BY <1>1
  <2> QED
    BY <1>10, <2>1, Zenon
<1>13. \A k \in 1 .. MaxNodes : up[k] = IF up[k - 1] = 0 THEN 0 ELSE t[up[k - 1]].parent
  BY <1>5, <1>10, Zenon
<1> QED
  BY <1>11, <1>12, <1>13, Zenon DEF ParentIn

LEMMA UpRange ==
    ASSUME NEW t, IsForest(t), NEW i \in DOMAIN t, NEW k \in 0 .. MaxNodes
    PROVE  /\ Up(t, i)[k] \in DOMAIN t \cup {0}
           /\ Up(t, i)[k] # 0 => Up(t, i)[k] + k <= i
<1> DEFINE u == Up(t, i)
           S == {n \in 0 .. MaxNodes :
                   u[n] \in DOMAIN t \cup {0} /\ (u[n] # 0 => u[n] + n <= i)}
<1>1. MaxNodes \in Nat
  BY RoutingInfoAssumption
<1>2. u[0] = i /\ \A n \in 1 .. MaxNodes : u[n] = ParentIn(t, u[n - 1])
  BY UpSteps
<1>3. DOMAIN t \subseteq Nat /\ i \in Nat
  BY DEF IsForest
<1> HIDE DEF u
<1>4. 0 \in S
  BY <1>1, <1>2, <1>3
<1>5. ASSUME NEW n \in 1 .. MaxNodes, n - 1 \in S PROVE n \in S
  <2>1. u[n - 1] \in DOMAIN t \cup {0} /\ (u[n - 1] # 0 => u[n - 1] + (n - 1) <= i)
    BY <1>5
  <2>2. CASE u[n - 1] = 0
    BY <1>1, <1>2, <2>2 DEF ParentIn
  <2>3. CASE u[n - 1] # 0
    <3>1. u[n] = t[u[n - 1]].parent
      BY <1>2, <2>3 DEF ParentIn
    <3>2. u[n] \in 0 .. u[n - 1] - 1 /\ u[n] \in DOMAIN t \cup {0}
      BY <2>1, <2>3, <3>1 DEF IsForest
    <3> QED
      BY <1>1, <1>3, <2>1, <2>3, <3>2
  <2> QED
    BY <2>2, <2>3
<1> HIDE DEF S
<1>6. 0 .. MaxNodes \subseteq S
  BY <1>1, <1>4, <1>5, InductTo
<1>7. k \in S
  BY <1>6
<1> QED
  BY <1>7 DEF S, u

LEMMA UpOfRoot ==
    ASSUME NEW t, IsForest(t), NEW i \in DOMAIN t, t[i].parent = 0
    PROVE  \A k \in 1 .. MaxNodes : Up(t, i)[k] = 0
<1> DEFINE u == Up(t, i)
           S == {n \in 0 .. MaxNodes : n = 0 \/ u[n] = 0}
<1>1. MaxNodes \in Nat
  BY RoutingInfoAssumption
<1>2. u[0] = i /\ \A n \in 1 .. MaxNodes : u[n] = ParentIn(t, u[n - 1])
  BY UpSteps
<1> HIDE DEF u
<1>3. 0 \in S
  BY <1>1
<1>4. \A n \in 1 .. MaxNodes : n - 1 \in S => n \in S
  BY <1>1, <1>2 DEF ParentIn
<1> HIDE DEF S
<1>5. 0 .. MaxNodes \subseteq S
  BY <1>1, <1>3, <1>4, InductTo
<1> QED
  BY <1>5 DEF S, u

LEMMA UpOfChild ==
    ASSUME NEW t, IsForest(t), NEW i \in DOMAIN t, t[i].parent # 0
    PROVE  \A k \in 1 .. MaxNodes : Up(t, i)[k] = Up(t, t[i].parent)[k - 1]
<1> DEFINE u == Up(t, i)
           v == Up(t, t[i].parent)
           S == {n \in 0 .. MaxNodes : n = 0 \/ u[n] = v[n - 1]}
<1>1. MaxNodes \in Nat
  BY RoutingInfoAssumption
<1>2. u[0] = i /\ \A n \in 1 .. MaxNodes : u[n] = ParentIn(t, u[n - 1])
  BY UpSteps
<1>3. t[i].parent \in DOMAIN t /\ i # 0
  BY DEF IsForest
<1>4. v[0] = t[i].parent /\ \A n \in 1 .. MaxNodes : v[n] = ParentIn(t, v[n - 1])
  BY <1>3, UpSteps
<1> HIDE DEF u, v
<1>5. 0 \in S
  BY <1>1
<1>6. ASSUME NEW n \in 1 .. MaxNodes, n - 1 \in S PROVE n \in S
  <2>1. CASE n = 1
    BY <1>1, <1>2, <1>3, <1>4, <2>1 DEF ParentIn
  <2>2. CASE n # 1
    <3>1. n - 1 \in 1 .. MaxNodes /\ n - 1 # 0
      BY <1>1, <2>2
    <3>2. u[n - 1] = v[n - 2]
      BY <1>6, <3>1
    <3>3. v[n - 1] = ParentIn(t, v[n - 2])
      BY <1>4, <3>1
    <3> QED
      BY <1>1, <1>2, <3>2, <3>3
  <2> QED
    BY <2>1, <2>2
<1> HIDE DEF S
<1>7. 0 .. MaxNodes \subseteq S
  BY <1>1, <1>5, <1>6, InductTo
<1> QED
  BY <1>1, <1>7 DEF S, u, v

IsDepth(t, i, k) == k \in 0 .. MaxNodes /\ Up(t, i)[k] # 0 /\ t[Up(t, i)[k]].parent = 0

LEMMA DepthOfRoot ==
    ASSUME NEW t, IsForest(t), NEW i \in DOMAIN t, t[i].parent = 0, NEW k
    PROVE  IsDepth(t, i, k) <=> k = 0
<1>1. MaxNodes \in Nat /\ i # 0
  BY RoutingInfoAssumption DEF IsForest
<1>2. Up(t, i)[0] = i
  BY UpSteps
<1>3. \A n \in 1 .. MaxNodes : Up(t, i)[n] = 0
  BY UpOfRoot
<1>4. \A n \in 0 .. MaxNodes : n = 0 \/ n \in 1 .. MaxNodes
  BY <1>1
<1>5. 0 \in 0 .. MaxNodes
  BY <1>1
<1> QED
  BY <1>1, <1>2, <1>3, <1>4, <1>5, Zenon DEF IsDepth

LEMMA DepthOfChild ==
    ASSUME NEW t, IsForest(t), NEW i \in DOMAIN t, t[i].parent # 0, NEW k
    PROVE  IsDepth(t, i, k) <=> k \in 1 .. MaxNodes /\ IsDepth(t, t[i].parent, k - 1)
<1>1. MaxNodes \in Nat
  BY RoutingInfoAssumption
<1>2. Up(t, i)[0] = i
  BY UpSteps
<1>3. \A n \in 1 .. MaxNodes : Up(t, i)[n] = Up(t, t[i].parent)[n - 1]
  BY UpOfChild
<1>4. \A n \in 0 .. MaxNodes : n = 0 \/ n \in 1 .. MaxNodes
  BY <1>1
<1>5. \A n \in 1 .. MaxNodes : n \in 0 .. MaxNodes /\ n - 1 \in 0 .. MaxNodes
  BY <1>1
<1> QED
  BY <1>2, <1>3, <1>4, <1>5, Zenon DEF IsDepth

\* A node is one below its parent.
LEMMA Depths ==
    ASSUME NEW t, IsForest(t), NEW i \in DOMAIN t
    PROVE  /\ DepthIn(t, i) \in 0 .. i - 1
           /\ DepthIn(t, i) = IF t[i].parent = 0 THEN 0 ELSE DepthIn(t, t[i].parent) + 1
<1> DEFINE Is(j, d) == \A k : IsDepth(t, j, k) <=> k = d
           S == {j \in Nat : j \in DOMAIN t => \E d \in 0 .. j - 1 : Is(j, d)}
<1>1. MaxNodes \in Nat /\ DOMAIN t \subseteq 1 .. MaxNodes
  BY RoutingInfoAssumption DEF IsForest
<1>2. ASSUME NEW j \in DOMAIN t, NEW d \in Nat, Is(j, d)
      PROVE  DepthIn(t, j) = d
  <2>1. d \in 0 .. MaxNodes /\ IsDepth(t, j, d)
    BY <1>2, Zenon DEF IsDepth
  <2>2. \A k \in 0 .. MaxNodes : (Up(t, j)[k] # 0 /\ t[Up(t, j)[k]].parent = 0) <=> k = d
    BY <1>2, Zenon DEF IsDepth
  <2> QED
    BY <2>1, <2>2, Zenon DEF DepthIn
<1>3. ASSUME NEW j \in DOMAIN t, t[j].parent = 0
      PROVE  Is(j, 0)
  BY <1>3, DepthOfRoot
<1>4. ASSUME NEW j \in DOMAIN t, t[j].parent # 0,
             NEW d \in 0 .. t[j].parent - 1, Is(t[j].parent, d)
      PROVE  d + 1 \in 0 .. j - 1 /\ Is(j, d + 1)
  <2>1. t[j].parent \in 0 .. j - 1 /\ j \in 1 .. MaxNodes
    BY <1>1 DEF IsForest
  <2>2. \A k : IsDepth(t, j, k) <=> k \in 1 .. MaxNodes /\ k - 1 = d
    BY <1>4, DepthOfChild, Zenon
  <2>3. \A k : (k \in 1 .. MaxNodes /\ k - 1 = d) <=> k = d + 1
    BY <1>1, <2>1
  <2>4. Is(j, d + 1)
    BY <2>2, <2>3, Zenon
  <2>5. d + 1 \in 0 .. j - 1
    BY <2>1
  <2> QED
    BY <2>4, <2>5
<1>5. ASSUME NEW j \in 1 .. MaxNodes, \A l \in 1 .. MaxNodes : l < j => l \in S
      PROVE  j \in S
  <2> SUFFICES ASSUME j \in DOMAIN t PROVE \E d \in 0 .. j - 1 : Is(j, d)
    OBVIOUS
  <2>1. CASE t[j].parent = 0
    <3>1. 0 \in 0 .. j - 1
      OBVIOUS
    <3> QED
      BY <1>3, <2>1, <3>1, Zenon
  <2>2. CASE t[j].parent # 0
    <3>1. t[j].parent \in DOMAIN t /\ t[j].parent \in 1 .. MaxNodes /\ t[j].parent < j
      BY <1>1, <2>2 DEF IsForest
    <3>2. t[j].parent \in S
      BY <1>5, <3>1
    <3>3. PICK d \in 0 .. t[j].parent - 1 : Is(t[j].parent, d)
      BY <3>1, <3>2
    <3> QED
      BY <1>4, <2>2, <3>3, Zenon
  <2> QED
    BY <2>1, <2>2
<1> HIDE DEF S
<1>6. 1 .. MaxNodes \subseteq S
  BY <1>1, <1>5, InductBelow
<1>7. \A j \in DOMAIN t : \E d \in 0 .. j - 1 : Is(j, d)
  BY <1>1, <1>6 DEF S
<1>8. PICK d \in 0 .. i - 1 : Is(i, d)
  BY <1>7, Zenon
<1>9. i \in Nat /\ d \in Nat
  BY <1>1
<1>10. DepthIn(t, i) = d
  BY <1>2, <1>8, <1>9, Zenon
<1>11. CASE t[i].parent = 0
  <2>1. DepthIn(t, i) = 0
    BY <1>2, <1>3, <1>11
  <2> QED
    BY <1>10, <1>11, <2>1
<1>12. CASE t[i].parent # 0
  <2>1. t[i].parent \in DOMAIN t /\ t[i].parent \in Nat
    BY <1>1, <1>12 DEF IsForest
  <2>2. PICK e \in 0 .. t[i].parent - 1 : Is(t[i].parent, e)
    BY <1>7, <2>1, Zenon
  <2>3. e \in Nat /\ e + 1 \in Nat
    BY <2>1
  <2>4. Is(i, e + 1)
    BY <1>4, <1>12, <2>2, Zenon
  <2>5. DepthIn(t, t[i].parent) = e
    BY <1>2, <2>1, <2>2, <2>3, Zenon
  <2>6. DepthIn(t, i) = e + 1
    BY <1>2, <2>3, <2>4, Zenon
  <2> QED
    BY <1>10, <1>12, <2>5, <2>6
<1> QED
  BY <1>11, <1>12

\* The members of the tree under a root: the root, and the children of members
LEMMA TreeMembers ==
    ASSUME IsForest(forest), NEW r \in DOMAIN forest, forest[r].parent = 0,
           NEW i \in DOMAIN forest
    PROVE  i \in Tree(r) <=> IF forest[i].parent = 0 THEN i = r ELSE forest[i].parent \in Tree(r)
<1>1. MaxNodes \in Nat /\ r # 0 /\ DOMAIN forest \subseteq 1 .. MaxNodes
  BY RoutingInfoAssumption DEF IsForest
<1>2. Up(forest, i)[0] = i /\ 0 \in 0 .. MaxNodes
  BY <1>1, UpSteps
<1>3. \A n \in 0 .. MaxNodes : n = 0 \/ n \in 1 .. MaxNodes
  BY <1>1
<1>4. i \in Tree(r) <=> \E k \in 0 .. MaxNodes : Up(forest, i)[k] = r
  BY Zenon DEF Tree
<1>5. CASE forest[i].parent = 0
  <2>1. \A n \in 1 .. MaxNodes : Up(forest, i)[n] = 0
    BY <1>5, UpOfRoot
  <2> QED
    BY <1>1, <1>2, <1>3, <1>4, <1>5, <2>1, Zenon
<1>6. CASE forest[i].parent # 0
  <2> DEFINE p == forest[i].parent
  <2>1. p \in DOMAIN forest /\ i # r /\ p \in Nat /\ i \in Nat /\ p < i /\ i <= MaxNodes
    BY <1>1, <1>6 DEF IsForest
  <2>2. \A n \in 1 .. MaxNodes : Up(forest, i)[n] = Up(forest, p)[n - 1]
    BY <1>6, UpOfChild
  <2>3. p \in Tree(r) <=> \E k \in 0 .. MaxNodes : Up(forest, p)[k] = r
    BY <2>1, Zenon DEF Tree
  <2>4. ASSUME NEW k \in 0 .. MaxNodes, Up(forest, i)[k] = r
        PROVE  \E l \in 0 .. MaxNodes : Up(forest, p)[l] = r
    <3>1. k \in 1 .. MaxNodes
      BY <1>2, <1>3, <2>1, <2>4
    <3>2. k - 1 \in 0 .. MaxNodes
      BY <1>1, <3>1
    <3> QED
      BY <2>2, <2>4, <3>1, <3>2, Zenon
  <2>5. ASSUME NEW k \in 0 .. MaxNodes, Up(forest, p)[k] = r
        PROVE  \E l \in 0 .. MaxNodes : Up(forest, i)[l] = r
    <3>1. r + k <= p /\ r \in Nat
      BY <1>1, <2>1, <2>5, UpRange
    <3>2. k + 1 \in 1 .. MaxNodes /\ k + 1 \in 0 .. MaxNodes /\ (k + 1) - 1 = k
      BY <1>1, <2>1, <3>1
    <3> QED
      BY <2>2, <2>5, <3>2, Zenon
  <2> QED
    BY <1>4, <1>6, <2>3, <2>4, <2>5, Zenon
<1> QED
  BY <1>5, <1>6

-----------------------------------------------------------------------------
(* The walk, one call of next at a time                                    *)

\* Moving the head of a queue behind what is out leaves their concatenation.
LEMMA HeadMovesOut ==
    ASSUME NEW V, NEW o \in Seq(V), NEW q \in Seq(V), NEW c \in Seq(V), q # <<>>
    PROVE  /\ Append(o, Head(q)) \o (Tail(q) \o c) = (o \o q) \o c
           /\ Append(o, Head(q)) \in Seq(V) /\ Tail(q) \o c \in Seq(V)
           /\ Len(Append(o, Head(q))) = Len(o) + 1
           /\ Head(q) \in V /\ Head(q) = (o \o q)[Len(o) + 1]
           /\ Len(o) < Len(o \o q)
<1> DEFINE h == Head(q)
           r == Tail(q)
           p == Append(o, h)
<1>1. /\ h \in V /\ r \in Seq(V) /\ Len(r) = Len(q) - 1
      /\ \A i \in 1 .. Len(r) : r[i] = q[i + 1]
  BY HeadTailProperties
<1>2. Len(o) \in Nat /\ Len(q) \in Nat \ {0} /\ h = q[1]
  BY EmptySeq, LenProperties
<1> HIDE DEF h, r
<1>3. /\ p \in Seq(V) /\ Len(p) = Len(o) + 1
      /\ \A i \in 1 .. Len(o) : p[i] = o[i]
      /\ p[Len(o) + 1] = h
  BY <1>1, AppendProperties
<1> HIDE DEF p
<1>4. /\ p \o r \in Seq(V) /\ Len(p \o r) = Len(p) + Len(r)
      /\ \A i \in 1 .. Len(p) + Len(r) : (p \o r)[i] = IF i <= Len(p) THEN p[i] ELSE r[i - Len(p)]
  BY <1>1, <1>3, ConcatProperties
<1>5. /\ o \o q \in Seq(V) /\ Len(o \o q) = Len(o) + Len(q)
      /\ \A i \in 1 .. Len(o) + Len(q) : (o \o q)[i] = IF i <= Len(o) THEN o[i] ELSE q[i - Len(o)]
  BY ConcatProperties
<1>6. ASSUME NEW i \in 1 .. Len(p \o r) PROVE (p \o r)[i] = (o \o q)[i]
  <2>1. CASE i \in 1 .. Len(o)
    BY <1>1, <1>2, <1>3, <1>4, <1>5, <2>1
  <2>2. CASE i = Len(o) + 1
    BY <1>1, <1>2, <1>3, <1>4, <1>5, <2>2
  <2>3. CASE i > Len(o) + 1
    <3>1. i - (Len(o) + 1) \in 1 .. Len(r) /\ (i - (Len(o) + 1)) + 1 = i - Len(o)
      BY <1>1, <1>2, <1>3, <1>4, <2>3
    <3>2. (p \o r)[i] = r[i - (Len(o) + 1)]
      BY <1>2, <1>3, <1>4, <2>3
    <3>3. (o \o q)[i] = q[i - Len(o)]
      BY <1>1, <1>2, <1>3, <1>4, <1>5, <2>3
    <3> QED
      BY <1>1, <3>1, <3>2, <3>3
  <2> QED
    BY <1>1, <1>2, <1>3, <1>4, <2>1, <2>2, <2>3
<1>7. Len(p \o r) = Len(o \o q)
  BY <1>1, <1>2, <1>3, <1>4, <1>5
<1>8. p \o r = o \o q
  BY <1>4, <1>5, <1>6, <1>7, SeqEqual, Zenon
<1>9. (p \o r) \o c = p \o (r \o c)
  <2>1. p \in Seq(V) /\ r \in Seq(V) /\ c \in Seq(V)
    BY <1>1, <1>3
  <2> QED
    BY <2>1, ConcatAssociative, SMTT(30)
<1>10. r \o c \in Seq(V)
  BY <1>1, ConcatProperties
<1>11. h = (o \o q)[Len(o) + 1] /\ Len(o) < Len(o \o q)
  BY <1>2, <1>5
<1> QED
  BY <1>1, <1>3, <1>8, <1>9, <1>10, <1>11, Zenon DEF h, r, p

LEMMA SeqOfMembers ==
    ASSUME NEW S, NEW q \in Seq(Nat), \A k \in 1 .. Len(q) : q[k] \in S
    PROVE  q \in Seq(S)
<1>1. Len(q) \in Nat /\ q \in [1 .. Len(q) -> Nat]
  BY LenProperties
<1>2. q \in [1 .. Len(q) -> S]
  BY <1>1
<1> QED
  BY <1>1, <1>2, SeqDef

LEMMA BelowListed ==
    ASSUME NEW t, IsForest(t), NEW i
    PROVE  /\ InOrder(Below(t, i)) \in Seq(DOMAIN t)
           /\ IsRange(InOrder(Below(t, i)), Below(t, i))
           /\ IsIncreasing(InOrder(Below(t, i)))
<1>1. Below(t, i) \subseteq DOMAIN t /\ DOMAIN t \subseteq 1 .. MaxNodes
  BY DEF Below, IsForest
<1> DEFINE q == InOrder(Below(t, i))
<1>2. q \in Seq(Nat) /\ IsRange(q, Below(t, i)) /\ IsIncreasing(q)
  BY <1>1, InOrderLists
<1> HIDE DEF q
<1>3. \A k \in 1 .. Len(q) : q[k] \in DOMAIN t
  BY <1>1, <1>2 DEF IsRange
<1>4. q \in Seq(DOMAIN t)
  BY <1>2, <1>3, SeqOfMembers
<1> QED
  BY <1>2, <1>4 DEF q

VisitsOf(t) == [node : DOMAIN t, depth : Nat]
StepsOf(t) == [out : Seq(VisitsOf(t)), queue : Seq(VisitsOf(t))]

\* One call of next
CallNext(t, s) ==
    IF s.queue = <<>> THEN s
    ELSE [out |-> Append(s.out, Head(s.queue)),
          queue |-> Tail(s.queue) \o Visits(Children(t, Head(s.queue).node),
                                            Head(s.queue).depth + 1)]

LEMMA VisitsType ==
    ASSUME NEW t, NEW is \in Seq(DOMAIN t), NEW d \in Nat
    PROVE  /\ Visits(is, d) \in Seq(VisitsOf(t))
           /\ Len(Visits(is, d)) = Len(is)
           /\ \A k \in 1 .. Len(is) : Visits(is, d)[k].node = is[k] /\ Visits(is, d)[k].depth = d
<1>1. Len(is) \in Nat /\ \A k \in 1 .. Len(is) : is[k] \in DOMAIN t
  BY LenProperties, ElementOfSeq
<1> DEFINE v == [k \in 1 .. Len(is) |-> [node |-> is[k], depth |-> d]]
<1>2. \A k \in 1 .. Len(is) : [node |-> is[k], depth |-> d] \in VisitsOf(t)
  BY <1>1 DEF VisitsOf
<1>3. v \in [1 .. Len(is) -> VisitsOf(t)]
  BY <1>2, Zenon
<1>4. \A k \in 1 .. Len(is) : v[k].node = is[k] /\ v[k].depth = d
  BY Zenon
<1>5. v \in Seq(VisitsOf(t)) /\ Len(v) = Len(is)
  <2>1. DOMAIN v = 1 .. Len(is)
    BY Zenon
  <2> HIDE DEF v
  <2>2. v \in Seq(VisitsOf(t))
    BY <1>1, <1>3, SeqDef
  <2> QED
    BY <1>1, <2>1, <2>2, LenProperties
<1> QED
  BY <1>4, <1>5, Zenon DEF Visits

LEMMA CallNextType ==
    ASSUME NEW t, IsForest(t), NEW s \in StepsOf(t)
    PROVE  CallNext(t, s) \in StepsOf(t)
<1> DEFINE V == VisitsOf(t)
           h == Head(s.queue)
<1>1. s.out \in Seq(V) /\ s.queue \in Seq(V)
  BY Zenon DEF StepsOf
<1>2. CASE s.queue = <<>>
  BY <1>2 DEF CallNext
<1>3. CASE s.queue # <<>>
  <2>1. h \in V
    BY <1>1, <1>3, HeadTailProperties
  <2>2. h.node \in DOMAIN t /\ h.depth + 1 \in Nat
    BY <2>1 DEF VisitsOf
  <2> DEFINE c == Visits(Children(t, h.node), h.depth + 1)
  <2>3. c \in Seq(V)
    BY <2>2, BelowListed, VisitsType DEF Children
  <2>4. CallNext(t, s) = [out |-> Append(s.out, h), queue |-> Tail(s.queue) \o c]
    BY <1>3, Zenon DEF CallNext
  <2> HIDE DEF V, h, c
  <2>5. Append(s.out, h) \in Seq(V) /\ Tail(s.queue) \o c \in Seq(V)
    BY <1>1, <1>3, <2>3, HeadMovesOut DEF h
  <2> QED
    BY <2>4, <2>5 DEF StepsOf, V
<1> QED
  BY <1>2, <1>3

\* WalkSteps is next called again and again.
LEMMA WalkStepsEquation ==
    ASSUME NEW t, IsForest(t), NEW roots \in Seq(DOMAIN t)
    PROVE  LET N == Cardinality(DOMAIN t)
               w == WalkSteps(t, roots)
           IN /\ N \in Nat
              /\ w[0] = [out |-> <<>>, queue |-> Visits(roots, 0)]
              /\ \A k \in 1 .. N : w[k] = CallNext(t, w[k - 1])
              /\ \A k \in 0 .. N : w[k] \in StepsOf(t)
<1> DEFINE N == Cardinality(DOMAIN t)
           first == [out |-> <<>>, queue |-> Visits(roots, 0)]
           X == StepsOf(t)
           Is(f) == f = [k \in 0 .. N |->
                           IF k = 0 THEN [out |-> <<>>, queue |-> Visits(roots, 0)]
                           ELSE LET s == f[k - 1] IN
                                IF s.queue = <<>> THEN s
                                ELSE LET cur == Head(s.queue) IN
                                     [out |-> Append(s.out, cur),
                                      queue |-> Enqueue(Tail(s.queue),
                                                        Visits(Children(t, cur.node), cur.depth + 1))]]
           IsToo(f) == f = [k \in 0 .. N |-> IF k = 0 THEN first ELSE CallNext(t, f[k - 1])]
           w == CHOOSE f : Is(f)
           G == [k \in 1 .. N |-> [s \in X |-> CallNext(t, s)]]
<1>1. N \in Nat
  <2>1. MaxNodes \in Nat /\ DOMAIN t \subseteq 1 .. MaxNodes
    BY RoutingInfoAssumption DEF IsForest
  <2>2. IsFiniteSet(1 .. MaxNodes)
    BY <2>1, FS_Interval
  <2> QED
    BY <2>1, <2>2, FS_Subset, FS_CardinalityType
<1>2. WalkSteps(t, roots) = w
  BY Zenon DEF WalkSteps
<1>3. \A f : Is(f) <=> IsToo(f)
  BY Zenon DEF CallNext, Enqueue
<1>4. first \in X
  <2>1. Visits(roots, 0) \in Seq(VisitsOf(t)) /\ <<>> \in Seq(VisitsOf(t))
    BY VisitsType, EmptySeq
  <2> QED
    BY <2>1 DEF StepsOf
<1>5. \A s \in X : CallNext(t, s) \in X
  BY CallNextType
<1> HIDE DEF X, Is, N, first
<1>6. G \in [1 .. N -> [X -> X]]
  BY <1>5, Zenon
<1> HIDE DEF G
<1>7. PICK f : Iterates(f, N, X, first, G)
  BY <1>1, <1>4, <1>6, Recursion, Zenon
<1>8. \A k \in 0 .. N : k = 0 \/ k \in 1 .. N
  BY <1>1
<1>9. \A k \in 1 .. N : k \in 0 .. N /\ k # 0 /\ k - 1 \in 0 .. N
  BY <1>1
<1>10. \A k \in 1 .. N : f[k] = CallNext(t, f[k - 1])
  <2> TAKE k \in 1 .. N
  <2>1. G[k] = [s \in X |-> CallNext(t, s)]
    BY Zenon DEF G
  <2>2. f[k - 1] \in X
    BY <1>7, <1>9, Zenon DEF Iterates
  <2> QED
    BY <1>7, <2>1, <2>2, Zenon DEF Iterates
<1>11. f = [k \in 0 .. N |-> f[k]]
  BY <1>7, Zenon DEF Iterates
<1>12. IsToo(f)
  BY <1>7, <1>8, <1>10, <1>11, Zenon DEF Iterates
<1>13. IsToo(w)
  BY <1>3, <1>12, Zenon
<1> HIDE DEF w
<1>14. 0 \in 0 .. N
  BY <1>1
<1>15. w[0] = first
  BY <1>13, <1>14, Zenon
<1>16. \A k \in 1 .. N : w[k] = CallNext(t, w[k - 1])
  BY <1>9, <1>13, Zenon
<1> DEFINE S == {k \in 0 .. N : w[k] \in X}
<1>17. 0 \in S
  BY <1>4, <1>14, <1>15, Zenon
<1>18. \A k \in 1 .. N : k - 1 \in S => k \in S
  BY <1>5, <1>9, <1>16, Zenon
<1> HIDE DEF S
<1>19. 0 .. N \subseteq S
  BY <1>1, <1>17, <1>18, InductTo
<1>20. \A k \in 0 .. N : w[k] \in X
  BY <1>19, Zenon DEF S
<1> QED
  BY <1>1, <1>2, <1>15, <1>16, <1>20, Zenon DEF X, N, first

-----------------------------------------------------------------------------
(* What a walk has visited and queued                                      *)

\* The nodes of the trees under some roots
IsReached(t, roots, T) ==
    /\ T \subseteq DOMAIN t
    /\ \A j \in DOMAIN t :
          j \in T <=> IF t[j].parent = 0 THEN \E k \in 1 .. Len(roots) : roots[k] = j
                      ELSE t[j].parent \in T

\* a is what has been visited, up to n, followed by what is queued.
Numbered(t, T, a) == \A k \in 1 .. Len(a) : a[k].node \in T /\ a[k].depth = DepthIn(t, a[k].node)
Distinct(a) == \A k, l \in 1 .. Len(a) : a[k].node = a[l].node => k = l
Sorted(a) == \A k, l \in 1 .. Len(a) : k < l => a[k].depth <= a[l].depth
Near(a, n) == n < Len(a) => \A k \in 1 .. Len(a) : a[k].depth <= a[n + 1].depth + 1
IsVisited(t, a, n, j) == t[j].parent = 0 \/ \E l \in 1 .. n : a[l].node = t[j].parent
ParentsFirst(t, a, n) == \A k \in 1 .. Len(a) : IsVisited(t, a, n, a[k].node)
ChildrenListed(t, T, a, n) ==
    \A j \in T : IsVisited(t, a, n, j) => \E k \in 1 .. Len(a) : a[k].node = j

Tour(t, T, a, n) ==
    /\ a \in Seq(VisitsOf(t)) /\ n \in 0 .. Len(a)
    /\ Numbered(t, T, a) /\ Distinct(a) /\ Sorted(a) /\ Near(a, n)
    /\ ParentsFirst(t, a, n) /\ ChildrenListed(t, T, a, n)

LEMMA TourStarts ==
    ASSUME NEW t, IsForest(t), NEW roots \in Seq(DOMAIN t), NEW T, IsReached(t, roots, T),
           \A k \in 1 .. Len(roots) : t[roots[k]].parent = 0,
           \A k, l \in 1 .. Len(roots) : roots[k] = roots[l] => k = l
    PROVE  Tour(t, T, Visits(roots, 0), 0)
<1> DEFINE a == Visits(roots, 0)
<1>1. /\ a \in Seq(VisitsOf(t)) /\ Len(a) = Len(roots)
      /\ \A k \in 1 .. Len(roots) : a[k].node = roots[k] /\ a[k].depth = 0
  BY VisitsType
<1>2. Len(roots) \in Nat /\ \A k \in 1 .. Len(roots) : roots[k] \in DOMAIN t
  BY LenProperties, ElementOfSeq
<1> HIDE DEF a
<1>3. Numbered(t, T, a)
  <2> SUFFICES ASSUME NEW k \in 1 .. Len(a)
               PROVE  a[k].node \in T /\ a[k].depth = DepthIn(t, a[k].node)
    BY DEF Numbered
  <2>1. a[k].node = roots[k] /\ a[k].depth = 0 /\ roots[k] \in DOMAIN t /\ t[roots[k]].parent = 0
    BY <1>1, <1>2
  <2>2. roots[k] \in T
    BY <1>1, <2>1 DEF IsReached
  <2>3. DepthIn(t, roots[k]) = 0
    BY <2>1, Depths
  <2> QED
    BY <2>1, <2>2, <2>3
<1>4. Distinct(a)
  BY <1>1 DEF Distinct
<1>5. Sorted(a) /\ Near(a, 0)
  BY <1>1, <1>2 DEF Sorted, Near
<1>6. ParentsFirst(t, a, 0)
  BY <1>1 DEF ParentsFirst, IsVisited
<1>7. ChildrenListed(t, T, a, 0)
  <2> SUFFICES ASSUME NEW j \in T, IsVisited(t, a, 0, j)
               PROVE  \E k \in 1 .. Len(a) : a[k].node = j
    BY DEF ChildrenListed
  <2>1. j \in DOMAIN t /\ t[j].parent = 0
    BY DEF IsVisited, IsReached
  <2>2. PICK k \in 1 .. Len(roots) : roots[k] = j
    BY <2>1 DEF IsReached
  <2> QED
    BY <1>1, <2>2
<1>8. 0 \in 0 .. Len(a)
  BY <1>1, <1>2
<1> QED
  BY <1>1, <1>3, <1>4, <1>5, <1>6, <1>7, <1>8 DEF Tour, a

LEMMA TourGoesOn ==
    ASSUME NEW t, IsForest(t), NEW roots, NEW T, IsReached(t, roots, T),
           NEW a, NEW n, Tour(t, T, a, n), n < Len(a)
    PROVE  LET h == a[n + 1]
           IN  Tour(t, T, a \o Visits(Children(t, h.node), h.depth + 1), n + 1)
<1> DEFINE h == a[n + 1]
           is == Children(t, h.node)
           c == Visits(is, h.depth + 1)
           b == a \o c
<1>1. /\ a \in Seq(VisitsOf(t)) /\ n \in 0 .. Len(a) /\ Len(a) \in Nat
      /\ n + 1 \in 1 .. Len(a)
  BY LenProperties DEF Tour
<1>2. \A k \in 1 .. Len(a) : a[k] \in VisitsOf(t)
  BY <1>1, ElementOfSeq
<1>3. \A k \in 1 .. Len(a) : a[k].node \in DOMAIN t /\ a[k].depth \in Nat
  BY <1>2 DEF VisitsOf
<1>4. h.node \in DOMAIN t /\ h.depth \in Nat /\ h.depth + 1 \in Nat
  BY <1>1, <1>3
<1>5. h.node \in T /\ h.depth = DepthIn(t, h.node) /\ h.node # 0
  BY <1>1, <1>4 DEF Tour, Numbered, IsForest
<1>6. is \in Seq(DOMAIN t) /\ IsRange(is, Below(t, h.node)) /\ IsIncreasing(is)
  BY BelowListed DEF Children
<1>7. Len(is) \in Nat /\ \A m \in 1 .. Len(is) : is[m] \in DOMAIN t
  BY <1>6, LenProperties, ElementOfSeq
<1>8. \A k, l \in 1 .. Len(is) : is[k] = is[l] => k = l
  <2>1. DOMAIN t \subseteq Nat
    BY DEF IsForest
  <2>2. \A k, l \in 1 .. Len(is) : k < l => is[k] # is[l]
    BY <1>6, <1>7, <2>1 DEF IsIncreasing
  <2> QED
    BY <1>7, <2>2
<1>9. /\ c \in Seq(VisitsOf(t)) /\ Len(c) = Len(is)
      /\ \A m \in 1 .. Len(is) : c[m].node = is[m] /\ c[m].depth = h.depth + 1
  BY <1>4, <1>6, VisitsType
<1> HIDE DEF h, is, c
<1>10. /\ b \in Seq(VisitsOf(t)) /\ Len(b) = Len(a) + Len(is)
       /\ \A k \in 1 .. Len(a) + Len(is) : b[k] = IF k <= Len(a) THEN a[k] ELSE c[k - Len(a)]
  <2>1. a \in Seq(VisitsOf(t)) /\ c \in Seq(VisitsOf(t))
    BY <1>1, <1>9
  <2>2. /\ b \in Seq(VisitsOf(t)) /\ Len(b) = Len(a) + Len(c)
        /\ \A k \in 1 .. Len(a) + Len(c) : b[k] = IF k <= Len(a) THEN a[k] ELSE c[k - Len(a)]
    BY <2>1, ConcatProperties
  <2> HIDE DEF b
  <2> QED
    BY <1>9, <2>2
<1> HIDE DEF b
<1>11. /\ Len(b) \in Nat
       /\ \A k \in 1 .. Len(a) : k \in 1 .. Len(b) /\ b[k] = a[k]
  BY <1>1, <1>7, <1>10
<1>12. \A k \in 1 .. Len(b) : k \in 1 .. Len(a)
          \/ \E m \in 1 .. Len(is) : k = Len(a) + m
  <2> SUFFICES ASSUME NEW k \in 1 .. Len(b), k \notin 1 .. Len(a)
               PROVE  \E m \in 1 .. Len(is) : k = Len(a) + m
    OBVIOUS
  <2>1. k - Len(a) \in 1 .. Len(is) /\ k = Len(a) + (k - Len(a))
    BY <1>1, <1>7, <1>10
  <2> QED
    BY <2>1, Zenon
<1>13. \A m \in 1 .. Len(is) : /\ Len(a) + m \in 1 .. Len(b)
                               /\ b[Len(a) + m].node = is[m]
                               /\ b[Len(a) + m].depth = h.depth + 1
  <2> TAKE m \in 1 .. Len(is)
  <2>1. Len(a) + m \in 1 .. Len(a) + Len(is) /\ ~ (Len(a) + m <= Len(a)) /\ (Len(a) + m) - Len(a) = m
    BY <1>1, <1>7
  <2>2. b[Len(a) + m] = c[m]
    BY <1>10, <2>1
  <2> QED
    BY <1>9, <1>10, <2>1, <2>2
<1>14. \A m \in 1 .. Len(is) : t[is[m]].parent = h.node
  BY <1>6 DEF IsRange, Below
<1>15. Numbered(t, T, b)
  <2> SUFFICES ASSUME NEW k \in 1 .. Len(b)
               PROVE  b[k].node \in T /\ b[k].depth = DepthIn(t, b[k].node)
    BY DEF Numbered
  <2>1. CASE k \in 1 .. Len(a)
    BY <1>11, <2>1 DEF Tour, Numbered
  <2>2. ASSUME NEW m \in 1 .. Len(is), k = Len(a) + m
        PROVE  b[k].node \in T /\ b[k].depth = DepthIn(t, b[k].node)
    <3>1. b[k].node = is[m] /\ b[k].depth = h.depth + 1
      BY <1>13, <2>2
    <3>2. is[m] \in DOMAIN t /\ t[is[m]].parent = h.node
      BY <1>7, <1>14
    <3>3. is[m] \in T
      BY <1>5, <3>2 DEF IsReached
    <3>4. DepthIn(t, is[m]) = h.depth + 1
      BY <1>5, <3>2, Depths
    <3> QED
      BY <3>1, <3>3, <3>4
  <2> QED
    BY <1>12, <2>1, <2>2
<1>16. \A k \in 1 .. Len(a), m \in 1 .. Len(is) : a[k].node # is[m]
  <2> SUFFICES ASSUME NEW k \in 1 .. Len(a), NEW m \in 1 .. Len(is), a[k].node = is[m]
               PROVE  FALSE
    OBVIOUS
  <2>1. t[a[k].node].parent = h.node
    BY <1>14
  <2>2. PICK l \in 1 .. n : a[l].node = h.node
    BY <1>5, <2>1 DEF Tour, ParentsFirst, IsVisited
  <2>3. l \in 1 .. Len(a) /\ l # n + 1
    BY <1>1
  <2> QED
    BY <1>1, <2>2, <2>3 DEF Tour, Distinct, h
<1>17. Distinct(b)
  <2> SUFFICES ASSUME NEW k \in 1 .. Len(b), NEW l \in 1 .. Len(b), b[k].node = b[l].node
               PROVE  k = l
    BY DEF Distinct
  <2>1. CASE k \in 1 .. Len(a) /\ l \in 1 .. Len(a)
    BY <1>11, <2>1 DEF Tour, Distinct
  <2>2. CASE k \in 1 .. Len(a) /\ \E m \in 1 .. Len(is) : l = Len(a) + m
    BY <1>11, <1>13, <1>16, <2>2
  <2>3. CASE l \in 1 .. Len(a) /\ \E m \in 1 .. Len(is) : k = Len(a) + m
    BY <1>11, <1>13, <1>16, <2>3
  <2>4. ASSUME NEW m \in 1 .. Len(is), NEW o \in 1 .. Len(is), k = Len(a) + m, l = Len(a) + o
        PROVE  k = l
    BY <1>8, <1>13, <2>4
  <2> QED
    BY <1>12, <2>1, <2>2, <2>3, <2>4
<1>18. \A k \in 1 .. Len(b) : b[k].depth <= h.depth + 1
  <2> TAKE k \in 1 .. Len(b)
  <2>1. CASE k \in 1 .. Len(a)
    BY <1>11, <2>1 DEF Tour, Near, h
  <2>2. CASE \E m \in 1 .. Len(is) : k = Len(a) + m
    BY <1>4, <1>13, <2>2
  <2> QED
    BY <1>12, <2>1, <2>2
<1>19. Sorted(b)
  <2> SUFFICES ASSUME NEW k \in 1 .. Len(b), NEW l \in 1 .. Len(b), k < l
               PROVE  b[k].depth <= b[l].depth
    BY DEF Sorted
  <2>1. CASE l \in 1 .. Len(a)
    <3>1. k \in 1 .. Len(a)
      BY <1>1, <1>11, <2>1
    <3> QED
      BY <1>11, <2>1, <3>1 DEF Tour, Sorted
  <2>2. CASE \E m \in 1 .. Len(is) : l = Len(a) + m
    BY <1>13, <1>18, <2>2
  <2> QED
    BY <1>12, <2>1, <2>2
<1>20. Near(b, n + 1)
  <2> SUFFICES ASSUME n + 1 < Len(b), NEW k \in 1 .. Len(b)
               PROVE  b[k].depth <= b[(n + 1) + 1].depth + 1
    BY DEF Near
  <2>1. n + 1 \in 1 .. Len(b) /\ (n + 1) + 1 \in 1 .. Len(b) /\ b[n + 1] = h
    BY <1>1, <1>11 DEF h
  <2>2. h.depth <= b[(n + 1) + 1].depth
    BY <1>1, <1>19, <2>1 DEF Sorted
  <2>3. \A j \in 1 .. Len(b) : b[j].depth \in Nat
    <3>1. \A j \in 1 .. Len(b) : b[j] \in VisitsOf(t)
      BY <1>10, ElementOfSeq
    <3> QED
      BY <3>1 DEF VisitsOf
  <2> QED
    BY <1>4, <1>18, <2>1, <2>2, <2>3
<1>21. \A j \in DOMAIN t : IsVisited(t, b, n + 1, j) <=> IsVisited(t, a, n, j) \/ t[j].parent = h.node
  <2> TAKE j \in DOMAIN t
  <2>1. \A l \in 1 .. n + 1 : l \in 1 .. n \/ l = n + 1
    BY <1>1
  <2>2. \A l \in 1 .. n : l \in 1 .. n + 1 /\ b[l] = a[l]
    BY <1>1, <1>11
  <2>3. n + 1 \in 1 .. n + 1 /\ b[n + 1] = h
    BY <1>1, <1>11 DEF h
  <2> QED
    BY <2>1, <2>2, <2>3, Zenon DEF IsVisited
<1>22. ParentsFirst(t, b, n + 1)
  <2> SUFFICES ASSUME NEW k \in 1 .. Len(b) PROVE IsVisited(t, b, n + 1, b[k].node)
    BY DEF ParentsFirst
  <2>1. CASE k \in 1 .. Len(a)
    <3>1. b[k].node = a[k].node /\ a[k].node \in DOMAIN t /\ IsVisited(t, a, n, a[k].node)
      BY <1>3, <1>11, <2>1 DEF Tour, ParentsFirst
    <3> QED
      BY <1>21, <3>1
  <2>2. ASSUME NEW m \in 1 .. Len(is), k = Len(a) + m PROVE IsVisited(t, b, n + 1, b[k].node)
    BY <1>7, <1>13, <1>14, <1>21, <2>2
  <2> QED
    BY <1>12, <2>1, <2>2
<1>23. ChildrenListed(t, T, b, n + 1)
  <2> SUFFICES ASSUME NEW j \in T, IsVisited(t, b, n + 1, j)
               PROVE  \E k \in 1 .. Len(b) : b[k].node = j
    BY DEF ChildrenListed
  <2>1. j \in DOMAIN t
    BY DEF IsReached
  <2>2. CASE IsVisited(t, a, n, j)
    <3>1. PICK k \in 1 .. Len(a) : a[k].node = j
      BY <2>2 DEF Tour, ChildrenListed
    <3> QED
      BY <1>11, <3>1
  <2>3. CASE t[j].parent = h.node
    <3>1. j \in Below(t, h.node)
      BY <2>1, <2>3 DEF Below
    <3>2. PICK m \in 1 .. Len(is) : is[m] = j
      BY <1>6, <3>1 DEF IsRange
    <3> QED
      BY <1>13, <3>2
  <2> QED
    BY <1>21, <2>1, <2>2, <2>3
<1>24. n + 1 \in 0 .. Len(b)
  BY <1>1, <1>11
<1>25. Tour(t, T, b, n + 1)
  BY <1>10, <1>15, <1>17, <1>19, <1>20, <1>22, <1>23, <1>24 DEF Tour
<1> QED
  BY <1>25 DEF b, c, is, h

\* What is not visited twice fits into the forest.
LEMMA DistinctFits ==
    ASSUME NEW t, IsForest(t), NEW a \in Seq(VisitsOf(t)), Distinct(a)
    PROVE  Len(a) <= Cardinality(DOMAIN t)
<1>1. IsFiniteSet(DOMAIN t)
  <2>1. MaxNodes \in Nat /\ DOMAIN t \subseteq 1 .. MaxNodes
    BY RoutingInfoAssumption DEF IsForest
  <2>2. IsFiniteSet(1 .. MaxNodes)
    BY <2>1, FS_Interval
  <2> QED
    BY <2>1, <2>2, FS_Subset
<1>2. Len(a) \in Nat /\ \A k \in 1 .. Len(a) : a[k].node \in DOMAIN t
  <2>1. \A k \in 1 .. Len(a) : a[k] \in VisitsOf(t)
    BY ElementOfSeq
  <2> QED
    BY <2>1, LenProperties DEF VisitsOf
<1> DEFINE f == [k \in 1 .. Len(a) |-> a[k].node]
<1>3. f \in Injection(1 .. Len(a), DOMAIN t)
  BY <1>2 DEF Injection, IsInjective, Distinct
<1>4. Cardinality(1 .. Len(a)) = Len(a)
  BY <1>2, FS_Interval
<1> HIDE DEF f
<1>5. Cardinality(1 .. Len(a)) <= Cardinality(DOMAIN t)
  BY <1>1, <1>3, FS_Injection
<1> QED
  BY <1>4, <1>5

\* A walk visits every node under its roots, once, and nearer ones first.
LEMMA WalkVisits ==
    ASSUME NEW t, IsForest(t), NEW roots \in Seq(DOMAIN t), NEW T, IsReached(t, roots, T),
           \A k \in 1 .. Len(roots) : t[roots[k]].parent = 0,
           \A k, l \in 1 .. Len(roots) : roots[k] = roots[l] => k = l
    PROVE  LET w == Walk(t, roots)
           IN  /\ w \in Seq(VisitsOf(t))
               /\ Numbered(t, T, w) /\ Distinct(w) /\ Sorted(w)
               /\ \A j \in T : \E k \in 1 .. Len(w) : w[k].node = j
<1> DEFINE V == VisitsOf(t)
           N == Cardinality(DOMAIN t)
           s == WalkSteps(t, roots)
           Goes(k) == /\ Tour(t, T, s[k].out \o s[k].queue, Len(s[k].out))
                      /\ s[k].queue = <<>> \/ Len(s[k].out) = k
           S == {k \in 0 .. N : Goes(k)}
<1>1. /\ N \in Nat
      /\ s[0] = [out |-> <<>>, queue |-> Visits(roots, 0)]
      /\ \A k \in 1 .. N : s[k] = CallNext(t, s[k - 1])
      /\ \A k \in 0 .. N : s[k] \in StepsOf(t)
  BY WalkStepsEquation
<1> HIDE DEF N, s
<1>2. \A k \in 0 .. N : s[k].out \in Seq(V) /\ s[k].queue \in Seq(V)
  BY <1>1 DEF StepsOf
<1>3. 0 \in S
  <2>1. Tour(t, T, Visits(roots, 0), 0)
    BY TourStarts
  <2>2. Visits(roots, 0) \in Seq(V)
    BY VisitsType
  <2>3. s[0].out = <<>> /\ s[0].queue = Visits(roots, 0)
    <3>1. s[0] = [out |-> <<>>, queue |-> Visits(roots, 0)]
      BY <1>1
    <3> QED
      BY <3>1
  <2>4. <<>> \o Visits(roots, 0) = Visits(roots, 0)
    BY <2>2, ConcatEmptySeq
  <2>5. Len(<<>>) = 0 /\ 0 \in 0 .. N
    BY <1>1
  <2> QED
    BY <2>1, <2>3, <2>4, <2>5, Zenon
<1>4. ASSUME NEW k \in 1 .. N, k - 1 \in S PROVE k \in S
  <2> DEFINE o == s[k - 1].out
             q == s[k - 1].queue
  <2>1. Tour(t, T, o \o q, Len(o)) /\ (q = <<>> \/ Len(o) = k - 1)
    BY <1>4, Zenon
  <2>2. s[k] = CallNext(t, s[k - 1]) /\ k \in 0 .. N /\ k - 1 \in 0 .. N
    BY <1>1
  <2>3. CASE q = <<>>
    <3>1. s[k] = s[k - 1]
      BY <2>2, <2>3, Zenon DEF CallNext
    <3> QED
      BY <2>1, <2>2, <2>3, <3>1, Zenon
  <2>4. CASE q # <<>>
    <3> DEFINE h == Head(q)
               c == Visits(Children(t, h.node), h.depth + 1)
    <3>1. o \in Seq(V) /\ q \in Seq(V)
      BY <1>2, <2>2
    <3>2. s[k].out = Append(o, h) /\ s[k].queue = Tail(q) \o c
      <4>1. s[k] = [out |-> Append(o, h), queue |-> Tail(q) \o c]
        BY <2>2, <2>4, Zenon DEF CallNext
      <4> HIDE DEF o, h, q, c
      <4> QED
        BY <4>1
    <3>3. h.node \in DOMAIN t /\ h.depth + 1 \in Nat
      <4>1. h \in V
        BY <2>4, <3>1, HeadTailProperties
      <4> QED
        BY <4>1 DEF VisitsOf
    <3>4. c \in Seq(V)
      BY <3>3, BelowListed, VisitsType DEF Children
    <3> HIDE DEF o, q, c, V
    <3>5. /\ Append(o, h) \o (Tail(q) \o c) = (o \o q) \o c
          /\ Append(o, h) \in Seq(V) /\ Tail(q) \o c \in Seq(V)
          /\ Len(Append(o, h)) = Len(o) + 1
          /\ h \in V /\ h = (o \o q)[Len(o) + 1]
          /\ Len(o) < Len(o \o q)
      BY <2>4, <3>1, <3>4, HeadMovesOut, Zenon
    <3>6. Tour(t, T, (o \o q) \o c, Len(o) + 1)
      BY <2>1, <3>5, TourGoesOn DEF c
    <3>7. Tour(t, T, s[k].out \o s[k].queue, Len(s[k].out))
      BY <3>2, <3>5, <3>6, Zenon
    <3>8. Len(s[k].out) = k
      <4>1. Len(o) = k - 1
        BY <2>1, <2>4
      <4> QED
        BY <3>2, <3>5, <4>1
    <3> QED
      BY <2>2, <3>7, <3>8, Zenon
  <2> QED
    BY <2>3, <2>4
<1> HIDE DEF S
<1>5. 0 .. N \subseteq S
  BY <1>1, <1>3, <1>4, InductTo
<1>6. N \in S /\ N \in 0 .. N
  BY <1>1, <1>5
<1> DEFINE w == s[N].out
           q == s[N].queue
<1>7. w \in Seq(V) /\ q \in Seq(V) /\ Tour(t, T, w \o q, Len(w)) /\ (q = <<>> \/ Len(w) = N)
  BY <1>2, <1>6, Zenon DEF S
<1>8. Walk(t, roots) = w
  BY Zenon DEF Walk, s, N
<1> HIDE DEF w, q
<1>9. q = <<>>
  <2> SUFFICES ASSUME q # <<>> PROVE FALSE
    OBVIOUS
  <2>1. Len(w) < Len(w \o q)
    <3>1. /\ Len(w) \in Nat /\ Len(q) \in Nat \ {0}
          /\ Len(w \o q) = Len(w) + Len(q)
      BY <1>7, EmptySeq, LenProperties, ConcatProperties
    <3> QED
      BY <3>1
  <2>2. w \o q \in Seq(V) /\ Distinct(w \o q)
    BY <1>7 DEF Tour
  <2>3. Len(w \o q) <= N
    BY <2>2, DistinctFits DEF N
  <2>4. Len(w) = N /\ Len(w \o q) \in Nat
    BY <1>7, <2>2, LenProperties
  <2> QED
    BY <1>1, <2>1, <2>3, <2>4
<1>10. w \o q = w
  BY <1>7, <1>9, ConcatEmptySeq
<1>11. Tour(t, T, w, Len(w))
  BY <1>7, <1>10
<1>12. \A j \in T : \E k \in 1 .. Len(w) : w[k].node = j
  <2> DEFINE R == {j \in Nat : j \in T => \E k \in 1 .. Len(w) : w[k].node = j}
  <2>1. MaxNodes \in Nat /\ DOMAIN t \subseteq 1 .. MaxNodes /\ T \subseteq DOMAIN t
    BY RoutingInfoAssumption DEF IsForest, IsReached
  <2>2. ASSUME NEW j \in 1 .. MaxNodes, \A i \in 1 .. MaxNodes : i < j => i \in R
        PROVE  j \in R
    <3> SUFFICES ASSUME j \in T PROVE \E k \in 1 .. Len(w) : w[k].node = j
      OBVIOUS
    <3>1. t[j].parent = 0 \/ /\ t[j].parent \in T
                             /\ t[j].parent \in 1 .. MaxNodes
                             /\ t[j].parent < j
      BY <2>1 DEF IsForest, IsReached
    <3>2. t[j].parent # 0 => \E l \in 1 .. Len(w) : w[l].node = t[j].parent
      BY <2>2, <3>1
    <3>3. IsVisited(t, w, Len(w), j)
      BY <3>2 DEF IsVisited
    <3> QED
      BY <1>11, <3>3 DEF Tour, ChildrenListed
  <2> HIDE DEF R
  <2>3. 1 .. MaxNodes \subseteq R
    BY <2>1, <2>2, InductBelow
  <2> QED
    BY <2>1, <2>3 DEF R
<1> QED
  BY <1>7, <1>8, <1>11, <1>12 DEF Tour

LEMMA RootsReachAll ==
    ASSUME NEW t, IsForest(t)
    PROVE  /\ Roots(t) \in Seq(DOMAIN t)
           /\ IsReached(t, Roots(t), DOMAIN t)
           /\ \A k \in 1 .. Len(Roots(t)) : t[Roots(t)[k]].parent = 0
           /\ \A k, l \in 1 .. Len(Roots(t)) : Roots(t)[k] = Roots(t)[l] => k = l
<1> DEFINE q == Roots(t)
<1>1. q \in Seq(DOMAIN t) /\ IsRange(q, Below(t, 0)) /\ IsIncreasing(q)
  BY BelowListed DEF Roots
<1>2. DOMAIN t \subseteq Nat
  BY DEF IsForest
<1> HIDE DEF q
<1>3. Len(q) \in Nat /\ \A k \in 1 .. Len(q) : q[k] \in DOMAIN t
  BY <1>1, LenProperties, ElementOfSeq
<1>4. \A k \in 1 .. Len(q) : t[q[k]].parent = 0
  BY <1>1 DEF IsRange, Below
<1>5. \A k, l \in 1 .. Len(q) : q[k] = q[l] => k = l
  <2>1. \A k, l \in 1 .. Len(q) : k < l => q[k] # q[l]
    BY <1>1, <1>2, <1>3 DEF IsIncreasing
  <2> QED
    BY <1>3, <2>1
<1>6. IsReached(t, q, DOMAIN t)
  <2> SUFFICES ASSUME NEW j \in DOMAIN t
               PROVE  IF t[j].parent = 0 THEN \E k \in 1 .. Len(q) : q[k] = j
                      ELSE t[j].parent \in DOMAIN t
    BY Zenon DEF IsReached
  <2>1. CASE t[j].parent = 0
    <3>1. j \in Below(t, 0)
      BY <2>1 DEF Below
    <3> QED
      BY <1>1, <2>1, <3>1 DEF IsRange
  <2>2. CASE t[j].parent # 0
    BY <2>2 DEF IsForest
  <2> QED
    BY <2>1, <2>2
<1> QED
  BY <1>1, <1>4, <1>5, <1>6 DEF q

LEMMA OneRootReachesTree ==
    ASSUME IsForest(forest), NEW r \in DOMAIN forest, forest[r].parent = 0
    PROVE  /\ <<r>> \in Seq(DOMAIN forest)
           /\ IsReached(forest, <<r>>, Tree(r))
           /\ \A k \in 1 .. Len(<<r>>) : forest[<<r>>[k]].parent = 0
           /\ \A k, l \in 1 .. Len(<<r>>) : <<r>>[k] = <<r>>[l] => k = l
<1>1. <<r>> \in Seq(DOMAIN forest) /\ Len(<<r>>) = 1 /\ <<r>>[1] = r
  OBVIOUS
<1>2. \A k \in 1 .. 1 : k = 1
  OBVIOUS
<1>3. Tree(r) \subseteq DOMAIN forest
  BY DEF Tree
<1>4. \A j \in DOMAIN forest :
         j \in Tree(r) <=> IF forest[j].parent = 0 THEN j = r ELSE forest[j].parent \in Tree(r)
  BY TreeMembers
<1>5. \A j : (\E k \in 1 .. Len(<<r>>) : <<r>>[k] = j) <=> j = r
  BY <1>1, <1>2
<1>6. IsReached(forest, <<r>>, Tree(r))
  BY <1>3, <1>4, <1>5, Zenon DEF IsReached
<1> QED
  BY <1>1, <1>2, <1>6

-----------------------------------------------------------------------------
(* The forests that are received                                           *)

NodeSet ==
    [parent : Nat, sid : Sids \cup {None}, type : SentTypesAll,
     count : Nat \cup {None}, known : Seq([sid : Sids, ttl : 1 .. InitialTtl - 1])]

ForestInv ==
    /\ Size \in 0 .. MaxNodes
    /\ DOMAIN forest = 1 .. Size
    /\ \A j \in 1 .. Size : forest[j] \in NodeSet /\ forest[j].parent \in 0 .. j - 1

LEMMA ForestInvIsForest ==
    ASSUME ForestInv
    PROVE  IsForest(forest)
<1>1. MaxNodes \in Nat /\ Size \in 0 .. MaxNodes /\ DOMAIN forest = 1 .. Size
  BY RoutingInfoAssumption DEF ForestInv
<1>2. \A j \in 1 .. Size : forest[j].parent \in 0 .. j - 1
  BY DEF ForestInv
<1> HIDE DEF Size
<1> QED
  BY <1>1, <1>2 DEF IsForest

\* One more node at the end
LEMMA ForestGrows ==
    ASSUME ForestInv, Size < MaxNodes, NEW f,
           DOMAIN f = DOMAIN forest \cup {Size + 1},
           \A j \in DOMAIN f : f[j] \in NodeSet /\ f[j].parent \in 0 .. j - 1,
           forest' = f
    PROVE  ForestInv'
<1>1. MaxNodes \in Nat /\ Size \in 0 .. MaxNodes /\ DOMAIN forest = 1 .. Size
  BY RoutingInfoAssumption DEF ForestInv
<1> DEFINE n == Size
<1> HIDE DEF n
<1>2. DOMAIN f = 1 .. n + 1 /\ n + 1 \in 0 .. MaxNodes
  BY <1>1 DEF n
<1>3. Cardinality(1 .. n + 1) = n + 1
  BY <1>1, FS_Interval DEF n
<1>4. Size' = n + 1
  BY <1>2, <1>3 DEF Size
<1> QED
  BY <1>2, <1>4 DEF ForestInv

LEMMA ForestInvHolds == Spec => []ForestInv
<1>1. Init => ForestInv
  <2> SUFFICES ASSUME Init PROVE ForestInv
    OBVIOUS
  <2>1. DOMAIN forest = {}
    BY DEF Init
  <2>2. Size = 0
    BY <2>1, FS_EmptySet DEF Size
  <2> QED
    BY <2>1, <2>2, RoutingInfoAssumption DEF ForestInv
<1>2. ForestInv /\ [Next]_forest => ForestInv'
  <2> SUFFICES ASSUME ForestInv, [Next]_forest PROVE ForestInv'
    OBVIOUS
  <2>1. MaxNodes \in Nat /\ Size \in 0 .. MaxNodes /\ DOMAIN forest = 1 .. Size
    BY RoutingInfoAssumption DEF ForestInv
  <2>2. \A j \in 1 .. Size : forest[j] \in NodeSet /\ forest[j].parent \in 0 .. j - 1
    BY DEF ForestInv
  <2>3. ASSUME NEW parent \in DOMAIN forest \cup {0}, NEW sid \in Sids \cup {None},
               NEW type \in Types, NEW count \in Counts \cup {None}, NEW known \in Knowns,
               Decode(parent, sid, type, count, known)
        PROVE  ForestInv'
    <3> DEFINE node == [parent |-> parent, sid |-> sid, type |-> type,
                        count |-> count, known |-> known]
               f == [j \in DOMAIN forest \cup {Size + 1} |->
                       IF j = Size + 1 THEN node ELSE forest[j]]
    <3>1. node \in NodeSet /\ node.parent \in 0 .. Size
      <4>1. parent \in Nat /\ parent \in 0 .. Size
        <5> HIDE DEF Size
        <5> QED
          BY <2>1
      <4>2. type \in SentTypesAll /\ count \in Nat \cup {None}
        BY RoutingInfoAssumption DEF SentTypesAll
      <4>3. known \in Seq([sid : Sids, ttl : 1 .. InitialTtl - 1])
        BY RoutingInfoAssumption
      <4> QED
        BY <4>1, <4>2, <4>3 DEF NodeSet
    <3>2. forest' = f /\ Size < MaxNodes
      BY <2>3 DEF Decode, AddNode
    <3> HIDE DEF node
    <3>3. \A j \in DOMAIN f : f[j] \in NodeSet /\ f[j].parent \in 0 .. j - 1
      <4> TAKE j \in DOMAIN f
      <4>1. CASE j = Size + 1
        <5>1. f[j] = node
          BY <4>1
        <5> HIDE DEF Size, f
        <5> QED
          BY <4>1, <5>1, <2>1, <3>1
      <4>2. CASE j # Size + 1
        <5>1. f[j] = forest[j] /\ j \in DOMAIN forest
          BY <4>2
        <5> HIDE DEF Size, f
        <5> QED
          BY <5>1, <2>1, <2>2
      <4> QED
        BY <4>1, <4>2
    <3>4. DOMAIN f = DOMAIN forest \cup {Size + 1}
      OBVIOUS
    <3> HIDE DEF f
    <3> QED
      BY <3>2, <3>3, <3>4, ForestGrows, Zenon
  <2>4. ASSUME NEW root \in DOMAIN forest, NEW sid \in Sids, AddKnown(root, sid)
        PROVE  ForestInv'
    <3> DEFINE node == [parent |-> root, sid |-> sid, type |-> "Normal",
                        count |-> None, known |-> <<>>]
               f == [j \in DOMAIN forest \cup {Size + 1} |->
                       IF j = Size + 1 THEN node
                       ELSE IF j = root THEN Related(forest[j])
                       ELSE forest[j]]
    <3>1. node \in NodeSet /\ node.parent \in 0 .. Size
      BY <2>1 DEF NodeSet, SentTypesAll
    <3>2. forest' = f /\ Size < MaxNodes
      BY <2>4 DEF AddKnown
    <3>3. \A j \in 1 .. Size :
             Related(forest[j]) \in NodeSet /\ Related(forest[j]).parent \in 0 .. j - 1
      BY <2>2 DEF Related, NodeSet
    <3> HIDE DEF node
    <3>4. \A j \in DOMAIN f : f[j] \in NodeSet /\ f[j].parent \in 0 .. j - 1
      <4> TAKE j \in DOMAIN f
      <4>1. CASE j = Size + 1
        <5>1. f[j] = node
          BY <4>1
        <5> HIDE DEF Size, f
        <5> QED
          BY <4>1, <5>1, <2>1, <3>1
      <4>2. CASE j # Size + 1
        <5>1. /\ f[j] = IF j = root THEN Related(forest[j]) ELSE forest[j]
              /\ j \in DOMAIN forest
          BY <4>2
        <5> HIDE DEF Size, f
        <5> QED
          BY <5>1, <2>1, <2>2, <3>3
      <4> QED
        BY <4>1, <4>2
    <3>5. DOMAIN f = DOMAIN forest \cup {Size + 1}
      OBVIOUS
    <3> HIDE DEF f
    <3> QED
      BY <3>2, <3>4, <3>5, ForestGrows, Zenon
  <2>5. CASE UNCHANGED forest
    BY <2>5 DEF ForestInv, Size
  <2> QED
    BY <2>3, <2>4, <2>5 DEF Next
<1> QED
  BY <1>1, <1>2, PTL DEF Spec

-----------------------------------------------------------------------------
(* What the walks give                                                     *)

LEMMA NearestIsLeast ==
    ASSUME NEW S, S \subseteq Nat, S # {}
    PROVE  Nearest(S) \in S /\ \A d \in S : Nearest(S) <= d
<1>1. \E m \in S : \A n \in S : m <= n
  BY LeastNumber
<1> QED
  BY <1>1, Zenon DEF Nearest

\* The walk over all trees
LEMMA WholeWalk ==
    ASSUME NEW t, IsForest(t)
    PROVE  LET w == Walk(t, Roots(t)) IN
           /\ Len(w) \in Nat
           /\ \A k \in 1 .. Len(w) : /\ w[k].node \in DOMAIN t
                                     /\ w[k].depth \in Nat
                                     /\ w[k].depth = DepthIn(t, w[k].node)
           /\ Sorted(w)
           /\ \A j \in DOMAIN t : \E k \in 1 .. Len(w) : w[k].node = j
           /\ Len(w) = Cardinality(DOMAIN t)
<1> DEFINE w == Walk(t, Roots(t))
<1>1. /\ w \in Seq(VisitsOf(t))
      /\ Numbered(t, DOMAIN t, w) /\ Distinct(w) /\ Sorted(w)
      /\ \A j \in DOMAIN t : \E k \in 1 .. Len(w) : w[k].node = j
  <2> DEFINE q == Roots(t)
             T == DOMAIN t
  <2>1. /\ q \in Seq(DOMAIN t)
        /\ IsReached(t, q, T)
        /\ \A k \in 1 .. Len(q) : t[q[k]].parent = 0
        /\ \A k, l \in 1 .. Len(q) : q[k] = q[l] => k = l
    BY RootsReachAll
  <2> HIDE DEF q, T
  <2>2. /\ Walk(t, q) \in Seq(VisitsOf(t))
        /\ Numbered(t, T, Walk(t, q)) /\ Distinct(Walk(t, q)) /\ Sorted(Walk(t, q))
        /\ \A j \in T : \E k \in 1 .. Len(Walk(t, q)) : Walk(t, q)[k].node = j
    BY <2>1, WalkVisits
  <2> QED
    BY <2>2 DEF q, T
<1> HIDE DEF w
<1>2. Len(w) \in Nat /\ \A k \in 1 .. Len(w) : w[k] \in VisitsOf(t)
  BY <1>1, LenProperties, ElementOfSeq
<1>3. \A k \in 1 .. Len(w) : w[k].node \in DOMAIN t /\ w[k].depth \in Nat
  BY <1>2 DEF VisitsOf
<1>4. \A k \in 1 .. Len(w) : w[k].depth = DepthIn(t, w[k].node)
  BY <1>1 DEF Numbered
<1>5. Len(w) <= Cardinality(DOMAIN t)
  BY <1>1, DistinctFits
<1>6. Cardinality(DOMAIN t) <= Len(w) /\ Cardinality(DOMAIN t) \in Nat
  <2> DEFINE f == [k \in 1 .. Len(w) |-> w[k].node]
  <2>1. f \in Surjection(1 .. Len(w), DOMAIN t)
    <3>1. f \in [1 .. Len(w) -> DOMAIN t]
      BY <1>3
    <3>2. \A j \in DOMAIN t : \E k \in 1 .. Len(w) : f[k] = j
      BY <1>1
    <3> QED
      BY <3>1, <3>2 DEF Surjection
  <2>2. IsFiniteSet(1 .. Len(w)) /\ Cardinality(1 .. Len(w)) = Len(w)
    BY <1>2, FS_Interval
  <2> HIDE DEF f
  <2>3. IsFiniteSet(DOMAIN t) /\ Cardinality(DOMAIN t) <= Cardinality(1 .. Len(w))
    BY <2>1, <2>2, FS_Surjection
  <2> QED
    BY <2>2, <2>3, FS_CardinalityType
<1>7. Len(w) = Cardinality(DOMAIN t)
  BY <1>2, <1>5, <1>6
<1> QED
  BY <1>1, <1>2, <1>3, <1>4, <1>7, Zenon DEF w

\* The visits to a session in the tree under a root are at its depths.
LEMMA VisitsToSession ==
    ASSUME IsForest(forest), NEW r \in DOMAIN forest, forest[r].parent = 0, NEW s
    PROVE  LET w == Walk(forest, <<r>>)
               found == {k \in 1 .. Len(w) : forest[w[k].node].sid = s}
           IN {w[k].depth : k \in found} =
                {DepthIn(forest, i) : i \in {j \in Tree(r) : forest[j].sid = s}}
<1> DEFINE w == Walk(forest, <<r>>)
           found == {k \in 1 .. Len(w) : forest[w[k].node].sid = s}
           holders == {j \in Tree(r) : forest[j].sid = s}
<1>1. /\ Numbered(forest, Tree(r), w)
      /\ \A j \in Tree(r) : \E k \in 1 .. Len(w) : w[k].node = j
  <2> DEFINE q == <<r>>
             T == Tree(r)
  <2>1. /\ q \in Seq(DOMAIN forest)
        /\ IsReached(forest, q, T)
        /\ \A k \in 1 .. Len(q) : forest[q[k]].parent = 0
        /\ \A k, l \in 1 .. Len(q) : q[k] = q[l] => k = l
    BY OneRootReachesTree
  <2> HIDE DEF q, T
  <2>2. /\ Numbered(forest, T, Walk(forest, q))
        /\ \A j \in T : \E k \in 1 .. Len(Walk(forest, q)) : Walk(forest, q)[k].node = j
    BY <2>1, WalkVisits
  <2> QED
    BY <2>2 DEF q, T
<1> HIDE DEF w
<1>2. ASSUME NEW k \in found PROVE \E i \in holders : w[k].depth = DepthIn(forest, i)
  <2>1. w[k].node \in holders /\ w[k].depth = DepthIn(forest, w[k].node)
    BY <1>1 DEF Numbered
  <2> QED
    BY <2>1, Zenon
<1>3. ASSUME NEW i \in holders PROVE \E k \in found : w[k].depth = DepthIn(forest, i)
  <2>1. PICK k \in 1 .. Len(w) : w[k].node = i
    BY <1>1
  <2>2. k \in found
    BY <2>1
  <2>3. w[k].depth = DepthIn(forest, i)
    BY <1>1, <2>1 DEF Numbered
  <2> QED
    BY <2>2, <2>3, Zenon
<1> HIDE DEF found, holders
<1>4. {w[k].depth : k \in found} = {DepthIn(forest, i) : i \in holders}
  BY <1>2, <1>3
<1> QED
  BY <1>4 DEF w, found, holders

\* The iterator visits every node once, and nearer nodes before farther ones;
\* get_min_depth is the length of a shortest path from the root to a session,
\* and there is one exactly if the session is_known: in every forest.
THEOREM WalksAreByDepth == Spec => []WalkIsByDepth
<1>1. ForestInv => WalkIsByDepth
  <2> SUFFICES ASSUME ForestInv PROVE WalkIsByDepth
    OBVIOUS
  <2>1. IsForest(forest)
    BY ForestInvIsForest
  <2> DEFINE w == Walk(forest, Roots(forest))
  <2>2. /\ Len(w) \in Nat
        /\ \A k \in 1 .. Len(w) : /\ w[k].node \in DOMAIN forest
                                  /\ w[k].depth \in Nat
                                  /\ w[k].depth = DepthIn(forest, w[k].node)
        /\ Sorted(w)
        /\ \A j \in DOMAIN forest : \E k \in 1 .. Len(w) : w[k].node = j
        /\ Len(w) = Size
    BY <2>1, WholeWalk DEF Size
  <2> HIDE DEF w
  <2>3. {w[k].node : k \in 1 .. Len(w)} = DOMAIN forest
    BY <2>2
  <2>4. \A k \in 2 .. Len(w) : w[k - 1].depth <= w[k].depth
    <3> TAKE k \in 2 .. Len(w)
    <3>1. k \in 1 .. Len(w) /\ k - 1 \in 1 .. Len(w) /\ k - 1 < k
      BY <2>2
    <3> QED
      BY <2>2, <3>1 DEF Sorted
  <2>5. ASSUME NEW r \in {i \in DOMAIN forest : IsRoot(i)}, NEW s \in Sids
        PROVE  LET depths == {DepthIn(forest, i) : i \in {j \in Tree(r) : forest[j].sid = s}} IN
               IF IsKnown(forest, r, s)
               THEN /\ MinDepth(forest, r, s) \in depths
                    /\ \A d \in depths : MinDepth(forest, r, s) <= d
               ELSE depths = {} /\ MinDepth(forest, r, s) = None
    <3> DEFINE v == Walk(forest, <<r>>)
               found == {k \in 1 .. Len(v) : forest[v[k].node].sid = s}
               holders == {j \in Tree(r) : forest[j].sid = s}
               depths == {DepthIn(forest, i) : i \in holders}
    <3>1. r \in DOMAIN forest /\ forest[r].parent = 0
      BY DEF IsRoot
    <3>2. {v[k].depth : k \in found} = depths
      BY <2>1, <3>1, VisitsToSession
    <3>3. MinDepth(forest, r, s) = Nearest(depths)
      BY <3>2, Zenon DEF MinDepth
    <3>4. IsKnown(forest, r, s) <=> found # {}
      BY DEF IsKnown
    <3>5. found # {} <=> depths # {}
      <4> HIDE DEF v, found, depths
      <4> QED
        BY <3>2
    <3>6. depths \subseteq Nat
      <4>1. \A i \in DOMAIN forest : i \in Nat /\ DepthIn(forest, i) \in 0 .. i - 1
        BY <2>1, Depths DEF IsForest
      <4>2. holders \subseteq DOMAIN forest
        BY DEF Tree
      <4> HIDE DEF holders
      <4> QED
        BY <4>1, <4>2
    <3> HIDE DEF v, found, depths
    <3>7. depths # {} => /\ Nearest(depths) \in depths
                         /\ \A d \in depths : Nearest(depths) <= d
      BY <3>6, NearestIsLeast
    <3>8. depths = {} => Nearest(depths) = None
      BY DEF Nearest
    <3> QED
      BY <3>3, <3>4, <3>5, <3>7, <3>8, Zenon DEF depths, holders
  <2> QED
    BY <2>2, <2>3, <2>4, <2>5, Zenon DEF WalkIsByDepth, w
<1> QED
  BY <1>1, ForestInvHolds, PTL

-----------------------------------------------------------------------------
(* What is heard of gateways                                               *)

Rumours == [sid : Sids, ttl : 1 .. InitialTtl - 1]
Ttls == UNION {[S -> 0 .. InitialTtl] : S \in SUBSET Sids}

LEMMA InTtls ==
    ASSUME NEW f
    PROVE  f \in Ttls <=> DOMAIN f \subseteq Sids /\ f \in [DOMAIN f -> 0 .. InitialTtl]
<1>1. ASSUME f \in Ttls
      PROVE  DOMAIN f \subseteq Sids /\ f \in [DOMAIN f -> 0 .. InitialTtl]
  <2>1. PICK S \in SUBSET Sids : f \in [S -> 0 .. InitialTtl]
    BY <1>1 DEF Ttls
  <2>2. DOMAIN f = S
    BY <2>1
  <2> QED
    BY <2>1, <2>2
<1>2. ASSUME DOMAIN f \subseteq Sids, f \in [DOMAIN f -> 0 .. InitialTtl]
      PROVE  f \in Ttls
  <2>1. DOMAIN f \in SUBSET Sids
    BY <1>2
  <2> QED
    BY <1>2, <2>1, Zenon DEF Ttls
<1> QED
  BY <1>1, <1>2

\* ttls knows the sessions of the rumours in H, each with the largest ttl less one.
Faded(ttls, H) ==
    /\ \A o \in H : o.sid \in DOMAIN ttls
    /\ \A s \in DOMAIN ttls :
          /\ \E o \in H : o.sid = s /\ ttls[s] = o.ttl - 1
          /\ \A o \in H : o.sid = s => ttls[s] >= o.ttl - 1

LEMMA AddRumourType ==
    ASSUME NEW ttls \in Ttls, NEW o \in Rumours
    PROVE  AddRumour(ttls, o) \in Ttls
<1> DEFINE new == [s \in DOMAIN ttls \cup {o.sid} |->
                     IF s = o.sid THEN RumourTtl(o.ttl) ELSE ttls[s]]
<1>1. o.sid \in Sids /\ o.ttl \in 1 .. 5
  BY DEF Rumours, InitialTtl
<1>2. DOMAIN ttls \subseteq Sids /\ ttls \in [DOMAIN ttls -> 0 .. InitialTtl]
  BY InTtls
<1>3. RumourTtl(o.ttl) \in 0 .. InitialTtl
  BY <1>1 DEF RumourTtl, InitialTtl
<1>4. DOMAIN new \subseteq Sids
  BY <1>1, <1>2
<1>5. new \in [DOMAIN new -> 0 .. InitialTtl]
  BY <1>2, <1>3
<1> HIDE DEF new
<1>6. new \in Ttls
  BY <1>4, <1>5, InTtls
<1> QED
  BY <1>6, Zenon DEF AddRumour, new

LEMMA AddRumourFades ==
    ASSUME NEW ttls \in Ttls, NEW H \in SUBSET Rumours, Faded(ttls, H), NEW o \in Rumours
    PROVE  Faded(AddRumour(ttls, o), H \cup {o})
<1> DEFINE new == AddRumour(ttls, o)
<1>1. /\ o.sid \in Sids /\ o.ttl \in Nat
      /\ \A p \in H : p.sid \in Sids /\ p.ttl \in Nat
      /\ \A s \in DOMAIN ttls : ttls[s] \in Nat
  <2>1. ttls \in [DOMAIN ttls -> 0 .. InitialTtl]
    BY InTtls
  <2>2. \A p \in Rumours : p.sid \in Sids /\ p.ttl \in Nat
    BY DEF Rumours, InitialTtl
  <2> QED
    BY <2>1, <2>2 DEF InitialTtl
<1>2. CASE o.sid \in DOMAIN ttls /\ ttls[o.sid] >= o.ttl
  <2>1. new = ttls
    BY <1>2 DEF AddRumour
  <2> HIDE DEF new
  <2>2. \A p \in H \cup {o} : p.sid \in DOMAIN ttls
    BY <1>2 DEF Faded
  <2>3. ASSUME NEW s \in DOMAIN ttls
        PROVE  /\ \E p \in H \cup {o} : p.sid = s /\ ttls[s] = p.ttl - 1
               /\ \A p \in H \cup {o} : p.sid = s => ttls[s] >= p.ttl - 1
    <3>1. /\ \E p \in H : p.sid = s /\ ttls[s] = p.ttl - 1
          /\ \A p \in H : p.sid = s => ttls[s] >= p.ttl - 1
      BY DEF Faded
    <3>2. o.sid = s => ttls[s] >= o.ttl - 1
      BY <1>1, <1>2
    <3> QED
      BY <3>1, <3>2
  <2>4. Faded(ttls, H \cup {o})
    BY <2>2, <2>3 DEF Faded
  <2> QED
    BY <2>1, <2>4 DEF new
<1>3. CASE ~(o.sid \in DOMAIN ttls /\ ttls[o.sid] >= o.ttl)
  <2>1. new = [s \in DOMAIN ttls \cup {o.sid} |->
                 IF s = o.sid THEN RumourTtl(o.ttl) ELSE ttls[s]]
    BY <1>3, Zenon DEF AddRumour
  <2>2. /\ DOMAIN new = DOMAIN ttls \cup {o.sid}
        /\ new[o.sid] = o.ttl - 1
        /\ \A s \in DOMAIN ttls : s # o.sid => new[s] = ttls[s]
    BY <2>1 DEF RumourTtl
  <2> HIDE DEF new
  <2>3. \A p \in H \cup {o} : p.sid \in DOMAIN new
    BY <2>2 DEF Faded
  <2>4. ASSUME NEW s \in DOMAIN new
        PROVE  /\ \E p \in H \cup {o} : p.sid = s /\ new[s] = p.ttl - 1
               /\ \A p \in H \cup {o} : p.sid = s => new[s] >= p.ttl - 1
    <3>1. CASE s = o.sid
      <4>1. ASSUME NEW p \in H, p.sid = s PROVE new[s] >= p.ttl - 1
        <5>1. s \in DOMAIN ttls /\ ttls[s] >= p.ttl - 1
          BY <4>1 DEF Faded
        <5>2. ttls[s] < o.ttl
          BY <1>1, <1>3, <3>1, <5>1
        <5> QED
          BY <1>1, <2>2, <3>1, <5>1, <5>2
      <4> QED
        BY <1>1, <2>2, <3>1, <4>1
    <3>2. CASE s # o.sid
      <4>1. s \in DOMAIN ttls /\ new[s] = ttls[s]
        BY <2>2, <3>2
      <4>2. /\ \E p \in H : p.sid = s /\ ttls[s] = p.ttl - 1
            /\ \A p \in H : p.sid = s => ttls[s] >= p.ttl - 1
        BY <4>1 DEF Faded
      <4> QED
        BY <3>2, <4>1, <4>2
    <3> QED
      BY <3>1, <3>2
  <2>5. Faded(new, H \cup {o})
    BY <2>3, <2>4 DEF Faded
  <2> QED
    BY <2>5 DEF new
<1> QED
  BY <1>2, <1>3

\* The rumours of one list
HeardIn(known) == {known[n] : n \in 1 .. Len(known)}

LEMMA AddHeardFades ==
    ASSUME NEW ttls \in Ttls, NEW H \in SUBSET Rumours, NEW known \in Seq(Rumours)
    PROVE  /\ AddHeard(ttls, known) \in Ttls
           /\ Faded(ttls, H) => Faded(AddHeard(ttls, known), H \cup HeardIn(known))
<1> DEFINE N == Len(known)
           Is(f) == f = [n \in 0 .. Len(known) |->
                           IF n = 0 THEN ttls ELSE AddRumour(f[n - 1], known[n])]
           heard == CHOOSE f : Is(f)
           G == [n \in 1 .. N |-> [f \in Ttls |-> AddRumour(f, known[n])]]
           upTo(n) == {known[k] : k \in 1 .. n}
<1>1. N \in Nat /\ \A n \in 1 .. N : known[n] \in Rumours
  BY LenProperties, ElementOfSeq
<1>2. AddHeard(ttls, known) = heard[N]
  BY Zenon DEF AddHeard
<1>3. G \in [1 .. N -> [Ttls -> Ttls]]
  BY <1>1, AddRumourType
<1> HIDE DEF G
<1>4. PICK f : Iterates(f, N, Ttls, ttls, G)
  BY <1>1, <1>3, Recursion, Zenon
<1>5. \A n \in 0 .. N : n = 0 \/ n \in 1 .. N
  BY <1>1
<1>6. \A n \in 1 .. N : n \in 0 .. N /\ n # 0 /\ n - 1 \in 0 .. N
  BY <1>1
<1>7. \A n \in 1 .. N : f[n] = AddRumour(f[n - 1], known[n])
  <2> TAKE n \in 1 .. N
  <2>1. G[n] = [g \in Ttls |-> AddRumour(g, known[n])]
    BY Zenon DEF G
  <2>2. f[n - 1] \in Ttls
    BY <1>4, <1>6, Zenon DEF Iterates
  <2> QED
    BY <1>4, <2>1, <2>2, Zenon DEF Iterates
<1>8. f = [n \in 0 .. N |-> f[n]]
  BY <1>4, Zenon DEF Iterates
<1>9. Is(f)
  BY <1>4, <1>5, <1>7, <1>8, Zenon DEF Iterates
<1>10. Is(heard)
  BY <1>9, Zenon
<1> HIDE DEF heard
<1>11. heard[0] = ttls /\ \A n \in 1 .. N : heard[n] = AddRumour(heard[n - 1], known[n])
  <2>1. 0 \in 0 .. N
    BY <1>1
  <2> QED
    BY <1>6, <1>10, <2>1, Zenon
<1> DEFINE R == {n \in 0 .. N : /\ heard[n] \in Ttls
                                /\ Faded(ttls, H) => Faded(heard[n], H \cup upTo(n))}
<1>12. 0 \in R
  <2>1. H \cup upTo(0) = H /\ 0 \in 0 .. N
    BY <1>1
  <2> QED
    BY <1>11, <2>1
<1>13. ASSUME NEW n \in 1 .. N, n - 1 \in R PROVE n \in R
  <2> DEFINE before == heard[n - 1]
             K == H \cup upTo(n - 1)
  <2>1. before \in Ttls /\ (Faded(ttls, H) => Faded(before, K))
    BY <1>13, Zenon
  <2>2. K \in SUBSET Rumours /\ known[n] \in Rumours
    BY <1>1
  <2>3. H \cup upTo(n) = K \cup {known[n]}
    <3>1. 1 .. n = (1 .. n - 1) \cup {n}
      OBVIOUS
    <3> QED
      BY <3>1
  <2>4. heard[n] = AddRumour(before, known[n]) /\ n \in 0 .. N
    BY <1>6, <1>11
  <2> HIDE DEF before, K
  <2>5. AddRumour(before, known[n]) \in Ttls
    BY <2>1, <2>2, AddRumourType
  <2>6. Faded(ttls, H) => Faded(AddRumour(before, known[n]), K \cup {known[n]})
    BY <2>1, <2>2, AddRumourFades, Zenon
  <2> QED
    BY <2>3, <2>4, <2>5, <2>6, Zenon
<1> HIDE DEF R
<1>14. 0 .. N \subseteq R
  BY <1>1, <1>12, <1>13, InductTo
<1>15. N \in R
  BY <1>1, <1>14
<1>16. heard[N] \in Ttls /\ (Faded(ttls, H) => Faded(heard[N], H \cup upTo(N)))
  BY <1>15, Zenon DEF R
<1> QED
  BY <1>2, <1>16, Zenon DEF HeardIn

\* The rumours of all lists
LEMMA RumouredFades ==
    ASSUME NEW all, Len(all) \in Nat, \A n \in 1 .. Len(all) : all[n].known \in Seq(Rumours)
    PROVE  /\ Rumoured(all) \in Ttls
           /\ Faded(Rumoured(all), UNION {HeardIn(all[n].known) : n \in 1 .. Len(all)})
<1> DEFINE N == Len(all)
           none == [s \in {} |-> 0]
           Is(f) == f = [n \in 0 .. Len(all) |->
                           IF n = 0 THEN [s \in {} |-> 0]
                           ELSE AddHeard(f[n - 1], all[n].known)]
           after == CHOOSE f : Is(f)
           G == [n \in 1 .. N |-> [f \in Ttls |-> AddHeard(f, all[n].known)]]
           upTo(n) == UNION {HeardIn(all[k].known) : k \in 1 .. n}
<1>1. N \in Nat
  OBVIOUS
<1>2. Rumoured(all) = after[N]
  BY Zenon DEF Rumoured
<1>3. none \in Ttls /\ Faded(none, {})
  <2>1. DOMAIN none \subseteq Sids /\ none \in [DOMAIN none -> 0 .. InitialTtl]
    OBVIOUS
  <2>2. DOMAIN none = {}
    OBVIOUS
  <2> HIDE DEF none
  <2> QED
    BY <2>1, <2>2, InTtls DEF Faded
<1>4. \A K \in SUBSET Rumours, f \in Ttls, n \in 1 .. N :
         Faded(f, K) => /\ AddHeard(f, all[n].known) \in Ttls
                        /\ Faded(AddHeard(f, all[n].known), K \cup HeardIn(all[n].known))
  BY AddHeardFades, Zenon
<1>5. G \in [1 .. N -> [Ttls -> Ttls]]
  <2>1. {} \in SUBSET Rumours
    OBVIOUS
  <2>2. \A f \in Ttls, n \in 1 .. N : AddHeard(f, all[n].known) \in Ttls
    BY <2>1, AddHeardFades, Zenon
  <2> QED
    BY <2>2
<1> HIDE DEF G
<1>6. PICK f : Iterates(f, N, Ttls, none, G)
  BY <1>1, <1>3, <1>5, Recursion, Zenon
<1>7. \A n \in 0 .. N : n = 0 \/ n \in 1 .. N
  BY <1>1
<1>8. \A n \in 1 .. N : n \in 0 .. N /\ n # 0 /\ n - 1 \in 0 .. N
  BY <1>1
<1>9. \A n \in 1 .. N : f[n] = AddHeard(f[n - 1], all[n].known)
  <2> TAKE n \in 1 .. N
  <2>1. G[n] = [g \in Ttls |-> AddHeard(g, all[n].known)]
    BY Zenon DEF G
  <2>2. f[n - 1] \in Ttls
    BY <1>6, <1>8, Zenon DEF Iterates
  <2> QED
    BY <1>6, <2>1, <2>2, Zenon DEF Iterates
<1>10. f = [n \in 0 .. N |-> f[n]]
  BY <1>6, Zenon DEF Iterates
<1>11. Is(f)
  BY <1>6, <1>7, <1>9, <1>10, Zenon DEF Iterates
<1>12. Is(after)
  BY <1>11, Zenon
<1> HIDE DEF after
<1>13. after[0] = none /\ \A n \in 1 .. N : after[n] = AddHeard(after[n - 1], all[n].known)
  <2>1. 0 \in 0 .. N
    BY <1>1
  <2> QED
    BY <1>8, <1>12, <2>1, Zenon
<1> HIDE DEF none
<1> DEFINE R == {n \in 0 .. N : after[n] \in Ttls /\ Faded(after[n], upTo(n))}
<1>14. 0 \in R
  <2>1. upTo(0) = {} /\ 0 \in 0 .. N
    BY <1>1
  <2> QED
    BY <1>3, <1>13, <2>1
<1>15. ASSUME NEW n \in 1 .. N, n - 1 \in R PROVE n \in R
  <2> DEFINE before == after[n - 1]
             K == upTo(n - 1)
             known == all[n].known
  <2>1. before \in Ttls /\ Faded(before, K)
    BY <1>15, Zenon
  <2>2. K \in SUBSET Rumours
    <3>1. \A k \in 1 .. n - 1 : all[k].known \in Seq(Rumours)
      BY <1>1
    <3>2. \A k \in 1 .. n - 1 : HeardIn(all[k].known) \subseteq Rumours
      BY <3>1, ElementOfSeq DEF HeardIn
    <3> QED
      BY <3>2
  <2>3. upTo(n) = K \cup HeardIn(known)
    <3>1. 1 .. n = (1 .. n - 1) \cup {n}
      OBVIOUS
    <3> QED
      BY <3>1, Zenon
  <2>4. after[n] = AddHeard(before, known) /\ n \in 0 .. N
    BY <1>8, <1>13
  <2>5. AddHeard(before, known) \in Ttls /\ Faded(AddHeard(before, known), K \cup HeardIn(known))
    BY <1>4, <2>1, <2>2, Zenon
  <2> QED
    BY <2>3, <2>4, <2>5, Zenon
<1> HIDE DEF R
<1>16. 0 .. N \subseteq R
  BY <1>1, <1>14, <1>15, InductTo
<1>17. N \in R
  BY <1>1, <1>16
<1>18. after[N] \in Ttls /\ Faded(after[N], upTo(N))
  BY <1>17, Zenon DEF R
<1> QED
  BY <1>2, <1>18, Zenon

LEMMA AddActualDecides ==
    ASSUME NEW ttls \in Ttls, NEW r, r.sid \in Sids \cup {None}
    PROVE  LET new == AddActual(ttls, r) IN
           /\ new \in Ttls
           /\ \A s \in Sids \ {r.sid} : /\ s \in DOMAIN new <=> s \in DOMAIN ttls
                                        /\ s \in DOMAIN ttls => new[s] = ttls[s]
           /\ r.sid \in Sids => IF r.type = "Gateway"
                                THEN r.sid \in DOMAIN new /\ new[r.sid] = InitialTtl
                                ELSE r.sid \notin DOMAIN new
<1> DEFINE new == AddActual(ttls, r)
           with == [s \in DOMAIN ttls \cup {r.sid} |-> IF s = r.sid THEN InitialTtl ELSE ttls[s]]
           without == [s \in DOMAIN ttls \ {r.sid} |-> ttls[s]]
<1>1. DOMAIN ttls \subseteq Sids /\ ttls \in [DOMAIN ttls -> 0 .. InitialTtl]
  BY InTtls
<1>2. InitialTtl \in 0 .. InitialTtl
  BY DEF InitialTtl
<1>3. CASE r.sid = None
  <2>1. new = ttls /\ r.sid \notin Sids
    BY <1>3, RoutingInfoAssumption DEF AddActual
  <2> HIDE DEF new
  <2> QED
    BY <2>1 DEF new
<1>4. CASE r.sid # None /\ r.type = "Gateway"
  <2>1. r.sid \in Sids /\ new = with
    BY <1>4, Zenon DEF AddActual
  <2>2. DOMAIN with = DOMAIN ttls \cup {r.sid}
    OBVIOUS
  <2>3. with \in [DOMAIN with -> 0 .. InitialTtl] /\ DOMAIN with \subseteq Sids
    BY <1>1, <1>2, <2>1
  <2>4. with[r.sid] = InitialTtl /\ \A s \in DOMAIN ttls : s # r.sid => with[s] = ttls[s]
    OBVIOUS
  <2> HIDE DEF new, with
  <2>5. with \in Ttls
    BY <2>3, InTtls
  <2> QED
    BY <1>4, <2>1, <2>2, <2>4, <2>5 DEF new
<1>5. CASE r.sid # None /\ r.type # "Gateway"
  <2>1. r.sid \in Sids /\ new = without
    BY <1>5, Zenon DEF AddActual
  <2>2. DOMAIN without = DOMAIN ttls \ {r.sid}
    OBVIOUS
  <2>3. without \in [DOMAIN without -> 0 .. InitialTtl] /\ DOMAIN without \subseteq Sids
    BY <1>1
  <2>4. \A s \in DOMAIN ttls : s # r.sid => without[s] = ttls[s]
    OBVIOUS
  <2> HIDE DEF new, without
  <2>5. without \in Ttls
    BY <2>3, InTtls
  <2> QED
    BY <1>5, <2>1, <2>2, <2>4, <2>5 DEF new
<1> QED
  BY <1>3, <1>4, <1>5

\* What the first n nodes say of s decides over the rumours.
Decided(new, ttls, s, all, n) ==
    LET M == {k \in 1 .. n : all[k].sid = s} IN
    /\ M = {} => /\ s \in DOMAIN new <=> s \in DOMAIN ttls
                 /\ s \in DOMAIN ttls => new[s] = ttls[s]
    /\ M # {} /\ (\A k \in M : all[k].type = "Gateway")
          => s \in DOMAIN new /\ new[s] = InitialTtl
    /\ M # {} /\ (\A k \in M : all[k].type # "Gateway")
          => s \notin DOMAIN new

LEMMA CorrectedDecides ==
    ASSUME NEW ttls \in Ttls, NEW all, Len(all) \in Nat,
           \A n \in 1 .. Len(all) : all[n].sid \in Sids \cup {None}
    PROVE  /\ Corrected(ttls, all) \in Ttls
           /\ \A s \in Sids : Decided(Corrected(ttls, all), ttls, s, all, Len(all))
<1> DEFINE N == Len(all)
           Is(f) == f = [n \in 0 .. Len(all) |->
                           IF n = 0 THEN ttls ELSE AddActual(f[n - 1], all[n])]
           after == CHOOSE f : Is(f)
           G == [n \in 1 .. N |-> [f \in Ttls |-> AddActual(f, all[n])]]
<1>1. N \in Nat
  OBVIOUS
<1>2. Corrected(ttls, all) = after[N]
  BY Zenon DEF Corrected
<1>3. G \in [1 .. N -> [Ttls -> Ttls]]
  <2>1. \A f \in Ttls, n \in 1 .. N : AddActual(f, all[n]) \in Ttls
    BY AddActualDecides, Zenon
  <2> QED
    BY <2>1
<1> HIDE DEF G
<1>4. PICK f : Iterates(f, N, Ttls, ttls, G)
  BY <1>1, <1>3, Recursion, Zenon
<1>5. \A n \in 0 .. N : n = 0 \/ n \in 1 .. N
  BY <1>1
<1>6. \A n \in 1 .. N : n \in 0 .. N /\ n # 0 /\ n - 1 \in 0 .. N
  BY <1>1
<1>7. \A n \in 1 .. N : f[n] = AddActual(f[n - 1], all[n])
  <2> TAKE n \in 1 .. N
  <2>1. G[n] = [g \in Ttls |-> AddActual(g, all[n])]
    BY Zenon DEF G
  <2>2. f[n - 1] \in Ttls
    BY <1>4, <1>6, Zenon DEF Iterates
  <2> QED
    BY <1>4, <2>1, <2>2, Zenon DEF Iterates
<1>8. f = [n \in 0 .. N |-> f[n]]
  BY <1>4, Zenon DEF Iterates
<1>9. Is(f)
  BY <1>4, <1>5, <1>7, <1>8, Zenon DEF Iterates
<1>10. Is(after)
  BY <1>9, Zenon
<1> HIDE DEF after
<1>11. after[0] = ttls /\ \A n \in 1 .. N : after[n] = AddActual(after[n - 1], all[n])
  <2>1. 0 \in 0 .. N
    BY <1>1
  <2> QED
    BY <1>6, <1>10, <2>1, Zenon
<1> DEFINE R == {n \in 0 .. N : /\ after[n] \in Ttls
                                /\ \A s \in Sids : Decided(after[n], ttls, s, all, n)}
<1>12. 0 \in R
  <2>1. 0 \in 0 .. N /\ \A k \in 1 .. 0 : FALSE
    BY <1>1
  <2>2. \A s \in Sids : Decided(ttls, ttls, s, all, 0)
    BY <2>1, Zenon DEF Decided
  <2> QED
    BY <1>11, <2>1, <2>2
<1>13. ASSUME NEW n \in 1 .. N, n - 1 \in R PROVE n \in R
  <2> DEFINE before == after[n - 1]
             new == AddActual(before, all[n])
  <2>1. before \in Ttls /\ \A s \in Sids : Decided(before, ttls, s, all, n - 1)
    BY <1>13, Zenon
  <2>2. after[n] = new /\ n \in 0 .. N
    BY <1>6, <1>11
  <2>3. all[n].sid \in Sids \cup {None}
    OBVIOUS
  <2> HIDE DEF before
  <2>4. /\ new \in Ttls
        /\ \A s \in Sids \ {all[n].sid} : /\ s \in DOMAIN new <=> s \in DOMAIN before
                                          /\ s \in DOMAIN before => new[s] = before[s]
        /\ all[n].sid \in Sids => IF all[n].type = "Gateway"
                                  THEN all[n].sid \in DOMAIN new /\ new[all[n].sid] = InitialTtl
                                  ELSE all[n].sid \notin DOMAIN new
    BY <2>1, <2>3, AddActualDecides, Zenon
  <2> HIDE DEF new
  <2>5. ASSUME NEW s \in Sids PROVE Decided(new, ttls, s, all, n)
    <3> DEFINE L == {k \in 1 .. n - 1 : all[k].sid = s}
               M == {k \in 1 .. n : all[k].sid = s}
    <3>1. 1 .. n = (1 .. n - 1) \cup {n}
      OBVIOUS
    <3>2. /\ L = {} => /\ s \in DOMAIN before <=> s \in DOMAIN ttls
                       /\ s \in DOMAIN ttls => before[s] = ttls[s]
          /\ L # {} /\ (\A k \in L : all[k].type = "Gateway")
                => s \in DOMAIN before /\ before[s] = InitialTtl
          /\ L # {} /\ (\A k \in L : all[k].type # "Gateway")
                => s \notin DOMAIN before
      BY <2>1, Zenon DEF Decided
    <3>3. CASE all[n].sid = s
      <4>1. n \in M
        BY <3>3
      <4>2. IF all[n].type = "Gateway"
            THEN s \in DOMAIN new /\ new[s] = InitialTtl
            ELSE s \notin DOMAIN new
        BY <2>4, <3>3
      <4> QED
        BY <4>1, <4>2, Zenon DEF Decided
    <3>4. CASE all[n].sid # s
      <4>1. M = L
        BY <3>1, <3>4
      <4>2. /\ s \in DOMAIN new <=> s \in DOMAIN before
            /\ s \in DOMAIN before => new[s] = before[s]
        BY <2>4, <3>4
      <4> HIDE DEF L, M
      <4>3. /\ M = {} => /\ s \in DOMAIN new <=> s \in DOMAIN ttls
                         /\ s \in DOMAIN ttls => new[s] = ttls[s]
            /\ M # {} /\ (\A k \in M : all[k].type = "Gateway")
                  => s \in DOMAIN new /\ new[s] = InitialTtl
            /\ M # {} /\ (\A k \in M : all[k].type # "Gateway")
                  => s \notin DOMAIN new
        BY <3>2, <4>1, <4>2
      <4> QED
        BY <4>3, Zenon DEF Decided, M
    <3> QED
      BY <3>3, <3>4
  <2> QED
    BY <2>2, <2>4, <2>5, Zenon
<1> HIDE DEF R
<1>14. 0 .. N \subseteq R
  BY <1>1, <1>12, <1>13, InductTo
<1>15. N \in R
  BY <1>1, <1>14
<1> QED
  BY <1>2, <1>15, Zenon DEF R

\* The walk without the depths: the nodes of the forest
LEMMA WalkNodesGive ==
    ASSUME NEW t, IsForest(t)
    PROVE  LET all == WalkNodes(t) IN
           /\ Len(all) \in Nat
           /\ \A k \in 1 .. Len(all) : \E j \in DOMAIN t : all[k] = t[j]
           /\ \A j \in DOMAIN t : \E k \in 1 .. Len(all) : all[k] = t[j]
<1> DEFINE w == Walk(t, Roots(t))
           all == [k \in 1 .. Len(w) |-> t[w[k].node]]
<1>1. /\ Len(w) \in Nat
      /\ \A k \in 1 .. Len(w) : w[k].node \in DOMAIN t
      /\ \A j \in DOMAIN t : \E k \in 1 .. Len(w) : w[k].node = j
  BY WholeWalk
<1>2. WalkNodes(t) = all
  BY Zenon DEF WalkNodes
<1> HIDE DEF w
<1>3. DOMAIN all = 1 .. Len(w) /\ \A k \in 1 .. Len(w) : all[k] = t[w[k].node]
  BY Zenon
<1>4. all \in Seq({t[j] : j \in DOMAIN t})
  <2>1. \A k \in 1 .. Len(w) : t[w[k].node] \in {t[j] : j \in DOMAIN t}
    BY <1>1
  <2>2. all \in [1 .. Len(w) -> {t[j] : j \in DOMAIN t}]
    BY <2>1, Zenon
  <2> QED
    BY <1>1, <2>2, SeqDef
<1> HIDE DEF all
<1>5. Len(all) = Len(w)
  BY <1>1, <1>3, <1>4, LenProperties
<1>6. \A k \in 1 .. Len(all) : \E j \in DOMAIN t : all[k] = t[j]
  BY <1>1, <1>3, <1>5, Zenon
<1>7. ASSUME NEW j \in DOMAIN t PROVE \E k \in 1 .. Len(all) : all[k] = t[j]
  <2>1. PICK k \in 1 .. Len(w) : w[k].node = j
    BY <1>1
  <2>2. k \in 1 .. Len(all) /\ all[k] = t[j]
    BY <1>3, <1>5, <2>1
  <2> QED
    BY <2>2, Zenon
<1> QED
  BY <1>1, <1>2, <1>5, <1>6, <1>7

LEMMA FirstTrackerIsNearest ==
    ASSUME NEW t, IsForest(t)
    PROVE  /\ TrackerVisits(t) # {} <=> \E j \in DOMAIN t : t[j].type = "Tracker"
           /\ TrackerVisits(t) # {} =>
                 /\ FirstTracker(t).node \in DOMAIN t
                 /\ t[FirstTracker(t).node].type = "Tracker"
                 /\ \A j \in DOMAIN t : t[j].type = "Tracker" =>
                       DepthIn(t, FirstTracker(t).node) <= DepthIn(t, j)
<1> DEFINE w == Walk(t, Roots(t))
           v == {k \in 1 .. Len(w) : t[w[k].node].type = "Tracker"}
<1>1. /\ Len(w) \in Nat
      /\ \A k \in 1 .. Len(w) : /\ w[k].node \in DOMAIN t
                                /\ w[k].depth \in Nat
                                /\ w[k].depth = DepthIn(t, w[k].node)
      /\ Sorted(w)
      /\ \A j \in DOMAIN t : \E k \in 1 .. Len(w) : w[k].node = j
  BY WholeWalk
<1>2. TrackerVisits(t) = v /\ FirstTracker(t) = w[Nearest(TrackerVisits(t))]
  BY Zenon DEF TrackerVisits, FirstTracker
<1> HIDE DEF w
<1>3. v # {} <=> \E j \in DOMAIN t : t[j].type = "Tracker"
  BY <1>1
<1>4. ASSUME v # {}
      PROVE  /\ w[Nearest(v)].node \in DOMAIN t
             /\ t[w[Nearest(v)].node].type = "Tracker"
             /\ \A j \in DOMAIN t : t[j].type = "Tracker" =>
                   DepthIn(t, w[Nearest(v)].node) <= DepthIn(t, j)
  <2> DEFINE n == Nearest(v)
  <2>1. v \subseteq Nat
    OBVIOUS
  <2>2. n \in v /\ \A k \in v : n <= k
    BY <1>4, <2>1, NearestIsLeast
  <2> HIDE DEF n
  <2>3. n \in 1 .. Len(w) /\ t[w[n].node].type = "Tracker"
    BY <2>2
  <2>4. ASSUME NEW j \in DOMAIN t, t[j].type = "Tracker"
        PROVE  DepthIn(t, w[n].node) <= DepthIn(t, j)
    <3>1. PICK k \in 1 .. Len(w) : w[k].node = j
      BY <1>1
    <3>2. k \in v /\ n <= k
      BY <2>2, <2>4, <3>1
    <3>3. w[n].depth <= w[k].depth
      <4>1. CASE n = k
        BY <1>1, <2>3, <4>1
      <4>2. CASE n # k
        BY <1>1, <2>3, <3>2, <4>2 DEF Sorted
      <4> QED
        BY <4>1, <4>2
    <3> QED
      BY <1>1, <2>3, <3>1, <3>3
  <2> QED
    BY <1>1, <2>3, <2>4 DEF n
<1> QED
  BY <1>2, <1>3, <1>4, Zenon

\* The gateways under a node, as told on by a tracker
LEMMA TrackersGatewaysGive ==
    ASSUME ForestInv
    PROVE  LET known == {forest[j].sid : j \in Below(forest, FirstTracker(forest).node)} \ {None}
           IN /\ TrackersGateways(forest) = [s \in known |-> InitialTtl]
              /\ TrackersGateways(forest) \in Ttls
<1> DEFINE f == FirstTracker(forest).node
           q == Children(forest, f)
           known == {forest[j].sid : j \in Below(forest, f)} \ {None}
           listed == {forest[q[k]].sid : k \in 1 .. Len(q)} \ {None}
           all == [s \in known |-> InitialTtl]
<1>1. IsForest(forest)
  BY ForestInvIsForest
<1>2. IsRange(q, Below(forest, f))
  BY <1>1, BelowListed DEF Children
<1>3. TrackersGateways(forest) = [s \in listed |-> InitialTtl]
  BY Zenon DEF TrackersGateways
<1>4. known \subseteq Sids
  <2>1. \A j \in DOMAIN forest : forest[j].sid \in Sids \cup {None}
    BY DEF ForestInv, NodeSet
  <2> QED
    BY <2>1 DEF Below
<1> HIDE DEF q, f
<1>5. listed = known
  BY <1>2 DEF IsRange
<1>6. all \in Ttls
  <2>1. DOMAIN all = known /\ InitialTtl \in 0 .. InitialTtl
    BY DEF InitialTtl
  <2>2. all \in [known -> 0 .. InitialTtl]
    BY <2>1
  <2> HIDE DEF all, known
  <2> QED
    BY <1>4, <2>1, <2>2, InTtls
<1> QED
  BY <1>3, <1>5, <1>6, Zenon DEF f

\* What is known without a tracker: every session no node mentions as it was
\* heard of, and every other one as the mentions say.
LEMMA CorrectedRumours ==
    ASSUME ForestInv
    PROVE  LET heard == UNION {HeardBy(forest, j) : j \in DOMAIN forest}
               rumoured == Rumoured(WalkNodes(forest))
               k == Corrected(rumoured, WalkNodes(forest))
           IN /\ heard \subseteq Rumours
              /\ Faded(rumoured, heard)
              /\ k \in Ttls
              /\ \A s \in Sids :
                    /\ Mentions(forest, s) = {} => /\ s \in DOMAIN k <=> s \in DOMAIN rumoured
                                                   /\ s \in DOMAIN rumoured => k[s] = rumoured[s]
                    /\ Mentions(forest, s) # {}
                          /\ (\A j \in Mentions(forest, s) : forest[j].type = "Gateway")
                       => s \in DOMAIN k /\ k[s] = InitialTtl
                    /\ Mentions(forest, s) # {}
                          /\ (\A j \in Mentions(forest, s) : forest[j].type # "Gateway")
                       => s \notin DOMAIN k
<1> DEFINE all == WalkNodes(forest)
           N == Len(all)
           heard == UNION {HeardBy(forest, j) : j \in DOMAIN forest}
           listed == UNION {HeardIn(all[n].known) : n \in 1 .. N}
           rumoured == Rumoured(all)
           k == Corrected(rumoured, all)
<1>1. /\ N \in Nat
      /\ \A n \in 1 .. N : \E j \in DOMAIN forest : all[n] = forest[j]
      /\ \A j \in DOMAIN forest : \E n \in 1 .. N : all[n] = forest[j]
  BY ForestInvIsForest, WalkNodesGive
<1>2. \A j \in DOMAIN forest : /\ forest[j].sid \in Sids \cup {None}
                               /\ forest[j].known \in Seq(Rumours)
  BY DEF ForestInv, NodeSet, Rumours
<1> HIDE DEF all
<1>3. \A n \in 1 .. N : all[n].sid \in Sids \cup {None} /\ all[n].known \in Seq(Rumours)
  <2> TAKE n \in 1 .. N
  <2>1. PICK j \in DOMAIN forest : all[n] = forest[j]
    BY <1>1
  <2> QED
    BY <1>2, <2>1
<1>4. \A j \in DOMAIN forest : HeardBy(forest, j) = HeardIn(forest[j].known)
  BY DEF HeardBy, HeardIn
<1>5. listed = heard
  <2>1. ASSUME NEW n \in 1 .. N PROVE HeardIn(all[n].known) \subseteq heard
    <3>1. PICK j \in DOMAIN forest : all[n] = forest[j]
      BY <1>1
    <3> QED
      BY <1>4, <3>1
  <2>2. ASSUME NEW j \in DOMAIN forest PROVE HeardBy(forest, j) \subseteq listed
    <3>1. PICK n \in 1 .. N : all[n] = forest[j]
      BY <1>1
    <3> QED
      BY <1>4, <3>1
  <2> QED
    BY <2>1, <2>2
<1>6. heard \subseteq Rumours
  <2>1. \A j \in DOMAIN forest : HeardIn(forest[j].known) \subseteq Rumours
    BY <1>2, ElementOfSeq DEF HeardIn
  <2> QED
    BY <1>4, <2>1
<1>7. rumoured \in Ttls /\ Faded(rumoured, listed)
  BY <1>1, <1>3, RumouredFades
<1> HIDE DEF rumoured, listed, heard
<1>8. k \in Ttls /\ \A s \in Sids : Decided(k, rumoured, s, all, N)
  BY <1>1, <1>3, <1>7, CorrectedDecides
<1> HIDE DEF k
<1>9. ASSUME NEW s \in Sids
      PROVE  /\ Mentions(forest, s) = {} => /\ s \in DOMAIN k <=> s \in DOMAIN rumoured
                                            /\ s \in DOMAIN rumoured => k[s] = rumoured[s]
             /\ Mentions(forest, s) # {}
                   /\ (\A j \in Mentions(forest, s) : forest[j].type = "Gateway")
                => s \in DOMAIN k /\ k[s] = InitialTtl
             /\ Mentions(forest, s) # {}
                   /\ (\A j \in Mentions(forest, s) : forest[j].type # "Gateway")
                => s \notin DOMAIN k
  <2> DEFINE M == Mentions(forest, s)
             L == {n \in 1 .. N : all[n].sid = s}
  <2>1. \A n \in L : \E j \in M : all[n] = forest[j]
    BY <1>1 DEF Mentions
  <2>2. \A j \in M : \E n \in L : all[n] = forest[j]
    BY <1>1 DEF Mentions
  <2>3. /\ L = {} => /\ s \in DOMAIN k <=> s \in DOMAIN rumoured
                     /\ s \in DOMAIN rumoured => k[s] = rumoured[s]
        /\ L # {} /\ (\A n \in L : all[n].type = "Gateway")
              => s \in DOMAIN k /\ k[s] = InitialTtl
        /\ L # {} /\ (\A n \in L : all[n].type # "Gateway")
              => s \notin DOMAIN k
    BY <1>8, Zenon DEF Decided
  <2> HIDE DEF L, M
  <2>4. L = {} <=> M = {}
    BY <2>1, <2>2
  <2>5. (\A j \in M : forest[j].type = "Gateway") => \A n \in L : all[n].type = "Gateway"
    BY <2>1, Zenon
  <2>6. (\A j \in M : forest[j].type # "Gateway") => \A n \in L : all[n].type # "Gateway"
    BY <2>1, Zenon
  <2>7. /\ M = {} => /\ s \in DOMAIN k <=> s \in DOMAIN rumoured
                     /\ s \in DOMAIN rumoured => k[s] = rumoured[s]
        /\ M # {} /\ (\A j \in M : forest[j].type = "Gateway")
              => s \in DOMAIN k /\ k[s] = InitialTtl
        /\ M # {} /\ (\A j \in M : forest[j].type # "Gateway")
              => s \notin DOMAIN k
    BY <2>3, <2>4, <2>5, <2>6, Zenon
  <2> QED
    BY <2>7 DEF M
<1> QED
  BY <1>5, <1>6, <1>7, <1>8, <1>9, Zenon DEF heard, rumoured, k, all

\* What is known has the ttls of the model's type.
LEMMA KnownGatewaysType ==
    ASSUME ForestInv
    PROVE  KnownGateways(forest) \in Ttls
BY TrackersGatewaysGive, CorrectedRumours, Zenon DEF KnownGateways

\* Without a tracker, a session that every mention calls a gateway is known
\* with the full ttl, and one that no mention does is not known at all,
\* whatever others have heard of it.  With one, what is told on is what the
\* tracker that is nearest to a root is related to.
THEOREM MentionsAlwaysDecide == Spec => []MentionsDecide
<1>1. ForestInv => MentionsDecide
  <2> SUFFICES ASSUME ForestInv PROVE MentionsDecide
    OBVIOUS
  <2>1. IsForest(forest)
    BY ForestInvIsForest
  <2> DEFINE first == FirstTracker(forest).node
             k == KnownGateways(forest)
  <2>2. /\ TrackerVisits(forest) # {} <=> HasTracker
        /\ TrackerVisits(forest) # {} =>
              /\ forest[first].type = "Tracker"
              /\ \A j \in DOMAIN forest : forest[j].type = "Tracker" =>
                    DepthIn(forest, first) <= DepthIn(forest, j)
    BY <2>1, FirstTrackerIsNearest, Zenon DEF HasTracker
  <2>3. CASE HasTracker
    <3> DEFINE known == {forest[j].sid : j \in Below(forest, first)} \ {None}
    <3>1. k = [s \in known |-> InitialTtl]
      BY <2>2, <2>3, TrackersGatewaysGive, Zenon DEF KnownGateways
    <3>2. DOMAIN k = known /\ \A s \in known : k[s] > 1
      BY <3>1 DEF InitialTtl
    <3>3. DOMAIN KnownGatewaysNextTtl(forest) = StillKnown(k)
      BY Zenon DEF KnownGatewaysNextTtl
    <3> HIDE DEF k, known
    <3>4. StillKnown(k) = known
      BY <3>2 DEF StillKnown
    <3> QED
      BY <2>2, <2>3, <3>3, <3>4, Zenon DEF MentionsDecide, known
  <2>4. CASE ~HasTracker
    <3>1. k = Corrected(Rumoured(WalkNodes(forest)), WalkNodes(forest))
      BY <2>2, <2>4, Zenon DEF KnownGateways
    <3>2. \A s \in Sids :
             /\ Mentions(forest, s) # {}
                   /\ (\A j \in Mentions(forest, s) : forest[j].type = "Gateway")
                => s \in DOMAIN k /\ k[s] = InitialTtl
             /\ Mentions(forest, s) # {}
                   /\ (\A j \in Mentions(forest, s) : forest[j].type # "Gateway")
                => s \notin DOMAIN k
      BY <3>1, CorrectedRumours, Zenon
    <3> QED
      BY <2>4, <3>2, Zenon DEF MentionsDecide
  <2> QED
    BY <2>3, <2>4
<1> QED
  BY <1>1, ForestInvHolds, PTL

\* Rumours fade: what is told on about a session nobody is related to has lost
\* two of the largest ttl it was heard with, so a gateway that has gone is
\* forgotten after three tellings, however the nodes tell each other in turn.
\* What is told on can be heard again: its ttl is at least 1 and less than the
\* first.
THEOREM RumoursAlwaysFade == Spec => []RumoursFade
<1>1. ForestInv => RumoursFade
  <2> SUFFICES ASSUME ForestInv PROVE RumoursFade
    OBVIOUS
  <2> DEFINE k == KnownGateways(forest)
             next == KnownGatewaysNextTtl(forest)
             heard == UNION {HeardBy(forest, j) : j \in DOMAIN forest}
             rumoured == Rumoured(WalkNodes(forest))
  <2>1. TrackerVisits(forest) # {} <=> HasTracker
    BY ForestInvIsForest, FirstTrackerIsNearest, Zenon DEF HasTracker
  <2>2. next = [s \in StillKnown(k) |-> k[s] - 1]
    BY Zenon DEF KnownGatewaysNextTtl
  <2>3. DOMAIN k \subseteq Sids /\ k \in [DOMAIN k -> 0 .. InitialTtl]
    BY KnownGatewaysType, InTtls
  <2>4. ~HasTracker => k = Corrected(rumoured, WalkNodes(forest))
    BY <2>1, Zenon DEF KnownGateways
  <2>5. /\ heard \subseteq Rumours
        /\ Faded(rumoured, heard)
        /\ ~HasTracker => \A s \in Sids : Mentions(forest, s) = {} =>
                             /\ s \in DOMAIN k <=> s \in DOMAIN rumoured
                             /\ s \in DOMAIN rumoured => k[s] = rumoured[s]
    BY <2>4, CorrectedRumours, Zenon
  <2> HIDE DEF k, next, rumoured
  <2>6. ASSUME NEW s \in DOMAIN next
        PROVE  /\ next[s] \in 1 .. InitialTtl - 1
               /\ ~HasTracker /\ Mentions(forest, s) = {} =>
                     /\ \E o \in Heard(forest, s) : next[s] = o.ttl - 2
                     /\ \A o \in Heard(forest, s) : next[s] >= o.ttl - 2
    <3>1. s \in DOMAIN k /\ k[s] > 1 /\ next[s] = k[s] - 1 /\ k[s] \in 0 .. 6 /\ s \in Sids
      BY <2>2, <2>3 DEF StillKnown, InitialTtl
    <3>2. next[s] \in 1 .. InitialTtl - 1
      BY <3>1 DEF InitialTtl
    <3>3. ASSUME ~HasTracker, Mentions(forest, s) = {}
          PROVE  /\ \E o \in Heard(forest, s) : next[s] = o.ttl - 2
                 /\ \A o \in Heard(forest, s) : next[s] >= o.ttl - 2
      <4>1. s \in DOMAIN rumoured /\ k[s] = rumoured[s]
        BY <2>5, <3>1, <3>3
      <4>2. /\ \E o \in heard : o.sid = s /\ rumoured[s] = o.ttl - 1
            /\ \A o \in heard : o.sid = s => rumoured[s] >= o.ttl - 1
        BY <2>5, <4>1, Zenon DEF Faded
      <4>3. Heard(forest, s) = {o \in heard : o.sid = s}
        BY Zenon DEF Heard
      <4>4. \A o \in heard : o.ttl \in Nat
        BY <2>5 DEF Rumours, InitialTtl
      <4> HIDE DEF heard
      <4>5. \A o \in Heard(forest, s) : next[s] >= o.ttl - 2
        BY <3>1, <4>1, <4>2, <4>3, <4>4
      <4>6. \E o \in Heard(forest, s) : next[s] = o.ttl - 2
        BY <3>1, <4>1, <4>2, <4>3, <4>4
      <4> QED
        BY <4>5, <4>6
    <3> QED
      BY <3>2, <3>3
  <2> QED
    BY <2>6, Zenon DEF RumoursFade, next
<1> QED
  BY <1>1, ForestInvHolds, PTL

-----------------------------------------------------------------------------
(* to_send_data                                                            *)

\* Level by level: the next level is what is sent of the children of the last.
AreLevels(t, root, depth, level) ==
    /\ level[0] = {root}
    /\ \A n \in 1 .. depth :
          level[n] = {j \in DOMAIN t : t[j].parent \in level[n - 1] /\ t[j].type \in SentTypes}
    /\ \A n \in 0 .. depth : level[n] \subseteq DOMAIN t

LEMMA LevelsEquation ==
    ASSUME NEW t, NEW root \in DOMAIN t, NEW depth \in Nat
    PROVE  AreLevels(t, root, depth, SentLevels(t, root, depth))
<1> DEFINE next(Y) == {j \in DOMAIN t : t[j].parent \in Y /\ t[j].type \in SentTypes}
           Is(f) == f = [d \in 0 .. depth |->
                           IF d = 0 THEN {root}
                           ELSE {j \in DOMAIN t : t[j].parent \in f[d - 1] /\ t[j].type \in SentTypes}]
           level == CHOOSE f : Is(f)
           X == SUBSET DOMAIN t
           a == {root}
           G == [n \in 1 .. depth |-> [Y \in X |-> next(Y)]]
<1>1. G \in [1 .. depth -> [X -> X]] /\ a \in X
  OBVIOUS
<1> HIDE DEF G, X, a
<1>2. PICK f : Iterates(f, depth, X, a, G)
  BY <1>1, Recursion, Zenon
<1>3. \A n \in 0 .. depth : n = 0 \/ n \in 1 .. depth
  OBVIOUS
<1>4. \A n \in 1 .. depth : n \in 0 .. depth /\ n # 0 /\ n - 1 \in 0 .. depth
  OBVIOUS
<1>5. \A n \in 1 .. depth : f[n] = next(f[n - 1])
  <2> TAKE n \in 1 .. depth
  <2>1. G[n] = [Y \in X |-> next(Y)]
    BY Zenon DEF G
  <2>2. f[n - 1] \in X
    BY <1>2, <1>4, Zenon DEF Iterates
  <2> HIDE DEF next
  <2> QED
    BY <1>2, <2>1, <2>2, Zenon DEF Iterates
<1>6. f = [n \in 0 .. depth |-> f[n]]
  BY <1>2, Zenon DEF Iterates
<1>7. Is(f)
  BY <1>2, <1>3, <1>5, <1>6, Zenon DEF Iterates, a
<1>8. Is(level)
  BY <1>7, Zenon
<1>9. SentLevels(t, root, depth) = level
  BY Zenon DEF SentLevels
<1> HIDE DEF level
<1>10. level[0] = {root} /\ \A n \in 1 .. depth : level[n] = next(level[n - 1])
  <2>1. 0 \in 0 .. depth
    OBVIOUS
  <2> QED
    BY <1>4, <1>8, <2>1, Zenon
<1>11. \A n \in 0 .. depth : level[n] \subseteq DOMAIN t
  <2>1. \A n \in 1 .. depth : level[n] \subseteq DOMAIN t
    BY <1>10
  <2> QED
    BY <1>3, <1>10, <2>1
<1> QED
  BY <1>9, <1>10, <1>11, Zenon DEF AreLevels

IsNodes(t) == IsForest(t) /\ \A j \in DOMAIN t : t[j] \in NodeSet

\* A node of a level is as deep as the level, and below the root it is of a
\* type that is sent and a child of the level above.
AreDepths(t, root, depth, level) ==
    \A n \in 0 .. depth : \A j \in level[n] :
       /\ j \in DOMAIN t /\ DepthIn(t, j) = n
       /\ n = 0 => j = root
       /\ n # 0 => j # root /\ t[j].type \in SentTypes /\ t[j].parent \in level[n - 1]

LEMMA LevelDepths ==
    ASSUME NEW t, IsForest(t), NEW root \in DOMAIN t, t[root].parent = 0, NEW depth \in Nat
    PROVE  AreDepths(t, root, depth, SentLevels(t, root, depth))
<1> DEFINE level == SentLevels(t, root, depth)
           S == {n \in 0 .. depth : \A j \in level[n] : DepthIn(t, j) = n}
<1>1. /\ level[0] = {root}
      /\ \A n \in 1 .. depth :
            level[n] = {j \in DOMAIN t : t[j].parent \in level[n - 1] /\ t[j].type \in SentTypes}
      /\ \A n \in 0 .. depth : level[n] \subseteq DOMAIN t
  BY LevelsEquation DEF AreLevels
<1> HIDE DEF level
<1>2. 0 \notin DOMAIN t /\ \A j \in DOMAIN t : j \in Nat
  BY RoutingInfoAssumption DEF IsForest
<1>3. DepthIn(t, root) = 0
  BY Depths
<1>4. 0 \in S
  BY <1>1, <1>3
<1>5. ASSUME NEW n \in 1 .. depth, n - 1 \in S PROVE n \in S
  <2> SUFFICES ASSUME NEW j \in level[n] PROVE DepthIn(t, j) = n
    OBVIOUS
  <2>1. j \in DOMAIN t /\ t[j].parent \in level[n - 1] /\ n - 1 \in 0 .. depth
    BY <1>1
  <2>2. t[j].parent \in DOMAIN t /\ t[j].parent # 0
    BY <1>1, <1>2, <2>1
  <2>3. DepthIn(t, t[j].parent) = n - 1
    BY <1>5, <2>1
  <2>4. DepthIn(t, j) = DepthIn(t, t[j].parent) + 1
    BY <2>1, <2>2, Depths
  <2> QED
    BY <2>3, <2>4
<1> HIDE DEF S
<1>6. 0 .. depth \subseteq S
  BY <1>4, <1>5, InductTo
<1>7. \A n \in 0 .. depth : \A j \in level[n] : DepthIn(t, j) = n
  BY <1>6 DEF S
<1>8. \A n \in 0 .. depth : n = 0 \/ n \in 1 .. depth
  OBVIOUS
<1>9. \A n \in 1 .. depth : \A j \in level[n] : t[j].type \in SentTypes /\ t[j].parent \in level[n - 1]
  BY <1>1, Zenon
<1> QED
  BY <1>1, <1>3, <1>7, <1>8, <1>9, Zenon DEF level, AreDepths

LEMMA RelationCountType ==
    ASSUME NEW t, IsNodes(t), NEW j \in DOMAIN t
    PROVE  RelationCount(t, j) \in Nat
<1>1. Children(t, j) \in Seq(DOMAIN t)
  BY BelowListed DEF IsNodes, Children
<1>2. t[j].count \in Nat \cup {None}
  BY DEF IsNodes, NodeSet
<1>3. Len(Children(t, j)) \in Nat
  BY <1>1, LenProperties
<1> QED
  BY <1>2, <1>3 DEF RelationCount

\* A node is its five fields.
LEMMA NodesEqual ==
    ASSUME NEW m \in NodeSet, NEW n \in NodeSet,
           m.parent = n.parent, m.sid = n.sid, m.type = n.type,
           m.count = n.count, m.known = n.known
    PROVE  m = n
BY DEF NodeSet

\* What is sent is a forest of the levels; only counts and rumours change.
IsSent(t, root, depth, level, s) ==
    /\ s = [j \in DOMAIN s |-> s[j]]
    /\ DOMAIN s = UNION {level[n] : n \in 0 .. depth}
    /\ root \in DOMAIN s /\ DOMAIN s \subseteq DOMAIN t
    /\ \A j \in DOMAIN s :
          /\ s[j].parent = t[j].parent /\ s[j].sid = t[j].sid /\ s[j].type = t[j].type
          /\ s[j].count = IF j \in level[depth] THEN RelationCount(t, j) ELSE t[j].count
          /\ s[j].known = <<>>
    /\ IsNodes(s)

LEMMA SendDataGives ==
    ASSUME NEW t, IsNodes(t), NEW root \in DOMAIN t, t[root].parent = 0, NEW depth \in Nat
    PROVE  IsSent(t, root, depth, SentLevels(t, root, depth), SendData(t, root, depth))
<1> DEFINE level == SentLevels(t, root, depth)
           D == UNION {level[n] : n \in 0 .. depth}
           Sent(j) == [t[j] EXCEPT !.parent = IF j = root THEN 0 ELSE @,
                                   !.known = <<>>,
                                   !.count = IF j \in level[depth] THEN RelationCount(t, j) ELSE @]
           s == SendData(t, root, depth)
<1>1. s = [j \in D |-> Sent(j)]
  BY Zenon DEF SendData
<1>2. /\ level[0] = {root}
      /\ \A n \in 0 .. depth : level[n] \subseteq DOMAIN t
  BY LevelsEquation DEF AreLevels
<1>3. \A n \in 0 .. depth : \A j \in level[n] :
         n # 0 => t[j].parent \in level[n - 1]
  BY LevelDepths DEF IsNodes, AreDepths
<1> HIDE DEF level
<1>4. root \in D /\ D \subseteq DOMAIN t
  BY <1>2
<1> HIDE DEF D
<1>5. DOMAIN s = D /\ \A j \in D : s[j] = Sent(j)
  BY <1>1, Zenon
<1>6. s = [j \in D |-> s[j]]
  BY <1>1, <1>5, Zenon
<1> HIDE DEF s
<1>7. ASSUME NEW j \in D
      PROVE  /\ s[j] \in NodeSet
             /\ s[j].parent = t[j].parent /\ s[j].sid = t[j].sid /\ s[j].type = t[j].type
             /\ s[j].count = IF j \in level[depth] THEN RelationCount(t, j) ELSE t[j].count
             /\ s[j].known = <<>>
  <2> DEFINE n == t[j]
             p == t[j].parent
             c == IF j \in level[depth] THEN RelationCount(t, j) ELSE t[j].count
  <2>1. j \in DOMAIN t /\ n \in NodeSet
    BY <1>4 DEF IsNodes
  <2>2. p \in Nat /\ n.count \in Nat \cup {None}
    BY <2>1 DEF NodeSet
  <2>3. c \in Nat \cup {None}
    BY <2>1, <2>2, RelationCountType
  <2>4. p = IF j = root THEN 0 ELSE n.parent
    OBVIOUS
  <2>5. Sent(j) = [n EXCEPT !.parent = p, !.known = <<>>, !.count = c]
    BY <2>4, Zenon
  <2>6. s[j] = [n EXCEPT !.parent = p, !.known = <<>>, !.count = c]
    BY <1>5, <2>5
  <2> HIDE DEF n, p, c, Sent
  <2> DEFINE m == s[j]
  <2>7. m = [n EXCEPT !.parent = p, !.known = <<>>, !.count = c]
    BY <2>6
  <2> HIDE DEF m
  <2>8. /\ m \in NodeSet
        /\ m.parent = p /\ m.sid = n.sid /\ m.type = n.type
        /\ m.count = c /\ m.known = <<>>
    <3>1. /\ n = [parent |-> n.parent, sid |-> n.sid, type |-> n.type,
                  count |-> n.count, known |-> n.known]
          /\ n.sid \in Sids \cup {None} /\ n.type \in SentTypesAll
      BY <2>1 DEF NodeSet
    <3>2. m = [parent |-> p, sid |-> n.sid, type |-> n.type, count |-> c, known |-> <<>>]
      BY <2>7, <3>1
    <3>3. <<>> \in Seq([sid : Sids, ttl : 1 .. InitialTtl - 1])
      OBVIOUS
    <3> QED
      BY <2>2, <2>3, <3>1, <3>2, <3>3 DEF NodeSet
  <2> QED
    BY <2>8 DEF m, n, p, c
<1>8. IsForest(s)
  <2>1. DOMAIN s \subseteq 1 .. MaxNodes
    BY <1>4, <1>5 DEF IsNodes, IsForest
  <2>2. ASSUME NEW j \in DOMAIN s
        PROVE  s[j].parent \in 0 .. j - 1 /\ (s[j].parent # 0 => s[j].parent \in DOMAIN s)
    <3>1. j \in D /\ j \in DOMAIN t /\ s[j].parent = t[j].parent
      BY <1>4, <1>5, <1>7
    <3>2. s[j].parent \in 0 .. j - 1
      BY <3>1 DEF IsNodes, IsForest
    <3>3. PICK n \in 0 .. depth : j \in level[n]
      BY <3>1 DEF D
    <3>4. CASE n = 0
      BY <1>2, <3>1, <3>2, <3>3, <3>4
    <3>5. CASE n # 0
      <4>1. t[j].parent \in level[n - 1] /\ n - 1 \in 0 .. depth
        BY <1>3, <3>3, <3>5
      <4>2. t[j].parent \in D
        BY <4>1 DEF D
      <4> QED
        BY <1>5, <3>1, <3>2, <4>2
    <3> QED
      BY <3>4, <3>5
  <2> QED
    BY <2>1, <2>2 DEF IsForest
<1>9. IsNodes(s)
  BY <1>5, <1>7, <1>8 DEF IsNodes
<1> QED
  BY <1>4, <1>5, <1>6, <1>7, <1>9, Zenon DEF D, level, s, IsSent

\* The levels of what is sent, and those to a smaller depth, are the same.
LEMMA LevelsAgree ==
    ASSUME NEW t, IsNodes(t), NEW root \in DOMAIN t, t[root].parent = 0,
           NEW e \in Nat, NEW d \in 0 .. e
    PROVE  \A n \in 0 .. d :
              /\ SentLevels(t, root, d)[n] = SentLevels(t, root, e)[n]
              /\ SentLevels(SendData(t, root, e), root, d)[n] = SentLevels(t, root, e)[n]
<1> DEFINE L == SentLevels(t, root, e)
           K == SentLevels(t, root, d)
           s == SendData(t, root, e)
           M == SentLevels(s, root, d)
           S == {n \in 0 .. d : K[n] = L[n] /\ M[n] = L[n]}
<1>1. d \in Nat
  OBVIOUS
<1>2. AreLevels(t, root, e, L)
  BY LevelsEquation, Zenon
<1>3. AreLevels(t, root, d, K)
  BY <1>1, LevelsEquation, Zenon
<1>4. IsSent(t, root, e, L, s)
  BY SendDataGives, Zenon
<1>5. AreLevels(s, root, d, M)
  <2>1. root \in DOMAIN s
    BY <1>4, Zenon DEF IsSent
  <2> QED
    BY <1>1, <2>1, LevelsEquation, Zenon
<1> HIDE DEF L, K, M, s
<1>6. 0 \in S
  <2>1. K[0] = L[0] /\ M[0] = L[0]
    BY <1>2, <1>3, <1>5, Zenon DEF AreLevels
  <2>2. 0 \in 0 .. d
    BY <1>1
  <2> QED
    BY <2>1, <2>2
<1>7. ASSUME NEW n \in 1 .. d, n - 1 \in S PROVE n \in S
  <2>1. K[n - 1] = L[n - 1] /\ M[n - 1] = L[n - 1]
    BY <1>7
  <2>2. n \in 1 .. e /\ n \in 0 .. e /\ n \in 0 .. d
    BY <1>1
  <2>3. L[n] = {j \in DOMAIN t : t[j].parent \in L[n - 1] /\ t[j].type \in SentTypes}
    BY <1>2, <2>2 DEF AreLevels
  <2>4. K[n] = L[n]
    BY <1>3, <2>1, <2>3 DEF AreLevels
  <2>5. L[n] \subseteq DOMAIN s
    BY <1>4, <2>2 DEF IsSent
  <2>6. M[n] = {j \in DOMAIN s : s[j].parent \in L[n - 1] /\ s[j].type \in SentTypes}
    BY <1>5, <2>1 DEF AreLevels
  <2>7. M[n] = L[n]
    BY <1>4, <2>3, <2>5, <2>6 DEF IsSent
  <2> QED
    BY <2>2, <2>4, <2>7
<1> HIDE DEF S
<1>8. 0 .. d \subseteq S
  BY <1>1, <1>6, <1>7, InductTo
<1> QED
  BY <1>8 DEF S, L, K, M, s

\* Sending what was sent to a depth to a smaller or to the same depth is sending
\* it there at once, if the counts that come from children are the same.
LEMMA SendTwice ==
    ASSUME NEW t, IsNodes(t), NEW root \in DOMAIN t, t[root].parent = 0,
           NEW e \in Nat, NEW d \in 0 .. e,
           \A j \in SentLevels(t, root, d)[d] :
              RelationCount(SendData(t, root, e), j) = RelationCount(t, j),
           \A n \in 0 .. d : \A j \in SentLevels(t, root, d)[n] :
              n # d => SendData(t, root, e)[j].count = t[j].count
    PROVE  SendData(SendData(t, root, e), root, d) = SendData(t, root, d)
<1> DEFINE L == SentLevels(t, root, d)
           u == SendData(t, root, d)
           s == SendData(t, root, e)
           v == SendData(s, root, d)
           M == SentLevels(s, root, d)
<1>1. d \in Nat /\ \A n \in 0 .. d : M[n] = L[n]
  BY LevelsAgree
<1>2. IsSent(t, root, d, L, u)
  BY <1>1, SendDataGives, Zenon
<1>3. IsSent(t, root, e, SentLevels(t, root, e), s)
  BY SendDataGives, Zenon
<1>4. root \in DOMAIN s /\ s[root].parent = 0 /\ IsNodes(s)
  BY <1>3, Zenon DEF IsSent
<1>5. IsSent(s, root, d, M, v)
  BY <1>1, <1>4, SendDataGives, Zenon
<1> HIDE DEF L, M, s, u, v
<1>6. DOMAIN v = DOMAIN u
  <2>1. UNION {M[n] : n \in 0 .. d} = UNION {L[n] : n \in 0 .. d}
    BY <1>1, Zenon
  <2> QED
    BY <1>2, <1>5, <2>1 DEF IsSent
<1>7. ASSUME NEW j \in DOMAIN u PROVE v[j] = u[j]
  <2>1. j \in DOMAIN v /\ j \in DOMAIN s /\ d \in 0 .. d
    BY <1>1, <1>5, <1>6 DEF IsSent
  <2>2. v[j].count = u[j].count
    <3>1. CASE j \in L[d]
      <4>1. RelationCount(s, j) = RelationCount(t, j)
        BY <3>1 DEF s, L
      <4>2. j \in M[d]
        BY <1>1, <2>1, <3>1
      <4> QED
        BY <1>2, <1>5, <2>1, <3>1, <4>1, <4>2 DEF IsSent
    <3>2. CASE j \notin L[d]
      <4>1. PICK n \in 0 .. d : j \in L[n]
        BY <1>2 DEF IsSent
      <4>2. n # d
        BY <3>2, <4>1
      <4>3. s[j].count = t[j].count
        BY <4>1, <4>2 DEF s, L
      <4>4. j \notin M[d]
        BY <1>1, <2>1, <3>2
      <4> QED
        BY <1>2, <1>5, <2>1, <3>2, <4>3, <4>4 DEF IsSent
    <3> QED
      BY <3>1, <3>2
  <2>3. v[j] \in NodeSet /\ u[j] \in NodeSet
    BY <1>2, <1>5, <2>1 DEF IsSent, IsNodes
  <2>4. /\ v[j].parent = u[j].parent /\ v[j].sid = u[j].sid /\ v[j].type = u[j].type
        /\ v[j].known = u[j].known
    BY <1>2, <1>3, <1>5, <2>1 DEF IsSent
  <2> QED
    BY <2>2, <2>3, <2>4, NodesEqual, Zenon
<1>8. v = u
  BY <1>2, <1>5, <1>6, <1>7, Zenon DEF IsSent
<1> QED
  BY <1>8 DEF u, v, s

\* Sending a tree to a depth and then to a smaller one is sending it to the
\* smaller one, as far as the tree holds only nodes that are sent; and in what
\* is sent no rumour is left and nothing is deeper than asked for: for every
\* forest and depth.
THEOREM SentDataIsCut == Spec => []SendDataIsCut
<1>1. ForestInv => SendDataIsCut
  <2> SUFFICES ASSUME ForestInv, NEW r \in {i \in DOMAIN forest : IsRoot(i)},
                      NEW d \in 0 .. MaxNodes
               PROVE  LET s == SendData(forest, r, d) IN
                      /\ \A j \in DOMAIN s :
                            /\ DepthIn(s, j) = DepthIn(forest, j) /\ DepthIn(s, j) <= d
                            /\ s[j].known = <<>>
                            /\ j # r => s[j].type \in {"Normal", "Gateway"}
                            /\ DepthIn(s, j) = d => RelationCount(s, j) = RelationCount(forest, j)
                      /\ SendData(s, r, d) = s
                      /\ (\A j \in DOMAIN forest : forest[j].type \in {"Normal", "Gateway"}) =>
                            SendData(SendData(forest, r, d + 1), r, d) = s
    BY Zenon DEF SendDataIsCut
  <2>1. IsNodes(forest) /\ IsForest(forest)
    BY ForestInvIsForest DEF ForestInv, IsNodes
  <2>2. r \in DOMAIN forest /\ forest[r].parent = 0 /\ d \in Nat /\ d + 1 \in Nat
        /\ d \in 0 .. d /\ d \in 0 .. d + 1 /\ d + 1 \in 0 .. d + 1
    BY RoutingInfoAssumption DEF IsRoot
  <2> DEFINE s == SendData(forest, r, d)
             L == SentLevels(forest, r, d)
             M == SentLevels(s, r, d)
             b == SendData(forest, r, d + 1)
             K == SentLevels(forest, r, d + 1)
  <2>3. IsSent(forest, r, d, L, s)
    BY <2>1, <2>2, SendDataGives, Zenon
  <2>4. IsSent(forest, r, d + 1, K, b)
    BY <2>1, <2>2, SendDataGives, Zenon
  <2>5. AreDepths(forest, r, d, L)
    BY <2>1, <2>2, LevelDepths, Zenon
  <2>6. \A n \in 0 .. d : M[n] = L[n]
    BY <2>1, <2>2, LevelsAgree
  <2>7. \A n \in 0 .. d : L[n] = K[n]
    BY <2>1, <2>2, LevelsAgree
  <2>8. AreDepths(forest, r, d + 1, K)
    BY <2>1, <2>2, LevelDepths, Zenon
  <2>9. AreLevels(forest, r, d + 1, K)
    BY <2>2, LevelsEquation, Zenon
  <2>10. r \in DOMAIN s /\ s[r].parent = 0 /\ IsForest(s)
    BY <2>2, <2>3, Zenon DEF IsSent, IsNodes
  <2>11. AreDepths(s, r, d, M)
    BY <2>2, <2>10, LevelDepths, Zenon
  <2> HIDE DEF s, L, M, b, K
  <2>12. ASSUME NEW j \in L[d] PROVE RelationCount(s, j) = RelationCount(forest, j)
    <3>1. j \in DOMAIN forest /\ j \in DOMAIN s
      BY <2>2, <2>3, <2>5 DEF IsSent, AreDepths
    <3>2. s[j].count = RelationCount(forest, j) /\ RelationCount(forest, j) \in Nat
      BY <2>1, <2>3, <3>1, <2>12, RelationCountType DEF IsSent
    <3>3. s[j].count # None
      BY <3>2, RoutingInfoAssumption
    <3> QED
      BY <3>2, <3>3 DEF RelationCount
  <2>13. ASSUME NEW n \in 0 .. d, NEW j \in L[n], n # d PROVE s[j].count = forest[j].count
    <3>1. j \notin L[d]
      BY <2>2, <2>5, <2>13 DEF AreDepths
    <3>2. j \in DOMAIN s
      BY <2>3 DEF IsSent
    <3> QED
      BY <2>3, <3>1, <3>2 DEF IsSent
  <2>14. ASSUME NEW j \in DOMAIN s
         PROVE  /\ DepthIn(s, j) = DepthIn(forest, j) /\ DepthIn(s, j) <= d
                /\ s[j].known = <<>>
                /\ j # r => s[j].type \in {"Normal", "Gateway"}
                /\ DepthIn(s, j) = d => RelationCount(s, j) = RelationCount(forest, j)
    <3>1. PICK n \in 0 .. d : j \in L[n]
      BY <2>3 DEF IsSent
    <3>2. DepthIn(s, j) = n /\ DepthIn(forest, j) = n
      BY <2>5, <2>6, <2>11, <3>1 DEF AreDepths
    <3>3. n <= d
      BY <2>2
    <3>4. j # r => s[j].type \in {"Normal", "Gateway"}
      BY <2>3, <2>5, <3>1 DEF SentTypes, IsSent, AreDepths
    <3> QED
      BY <2>3, <2>12, <3>1, <3>2, <3>3, <3>4 DEF IsSent
  <2>15. SendData(s, r, d) = s
    BY <2>1, <2>2, <2>12, <2>13, SendTwice DEF s, L
  <2>16. ASSUME \A j \in DOMAIN forest : forest[j].type \in {"Normal", "Gateway"}
         PROVE  SendData(b, r, d) = s
    <3>1. ASSUME NEW n \in 0 .. d, NEW j \in L[n]
          PROVE  j \in DOMAIN b /\ j \in DOMAIN forest /\ b[j].count = forest[j].count
      <4>1. j \in K[n] /\ n \in 0 .. d + 1 /\ n # d + 1
        BY <2>2, <2>7
      <4>2. j \notin K[d + 1]
        BY <2>2, <2>8, <4>1 DEF AreDepths
      <4>3. j \in DOMAIN b /\ j \in DOMAIN forest
        BY <2>4, <2>8, <4>1 DEF IsSent, AreDepths
      <4> QED
        BY <2>4, <4>2, <4>3 DEF IsSent
    <3>2. ASSUME NEW j \in L[d] PROVE RelationCount(b, j) = RelationCount(forest, j)
      <4>1. j \in DOMAIN b /\ j \in DOMAIN forest /\ b[j].count = forest[j].count
        BY <2>2, <3>1
      <4>2. Below(forest, j) \subseteq DOMAIN b
        <5> SUFFICES ASSUME NEW i \in DOMAIN forest, forest[i].parent = j PROVE i \in DOMAIN b
          BY DEF Below
        <5>1. j \in K[d]
          BY <2>2, <2>7
        <5>2. i \in K[d + 1]
          <6>1. d + 1 \in 1 .. d + 1 /\ (d + 1) - 1 = d
            BY <2>2
          <6>2. K[d + 1] = {l \in DOMAIN forest : forest[l].parent \in K[(d + 1) - 1] /\ forest[l].type \in SentTypes}
            BY <2>9, <6>1, Zenon DEF AreLevels
          <6> QED
            BY <2>16, <5>1, <6>1, <6>2 DEF SentTypes
        <5> QED
          BY <2>2, <2>4, <5>2 DEF IsSent
      <4>3. Below(b, j) = Below(forest, j)
        BY <2>4, <4>2 DEF Below, IsSent
      <4> QED
        BY <4>1, <4>3, Zenon DEF RelationCount, Children
    <3> QED
      BY <2>1, <2>2, <3>1, <3>2, SendTwice DEF s, b, L
  <2> QED
    BY <2>14, <2>15, <2>16, Zenon DEF s, b
<1> QED
  BY <1>1, ForestInvHolds, PTL
=============================================================================
