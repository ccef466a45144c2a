-------------------------- MODULE InferenceProofs ---------------------------
(***************************************************************************)
(* Proofs about Inference, for any components with any imports between     *)
(* them: sorting, reachability and the groups of looping components, and   *)
(* what they make of the leaks, the independent packages, the rules and    *)
(* their verification.                                                     *)
(***************************************************************************)
EXTENDS Inference, Integers, FiniteSetTheorems, SequenceTheorems, WellFoundedInduction, TLAPS

-----------------------------------------------------------------------------
(* A set of natural numbers has a least one.                               *)
LEMMA LeastNatural ==
  ASSUME NEW T, T \subseteq Nat, T # {}
  PROVE  \E m \in T : \A k \in T : m <= k
<1>1. PICK m \in T : \A k \in T : <<k, m>> \notin OpToRel(<, Nat)
  BY WFMin, NatLessThanWellFounded
<1>2. \A k \in T : ~ (k < m)
  BY <1>1 DEF OpToRel
<1> QED
  BY <1>2

(* Induction up to n: what 0 is in, and each number whose predecessor is,  *)
(* every number is in.                                                     *)
LEMMA FiniteInduction ==
  ASSUME NEW n \in Nat, NEW T, 0 \in T, \A k \in 1 .. n : k - 1 \in T => k \in T
  PROVE  \A k \in 0 .. n : k \in T
<1> DEFINE Out == {k \in 0 .. n : k \notin T}
<1>1. ASSUME Out # {} PROVE FALSE
  <2>1. PICK m \in Out : \A k \in Out : m <= k
    <3>1. Out \subseteq Nat
      OBVIOUS
    <3> HIDE DEF Out
    <3> QED
      BY <1>1, <3>1, LeastNatural
  <2>2. m \in 1 .. n
    BY <2>1
  <2>3. m - 1 \in T
    BY <2>1, <2>2
  <2> QED
    BY <2>1, <2>2, <2>3
<1> QED
  BY <1>1

(* What each step makes of its number and of the value before it, and the  *)
(* values that n steps from v make.                                        *)
IsStep(step, n, V) == step \in [(1 .. n) \X V -> V]

Recursions(step, n, V, v) ==
  {f \in [0 .. n -> V] : f[0] = v /\ \A k \in 1 .. n : f[k] = step[<<k, f[k - 1]>>]}

(* Recursion up to n has a solution.                                       *)
LEMMA FiniteRecursion ==
  ASSUME NEW n \in Nat, NEW V, NEW v \in V, NEW step, IsStep(step, n, V)
  PROVE  Recursions(step, n, V, v) # {}
<1> DEFINE Solves(f, m) == f[0] = v /\ \A k \in 1 .. m : f[k] = step[<<k, f[k - 1]>>]
           Solved == {m \in 0 .. n : \E f \in [0 .. m -> V] : Solves(f, m)}
<1> step \in [(1 .. n) \X V -> V]
  BY DEF IsStep
<1>1. 0 \in Solved
  <2> DEFINE f == [k \in 0 .. 0 |-> v]
  <2>1. f \in [0 .. 0 -> V] /\ f[0] = v
    OBVIOUS
  <2> HIDE DEF f
  <2>2. \E h \in [0 .. 0 -> V] : Solves(h, 0)
    BY <2>1
  <2> QED
    BY <2>2
<1>2. ASSUME NEW m \in 1 .. n, m - 1 \in Solved PROVE m \in Solved
  <2>1. PICK f \in [0 .. m - 1 -> V] : Solves(f, m - 1)
    BY <1>2
  <2> DEFINE g == [k \in 0 .. m |-> IF k = m THEN step[<<m, f[m - 1]>>] ELSE f[k]]
  <2>2. step[<<m, f[m - 1]>>] \in V
    OBVIOUS
  <2>3. g \in [0 .. m -> V]
    BY <2>2
  <2>4. g[0] = v
    BY <2>1
  <2>5. ASSUME NEW k \in 1 .. m PROVE g[k] = step[<<k, g[k - 1]>>]
    <3>1. g[k - 1] = f[k - 1]
      OBVIOUS
    <3>2. CASE k = m
      <4>1. g[m] = step[<<m, f[m - 1]>>]
        OBVIOUS
      <4> QED
        BY <3>1, <3>2, <4>1
    <3>3. CASE k \in 1 .. m - 1
      <4>1. g[k] = f[k]
        BY <3>3
      <4> QED
        BY <2>1, <3>1, <3>3, <4>1
    <3> QED
      BY <3>2, <3>3
  <2> HIDE DEF g
  <2>6. \E h \in [0 .. m -> V] : Solves(h, m)
    BY <2>3, <2>4, <2>5
  <2> QED
    BY <2>6
<1> HIDE DEF Solved
<1>3. n \in Solved
  BY <1>1, <1>2, FiniteInduction
<1> QED
  BY <1>3 DEF Solved, Recursions

-----------------------------------------------------------------------------
(* Verification is not seen from outside: whatever becomes of the run, the *)
(* caller's rules are registered when it is over (infer.py:855-864).       *)
THEOREM LeavesCallerUndisturbed == Spec => []CallerUndisturbed
<1>1. Init => CallerUndisturbed
  BY DEF Init, CallerUndisturbed
<1>2. CallerUndisturbed /\ [Next]_vars => CallerUndisturbed'
  BY DEF CallerUndisturbed, Next, vars, Cut, Judge, InferLayers, InferIndependent, Protect,
    BuildRules, Execute, RunRules, Raise, Downgrade, Done, Over
<1> QED
  BY <1>1, <1>2, PTL DEF Spec

-----------------------------------------------------------------------------
(* The pairs in this set order these elements.                             *)
Orders(before, S) ==
  /\ \A x, y \in S : x = y \/ <<x, y>> \in before \/ <<y, x>> \in before
  /\ \A x, y \in S : ~ (<<x, y>> \in before /\ <<y, x>> \in before)
  /\ \A x, y, z \in S : <<x, y>> \in before /\ <<y, z>> \in before => <<x, z>> \in before

(* Of finitely many elements that all compare, one is as great as any ...  *)
Compares(upTo, S) ==
  /\ \A x, y \in S : <<x, y>> \in upTo \/ <<y, x>> \in upTo
  /\ \A x, y, z \in S : <<x, y>> \in upTo /\ <<y, z>> \in upTo => <<x, z>> \in upTo

LEMMA GreatestElement ==
  ASSUME NEW S, IsFiniteSet(S), S # {}, NEW upTo, Compares(upTo, S)
  PROVE  \E x \in S : \A y \in S : <<y, x>> \in upTo
<1> DEFINE n == Cardinality(S)
<1>1. n \in Nat /\ ExistsBijection(1 .. n, S)
  BY FS_CardinalityType
<1>2. PICK f \in [1 .. n -> S] : \A x \in S : \E i \in 1 .. n : f[i] = x
  BY <1>1 DEF ExistsBijection, Bijection, Surjection
<1> HIDE DEF n
<1> DEFINE Greatest(k) == \E x \in S : \A i \in 1 .. k : <<f[i], x>> \in upTo
           T == {k \in 0 .. n : Greatest(k)}
<1>3. 0 \in T
  BY <1>1
<1>4. ASSUME NEW k \in 1 .. n, k - 1 \in T PROVE k \in T
  <2>1. PICK x \in S : \A i \in 1 .. k - 1 : <<f[i], x>> \in upTo
    BY <1>4
  <2>2. f[k] \in S
    BY <1>1
  <2>3. CASE <<f[k], x>> \in upTo
    <3>1. \A i \in 1 .. k : <<f[i], x>> \in upTo
      BY <2>1, <2>3, <1>1
    <3> QED
      BY <3>1, <1>1
  <2>4. CASE <<x, f[k]>> \in upTo
    <3>1. ASSUME NEW i \in 1 .. k - 1 PROVE <<f[i], f[k]>> \in upTo
      <4>1. f[i] \in S
        BY <1>1
      <4> QED
        BY <2>1, <2>2, <2>4, <4>1 DEF Compares
    <3>2. <<f[k], f[k]>> \in upTo
      BY <2>2 DEF Compares
    <3>3. \A i \in 1 .. k : <<f[i], f[k]>> \in upTo
      BY <3>1, <3>2, <1>1
    <3>4. Greatest(k)
      BY <2>2, <3>3
    <3> QED
      BY <3>4, <1>1
  <2> QED
    BY <2>2, <2>3, <2>4 DEF Compares
<1> HIDE DEF T
<1>5. n \in T
  BY <1>1, <1>3, <1>4, FiniteInduction
<1> QED
  BY <1>2, <1>5 DEF T

LEMMA LastElement ==
  ASSUME NEW S, IsFiniteSet(S), S # {}, NEW before, Orders(before, S)
  PROVE  \E x \in S : \A y \in S : y = x \/ <<y, x>> \in before
<1> DEFINE upTo == {xy \in S \X S : xy[1] = xy[2] \/ xy \in before}
<1>1. \A x, y \in S : <<x, y>> \in upTo <=> x = y \/ <<x, y>> \in before
  OBVIOUS
<1> HIDE DEF upTo
<1>2. Compares(upTo, S)
  BY <1>1 DEF Compares, Orders
<1>3. PICK x \in S : \A y \in S : <<y, x>> \in upTo
  BY <1>2, GreatestElement
<1> QED
  BY <1>1, <1>3

(* ... and can be sorted: Sorted has every element, once and in order.     *)
Sorts(s, S, before) ==
  /\ s \in [1 .. Cardinality(S) -> S]
  /\ \A i, j \in 1 .. Cardinality(S) : i < j => <<s[i], s[j]>> \in before

LEMMA CanBeSorted ==
  ASSUME NEW B, IsFiniteSet(B), NEW before, Orders(before, B)
  PROVE  \E s : Sorts(s, B, before)
<1> DEFINE n == Cardinality(B)
           T == {k \in 0 .. n : \A S \in SUBSET B :
                   Cardinality(S) = k => \E s : Sorts(s, S, before)}
<1>1. n \in Nat
  BY FS_CardinalityType
<1>2. 0 \in T
  <2>1. ASSUME NEW S \in SUBSET B, Cardinality(S) = 0 PROVE \E s : Sorts(s, S, before)
    <3>1. Sorts([i \in {} |-> i], S, before)
      <4>1. 1 .. Cardinality(S) = {}
        BY <2>1
      <4>2. [i \in {} |-> i] \in [{} -> S]
        OBVIOUS
      <4> QED
        BY <4>1, <4>2 DEF Sorts
    <3> QED
      BY <3>1
  <2> QED
    BY <1>1, <2>1
<1>3. ASSUME NEW k \in 1 .. n, k - 1 \in T PROVE k \in T
  <2>1. ASSUME NEW S \in SUBSET B, Cardinality(S) = k PROVE \E s : Sorts(s, S, before)
    <3>1. IsFiniteSet(S) /\ S # {}
      BY <2>1, FS_Subset, FS_EmptySet
    <3>2. PICK x \in S : \A y \in S : y = x \/ <<y, x>> \in before
      <4>1. Orders(before, S)
        BY DEF Orders
      <4> QED
        BY <3>1, <4>1, LastElement
    <3>3. Cardinality(S \ {x}) = k - 1
      BY <2>1, <3>1, FS_RemoveElement
    <3>4. PICK r : Sorts(r, S \ {x}, before)
      BY <1>3, <3>3
    <3> DEFINE s == [i \in 1 .. k |-> IF i = k THEN x ELSE r[i]]
    <3>5. r \in [1 .. k - 1 -> S \ {x}]
          /\ \A i, j \in 1 .. k - 1 : i < j => <<r[i], r[j]>> \in before
      BY <3>3, <3>4 DEF Sorts
    <3>6. s \in [1 .. k -> S] /\ s[k] = x /\ \A i \in 1 .. k - 1 : s[i] = r[i]
      BY <1>1, <3>5
    <3> HIDE DEF s
    <3>7. ASSUME NEW i \in 1 .. k, NEW j \in 1 .. k, i < j PROVE <<s[i], s[j]>> \in before
      <4>1. i \in 1 .. k - 1
        BY <1>1, <3>7
      <4>2. CASE j = k
        BY <3>2, <3>5, <3>6, <4>1, <4>2
      <4>3. CASE j # k
        <5>1. j \in 1 .. k - 1
          BY <1>1, <4>3
        <5> QED
          BY <3>5, <3>6, <3>7, <4>1, <5>1
      <4> QED
        BY <4>2, <4>3
    <3>8. Sorts(s, S, before)
      BY <2>1, <3>6, <3>7 DEF Sorts
    <3> QED
      BY <3>8
  <2> QED
    BY <1>1, <2>1
<1> HIDE DEF T
<1>4. n \in T
  BY <1>1, <1>2, <1>3, FiniteInduction
<1> QED
  BY <1>4 DEF T

LEMMA SortedIsSorted ==
  ASSUME NEW S, IsFiniteSet(S), NEW before, Orders(before, S)
  PROVE  /\ Sorts(Sorted(S, before), S, before)
         /\ DOMAIN Sorted(S, before) = 1 .. Cardinality(S)
         /\ \A x \in S : \E i \in 1 .. Cardinality(S) : Sorted(S, before)[i] = x
<1> DEFINE n == Cardinality(S)
           s == Sorted(S, before)
<1>1. n \in Nat
  BY FS_CardinalityType
<1>2. Sorts(s, S, before)
  <2>1. PICK r : Sorts(r, S, before)
    BY CanBeSorted
  <2>2. r \in [1 .. n -> S] /\ \A i, j \in DOMAIN r : i < j => <<r[i], r[j]>> \in before
    BY <2>1 DEF Sorts
  <2>3. s \in [1 .. n -> S] /\ \A i, j \in DOMAIN s : i < j => <<s[i], s[j]>> \in before
    BY <2>2 DEF Sorted
  <2> QED
    BY <2>3 DEF Sorts
<1> HIDE DEF s, n
<1>3. s \in Injection(1 .. n, S)
  <2>1. s \in [1 .. n -> S] /\ \A i, j \in 1 .. n : i < j => <<s[i], s[j]>> \in before
    BY <1>2 DEF Sorts, n
  <2>2. \A i, j \in 1 .. n : i < j => s[i] # s[j]
    BY <2>1 DEF Orders
  <2>3. \A i, j \in 1 .. n : s[i] = s[j] => i = j
    BY <1>1, <2>2
  <2> QED
    BY <2>1, <2>3 DEF Injection, IsInjective
<1>4. s \in Surjection(1 .. n, S)
  <2>1. Cardinality(1 .. n) = n
    BY <1>1, FS_Interval
  <2> QED
    BY <1>3, <2>1, FS_Injection DEF n
<1>5. DOMAIN s = 1 .. n
  BY <1>2 DEF Sorts, n
<1> QED
  BY <1>2, <1>4, <1>5 DEF Surjection, s, n

-----------------------------------------------------------------------------
(* Reachability, as it is defined by the sets of components that have all  *)
(* that their members import.                                              *)
IsClosed(S, es) ==
  S \in SUBSET Components /\ \A e \in es : e[1] \in S => e[2] \in S

LEMMA ReachByClosed ==
  ASSUME NEW es, NEW m, NEW n
  PROVE  <<m, n>> \in Reach(es) <=>
           /\ m \in Components /\ n \in Components
           /\ \A S : IsClosed(S, es) /\ m \in S => n \in S
<1> DEFINE closed == {S \in SUBSET Components : \A e \in es : e[1] \in S => e[2] \in S}
<1>1. \A S : S \in closed <=> IsClosed(S, es)
  BY DEF IsClosed
<1>2. Reach(es) = {mn \in Components \X Components : \A S \in closed : mn[1] \in S => mn[2] \in S}
  BY DEF Reach
<1> HIDE DEF closed
<1> QED
  BY <1>1, <1>2

LEMMA ReachIsPreorder ==
  ASSUME NEW es
  PROVE  /\ \A m \in Components : <<m, m>> \in Reach(es)
         /\ \A m, n, o : <<m, n>> \in Reach(es) /\ <<n, o>> \in Reach(es) => <<m, o>> \in Reach(es)
         /\ \A m, n : <<m, n>> \in Reach(es) => m \in Components /\ n \in Components
         /\ \A m, n \in Components : <<m, n>> \in es => <<m, n>> \in Reach(es)
<1>1. \A m \in Components : <<m, m>> \in Reach(es)
  BY ReachByClosed
<1>2. ASSUME NEW m, NEW n, NEW o, <<m, n>> \in Reach(es), <<n, o>> \in Reach(es)
      PROVE  <<m, o>> \in Reach(es)
  <2>1. m \in Components /\ o \in Components
    BY <1>2, ReachByClosed
  <2>2. ASSUME NEW S, IsClosed(S, es), m \in S PROVE o \in S
    <3>1. n \in S
      BY <1>2, <2>2, ReachByClosed
    <3> QED
      BY <1>2, <2>2, <3>1, ReachByClosed
  <2> QED
    BY <2>1, <2>2, ReachByClosed
<1>3. \A m, n : <<m, n>> \in Reach(es) => m \in Components /\ n \in Components
  BY ReachByClosed
<1>4. ASSUME NEW m \in Components, NEW n \in Components, <<m, n>> \in es
      PROVE  <<m, n>> \in Reach(es)
  <2>1. ASSUME NEW S, IsClosed(S, es), m \in S PROVE n \in S
    BY <1>4, <2>1 DEF IsClosed
  <2> QED
    BY <2>1, ReachByClosed
<1> QED
  BY <1>1, <1>2, <1>3, <1>4

LEMMA ReachIsMonotone ==
  ASSUME NEW es, NEW fs, es \subseteq fs
  PROVE  Reach(es) \subseteq Reach(fs)
<1>1. ASSUME NEW S, IsClosed(S, fs) PROVE IsClosed(S, es)
  BY <1>1 DEF IsClosed
<1>2. ASSUME NEW m, NEW n, <<m, n>> \in Reach(es) PROVE <<m, n>> \in Reach(fs)
  BY <1>1, <1>2, ReachByClosed
<1>3. ASSUME NEW mn \in Reach(es) PROVE mn \in Reach(fs)
  <2>1. mn = <<mn[1], mn[2]>>
    BY DEF Reach
  <2>2. <<mn[1], mn[2]>> \in Reach(fs)
    BY <1>2, <2>1
  <2> QED
    BY <2>1, <2>2
<1> QED
  BY <1>3

(* What closes a loop does so without the import that the loop starts      *)
(* with: the way back ends where that import starts.                       *)
LEMMA WayBackWithout ==
  ASSUME NEW es, NEW e \in Pairs, <<e[2], e[1]>> \in Reach(es)
  PROVE  <<e[2], e[1]>> \in Reach(es \ {e})
<1>1. e[1] \in Components /\ e[2] \in Components
  BY DEF Pairs
<1>2. ASSUME NEW S, IsClosed(S, es \ {e}), e[2] \in S, e[1] \notin S PROVE FALSE
  <2>1. \A f \in es : f[1] \in S => f # e
    BY <1>2
  <2>2. IsClosed(S, es)
    BY <1>2, <2>1 DEF IsClosed
  <2> QED
    BY <1>2, <2>2, ReachByClosed
<1>3. \A S : IsClosed(S, es \ {e}) /\ e[2] \in S => e[1] \in S
  BY <1>2
<1> HIDE DEF IsClosed
<1> DEFINE fs == es \ {e}
           m == e[2]
           n == e[1]
<1>4. \A S : IsClosed(S, fs) /\ m \in S => n \in S
  BY <1>3
<1>5. m \in Components /\ n \in Components
  BY <1>1
<1> HIDE DEF fs, m, n
<1>6. <<m, n>> \in Reach(fs)
  BY <1>4, <1>5, ReachByClosed
<1> QED
  BY <1>6 DEF fs, m, n

-----------------------------------------------------------------------------
(* The groups: two of them share no component, and of two that reach each  *)
(* other both are in one.                                                  *)
LEMMA GroupMembers ==
  ASSUME NEW g \in Groups
  PROVE  /\ g \in SUBSET Components /\ g # {}
         /\ \A m \in g, n \in Components :
              n \in g <=> <<m, n>> \in Reach(Edges) /\ <<n, m>> \in Reach(Edges)
<1> DEFINE class(m) == {n \in Components : {<<m, n>>, <<n, m>>} \subseteq Reach(Edges)}
<1>1. PICK c \in Components : g = class(c) /\ Cardinality(g) > 1
  BY DEF Groups
<1>2. c \in g
  BY <1>1, ReachIsPreorder
<1>3. ASSUME NEW m \in g, NEW n \in Components
      PROVE  n \in g <=> <<m, n>> \in Reach(Edges) /\ <<n, m>> \in Reach(Edges)
  <2>1. <<c, m>> \in Reach(Edges) /\ <<m, c>> \in Reach(Edges)
    BY <1>1
  <2> QED
    BY <1>1, <2>1, ReachIsPreorder
<1> QED
  BY <1>1, <1>2, <1>3

LEMMA GroupsAreDisjoint ==
  ASSUME NEW g \in Groups, NEW h \in Groups, NEW c \in g, c \in h
  PROVE  g = h
<1>1. g \in SUBSET Components /\ h \in SUBSET Components
  BY GroupMembers
<1>2. \A n \in Components :
        /\ n \in g <=> <<c, n>> \in Reach(Edges) /\ <<n, c>> \in Reach(Edges)
        /\ n \in h <=> <<c, n>> \in Reach(Edges) /\ <<n, c>> \in Reach(Edges)
  BY GroupMembers
<1> QED
  BY <1>1, <1>2

LEMMA LoopingAreGrouped ==
  ASSUME NEW m \in Components, NEW n \in Components, m # n,
         <<m, n>> \in Reach(Edges), <<n, m>> \in Reach(Edges)
  PROVE  \E g \in Groups : m \in g /\ n \in g
<1> DEFINE class(c) == {d \in Components : {<<c, d>>, <<d, c>>} \subseteq Reach(Edges)}
<1>1. m \in class(m) /\ n \in class(m)
  BY ReachIsPreorder
<1>2. Cardinality(class(m)) > 1
  <2>1. IsFiniteSet(class(m))
    BY ConstantAssumption, FS_Subset DEF ConstantAssumption
  <2>2. IsFiniteSet({m}) /\ Cardinality({m}) = 1
    BY FS_Singleton
  <2>3. {m, n} = {m} \cup {n} /\ Cardinality({m} \cup {n}) = 2 /\ IsFiniteSet({m, n})
    BY <2>2, FS_AddElement
  <2>4. {m, n} \in SUBSET class(m)
    BY <1>1
  <2> HIDE DEF class
  <2>5. Cardinality({m, n}) <= Cardinality(class(m)) /\ Cardinality(class(m)) \in Nat
    BY <2>1, <2>4, FS_Subset, FS_CardinalityType
  <2> QED
    BY <2>3, <2>5
<1>3. class(m) \in Groups
  BY <1>2 DEF Groups
<1> HIDE DEF class
<1> QED
  BY <1>1, <1>3

-----------------------------------------------------------------------------
(* What is known of a group that was judged to have leaks: they are rare,  *)
(* and without them no import of the group is on a loop.                   *)
IsSound(g) ==
  /\ (LeakRatio + 1) * Weight(Inside(leaks, g)) <= Weight(Inside(Edges, g))
  /\ LET left == Inside(Edges, g) \ leaks
     IN  \A e \in left : <<e[2], e[1]>> \notin Reach(left)

(* The inductive invariant: the groups are judged one by one, the imports  *)
(* cut are of the group in hand, and each leak is of a group judged.       *)
Tangles ==
  /\ imports \in [Pairs -> Nat]
  /\ judged \subseteq Groups /\ tangled \subseteq judged
  /\ phase # "tangles" => judged = Groups
  /\ judged = Groups => cut = {}
  /\ judged # Groups => cut \subseteq Inside(Edges, Group)
  /\ \A e \in leaks : \E g \in judged \ tangled : e \in Inside(Edges, g)
  /\ \A e \in leaks \cup cut : <<e[2], e[1]>> \in Reach(Edges \ {e})
  /\ \A g \in judged \ tangled : IsSound(g)

LEMMA WeightIsNat ==
  ASSUME imports \in [Pairs -> Nat], NEW es, es \subseteq Edges
  PROVE  IsFiniteSet(es) /\ Weight(es) \in Nat
<1>1. IsFiniteSet(Components)
  BY ConstantAssumption DEF ConstantAssumption
<1>2. IsFiniteSet(Components \X Components)
  BY <1>1, FS_Product
<1>3. IsFiniteSet(es)
  <2>1. es \in SUBSET (Components \X Components)
    BY DEF Edges, Pairs
  <2> QED
    BY <1>2, <2>1, FS_Subset
<1> DEFINE units(e) == {e} \X (1 .. imports[e])
           T == {units(e) : e \in es}
<1>4. IsFiniteSet(T)
  <2>1. PICK n \in Nat : ExistsSurjection(1 .. n, es)
    BY <1>3, FS_NatSurjection
  <2>2. PICK f \in [1 .. n -> es] : \A e \in es : \E i \in 1 .. n : f[i] = e
    BY <2>1 DEF ExistsSurjection, Surjection
  <2> DEFINE h == [i \in 1 .. n |-> units(f[i])]
  <2>3. h \in [1 .. n -> T]
    BY <2>2
  <2>4. \A t \in T : \E i \in 1 .. n : h[i] = t
    BY <2>2
  <2> HIDE DEF h, T
  <2>5. h \in Surjection(1 .. n, T)
    BY <2>3, <2>4 DEF Surjection
  <2> QED
    BY <2>1, <2>5, FS_NatSurjection DEF ExistsSurjection
<1>5. ASSUME NEW t \in T PROVE IsFiniteSet(t)
  <2>1. PICK e \in es : t = units(e)
    BY <1>5
  <2>2. imports[e] \in Nat
    BY DEF Edges
  <2>3. IsFiniteSet({e})
    BY FS_Singleton
  <2>4. IsFiniteSet(1 .. imports[e])
    BY <2>2, FS_Interval
  <2> QED
    BY <2>1, <2>3, <2>4, FS_Product
<1>6. IsFiniteSet(UNION T)
  <2> HIDE DEF T
  <2> QED
    BY <1>4, <1>5, FS_UNION
<1> QED
  BY <1>3, <1>6, FS_CardinalityType DEF Weight

(* As long as groups are left to judge, Group is one of them.              *)
LEMMA GroupIsLeft ==
  ASSUME judged \subseteq Groups, judged # Groups
  PROVE  Group \in Groups \ judged
<1> DEFINE left == Groups \ judged
           mins == {Min(g) : g \in left}
<1>1. ASSUME NEW g \in left PROVE Min(g) \in Nat
  <2>1. g \subseteq Nat /\ g # {}
    BY GroupMembers, ConstantAssumption DEF ConstantAssumption
  <2>2. PICK m \in g : \A k \in g : m <= k
    BY <2>1, LeastNatural
  <2>3. Min(g) \in g
    BY <2>2 DEF Min
  <2> QED
    BY <2>1, <2>3
<1>2. mins \subseteq Nat /\ mins # {}
  BY <1>1
<1>3. PICK m \in mins : \A k \in mins : m <= k
  <2> HIDE DEF mins
  <2> QED
    BY <1>2, LeastNatural
<1>4. \E g \in left : \A h \in left : Min(g) <= Min(h)
  BY <1>3
<1>5. Group = CHOOSE g \in left : \A h \in left : Min(g) <= Min(h)
  BY DEF Group
<1> HIDE DEF left
<1>6. Group \in left
  BY <1>4, <1>5
<1> QED
  BY <1>6 DEF left

(* What the imports alone decide stays as it is.                           *)
LEMMA CodeDecides ==
  UNCHANGED imports => Edges' = Edges /\ Groups' = Groups
<1>1. ASSUME UNCHANGED imports PROVE Edges' = Edges
  BY <1>1 DEF Edges, Pairs
<1>2. ASSUME Edges' = Edges PROVE Groups' = Groups
  <2>1. Reach(Edges)' = Reach(Edges)
    BY <1>2 DEF Reach
  <2> QED
    BY <2>1 DEF Groups
<1> QED
  BY <1>1, <1>2

(* A group with the same leaks is as sound as before.                      *)
LEMMA SoundnessByLeaks ==
  ASSUME UNCHANGED imports, NEW g, Inside(Edges, g) \cap leaks' = Inside(Edges, g) \cap leaks,
         leaks \subseteq Edges, leaks' \subseteq Edges, IsSound(g)
  PROVE  IsSound(g)'
<1>1. Edges' = Edges
  BY CodeDecides
<1>2. Inside(leaks, g)' = Inside(leaks, g)
  BY DEF Inside
<1>3. Inside(Edges, g)' = Inside(Edges, g)
  BY <1>1 DEF Inside
<1>4. Weight(Inside(leaks, g))' = Weight(Inside(leaks, g))
  BY <1>2 DEF Weight
<1>5. Weight(Inside(Edges, g))' = Weight(Inside(Edges, g))
  BY <1>3 DEF Weight
<1>6. (Inside(Edges, g) \ leaks)' = Inside(Edges, g) \ leaks
  BY <1>3
<1> DEFINE left == Inside(Edges, g) \ leaks
<1>7. /\ (LeakRatio + 1) * Weight(Inside(leaks, g)) <= Weight(Inside(Edges, g))
      /\ \A e \in left : <<e[2], e[1]>> \notin Reach(left)
  BY DEF IsSound
<1>8. /\ ((LeakRatio + 1) * Weight(Inside(leaks, g)) <= Weight(Inside(Edges, g)))'
      /\ (\A e \in left : <<e[2], e[1]>> \notin Reach(left))'
  <2>1. ((LeakRatio + 1) * Weight(Inside(leaks, g)) <= Weight(Inside(Edges, g)))'
    BY <1>4, <1>5, <1>7
  <2>2. (\A e \in left : <<e[2], e[1]>> \notin Reach(left))'
    BY <1>6, <1>7 DEF Reach
  <2> QED
    BY <2>1, <2>2
<1> QED
  BY <1>8 DEF IsSound

LEMMA LeaksAreImports ==
  Tangles => leaks \subseteq Edges /\ cut \subseteq Edges
  BY DEF Tangles, Inside

LEMMA TanglesKept ==
  ASSUME Tangles, UNCHANGED <<imports, judged, cut, leaks, tangled>>,
         phase' # "tangles" => judged = Groups
  PROVE  Tangles'
<1>1. Edges' = Edges /\ Groups' = Groups
  BY CodeDecides
<1>2. Group' = Group
  BY <1>1 DEF Group
<1>3. \A g : Inside(Edges, g)' = Inside(Edges, g)
  BY <1>1 DEF Inside
<1>4. \A es : Reach(es)' = Reach(es)
  BY DEF Reach
<1>5. (\A g \in judged \ tangled : IsSound(g))'
  <2>1. ASSUME NEW g \in judged \ tangled PROVE IsSound(g)'
    BY LeaksAreImports, <2>1, SoundnessByLeaks DEF Tangles
  <2> QED
    BY <2>1
<1>6. (\A e \in leaks : \E g \in judged \ tangled : e \in Inside(Edges, g))'
  BY <1>3 DEF Tangles
<1>7. (\A e \in leaks \cup cut : <<e[2], e[1]>> \in Reach(Edges \ {e}))'
  BY <1>1, <1>4 DEF Tangles
<1>8. (cut \subseteq Inside(Edges, Group))' <=> cut \subseteq Inside(Edges, Group)
  BY <1>1, <1>2 DEF Inside
<1> QED
  BY <1>1, <1>5, <1>6, <1>7, <1>8 DEF Tangles, Pairs

(* A cut is of the group in hand, and on a loop within it.                 *)
LEMMA CutKeepsTangles ==
  ASSUME Tangles, Cut PROVE Tangles'
<1>1. PICK e \in Looping : cut' = cut \cup {e}
  BY DEF Cut
<1>2. /\ phase = "tangles" /\ phase' = phase /\ judged # Groups
      /\ UNCHANGED <<imports, judged, leaks, tangled>>
  BY DEF Cut, code
<1>3. Edges' = Edges /\ Groups' = Groups
  BY <1>2, CodeDecides
<1>4. Group' = Group
  BY <1>2, <1>3 DEF Group
<1> DEFINE left == Inside(Edges, Group) \ cut
<1>5. e \in left /\ <<e[2], e[1]>> \in Reach(left)
  BY DEF Looping
<1>6. e \in Edges /\ e \in Pairs /\ left \subseteq Edges
  BY <1>5 DEF Inside, Edges
<1>7. <<e[2], e[1]>> \in Reach(Edges \ {e})
  <2> HIDE DEF left
  <2>1. <<e[2], e[1]>> \in Reach(Edges)
    BY <1>5, <1>6, ReachIsMonotone
  <2> QED
    BY <1>6, <2>1, WayBackWithout
<1>8. cut' \subseteq Inside(Edges, Group)
  BY <1>1, <1>2, <1>5 DEF Tangles
<1>9. (\A g \in judged \ tangled : IsSound(g))'
  <2>1. ASSUME NEW g \in judged \ tangled PROVE IsSound(g)'
    BY <1>2, LeaksAreImports, <2>1, SoundnessByLeaks DEF Tangles
  <2> QED
    BY <1>2, <2>1
<1>10. (\A f \in leaks \cup cut : <<f[2], f[1]>> \in Reach(Edges \ {f}))'
  <2>1. \A es : Reach(es)' = Reach(es)
    BY DEF Reach
  <2>2. \A f \in leaks' \cup cut' : <<f[2], f[1]>> \in Reach(Edges \ {f})
    BY <1>1, <1>2, <1>7 DEF Tangles
  <2> QED
    BY <1>3, <2>1, <2>2
<1>11. (\A f \in leaks : \E g \in judged \ tangled : f \in Inside(Edges, g))'
  BY <1>2, <1>3 DEF Tangles, Inside
<1>12. (cut \subseteq Inside(Edges, Group))'
  BY <1>3, <1>4, <1>8 DEF Inside
<1> QED
  BY <1>2, <1>3, <1>9, <1>10, <1>11, <1>12 DEF Tangles, Pairs

(* Judging adds one group, whose leaks are what was cut of it: no other    *)
(* group shares an import with it.                                         *)
LEMMA JudgeKeepsTangles ==
  ASSUME Tangles, Judge PROVE Tangles'
<1>0. PICK G : G = Group
  OBVIOUS
<1> DEFINE left == Inside(Edges, G) \ cut
<1>1. /\ phase = "tangles" /\ phase' = phase /\ judged # Groups
      /\ UNCHANGED imports /\ cut' = {} /\ judged' = judged \cup {G}
      /\ Looping = {}
  BY <1>0 DEF Judge, code
<1>2. Edges' = Edges /\ Groups' = Groups
  BY <1>1, CodeDecides
<1>3. G \in Groups /\ G \notin judged /\ G \notin tangled
  BY <1>0, <1>1, GroupIsLeft DEF Tangles
<1>4. cut \subseteq Inside(Edges, G)
  BY <1>0, <1>1 DEF Tangles
<1>5. ASSUME NEW g \in judged PROVE Inside(Edges, g) \cap Inside(Edges, G) = {}
  <2>1. g \cap G = {}
    BY <1>3, <1>5, GroupsAreDisjoint DEF Tangles
  <2> QED
    BY <2>1 DEF Inside, Edges, Pairs
<1>6. \A e \in left : <<e[2], e[1]>> \notin Reach(left)
  BY <1>0, <1>1 DEF Looping
<1>7. \/ /\ Weight(cut) * LeakRatio <= Weight(Inside(Edges, G)) - Weight(cut)
         /\ leaks' = leaks \cup cut /\ UNCHANGED tangled
      \/ tangled' = tangled \cup {G} /\ UNCHANGED leaks
  BY <1>0 DEF Judge
<1>8. leaks \subseteq Edges /\ leaks' \subseteq Edges /\ cut \subseteq Edges
  BY LeaksAreImports, <1>7
<1>9. ASSUME NEW g \in judged \ tangled PROVE IsSound(g)'
  <2>1. Inside(Edges, g) \cap leaks' = Inside(Edges, g) \cap leaks
    BY <1>4, <1>5, <1>7
  <2> QED
    BY <1>1, <1>8, <2>1, SoundnessByLeaks DEF Tangles
<1>10. ASSUME G \notin tangled' PROVE IsSound(G)'
  <2>1. /\ Weight(cut) * LeakRatio <= Weight(Inside(Edges, G)) - Weight(cut)
        /\ leaks' = leaks \cup cut
    BY <1>7, <1>10
  <2>2. leaks \cap Inside(Edges, G) = {}
    BY <1>5 DEF Tangles
  <2>3. Inside(leaks', G) = cut
    BY <1>4, <1>8, <2>1, <2>2 DEF Inside
  <2>4. Inside(Edges, G) \ leaks' = left
    BY <2>1, <2>2
  <2>5. Weight(cut) \in Nat /\ Weight(Inside(Edges, G)) \in Nat
    <3>1. Inside(Edges, G) \subseteq Edges
      BY DEF Inside
    <3> QED
      BY <1>8, <3>1, WeightIsNat DEF Tangles
  <2>6. (LeakRatio + 1) * Weight(cut) <= Weight(Inside(Edges, G))
    <3> DEFINE a == Weight(cut)
               t == Weight(Inside(Edges, G))
    <3>1. a \in Nat /\ t \in Nat /\ LeakRatio \in Nat /\ a * LeakRatio <= t - a
      BY <2>1, <2>5, ConstantAssumption DEF ConstantAssumption
    <3> HIDE DEF a, t
    <3>2. (LeakRatio + 1) * a = a * LeakRatio + a
      BY <3>1
    <3>3. a * LeakRatio \in Nat
      BY <3>1
    <3>4. a * LeakRatio + a <= t
      BY <3>1, <3>3
    <3> QED
      BY <3>2, <3>4 DEF a, t
  <2>7. (Inside(leaks, G))' = cut /\ (Inside(Edges, G))' = Inside(Edges, G)
    BY <1>2, <2>3 DEF Inside
  <2>8. ((LeakRatio + 1) * Weight(Inside(leaks, G)) <= Weight(Inside(Edges, G)))'
    <3>1. (Weight(Inside(leaks, G)))' = Weight(cut)
          /\ (Weight(Inside(Edges, G)))' = Weight(Inside(Edges, G))
      BY <1>1, <2>7 DEF Weight
    <3> QED
      BY <2>6, <3>1
  <2>9. (Inside(Edges, G) \ leaks)' = left
    BY <2>4, <2>7
  <2>10. (\A e \in Inside(Edges, G) \ leaks :
            <<e[2], e[1]>> \notin Reach(Inside(Edges, G) \ leaks))'
    <3>1. (Reach(Inside(Edges, G) \ leaks))' = Reach(left)
      BY <2>9 DEF Reach
    <3> QED
      BY <1>6, <2>9, <3>1
  <2> QED
    BY <2>8, <2>10 DEF IsSound
<1>11. (\A g \in judged \ tangled : IsSound(g))'
  <2>1. ASSUME NEW g \in judged' \ tangled' PROVE IsSound(g)'
    <3>1. CASE g = G
      BY <1>10, <2>1, <3>1
    <3>2. CASE g # G
      BY <1>1, <1>7, <1>9, <2>1, <3>2
    <3> QED
      BY <3>1, <3>2
  <2> QED
    BY <2>1
<1>12. (\A e \in leaks : \E g \in judged \ tangled : e \in Inside(Edges, g))'
  <2>1. ASSUME NEW e \in leaks' PROVE \E g \in judged' \ tangled' : e \in Inside(Edges, g)
    <3>1. CASE e \in leaks
      BY <1>1, <1>3, <1>7, <3>1 DEF Tangles
    <3>2. CASE e \notin leaks
      <4>1. e \in cut /\ G \in judged' \ tangled'
        BY <1>1, <1>3, <1>7, <2>1, <3>2
      <4> QED
        BY <1>4, <4>1
    <3> QED
      BY <3>1, <3>2
  <2>2. \A g : Inside(Edges, g)' = Inside(Edges, g)
    BY <1>2 DEF Inside
  <2> QED
    BY <2>1, <2>2
<1>13. (\A e \in leaks \cup cut : <<e[2], e[1]>> \in Reach(Edges \ {e}))'
  <2>1. \A es : Reach(es)' = Reach(es)
    BY DEF Reach
  <2>2. \A e \in leaks' \cup cut' : <<e[2], e[1]>> \in Reach(Edges \ {e})
    BY <1>1, <1>7 DEF Tangles
  <2> QED
    BY <1>2, <2>1, <2>2
<1>14. judged' \subseteq Groups' /\ tangled' \subseteq judged'
  BY <1>1, <1>2, <1>3, <1>7 DEF Tangles
<1>15. imports' \in [Pairs' -> Nat]
  BY <1>1 DEF Tangles, Pairs
<1> QED
  BY <1>1, <1>11, <1>12, <1>13, <1>14, <1>15 DEF Tangles

(* Every reachable state satisfies it: a cut keeps to the group in hand,   *)
(* and a judgement turns what was cut into leaks or none of it             *)
(* (infer.py:251-289).                                                     *)
THEOREM TanglesInvariant == Spec => []Tangles
<1>1. Init => Tangles
  <2> SUFFICES ASSUME Init PROVE Tangles
    OBVIOUS
  <2>1. imports \in [Pairs -> Nat]
    <3>0. PICK es \in SUBSET Pairs : \E count \in [es -> Counts] :
            imports = [e \in Pairs |-> IF e \in es THEN count[e] ELSE 0]
      BY DEF Init
    <3>1. PICK count \in [es -> Counts] :
            imports = [e \in Pairs |-> IF e \in es THEN count[e] ELSE 0]
      BY <3>0
    <3>2. \A e \in Pairs : (IF e \in es THEN count[e] ELSE 0) \in Nat
      BY ConstantAssumption DEF ConstantAssumption
    <3> QED
      BY <3>1, <3>2
  <2>2. /\ phase = "tangles" /\ judged = {} /\ cut = {} /\ leaks = {} /\ tangled = {}
    BY DEF Init
  <2> QED
    BY <2>1, <2>2 DEF Tangles
<1>2. ASSUME Tangles, [Next]_vars PROVE Tangles'
  <2>1. CASE Cut
    BY <1>2, <2>1, CutKeepsTangles
  <2>2. CASE Judge
    BY <1>2, <2>2, JudgeKeepsTangles
  <2>3. CASE InferLayers
    BY <1>2, <2>3, TanglesKept DEF InferLayers, code
  <2>4. CASE InferIndependent \/ Protect \/ BuildRules \/ Execute \/ RunRules \/ Raise
             \/ Downgrade \/ Done \/ Over \/ UNCHANGED vars
    <3>1. UNCHANGED <<imports, judged, cut, leaks, tangled>>
      BY <2>4 DEF InferIndependent, Protect, BuildRules, Execute, RunRules, Raise,
        Downgrade, Done, Over, vars, code, inferVars
    <3>2. phase' = phase \/ phase # "tangles"
      BY <2>4 DEF InferIndependent, Protect, BuildRules, Execute, RunRules, Raise,
        Downgrade, Done, Over, vars
    <3>3. phase' # "tangles" => judged = Groups
      BY <1>2, <3>2 DEF Tangles
    <3> QED
      BY <1>2, <3>1, <3>3, TanglesKept
  <2> QED
    BY <1>2, <2>1, <2>2, <2>3, <2>4 DEF Next
<1> QED
  BY <1>1, <1>2, PTL DEF Spec

(* The components that are layered are free of loops: a loop would be      *)
(* within one group, which is not tangled, and without its leaks has none. *)
LEMMA LayeredAreAcyclic ==
  ASSUME Tangles, judged = Groups, NEW e \in LayeredEdges
  PROVE  <<e[2], e[1]>> \notin Reach(LayeredEdges)
<1>1. /\ e \in Edges /\ e \in CleanEdges /\ e \in Pairs
      /\ e[1] \in Layered /\ e[2] \in Layered
      /\ e[1] \in Components /\ e[2] \in Components /\ e[1] # e[2] /\ e = <<e[1], e[2]>>
  BY DEF LayeredEdges, Inside, CleanEdges, Edges, Pairs
<1>2. LayeredEdges \subseteq CleanEdges /\ CleanEdges = Edges \ leaks
  BY DEF LayeredEdges, Inside, CleanEdges
<1>3. SUFFICES ASSUME <<e[2], e[1]>> \in Reach(Edges)
               PROVE  <<e[2], e[1]>> \notin Reach(CleanEdges)
  BY <1>2, ReachIsMonotone
<1>4. PICK g \in Groups : e[1] \in g /\ e[2] \in g
  <2>1. <<e[1], e[2]>> \in Reach(Edges)
    BY <1>1, ReachIsPreorder
  <2> QED
    BY <1>1, <1>3, <2>1, LoopingAreGrouped
<1>5. g \in judged \ tangled /\ g \in SUBSET Components
  BY <1>1, <1>4, GroupMembers DEF Layered
<1> DEFINE left == Inside(Edges, g) \ leaks
<1>6. e \in left
  BY <1>1, <1>4 DEF Inside, CleanEdges
<1>7. <<e[2], e[1]>> \notin Reach(left)
  BY <1>5, <1>6 DEF Tangles, IsSound
<1>8. PICK S : IsClosed(S, left) /\ e[2] \in S /\ e[1] \notin S
  BY <1>1, <1>7, ReachByClosed
<1> DEFINE back == {n \in Components : <<n, e[1]>> \notin Reach(Edges)}
           T == (S \cap g) \cup back
<1>9. IsClosed(T, CleanEdges)
  <2>1. ASSUME NEW f \in CleanEdges, f[1] \in T PROVE f[2] \in T
    <3>1. /\ f \in Edges /\ f \notin leaks /\ f[1] \in Components /\ f[2] \in Components
          /\ f = <<f[1], f[2]>>
      BY DEF CleanEdges, Edges, Pairs
    <3>2. <<f[1], f[2]>> \in Reach(Edges)
      BY <3>1, ReachIsPreorder
    <3>3. CASE f[1] \in back
      <4>1. <<f[2], e[1]>> \notin Reach(Edges)
        BY <3>2, <3>3, ReachIsPreorder
      <4> QED
        BY <3>1, <4>1
    <3>4. CASE f[1] \in S /\ f[1] \in g /\ f[2] \in g
      <4>1. f \in left
        BY <3>1, <3>4 DEF Inside
      <4>2. f[2] \in S
        BY <1>8, <3>4, <4>1 DEF IsClosed
      <4> QED
        BY <3>4, <4>2
    <3>5. CASE f[1] \in g /\ f[2] \notin g
      <4>1. <<e[1], f[1]>> \in Reach(Edges)
        <5>1. \A m \in g, n \in Components :
                n \in g <=> <<m, n>> \in Reach(Edges) /\ <<n, m>> \in Reach(Edges)
          BY GroupMembers
        <5> QED
          BY <1>4, <3>1, <3>5, <5>1
      <4>2. <<e[1], f[2]>> \in Reach(Edges)
        BY <3>2, <4>1, ReachIsPreorder
      <4>3. <<f[2], e[1]>> \notin Reach(Edges)
        BY <1>4, <3>1, <3>5, <4>2, GroupMembers
      <4> QED
        BY <3>1, <4>3
    <3> QED
      BY <2>1, <3>3, <3>4, <3>5
  <2>2. T \in SUBSET Components
    BY <1>5
  <2> QED
    BY <2>1, <2>2 DEF IsClosed
<1>10. e[2] \in T
  BY <1>4, <1>8
<1>11. e[1] \notin T
  <2>1. <<e[1], e[1]>> \in Reach(Edges)
    BY <1>1, ReachIsPreorder
  <2> QED
    BY <1>8, <2>1
<1> HIDE DEF T
<1> QED
  BY <1>9, <1>10, <1>11, ReachByClosed

(* A leak is a rare import that closes a loop: without it there still is a *)
(* way back, the leaks of a group are at most a quarter of its imports,    *)
(* and the components that are not tangled are free of loops without them  *)
(* (infer.py:251-289, infer.py:429).                                       *)
THEOREM LeaksClose == Spec => []LeaksCloseLoops
<1>1. Tangles => LeaksCloseLoops
  <2> SUFFICES ASSUME Tangles, phase = "independent" PROVE LeaksCloseLoops
    BY DEF LeaksCloseLoops
  <2>1. judged = Groups
    BY DEF Tangles
  <2>2. \A e \in leaks : <<e[2], e[1]>> \in Reach(Edges \ {e})
    BY DEF Tangles
  <2>3. \A g \in Groups \ tangled :
           (LeakRatio + 1) * Weight(Inside(leaks, g)) <= Weight(Inside(Edges, g))
    BY <2>1 DEF Tangles, IsSound
  <2>4. \A e \in LayeredEdges : <<e[2], e[1]>> \notin Reach(LayeredEdges)
    BY <2>1, LayeredAreAcyclic
  <2> QED
    BY <2>2, <2>3, <2>4 DEF LeaksCloseLoops
<1> QED
  BY <1>1, TanglesInvariant, PTL

-----------------------------------------------------------------------------
(* Components are comparable if one of them reaches the other.             *)
LEMMA ComparableByReach ==
  ASSUME NEW c, NEW d
  PROVE  <<c, d>> \in Comparable <=> <<c, d>> \in Reach(Edges) \/ <<d, c>> \in Reach(Edges)
<1>1. \A e \in Reach(Edges) : e = <<e[1], e[2]>>
  BY DEF Reach
<1> QED
  BY <1>1 DEF Comparable, Transpose

(* To how many candidates one is comparable.                               *)
Comparability(c, candidates) ==
  Cardinality({d \in candidates \ {c} : <<c, d>> \in Comparable})

(* The candidates in an order, and those chosen among the first of them.   *)
Chooses(order, chosen, n) ==
  /\ chosen[0] = {}
  /\ \A k \in 1 .. n :
       /\ (\A d \in chosen[k - 1] : <<order[k], d>> \notin Comparable)
            => chosen[k] = chosen[k - 1] \cup {order[k]}
       /\ (\E d \in chosen[k - 1] : <<order[k], d>> \in Comparable) => chosen[k] = chosen[k - 1]

IsOrder(order, n, candidates) ==
  /\ order \in [1 .. n -> candidates]
  /\ \A c \in candidates : \E i \in 1 .. n : order[i] = c
  /\ \A i, j \in 1 .. n :
       i < j => Comparability(order[i], candidates) <= Comparability(order[j], candidates)

Ranks(before, candidates) ==
  before = {cd \in candidates \X candidates :
              \/ Comparability(cd[1], candidates) < Comparability(cd[2], candidates)
              \/ /\ Comparability(cd[1], candidates) = Comparability(cd[2], candidates)
                 /\ cd[1] < cd[2]}

LEMMA CandidatesOrdered ==
  ASSUME NEW candidates, IsFiniteSet(candidates), candidates \subseteq Nat,
         NEW before, Ranks(before, candidates)
  PROVE  IsOrder(Sorted(candidates, before), Cardinality(candidates), candidates)
<1> DEFINE rank(c) == Comparability(c, candidates)
<1>1. ASSUME NEW c \in candidates PROVE rank(c) \in Nat
  <2>1. {d \in candidates \ {c} : <<c, d>> \in Comparable} \in SUBSET candidates
    OBVIOUS
  <2>2. IsFiniteSet({d \in candidates \ {c} : <<c, d>> \in Comparable})
    BY <2>1, FS_Subset
  <2> QED
    BY <2>2, FS_CardinalityType DEF Comparability
<1> HIDE DEF rank
<1>2. \A c, d \in candidates :
        <<c, d>> \in before <=> rank(c) < rank(d) \/ (rank(c) = rank(d) /\ c < d)
  <2>1. before = {cd \in candidates \X candidates :
                    \/ rank(cd[1]) < rank(cd[2])
                    \/ rank(cd[1]) = rank(cd[2]) /\ cd[1] < cd[2]}
    BY DEF rank, Ranks
  <2> QED
    BY <2>1
<1>3. Orders(before, candidates)
  BY <1>1, <1>2 DEF Orders
<1>4. Sorts(Sorted(candidates, before), candidates, before)
      /\ \A c \in candidates : \E i \in 1 .. Cardinality(candidates) :
           Sorted(candidates, before)[i] = c
  BY <1>3, SortedIsSorted
<1>5. PICK order : order = Sorted(candidates, before)
  OBVIOUS
<1>6. ASSUME NEW i \in 1 .. Cardinality(candidates), NEW j \in 1 .. Cardinality(candidates), i < j
      PROVE  rank(order[i]) <= rank(order[j])
  <2>1. order[i] \in candidates /\ order[j] \in candidates /\ <<order[i], order[j]>> \in before
    BY <1>4, <1>5, <1>6 DEF Sorts
  <2>2. rank(order[i]) \in Nat /\ rank(order[j]) \in Nat
    BY <1>1, <2>1
  <2>3. rank(order[i]) < rank(order[j]) \/ rank(order[i]) = rank(order[j])
    BY <1>2, <2>1
  <2> QED
    BY <2>2, <2>3
<1> QED
  BY <1>4, <1>5, <1>6 DEF Sorts, IsOrder, rank

LEMMA GroupIsChosen ==
  ASSUME NEW candidates, IsFiniteSet(candidates), candidates \subseteq Nat, NEW n,
         n = Cardinality(candidates)
  PROVE  \E order : \E chosen \in [0 .. n -> SUBSET candidates] :
           /\ IsOrder(order, n, candidates) /\ Chooses(order, chosen, n)
           /\ IndependentGroup(candidates) =
                IF Cardinality(chosen[n]) >= 2 THEN chosen[n] ELSE {}
<1>0. n \in Nat
  BY FS_CardinalityType
<1> DEFINE comparability == [c \in candidates |->
                               Cardinality({d \in candidates \ {c} : <<c, d>> \in Comparable})]
           before == {cd \in candidates \X candidates :
                        \/ comparability[cd[1]] < comparability[cd[2]]
                        \/ comparability[cd[1]] = comparability[cd[2]] /\ cd[1] < cd[2]}
           order == Sorted(candidates, before)
           chosen[k \in 0 .. Cardinality(candidates)] ==
             IF k = 0 THEN {}
             ELSE IF \A d \in chosen[k - 1] : <<order[k], d>> \notin Comparable
             THEN chosen[k - 1] \cup {order[k]}
             ELSE chosen[k - 1]
<1>1. IndependentGroup(candidates) =
        IF Cardinality(chosen[n]) >= 2 THEN chosen[n] ELSE {}
  BY DEF IndependentGroup
<1>2. IsOrder(order, n, candidates)
  <2>1. \A c \in candidates : comparability[c] = Comparability(c, candidates)
    BY DEF Comparability
  <2> HIDE DEF comparability
  <2>2. Ranks(before, candidates)
    BY <2>1 DEF Ranks
  <2> HIDE DEF before
  <2> QED
    BY <2>2, CandidatesOrdered
<1> HIDE DEF order, before, comparability
<1>3. order \in [1 .. n -> candidates]
  BY <1>2 DEF IsOrder
<1> DEFINE V == SUBSET candidates
           Next1(S, k) == IF \A d \in S : <<order[k], d>> \notin Comparable
                          THEN S \cup {order[k]} ELSE S
           step == [p \in (1 .. n) \X V |-> Next1(p[2], p[1])]
           Of(f, k) == IF k = 0 THEN {} ELSE Next1(f[k - 1], k)
<1>4. ASSUME NEW k \in 1 .. n, NEW S \in V
      PROVE  step[<<k, S>>] = Next1(S, k) /\ Next1(S, k) \in V
  BY <1>3
<1>5. IsStep(step, n, V)
  <2>1. \A p \in (1 .. n) \X V : Next1(p[2], p[1]) \in V
    <3>1. \A k \in 1 .. n, S \in V : Next1(S, k) \in V
      BY <1>4
    <3> HIDE DEF Next1, V
    <3> QED
      BY <3>1
  <2> HIDE DEF Next1
  <2> QED
    BY <2>1 DEF IsStep
<1> HIDE DEF step
<1>6. PICK f \in [0 .. n -> V] : f[0] = {} /\ \A k \in 1 .. n : f[k] = step[<<k, f[k - 1]>>]
  <2>1. {} \in V
    OBVIOUS
  <2> HIDE DEF V, Next1, Of, chosen
  <2>2. Recursions(step, n, V, {}) # {}
    BY <1>0, <1>5, <2>1, FiniteRecursion
  <2> QED
    BY <2>2 DEF Recursions
<1>7. ASSUME NEW k \in 1 .. n PROVE f[k] = Next1(f[k - 1], k)
  <2>1. f[k - 1] \in V
    BY <1>0
  <2> HIDE DEF Next1, V
  <2> QED
    BY <1>4, <1>6, <2>1
<1>8. ASSUME NEW k \in 0 .. n PROVE f[k] = Of(f, k)
  <2>1. k = 0 \/ k \in 1 .. n
    BY <1>0
  <2> HIDE DEF Next1
  <2> QED
    BY <1>6, <1>7, <2>1
<1>9. chosen = [k \in 0 .. n |-> Of(chosen, k)]
  <2>1. f = [k \in 0 .. n |-> Of(f, k)]
    <3>1. f = [k \in 0 .. n |-> f[k]]
      OBVIOUS
    <3> HIDE DEF Of
    <3> QED
      BY <1>8, <3>1
  <2> QED
    BY <2>1
<1>10. \A k \in 0 .. n : chosen[k] = Of(chosen, k)
  <2> HIDE DEF chosen, Of
  <2> QED
    BY <1>9
<1> HIDE DEF chosen
<1>11. chosen[0] = {} /\ \A k \in 1 .. n : chosen[k] = Next1(chosen[k - 1], k)
  <2>1. 0 \in 0 .. n /\ \A k \in 1 .. n : k \in 0 .. n /\ k # 0
    BY <1>0
  <2> HIDE DEF Next1
  <2> QED
    BY <1>10, <2>1
<1>12. chosen \in [0 .. n -> V]
  <2> DEFINE T == {k \in 0 .. n : chosen[k] \in V}
  <2>1. 0 \in T
    BY <1>0, <1>11
  <2>2. ASSUME NEW k \in 1 .. n, k - 1 \in T PROVE k \in T
    <3>1. chosen[k - 1] \in V
      BY <2>2
    <3>2. chosen[k] \in V
      <4> HIDE DEF Next1, V
      <4> QED
        BY <1>4, <1>11, <3>1
    <3> QED
      BY <1>0, <3>2
  <2> HIDE DEF T
  <2>3. \A k \in 0 .. n : k \in T
    BY <1>0, <2>1, <2>2, FiniteInduction
  <2>4. \A k \in 0 .. n : chosen[k] \in V
    BY <2>3 DEF T
  <2>5. chosen = [k \in 0 .. n |-> chosen[k]]
    <3> HIDE DEF Of
    <3> QED
      BY <1>9
  <2> HIDE DEF V
  <2> QED
    BY <2>4, <2>5
<1>13. Chooses(order, chosen, n)
  BY <1>11 DEF Chooses
<1> HIDE DEF V
<1>14. chosen \in [0 .. n -> SUBSET candidates]
  BY <1>12 DEF V
<1> QED
  BY <1>1, <1>2, <1>13, <1>14

(* What is chosen among the first k candidates: none is comparable to      *)
(* another one, each other is comparable to one of them, and the first     *)
(* candidate is chosen always.                                             *)
LEMMA ChosenIsMaximal ==
  ASSUME NEW n \in Nat, NEW candidates, candidates \subseteq Components, NEW order,
         NEW chosen \in [0 .. n -> SUBSET candidates],
         IsOrder(order, n, candidates), Chooses(order, chosen, n)
  PROVE  /\ \A c, d \in chosen[n] : c # d => <<c, d>> \notin Comparable
         /\ \A c \in candidates \ chosen[n] : \E d \in chosen[n] : <<c, d>> \in Comparable
         /\ n > 0 => order[1] \in chosen[n]
<1> DEFINE Chosen(k) ==
      /\ \A c, d \in chosen[k] : c # d => <<c, d>> \notin Comparable
      /\ \A i \in 1 .. k : order[i] \in chosen[k] \/ \E d \in chosen[k] : <<order[i], d>> \in Comparable
      /\ k > 0 => order[1] \in chosen[k]
           T == {k \in 0 .. n : Chosen(k)}
<1>1. 0 \in T
  BY DEF Chooses
<1>2. ASSUME NEW k \in 1 .. n, k - 1 \in T PROVE k \in T
  <2>1. Chosen(k - 1)
    BY <1>2
  <2>2. order[k] \in candidates /\ chosen[k - 1] \subseteq candidates
    BY DEF IsOrder
  <2>3. CASE \A d \in chosen[k - 1] : <<order[k], d>> \notin Comparable
    <3>1. chosen[k] = chosen[k - 1] \cup {order[k]}
      BY <2>3 DEF Chooses
    <3>2. ASSUME NEW c \in chosen[k], NEW d \in chosen[k], c # d PROVE <<c, d>> \notin Comparable
      <4>1. CASE c \in chosen[k - 1] /\ d \in chosen[k - 1]
        BY <2>1, <3>2, <4>1
      <4>2. CASE c = order[k] /\ d \in chosen[k - 1]
        BY <2>3, <4>2
      <4>3. CASE c \in chosen[k - 1] /\ d = order[k]
        BY <2>3, <4>3, ComparableByReach
      <4> QED
        BY <3>1, <3>2, <4>1, <4>2, <4>3
    <3>3. \A i \in 1 .. k : order[i] \in chosen[k] \/ \E d \in chosen[k] : <<order[i], d>> \in Comparable
      <4> TAKE i \in 1 .. k
      <4>1. CASE i = k
        BY <3>1, <4>1
      <4>2. CASE i \in 1 .. k - 1
        BY <2>1, <3>1, <4>2
      <4> QED
        BY <4>1, <4>2
    <3>4. order[1] \in chosen[k]
      <4>1. CASE k = 1
        BY <3>1, <4>1
      <4>2. CASE k # 1
        BY <2>1, <3>1, <4>2
      <4> QED
        BY <4>1, <4>2
    <3>5. Chosen(k)
      BY <3>2, <3>3, <3>4
    <3> HIDE DEF Chosen
    <3> QED
      BY <3>5
  <2>4. CASE \E d \in chosen[k - 1] : <<order[k], d>> \in Comparable
    <3>1. chosen[k] = chosen[k - 1]
      BY <2>4 DEF Chooses
    <3>2. k # 1
      BY <2>4 DEF Chooses
    <3>3. \A i \in 1 .. k : order[i] \in chosen[k] \/ \E d \in chosen[k] : <<order[i], d>> \in Comparable
      <4> TAKE i \in 1 .. k
      <4>1. CASE i = k
        BY <2>4, <3>1, <4>1
      <4>2. CASE i \in 1 .. k - 1
        BY <2>1, <3>1, <4>2
      <4> QED
        BY <4>1, <4>2
    <3>4. Chosen(k)
      <4>1. \A c, d \in chosen[k] : c # d => <<c, d>> \notin Comparable
        BY <2>1, <3>1
      <4>2. order[1] \in chosen[k]
        BY <2>1, <3>1, <3>2
      <4> QED
        BY <3>3, <4>1, <4>2
    <3> HIDE DEF Chosen
    <3> QED
      BY <3>4
  <2> QED
    BY <2>3, <2>4
<1>3. n \in T
  <2> HIDE DEF T
  <2> QED
    BY <1>1, <1>2, FiniteInduction
<1>4. Chosen(n)
  BY <1>3
<1>5. ASSUME NEW c \in candidates \ chosen[n] PROVE \E d \in chosen[n] : <<c, d>> \in Comparable
  <2>1. PICK i \in 1 .. n : order[i] = c
    BY DEF IsOrder
  <2> QED
    BY <1>4, <2>1
<1> QED
  BY <1>4, <1>5

(* If one is chosen only, it is the first, which is comparable to all      *)
(* others; and so is each, for none is comparable to fewer.                *)
LEMMA OneChosenMeansNoneApart ==
  ASSUME NEW candidates, IsFiniteSet(candidates), candidates \subseteq Components,
         NEW n, n = Cardinality(candidates), NEW order,
         NEW chosen \in [0 .. n -> SUBSET candidates],
         IsOrder(order, n, candidates), Chooses(order, chosen, n), ~ (Cardinality(chosen[n]) >= 2),
         NEW c \in candidates, NEW d \in candidates, c # d
  PROVE  <<c, d>> \in Comparable
<1>1. n \in Nat /\ n > 0
  BY FS_CardinalityType, FS_EmptySet
<1> DEFINE first == order[1]
<1>2. first \in candidates /\ first \in chosen[n] /\ chosen[n] \subseteq candidates
  <2>1. order[1] \in chosen[n]
    BY <1>1, ChosenIsMaximal
  <2> QED
    BY <1>1, <2>1 DEF IsOrder
<1>3. chosen[n] = {first}
  <2>1. IsFiniteSet(chosen[n]) /\ Cardinality(chosen[n]) \in Nat
    BY <1>2, FS_Subset, FS_CardinalityType
  <2>2. Cardinality(chosen[n]) # 0
    BY <1>2, <2>1, FS_EmptySet
  <2>3. Cardinality(chosen[n]) = 1
    BY <2>1, <2>2
  <2> QED
    BY <1>2, <2>1, <2>3, FS_Singleton
<1> HIDE DEF first
<1>4. \A x \in candidates \ {first} : <<first, x>> \in Comparable
  BY <1>1, <1>3, ChosenIsMaximal, ComparableByReach
<1> DEFINE near(x) == {y \in candidates \ {x} : <<x, y>> \in Comparable}
<1>5. ASSUME NEW x \in candidates
      PROVE  /\ IsFiniteSet(candidates \ {x}) /\ Cardinality(candidates \ {x}) = n - 1
             /\ near(x) \in SUBSET (candidates \ {x})
  BY <1>5, FS_RemoveElement
<1>6. Cardinality(near(first)) = n - 1
  <2>1. near(first) = candidates \ {first}
    BY <1>4
  <2> HIDE DEF near
  <2> QED
    BY <1>2, <1>5, <2>1
<1>7. Cardinality(near(first)) <= Cardinality(near(c))
  <2>1. PICK i \in 1 .. n : order[i] = c
    BY DEF IsOrder
  <2>2. Comparability(order[1], candidates) <= Comparability(order[i], candidates)
    <3>1. CASE i = 1
      <4>1. Cardinality(near(first)) <= Cardinality(near(first))
        <5> HIDE DEF near
        <5> QED
          BY <1>1, <1>6
      <4> QED
        BY <3>1, <4>1 DEF Comparability, first
    <3>2. CASE i # 1
      BY <1>1, <3>2 DEF IsOrder
    <3> QED
      BY <3>1, <3>2
  <2> QED
    BY <2>1, <2>2 DEF Comparability, first
<1> HIDE DEF near
<1>8. near(c) = candidates \ {c}
  <2>1. Cardinality(near(c)) <= Cardinality(candidates \ {c}) /\ Cardinality(near(c)) \in Nat
    BY <1>5, FS_Subset, FS_CardinalityType
  <2>2. Cardinality(candidates \ {c}) = Cardinality(near(c))
    BY <1>1, <1>5, <1>6, <1>7, <2>1
  <2> QED
    BY <1>5, <2>2, FS_Subset
<1> QED
  BY <1>8 DEF near

(* What IndependentIsMaximal says of a group, by comparability.            *)
IsMaximal(group, candidates) ==
  /\ group \subseteq candidates
  /\ \A c, d \in group : c # d => <<c, d>> \notin Comparable
  /\ group = {} => \A c, d \in candidates : c # d => <<c, d>> \in Comparable
  /\ group # {} => \A c \in candidates \ group : \E d \in group : <<c, d>> \in Comparable

LEMMA GreedyIsMaximal ==
  ASSUME NEW candidates, IsFiniteSet(candidates), candidates \subseteq Components
  PROVE  IsMaximal(IndependentGroup(candidates), candidates)
<1>1. PICK n : n = Cardinality(candidates)
  OBVIOUS
<1>2. n \in Nat /\ candidates \subseteq Nat
  BY <1>1, FS_CardinalityType, ConstantAssumption DEF ConstantAssumption
<1>3. PICK order : \E chosen \in [0 .. n -> SUBSET candidates] :
         /\ IsOrder(order, n, candidates) /\ Chooses(order, chosen, n)
         /\ IndependentGroup(candidates) = IF Cardinality(chosen[n]) >= 2 THEN chosen[n] ELSE {}
  BY <1>1, <1>2, GroupIsChosen
<1>4. PICK chosen \in [0 .. n -> SUBSET candidates] :
         /\ IsOrder(order, n, candidates) /\ Chooses(order, chosen, n)
         /\ IndependentGroup(candidates) = IF Cardinality(chosen[n]) >= 2 THEN chosen[n] ELSE {}
  BY <1>3
<1>5. IsOrder(order, n, candidates) /\ Chooses(order, chosen, n)
  BY <1>4
<1>6. CASE Cardinality(chosen[n]) >= 2
  <2>1. IndependentGroup(candidates) = chosen[n]
    BY <1>4, <1>6
  <2>2. chosen[n] # {}
    BY <1>6, FS_EmptySet
  <2>3. /\ \A c, d \in chosen[n] : c # d => <<c, d>> \notin Comparable
        /\ \A c \in candidates \ chosen[n] : \E d \in chosen[n] : <<c, d>> \in Comparable
        /\ n > 0 => order[1] \in chosen[n]
    BY <1>2, <1>5, ChosenIsMaximal, Zenon
  <2>4. chosen[n] \in SUBSET candidates
    BY <1>2
  <2> QED
    BY <2>1, <2>2, <2>3, <2>4 DEF IsMaximal
<1>7. CASE ~ (Cardinality(chosen[n]) >= 2)
  <2>1. IndependentGroup(candidates) = {}
    BY <1>4, <1>7
  <2>2. \A c, d \in candidates : c # d => <<c, d>> \in Comparable
    BY <1>1, <1>5, <1>7, OneChosenMeansNoneApart
  <2> QED
    BY <2>1, <2>2 DEF IsMaximal
<1> QED
  BY <1>6, <1>7

(* What is chosen among the consumers is maximal, until the file is built. *)
MaximalConsumers == phase = "protect" => IsMaximal(independent, Consumers)

LEMMA MaximalKept ==
  ASSUME UNCHANGED <<project, imports, tangled, leaks>>, NEW group,
         IsMaximal(group, Consumers), independent' = group
  PROVE  MaximalConsumers'
<1>1. Edges' = Edges
  BY CodeDecides
<1>2. Comparable' = Comparable
  BY <1>1 DEF Comparable, Transpose, Reach
<1>3. Consumers' = Consumers
  BY <1>1 DEF Consumers, Connected, CleanEdges
<1> QED
  BY <1>2, <1>3 DEF MaximalConsumers, IsMaximal

(* The greedy choice is maximal, and nothing after it changes what is      *)
(* comparable (infer.py:301-330).                                          *)
THEOREM MaximalInvariant == Spec => []MaximalConsumers
<1>1. Init => MaximalConsumers
  BY DEF Init, MaximalConsumers
<1>2. ASSUME MaximalConsumers, [Next]_vars PROVE MaximalConsumers'
  <2>1. CASE InferIndependent
    <3>1. PICK group : group = IndependentGroup(Consumers)
      OBVIOUS
    <3>2. /\ independent' = group
          /\ UNCHANGED <<project, imports, tangled, leaks>>
      BY <2>1, <3>1 DEF InferIndependent, code
    <3>3. IsMaximal(group, Consumers)
      <4>1. Consumers \in SUBSET Components
        BY DEF Consumers, Connected
      <4>2. IsFiniteSet(Consumers)
        BY <4>1, ConstantAssumption, FS_Subset DEF ConstantAssumption
      <4> QED
        BY <3>1, <4>1, <4>2, GreedyIsMaximal
    <3> QED
      BY <3>2, <3>3, MaximalKept
  <2>2. CASE Protect \/ Over \/ UNCHANGED vars
    <3>1. UNCHANGED <<project, imports, tangled, leaks, phase, independent>>
      BY <2>2 DEF Protect, Over, vars, code, inferVars
    <3>2. CASE phase = "protect"
      <4>1. PICK group : group = independent
        OBVIOUS
      <4>2. IsMaximal(group, Consumers) /\ independent' = group
        BY <1>2, <3>1, <3>2, <4>1 DEF MaximalConsumers
      <4> QED
        BY <3>1, <4>2, MaximalKept
    <3>3. CASE phase # "protect"
      BY <3>1, <3>3 DEF MaximalConsumers
    <3> QED
      BY <3>2, <3>3
  <2>3. CASE Cut \/ Judge \/ InferLayers \/ BuildRules \/ Execute \/ RunRules \/ Raise
             \/ Downgrade \/ Done
    <3>1. phase' # "protect"
      BY <2>3 DEF Cut, Judge, InferLayers, BuildRules, Execute, RunRules, Raise, Downgrade, Done
    <3> QED
      BY <3>1 DEF MaximalConsumers
  <2> QED
    BY <1>2, <2>1, <2>2, <2>3 DEF Next
<1> QED
  BY <1>1, <1>2, PTL DEF Spec

(* The independent components are consumers of which none reaches another  *)
(* one, no other consumer could be added, and there are some whenever two  *)
(* consumers are apart (infer.py:301-330).                                 *)
THEOREM IndependentAreMaximal == Spec => []IndependentIsMaximal
<1>1. MaximalConsumers => IndependentIsMaximal
  <2> SUFFICES ASSUME MaximalConsumers, phase = "protect" PROVE IndependentIsMaximal
    BY DEF IndependentIsMaximal
  <2> DEFINE Apart(c, d) == {<<c, d>>, <<d, c>>} \cap Reach(Edges) = {}
  <2>1. \A c, d : Apart(c, d) <=> <<c, d>> \notin Comparable
    BY ComparableByReach
  <2> HIDE DEF Apart
  <2>2. \A c, d \in independent : c # d => Apart(c, d)
    BY <2>1 DEF MaximalConsumers, IsMaximal
  <2>3. \A c \in Consumers \ independent :
          IF independent = {} THEN \A d \in Consumers \ {c} : ~ Apart(c, d)
                              ELSE \E d \in independent : ~ Apart(c, d)
    BY <2>1 DEF MaximalConsumers, IsMaximal
  <2> QED
    BY <2>2, <2>3 DEF IndependentIsMaximal, Apart
<1> QED
  BY <1>1, MaximalInvariant, PTL

-----------------------------------------------------------------------------
(* Chains of components that can be layered.                               *)
IsChain(s) ==
  /\ s \in Seq(Layered) /\ Len(s) > 0
  /\ \A i \in 1 .. Len(s) - 1 : <<s[i], s[i + 1]>> \in LayeredEdges

(* Chains with their imports, one from each component.                     *)
Records == [path : Seq(Layered), weight : Nat]
From(c) == {r \in Records : IsChain(r.path) /\ r.path[1] = c}
FromEach == {f \in [Layered -> Records] : \A c \in Layered : f[c] \in From(c)}

LEMMA LayeredIsFinite ==
  /\ IsFiniteSet(Layered) /\ Layered \subseteq Components /\ Layered \subseteq Nat
  /\ \A e \in LayeredEdges : e \in Edges /\ e[1] \in Layered /\ e[2] \in Layered
<1>1. Layered \in SUBSET Components
  BY DEF Layered, Connected
<1>2. IsFiniteSet(Layered) /\ Layered \subseteq Nat
  BY <1>1, ConstantAssumption, FS_Subset DEF ConstantAssumption
<1> QED
  BY <1>1, <1>2 DEF LayeredEdges, Inside, CleanEdges

LEMMA Prepended ==
  ASSUME NEW S, NEW c \in S, NEW s \in Seq(S)
  PROVE  /\ <<c>> \o s \in Seq(S) /\ Len(<<c>> \o s) = Len(s) + 1 /\ Len(s) \in Nat
         /\ (<<c>> \o s)[1] = c
         /\ \A i \in 1 .. Len(s) : (<<c>> \o s)[i + 1] = s[i]
  OBVIOUS

(* A chain is got from that of the next component.                         *)
Via(c, chain) ==
  [path |-> <<c>> \o chain.path, weight |-> chain.weight + imports[<<c, chain.path[1]>>]]

Successors(c) == {d \in Layered : <<c, d>> \in LayeredEdges}

LEMMA ViaIsChain ==
  ASSUME Tangles, NEW c \in Layered, NEW d \in Successors(c), NEW r \in From(d)
  PROVE  /\ Via(c, r) \in From(c)
         /\ Len(Via(c, r).path) = Len(r.path) + 1 /\ Len(r.path) \in Nat \ {0}
         /\ Via(c, r).path[2] = d
<1>1. r \in Records /\ r.path \in Seq(Layered) /\ r.weight \in Nat /\ r.path[1] = d
      /\ IsChain(r.path) /\ Len(r.path) \in Nat \ {0}
  BY DEF From, Records, IsChain
<1>2. <<c, d>> \in LayeredEdges /\ imports[<<c, d>>] \in Nat
  <2>1. <<c, d>> \in Pairs
    BY LayeredIsFinite DEF Successors, Edges
  <2> QED
    BY <2>1 DEF Successors, Tangles
<1> DEFINE p == <<c>> \o r.path
<1>3. /\ p \in Seq(Layered) /\ Len(p) = Len(r.path) + 1 /\ p[1] = c
      /\ \A i \in 1 .. Len(r.path) : p[i + 1] = r.path[i]
  BY <1>1, Prepended
<1> HIDE DEF p
<1>4. Via(c, r) = [path |-> p, weight |-> r.weight + imports[<<c, d>>]]
  BY <1>1 DEF Via, p
<1>5. IsChain(p)
  <2>1. ASSUME NEW i \in 1 .. Len(p) - 1 PROVE <<p[i], p[i + 1]>> \in LayeredEdges
    <3>1. CASE i = 1
      <4>1. p[2] = r.path[1]
        <5>1. 1 \in 1 .. Len(r.path) /\ 1 + 1 = 2
          BY <1>1
        <5> QED
          BY <1>3, <5>1
      <4>2. p[i] = c /\ i + 1 = 2
        BY <1>3, <3>1
      <4>3. p[i + 1] = d
        BY <1>1, <4>1, <4>2
      <4> QED
        BY <1>2, <4>2, <4>3
    <3>2. CASE i # 1
      <4>1. i - 1 \in 1 .. Len(r.path) - 1 /\ (i - 1) + 1 = i
        BY <1>1, <1>3, <3>2
      <4>2. p[i] = r.path[i - 1] /\ p[i + 1] = r.path[(i - 1) + 1]
        BY <1>1, <1>3, <4>1
      <4>3. <<r.path[i - 1], r.path[(i - 1) + 1]>> \in LayeredEdges
        BY <1>1, <4>1 DEF IsChain
      <4> QED
        BY <4>2, <4>3
    <3> QED
      BY <3>1, <3>2
  <2> QED
    BY <1>1, <1>3, <2>1 DEF IsChain
<1>6. p[2] = d
  <2>1. 1 \in 1 .. Len(r.path) /\ 1 + 1 = 2
    BY <1>1
  <2> QED
    BY <1>1, <1>3, <2>1
<1> QED
  BY <1>1, <1>2, <1>3, <1>4, <1>5, <1>6 DEF From, Records

(* Of finitely many chains, BestOf has one that is better than the others. *)
LEMMA BestIsBest ==
  ASSUME NEW D, IsFiniteSet(D), D # {}, NEW chain, NEW number \in Nat \ {0},
         \A d \in D : chain[d] \in Records /\ Len(chain[d].path) >= number,
         Layered \subseteq Nat
  PROVE  \E d \in D : /\ BestOf({chain[e] : e \in D}, number) = chain[d]
                      /\ \A e \in D : Better(chain[d], chain[e])
<1> DEFINE chains == {chain[e] : e \in D}
           best == {c \in chains : \A d \in chains : Better(c, d)}
           upTo == {de \in D \X D : Better(chain[de[2]], chain[de[1]])}
<1>1. ASSUME NEW d \in D
      PROVE  /\ Len(chain[d].path) \in Nat /\ chain[d].weight \in Nat
             /\ chain[d].path[number] \in Nat
  <2>1. /\ chain[d].path \in Seq(Layered) /\ chain[d].weight \in Nat
        /\ Len(chain[d].path) >= number
    BY DEF Records
  <2>2. number \in 1 .. Len(chain[d].path) /\ Len(chain[d].path) \in Nat
    BY <2>1
  <2>3. chain[d].path[number] \in Layered
    BY <2>1, <2>2
  <2> QED
    BY <2>1, <2>2, <2>3
<1>2. \A d, e \in D : <<d, e>> \in upTo <=> Better(chain[e], chain[d])
  OBVIOUS
<1> HIDE DEF upTo
<1>3. Compares(upTo, D)
  <2>1. ASSUME NEW x \in D, NEW y \in D, NEW z \in D
        PROVE  /\ Better(chain[x], chain[y]) \/ Better(chain[y], chain[x])
               /\ Better(chain[y], chain[x]) /\ Better(chain[z], chain[y])
                    => Better(chain[z], chain[x])
    <3>1. /\ Len(chain[x].path) \in Nat /\ chain[x].weight \in Nat
          /\ Len(chain[y].path) \in Nat /\ chain[y].weight \in Nat
          /\ Len(chain[z].path) \in Nat /\ chain[z].weight \in Nat
      BY <1>1
    <3> QED
      BY <3>1, SMTT(20) DEF Better
  <2> QED
    BY <1>2, <2>1 DEF Compares
<1>4. PICK d \in D : \A e \in D : Better(chain[d], chain[e])
  BY <1>2, <1>3, GreatestElement
<1>5. chain[d] \in best
  BY <1>4
<1> DEFINE names == {c.path[number] : c \in best}
<1>6. names \subseteq Nat /\ names # {}
  BY <1>1, <1>5
<1>7. PICK m \in names : \A k \in names : m <= k
  <2> HIDE DEF names
  <2> QED
    BY <1>6, LeastNatural
<1>8. BestOf(chains, number) \in best
  <2>1. \E c \in best : \A e \in best : c.path[number] <= e.path[number]
    BY <1>7
  <2>2. BestOf(chains, number) = CHOOSE c \in best : \A e \in best : c.path[number] <= e.path[number]
    BY DEF BestOf
  <2> HIDE DEF best, chains
  <2> QED
    BY <2>1, <2>2
<1>9. PICK e \in D : BestOf(chains, number) = chain[e]
  BY <1>8
<1> QED
  BY <1>8, <1>9

(* One step of _longest_chain: chains from each component that are longest *)
(* among those of n components give such of n + 1.                         *)
Singles == [c \in Layered |-> [path |-> <<c>>, weight |-> 0]]

Stepped(f) ==
  [c \in Layered |-> IF Successors(c) = {} THEN [path |-> <<c>>, weight |-> 0]
                     ELSE BestOf({Via(c, f[d]) : d \in Successors(c)}, 2)]

AreLongest(f, n) ==
  /\ \A c \in Layered : Len(f[c].path) <= n
  /\ \A s : IsChain(s) /\ Len(s) <= n => Len(s) <= Len(f[s[1]].path)

LEMMA SinglesAreLongest ==
  Singles \in FromEach /\ AreLongest(Singles, 1)
<1>1. ASSUME NEW c \in Layered
      PROVE  /\ Singles[c] \in From(c) /\ Singles[c] = [path |-> <<c>>, weight |-> 0]
             /\ Len(Singles[c].path) = 1
  <2>1. Singles[c] = [path |-> <<c>>, weight |-> 0]
    BY DEF Singles
  <2>2. PICK s \in Seq(Layered) : s = <<c>> /\ Len(s) = 1 /\ s[1] = c
    <3>1. <<c>> \in Seq(Layered) /\ Len(<<c>>) = 1 /\ <<c>>[1] = c
      OBVIOUS
    <3> QED
      BY <3>1, Zenon
  <2>3. IsChain(s)
    BY <2>2 DEF IsChain
  <2> QED
    BY <2>1, <2>2, <2>3 DEF From, Records
<1>2. Singles \in FromEach
  <2>1. Singles = [c \in Layered |-> Singles[c]]
    BY DEF Singles
  <2>2. \A c \in Layered : Singles[c] \in Records
    BY <1>1 DEF From
  <2> QED
    BY <1>1, <2>1, <2>2 DEF FromEach
<1>3. ASSUME NEW s, IsChain(s), Len(s) <= 1 PROVE Len(s) <= Len(Singles[s[1]].path)
  <2>1. s[1] \in Layered
    BY <1>3 DEF IsChain
  <2> QED
    BY <1>1, <1>3, <2>1
<1>4. ASSUME NEW c \in Layered PROVE Len(Singles[c].path) <= 1
  <2>1. Len(Singles[c].path) = 1
    BY <1>1
  <2> QED
    BY <2>1
<1> QED
  BY <1>2, <1>3, <1>4 DEF AreLongest

LEMMA SteppedAreChains ==
  ASSUME Tangles, NEW f \in FromEach, NEW c \in Layered
  PROVE  /\ Stepped(f)[c] \in From(c)
         /\ Successors(c) = {} => Stepped(f)[c] = Singles[c]
         /\ Successors(c) # {} =>
              /\ \E d \in Successors(c) : Stepped(f)[c] = Via(c, f[d])
              /\ \A d \in Successors(c) : Better(Stepped(f)[c], Via(c, f[d]))
<1>1. Stepped(f)[c] = IF Successors(c) = {} THEN [path |-> <<c>>, weight |-> 0]
                      ELSE BestOf({Via(c, f[d]) : d \in Successors(c)}, 2)
  BY DEF Stepped
<1>2. CASE Successors(c) = {}
  <2>1. Stepped(f)[c] = Singles[c]
    BY <1>1, <1>2 DEF Singles
  <2>2. Singles[c] \in From(c)
    BY SinglesAreLongest DEF FromEach
  <2> QED
    BY <1>2, <2>1, <2>2
<1>3. CASE Successors(c) # {}
  <2> DEFINE chain == [d \in Successors(c) |-> Via(c, f[d])]
  <2>1. Successors(c) \in SUBSET Layered
    BY DEF Successors
  <2>2. IsFiniteSet(Successors(c)) /\ Layered \subseteq Nat
    BY <2>1, LayeredIsFinite, FS_Subset
  <2>3. ASSUME NEW d \in Successors(c)
        PROVE  Via(c, f[d]) \in From(c) /\ Len(Via(c, f[d]).path) >= 2
               /\ Via(c, f[d]) \in Records
    <3>1. f[d] \in From(d)
      BY <2>1 DEF FromEach
    <3>2. /\ Via(c, f[d]) \in From(c)
          /\ Len(Via(c, f[d]).path) = Len(f[d].path) + 1 /\ Len(f[d].path) \in Nat \ {0}
      BY <3>1, ViaIsChain
    <3> QED
      BY <3>2 DEF From
  <2>4. \A d \in Successors(c) : chain[d] = Via(c, f[d])
    OBVIOUS
  <2>5. {chain[d] : d \in Successors(c)} = {Via(c, f[d]) : d \in Successors(c)}
    BY <2>4
  <2> HIDE DEF chain
  <2>6. PICK d \in Successors(c) :
           /\ BestOf({chain[e] : e \in Successors(c)}, 2) = chain[d]
           /\ \A e \in Successors(c) : Better(chain[d], chain[e])
    <3>1. \A e \in Successors(c) : chain[e] \in Records /\ Len(chain[e].path) >= 2
      BY <2>3, <2>4
    <3>2. 2 \in Nat \ {0}
      OBVIOUS
    <3> QED
      BY <1>3, <2>2, <3>1, <3>2, BestIsBest
  <2>7. Stepped(f)[c] = Via(c, f[d])
    BY <1>1, <1>3, <2>4, <2>5, <2>6
  <2>8. \A e \in Successors(c) : Better(Stepped(f)[c], Via(c, f[e]))
    BY <2>4, <2>6, <2>7
  <2> QED
    BY <1>3, <2>3, <2>7, <2>8
<1> QED
  BY <1>2, <1>3

(* The rest of a chain is a chain from a successor of its first component. *)
LEMMA RestIsChain ==
  ASSUME NEW s, IsChain(s), Len(s) > 1
  PROVE  /\ IsChain(Tail(s)) /\ Len(Tail(s)) = Len(s) - 1
         /\ s[1] \in Layered /\ Tail(s)[1] \in Successors(s[1])
<1>1. s \in Seq(Layered) /\ Len(s) \in Nat /\ \A i \in 1 .. Len(s) : s[i] \in Layered
  BY DEF IsChain
<1>2. /\ Tail(s) \in Seq(Layered) /\ Len(Tail(s)) = Len(s) - 1
      /\ \A i \in 1 .. Len(s) - 1 : Tail(s)[i] = s[i + 1]
  BY <1>1
<1>3. ASSUME NEW i \in 1 .. Len(Tail(s)) - 1
      PROVE  <<Tail(s)[i], Tail(s)[i + 1]>> \in LayeredEdges
  <2>1. i + 1 \in 1 .. Len(s) - 1 /\ i \in 1 .. Len(s) - 1
    BY <1>1, <1>2
  <2>2. Tail(s)[i] = s[i + 1] /\ Tail(s)[i + 1] = s[(i + 1) + 1]
    BY <1>2, <2>1
  <2>3. <<s[i + 1], s[(i + 1) + 1]>> \in LayeredEdges
    BY <2>1 DEF IsChain
  <2> QED
    BY <2>2, <2>3
<1>4. 1 \in 1 .. Len(s) - 1 /\ 1 \in 1 .. Len(s) /\ 2 \in 1 .. Len(s) /\ 1 + 1 = 2
  BY <1>1
<1>5. Tail(s)[1] = s[2] /\ <<s[1], s[2]>> \in LayeredEdges
  BY <1>2, <1>4 DEF IsChain
<1> QED
  BY <1>1, <1>2, <1>3, <1>4, <1>5 DEF IsChain, Successors

LEMMA SteppedAreLonger ==
  ASSUME Tangles, NEW f \in FromEach, NEW n \in Nat \ {0}, AreLongest(f, n)
  PROVE  Stepped(f) \in FromEach /\ AreLongest(Stepped(f), n + 1)
<1>1. \A c \in Layered : Stepped(f)[c] \in From(c)
  BY SteppedAreChains
<1>2. Stepped(f) \in FromEach
  <2>1. Stepped(f) = [c \in Layered |-> Stepped(f)[c]]
    BY DEF Stepped
  <2>2. \A c \in Layered : Stepped(f)[c] \in Records
    BY <1>1 DEF From
  <2> QED
    BY <1>1, <2>1, <2>2 DEF FromEach
<1>3. ASSUME NEW c \in Layered PROVE Len(Stepped(f)[c].path) <= n + 1
  <2>1. CASE Successors(c) = {}
    <3>1. Stepped(f)[c] = Singles[c] /\ Len(Singles[c].path) <= 1
      BY <2>1, SteppedAreChains, SinglesAreLongest DEF AreLongest
    <3>2. Len(Singles[c].path) \in Nat
      BY SinglesAreLongest DEF FromEach, From, Records
    <3> QED
      BY <3>1, <3>2
  <2>2. CASE Successors(c) # {}
    <3>1. PICK d \in Successors(c) : Stepped(f)[c] = Via(c, f[d])
      BY <2>2, SteppedAreChains
    <3>2. d \in Layered
      BY DEF Successors
    <3>3. Len(f[d].path) <= n /\ f[d] \in From(d)
      BY <3>2 DEF AreLongest, FromEach
    <3>4. Len(Via(c, f[d]).path) = Len(f[d].path) + 1 /\ Len(f[d].path) \in Nat
      BY <3>3, ViaIsChain
    <3> QED
      BY <3>1, <3>3, <3>4
  <2> QED
    BY <2>1, <2>2
<1>4. ASSUME NEW s, IsChain(s), Len(s) <= n + 1 PROVE Len(s) <= Len(Stepped(f)[s[1]].path)
  <2>1. s[1] \in Layered /\ Len(s) \in Nat \ {0}
    BY <1>4 DEF IsChain
  <2>2. CASE Len(s) = 1
    <3>1. Len(Stepped(f)[s[1]].path) \in Nat \ {0}
      BY <1>1, <2>1 DEF From, Records, IsChain
    <3> QED
      BY <2>2, <3>1
  <2>3. CASE Len(s) > 1
    <3> DEFINE d == Tail(s)[1]
    <3>1. IsChain(Tail(s)) /\ Len(Tail(s)) = Len(s) - 1 /\ d \in Successors(s[1])
      BY <1>4, <2>3, RestIsChain
    <3>2. Len(Tail(s)) <= n
      BY <1>4, <2>1, <3>1
    <3>3. Len(Tail(s)) <= Len(f[d].path)
      BY <3>1, <3>2 DEF AreLongest
    <3> HIDE DEF d
    <3>4. d \in Layered /\ f[d] \in From(d)
      BY <3>1 DEF Successors, FromEach
    <3>5. Len(Via(s[1], f[d]).path) = Len(f[d].path) + 1 /\ Len(f[d].path) \in Nat
      BY <2>1, <3>1, <3>4, ViaIsChain
    <3>6. Better(Stepped(f)[s[1]], Via(s[1], f[d]))
      BY <2>1, <3>1, SteppedAreChains
    <3>7. Len(Stepped(f)[s[1]].path) >= Len(Via(s[1], f[d]).path)
      <4>1. Len(Stepped(f)[s[1]].path) \in Nat
        BY <1>1, <2>1 DEF From, Records
      <4> QED
        BY <3>5, <3>6, <4>1 DEF Better
    <3>8. Len(Stepped(f)[s[1]].path) \in Nat
      BY <1>1, <2>1 DEF From, Records
    <3> QED
      BY <2>1, <3>1, <3>3, <3>5, <3>7, <3>8
  <2>4. Len(s) = 1 \/ Len(s) > 1
    BY <2>1, SMTT(20)
  <2> QED
    BY <2>2, <2>3, <2>4
<1> QED
  BY <1>2, <1>3, <1>4 DEF AreLongest

(* LongestChain is the best of what as many steps as there are components  *)
(* make of the single components.                                          *)
LEMMA LongestIsStepped ==
  ASSUME Tangles
  PROVE  \E f \in FromEach :
           /\ AreLongest(f, Cardinality(Layered) + 1)
           /\ LongestChain = BestOf({f[c] : c \in Layered}, 1).path
<1> DEFINE N == Cardinality(Layered)
           ViaOf(c, chain) ==
             [path |-> <<c>> \o chain.path, weight |-> chain.weight + imports[<<c, chain.path[1]>>]]
           best[n \in 0 .. Cardinality(Layered)] ==
             [c \in Layered |->
                LET successors == {d \in Layered : <<c, d>> \in LayeredEdges}
                IN  IF n = 0 \/ successors = {} THEN [path |-> <<c>>, weight |-> 0]
                    ELSE BestOf({ViaOf(c, best[n - 1][d]) : d \in successors}, 2)]
           Of(f, n) ==
             [c \in Layered |->
                IF n = 0 \/ Successors(c) = {} THEN [path |-> <<c>>, weight |-> 0]
                ELSE BestOf({Via(c, f[n - 1][d]) : d \in Successors(c)}, 2)]
<1>1. LongestChain = BestOf({best[N][c] : c \in Layered}, 1).path
  BY DEF LongestChain
<1>2. N \in Nat
  BY LayeredIsFinite, FS_CardinalityType
<1>3. \A f : [n \in 0 .. Cardinality(Layered) |->
                [c \in Layered |->
                   LET successors == {d \in Layered : <<c, d>> \in LayeredEdges}
                   IN  IF n = 0 \/ successors = {} THEN [path |-> <<c>>, weight |-> 0]
                       ELSE BestOf({ViaOf(c, f[n - 1][d]) : d \in successors}, 2)]]
             = [n \in 0 .. N |-> Of(f, n)]
  BY DEF Successors, Via
<1> HIDE DEF N
<1> DEFINE step == [p \in (1 .. N) \X FromEach |-> Stepped(p[2])]
<1>4. IsStep(step, N, FromEach)
  <2>1. \A p \in (1 .. N) \X FromEach : Stepped(p[2]) \in FromEach
    <3>1. \A f \in FromEach : Stepped(f) \in FromEach
      <4> TAKE f \in FromEach
      <4>1. \A c \in Layered : Stepped(f)[c] \in From(c) /\ Stepped(f)[c] \in Records
        BY SteppedAreChains DEF From
      <4>2. Stepped(f) = [c \in Layered |-> Stepped(f)[c]]
        BY DEF Stepped
      <4> QED
        BY <4>1, <4>2 DEF FromEach
    <3> QED
      BY <3>1
  <2> QED
    BY <2>1 DEF IsStep
<1>5. \A n \in 1 .. N, f \in FromEach : step[<<n, f>>] = Stepped(f)
  OBVIOUS
<1> HIDE DEF step
<1>6. PICK f \in [0 .. N -> FromEach] :
        f[0] = Singles /\ \A n \in 1 .. N : f[n] = step[<<n, f[n - 1]>>]
  <2>1. Recursions(step, N, FromEach, Singles) # {}
    BY <1>2, <1>4, SinglesAreLongest, FiniteRecursion
  <2> QED
    BY <2>1 DEF Recursions
<1>7. ASSUME NEW n \in 1 .. N PROVE f[n] = Stepped(f[n - 1])
  <2>1. n - 1 \in 0 .. N
    BY <1>2
  <2>2. f[n - 1] \in FromEach
    BY <2>1
  <2> QED
    BY <1>5, <1>6, <2>2
<1>8. \A g : Of(g, 0) = Singles /\ \A n \in 1 .. N : Of(g, n) = Stepped(g[n - 1])
  <2> TAKE g
  <2>1. Of(g, 0) = Singles
    BY DEF Singles
  <2>2. ASSUME NEW n \in 1 .. N PROVE Of(g, n) = Stepped(g[n - 1])
    <3>1. n # 0
      BY <1>2
    <3> QED
      BY <3>1 DEF Stepped
  <2> QED
    BY <2>1, <2>2
<1> HIDE DEF Of
<1>9. f = [n \in 0 .. N |-> Of(f, n)]
  <2>1. ASSUME NEW n \in 0 .. N PROVE f[n] = Of(f, n)
    <3>1. n = 0 \/ n \in 1 .. N
      BY <1>2
    <3> QED
      BY <1>6, <1>7, <1>8, <3>1
  <2>2. f = [n \in 0 .. N |-> f[n]]
    OBVIOUS
  <2> QED
    BY <2>1, <2>2
<1>10. best = [n \in 0 .. N |-> Of(best, n)]
  <2>1. f = [n \in 0 .. Cardinality(Layered) |->
               [c \in Layered |->
                  LET successors == {d \in Layered : <<c, d>> \in LayeredEdges}
                  IN  IF n = 0 \/ successors = {} THEN [path |-> <<c>>, weight |-> 0]
                      ELSE BestOf({ViaOf(c, f[n - 1][d]) : d \in successors}, 2)]]
    BY <1>3, <1>9
  <2>2. best = [n \in 0 .. Cardinality(Layered) |->
                  [c \in Layered |->
                     LET successors == {d \in Layered : <<c, d>> \in LayeredEdges}
                     IN  IF n = 0 \/ successors = {} THEN [path |-> <<c>>, weight |-> 0]
                         ELSE BestOf({ViaOf(c, best[n - 1][d]) : d \in successors}, 2)]]
    BY <2>1
  <2> HIDE DEF best, ViaOf
  <2> QED
    BY <1>3, <2>2
<1> HIDE DEF best
<1>11. best[0] = Singles /\ \A n \in 1 .. N : best[n] = Stepped(best[n - 1])
  <2>1. \A n \in 0 .. N : best[n] = Of(best, n)
    BY <1>10
  <2>2. 0 \in 0 .. N /\ \A n \in 1 .. N : n \in 0 .. N
    BY <1>2
  <2> QED
    BY <1>8, <2>1, <2>2
<1> DEFINE T == {n \in 0 .. N : best[n] \in FromEach /\ AreLongest(best[n], n + 1)}
<1>12. 0 \in T
  BY <1>2, <1>11, SinglesAreLongest
<1>13. ASSUME NEW n \in 1 .. N, n - 1 \in T PROVE n \in T
  <2>1. best[n - 1] \in FromEach /\ AreLongest(best[n - 1], (n - 1) + 1) /\ (n - 1) + 1 = n
    BY <1>2, <1>13
  <2>2. n \in Nat \ {0} /\ AreLongest(best[n - 1], n)
    BY <1>2, <2>1
  <2>3. Stepped(best[n - 1]) \in FromEach /\ AreLongest(Stepped(best[n - 1]), n + 1)
    BY <2>1, <2>2, SteppedAreLonger
  <2> QED
    BY <1>2, <1>11, <2>3
<1> HIDE DEF T
<1>14. N \in T
  BY <1>2, <1>12, <1>13, FiniteInduction
<1>15. best[N] \in FromEach /\ AreLongest(best[N], N + 1)
  BY <1>14 DEF T
<1> QED
  BY <1>1, <1>15 DEF N

(* A chain leads from each of its components to the later ones, and, as    *)
(* the layered components are free of loops, not back.                     *)
LEMMA ChainsLead ==
  ASSUME NEW s, IsChain(s), NEW i \in 1 .. Len(s), NEW j \in 1 .. Len(s), i <= j
  PROVE  <<s[i], s[j]>> \in Reach(LayeredEdges)
<1>1. Len(s) \in Nat /\ \A k \in 1 .. Len(s) : s[k] \in Layered /\ s[k] \in Components
  <2>1. Len(s) \in Nat /\ \A k \in 1 .. Len(s) : s[k] \in Layered
    BY DEF IsChain
  <2>2. Layered \subseteq Components
    BY DEF Layered, Connected
  <2> QED
    BY <2>1, <2>2
<1> DEFINE n == j - i
           T == {k \in 0 .. n : <<s[i], s[i + k]>> \in Reach(LayeredEdges)}
<1>2. n \in Nat
  BY <1>1
<1>3. 0 \in T
  <2>1. <<s[i], s[i]>> \in Reach(LayeredEdges)
    BY <1>1, ReachIsPreorder
  <2>2. i + 0 = i
    BY <1>1
  <2> QED
    BY <1>2, <2>1, <2>2
<1>4. ASSUME NEW k \in 1 .. n, k - 1 \in T PROVE k \in T
  <2>1. <<s[i], s[i + (k - 1)]>> \in Reach(LayeredEdges)
    BY <1>4
  <2>2. i + (k - 1) \in 1 .. Len(s) - 1 /\ (i + (k - 1)) + 1 = i + k /\ k \in 0 .. n
        /\ i + k \in 1 .. Len(s) /\ i + (k - 1) \in 1 .. Len(s)
    BY <1>1, <1>2
  <2>3. <<s[i + (k - 1)], s[i + k]>> \in LayeredEdges
    <3>1. <<s[i + (k - 1)], s[(i + (k - 1)) + 1]>> \in LayeredEdges
      BY <2>2 DEF IsChain
    <3> QED
      BY <2>2, <3>1
  <2>4. s[i + (k - 1)] \in Components /\ s[i + k] \in Components
    BY <1>1, <2>2
  <2>5. <<s[i + (k - 1)], s[i + k]>> \in Reach(LayeredEdges)
    BY <2>3, <2>4, ReachIsPreorder
  <2>6. <<s[i], s[i + k]>> \in Reach(LayeredEdges)
    BY <2>1, <2>5, ReachIsPreorder
  <2> QED
    BY <2>2, <2>6
<1> HIDE DEF T
<1>5. n \in T
  BY <1>2, <1>3, <1>4, FiniteInduction
<1>6. i + n = j
  BY <1>1
<1> QED
  BY <1>5, <1>6 DEF T

LEMMA ChainsAreShort ==
  ASSUME Tangles, judged = Groups, NEW s, IsChain(s)
  PROVE  /\ \A i, j \in 1 .. Len(s) : i # j => s[i] # s[j]
         /\ Len(s) <= Cardinality(Layered)
<1>1. s \in [1 .. Len(s) -> Layered] /\ Len(s) \in Nat
  BY DEF IsChain
<1>2. ASSUME NEW i \in 1 .. Len(s), NEW j \in 1 .. Len(s), i < j PROVE s[i] # s[j]
  <2>1. i \in 1 .. Len(s) - 1 /\ i + 1 \in 1 .. Len(s) /\ i + 1 <= j
    BY <1>1, <1>2
  <2>2. <<s[i + 1], s[j]>> \in Reach(LayeredEdges)
    BY <2>1, ChainsLead
  <2>3. PICK e \in LayeredEdges : e = <<s[i], s[i + 1]>>
    BY <2>1 DEF IsChain
  <2>4. <<e[2], e[1]>> \notin Reach(LayeredEdges)
    BY LayeredAreAcyclic
  <2> QED
    BY <2>2, <2>3, <2>4
<1>3. \A i, j \in 1 .. Len(s) : i # j => s[i] # s[j]
  BY <1>1, <1>2
<1>4. Len(s) <= Cardinality(Layered)
  <2>1. s \in Injection(1 .. Len(s), Layered)
    BY <1>1, <1>3 DEF Injection, IsInjective
  <2>2. Cardinality(1 .. Len(s)) <= Cardinality(Layered)
    BY <2>1, LayeredIsFinite, FS_Injection
  <2>3. Cardinality(1 .. Len(s)) = Len(s)
    <3>1. PICK n \in Nat : n = Len(s)
      BY <1>1
    <3>2. 1 \in Int /\ n \in Int
      BY <3>1
    <3>3. Cardinality(1 .. n) = IF 1 > n THEN 0 ELSE n - 1 + 1
      BY <3>2, FS_Interval
    <3>4. Cardinality(1 .. n) = n
      BY <3>1, <3>3
    <3> QED
      BY <3>1, <3>4
  <2> QED
    BY <2>2, <2>3
<1> QED
  BY <1>3, <1>4

(* What InferLayers makes of the layered components.                       *)
IsLayering(s) ==
  /\ LayeredEdges = {} => s = <<>>
  /\ LayeredEdges # {} =>
       /\ IsChain(s) /\ Len(s) >= 2
       /\ \A r : IsChain(r) => Len(r) <= Len(s)

LEMMA LongestIsLongest ==
  ASSUME Tangles, judged = Groups, LayeredEdges # {}
  PROVE  /\ IsChain(LongestChain) /\ Len(LongestChain) >= 2
         /\ \A r : IsChain(r) => Len(r) <= Len(LongestChain)
<1> DEFINE N == Cardinality(Layered)
<1>1. N \in Nat
  BY LayeredIsFinite, FS_CardinalityType
<1>2. PICK f \in FromEach :
        AreLongest(f, N + 1) /\ LongestChain = BestOf({f[c] : c \in Layered}, 1).path
  BY LongestIsStepped
<1> HIDE DEF N
<1>3. \A c \in Layered : f[c] \in Records /\ IsChain(f[c].path) /\ Len(f[c].path) >= 1
                         /\ Len(f[c].path) \in Nat
  BY DEF FromEach, From, IsChain
<1>4. PICK e \in LayeredEdges : TRUE
  OBVIOUS
<1>5. e[1] \in Layered /\ e[2] \in Layered /\ e = <<e[1], e[2]>>
  BY LayeredIsFinite DEF Edges, Pairs
<1>6. PICK c \in Layered : /\ BestOf({f[d] : d \in Layered}, 1) = f[c]
                           /\ \A d \in Layered : Better(f[c], f[d])
  <2>1. Layered # {} /\ 1 \in Nat \ {0}
    BY <1>5
  <2> QED
    BY <1>3, <2>1, LayeredIsFinite, BestIsBest
<1>7. LongestChain = f[c].path
  BY <1>2, <1>6
<1>8. ASSUME NEW r, IsChain(r) PROVE Len(r) <= Len(LongestChain)
  <2>1. r[1] \in Layered /\ Len(r) \in Nat
    BY <1>8 DEF IsChain
  <2>2. Len(r) <= N
    BY <1>8, ChainsAreShort DEF N
  <2>3. Len(r) <= N + 1
    BY <1>1, <2>1, <2>2
  <2>4. Len(r) <= Len(f[r[1]].path)
    BY <1>2, <1>8, <2>3 DEF AreLongest
  <2>5. Len(f[r[1]].path) <= Len(f[c].path)
    BY <1>3, <1>6, <2>1 DEF Better
  <2>6. Len(f[r[1]].path) \in Nat /\ Len(f[c].path) \in Nat
    BY <1>3, <2>1
  <2> QED
    BY <1>7, <2>1, <2>4, <2>5, <2>6
<1>9. Len(LongestChain) >= 2
  <2>1. PICK r \in Seq(Layered) : r = <<e[1], e[2]>> /\ Len(r) = 2 /\ r[1] = e[1] /\ r[2] = e[2]
    <3> DEFINE q == <<e[1], e[2]>>
    <3>1. q \in Seq(Layered) /\ Len(q) = 2 /\ q[1] = e[1] /\ q[2] = e[2]
      BY <1>5
    <3> HIDE DEF q
    <3>2. \E r \in Seq(Layered) : r = q /\ Len(r) = 2 /\ r[1] = e[1] /\ r[2] = e[2]
      BY <3>1
    <3> QED
      BY <3>2 DEF q
  <2>2. IsChain(r)
    <3>1. \A i \in 1 .. Len(r) - 1 : i = 1 /\ i + 1 = 2
      BY <2>1
    <3>2. <<r[1], r[2]>> \in LayeredEdges
      BY <1>5, <2>1
    <3> QED
      BY <2>1, <3>1, <3>2 DEF IsChain
  <2>3. 2 <= Len(LongestChain)
    BY <1>8, <2>1, <2>2
  <2>4. Len(LongestChain) \in Nat
    BY <1>3, <1>7
  <2> QED
    BY <2>3, <2>4
<1> QED
  BY <1>3, <1>7, <1>8, <1>9

LEMMA LayeringKept ==
  ASSUME UNCHANGED <<imports, leaks, tangled>>, NEW s, IsLayering(s), layers' = s
  PROVE  IsLayering(layers)'
<1>1. Edges' = Edges
  BY CodeDecides
<1>2. Layered' = Layered /\ LayeredEdges' = LayeredEdges
  BY <1>1 DEF Layered, LayeredEdges, Connected, CleanEdges, Inside
<1>3. \A r : IsChain(r)' <=> IsChain(r)
  BY <1>2 DEF IsChain
<1> QED
  BY <1>2, <1>3 DEF IsLayering

(* The components that are layered are all of a chain, each in one place.  *)
LEMMA LayersArePlaced ==
  ASSUME Tangles, judged = Groups, IsLayering(layers)
  PROVE  /\ layers \in Seq(Components) /\ Len(layers) \in Nat /\ DOMAIN layers = 1 .. Len(layers)
         /\ \A i, j \in DOMAIN layers : i # j => layers[i] # layers[j]
         /\ \A i \in DOMAIN layers : Position(layers[i]) = i
<1> DEFINE s == layers
<1>1. s \in Seq(Layered)
  <2>1. CASE LayeredEdges = {}
    <3>1. PICK r \in Seq(Layered) : r = <<>>
      <4>1. <<>> \in Seq(Layered)
        OBVIOUS
      <4> QED
        BY <4>1, Zenon
    <3> QED
      BY <2>1, <3>1 DEF IsLayering
  <2>2. CASE LayeredEdges # {}
    BY <2>2 DEF IsLayering, IsChain
  <2> QED
    BY <2>1, <2>2
<1>2. Layered \subseteq Components
  BY LayeredIsFinite
<1>3. s \in Seq(Components) /\ Len(s) \in Nat /\ DOMAIN s = 1 .. Len(s)
  BY <1>1, <1>2
<1>4. ASSUME NEW i \in DOMAIN s, NEW j \in DOMAIN s, i # j PROVE s[i] # s[j]
  <2>1. CASE LayeredEdges = {}
    <3>1. DOMAIN s = {}
      BY <2>1 DEF IsLayering
    <3> QED
      BY <1>4, <3>1
  <2>2. CASE LayeredEdges # {}
    BY <1>3, <1>4, <2>2, ChainsAreShort DEF IsLayering
  <2> QED
    BY <2>1, <2>2
<1>5. ASSUME NEW i \in DOMAIN s PROVE Position(s[i]) = i
  BY <1>4, <1>5 DEF Position
<1> QED
  BY <1>3, <1>4, <1>5

(* An import between layers leads downward, or is a leak.                  *)
LEMMA LayersFlow ==
  ASSUME Tangles, judged = Groups, IsLayering(layers),
         NEW i \in DOMAIN layers, NEW j \in DOMAIN layers, i <= j,
         <<layers[j], layers[i]>> \in Edges
  PROVE  <<layers[j], layers[i]>> \in LayerLeaks
<1>1. /\ layers \in Seq(Components) /\ Len(layers) \in Nat /\ DOMAIN layers = 1 .. Len(layers)
      /\ Position(layers[i]) = i /\ Position(layers[j]) = j
  BY LayersArePlaced
<1>2. PICK e \in Edges : e = <<layers[j], layers[i]>>
  OBVIOUS
<1>3. e[1] = layers[j] /\ e[2] = layers[i] /\ e[1] # e[2] /\ InChain(e)
  BY <1>1, <1>2 DEF Edges, Pairs, InChain, ToSet
<1>4. i < j
  BY <1>1, <1>3
<1>5. LayeredEdges # {} /\ IsChain(layers)
  <2>1. layers # <<>>
    BY <1>1
  <2> QED
    BY <2>1 DEF IsLayering
<1>6. e \in leaks
  <2>1. SUFFICES ASSUME e \notin leaks PROVE FALSE
    OBVIOUS
  <2>2. layers[i] \in Layered /\ layers[j] \in Layered
    BY <1>1, <1>5 DEF IsChain
  <2>3. e \in LayeredEdges
    BY <1>2, <2>1, <2>2 DEF LayeredEdges, Inside, CleanEdges
  <2>4. <<e[2], e[1]>> \notin Reach(LayeredEdges)
    BY <2>3, LayeredAreAcyclic
  <2>5. <<layers[i], layers[j]>> \in Reach(LayeredEdges)
    BY <1>1, <1>5, ChainsLead
  <2> QED
    BY <1>3, <2>4, <2>5
<1> QED
  BY <1>1, <1>2, <1>3, <1>4, <1>6 DEF LayerLeaks

(* The chains of the property are those of the proof, but for chains of    *)
(* one component.                                                          *)
LEMMA ChainsAreChains ==
  ASSUME Tangles, judged = Groups
  PROVE  Chains = {s \in Seq(Layered) : IsChain(s) /\ Len(s) >= 2}
<1> DEFINE N == Cardinality(Layered)
<1>1. N \in Nat
  BY LayeredIsFinite, FS_CardinalityType
<1>2. ASSUME NEW s \in Chains PROVE s \in Seq(Layered) /\ IsChain(s) /\ Len(s) >= 2
  <2>1. PICK n \in 2 .. N : s \in [1 .. n -> Layered]
    BY <1>2 DEF Chains
  <2>2. n \in Nat /\ n >= 2
    BY <1>1, <2>1
  <2>3. s \in Seq(Layered) /\ Len(s) = n
    BY <2>1, <2>2
  <2>4. \A i \in 1 .. Len(s) - 1 : <<s[i], s[i + 1]>> \in LayeredEdges
    BY <1>2 DEF Chains
  <2> QED
    BY <2>2, <2>3, <2>4 DEF IsChain
<1>3. ASSUME NEW s \in Seq(Layered), IsChain(s), Len(s) >= 2 PROVE s \in Chains
  <2>1. Len(s) <= N
    BY <1>3, ChainsAreShort
  <2>2. Len(s) \in 2 .. N /\ s \in [1 .. Len(s) -> Layered]
    BY <1>1, <1>3, <2>1
  <2>3. \A i \in 1 .. Len(s) - 1 : <<s[i], s[i + 1]>> \in LayeredEdges
    BY <1>3 DEF IsChain
  <2> QED
    BY <2>2, <2>3 DEF Chains
<1> QED
  BY <1>2, <1>3

(* The layers are a longest chain as soon as they are inferred ...         *)
Layering == phase # "tangles" => IsLayering(layers)

(* ... and to the end: the best chains of the last step, as long as there  *)
(* are components, are the longest of all (infer.py:229-248).              *)
THEOREM LayeringInvariant == Spec => []Layering
<1>1. Init => Layering
  BY DEF Init, Layering
<1>2. ASSUME Tangles, Layering, [Next]_vars PROVE Layering'
  <2>1. CASE InferLayers
    <3>1. /\ UNCHANGED <<imports, leaks, tangled>> /\ judged = Groups
          /\ layers' = IF LayeredEdges # {} THEN LongestChain ELSE <<>>
      BY <2>1 DEF InferLayers, code
    <3>2. PICK s : s = IF LayeredEdges # {} THEN LongestChain ELSE <<>>
      OBVIOUS
    <3>3. IsLayering(s)
      BY <1>2, <3>1, <3>2, LongestIsLongest DEF IsLayering
    <3> QED
      BY <3>1, <3>2, <3>3, LayeringKept DEF Layering
  <2>2. CASE InferIndependent \/ Protect \/ BuildRules \/ Execute \/ RunRules \/ Raise
             \/ Downgrade \/ Done \/ Over
    <3>1. UNCHANGED <<imports, leaks, tangled, layers>> /\ phase # "tangles"
      BY <2>2 DEF InferIndependent, Protect, BuildRules, Execute, RunRules, Raise,
        Downgrade, Done, Over, vars, code, inferVars
    <3>2. PICK s : s = layers
      OBVIOUS
    <3>3. IsLayering(s) /\ layers' = s
      BY <1>2, <3>1, <3>2 DEF Layering
    <3> QED
      BY <3>1, <3>3, LayeringKept DEF Layering
  <2>3. CASE Cut \/ Judge
    BY <2>3 DEF Cut, Judge, Layering
  <2>4. CASE UNCHANGED vars
    <3>1. UNCHANGED <<imports, leaks, tangled, layers, phase>>
      BY <2>4 DEF vars, code, inferVars
    <3>2. PICK s : s = layers
      OBVIOUS
    <3>3. CASE phase # "tangles"
      <4>1. IsLayering(s) /\ layers' = s
        BY <1>2, <3>1, <3>2, <3>3 DEF Layering
      <4> QED
        BY <3>1, <4>1, LayeringKept DEF Layering
    <3> QED
      BY <3>1, <3>3 DEF Layering
  <2> QED
    BY <1>2, <2>1, <2>2, <2>3, <2>4 DEF Next
<1> QED
  BY <1>1, <1>2, TanglesInvariant, PTL DEF Spec

(* "The longest chain of packages where each imports the next and nothing  *)
(* imports back up" (rules.md:128): what is found is a chain of components *)
(* that can be layered, no such chain is longer, and the imports between   *)
(* its components lead downward, but for leaks.                            *)
THEOREM LayersAreLongest == Spec => []LayersAreLongestChain
<1>1. ASSUME Tangles, Layering PROVE LayersAreLongestChain
  <2> SUFFICES ASSUME phase = "independent" PROVE LayersAreLongestChain
    BY DEF LayersAreLongestChain
  <2>1. judged = Groups /\ IsLayering(layers)
    BY <1>1 DEF Tangles, Layering
  <2>2. Chains = {s \in Seq(Layered) : IsChain(s) /\ Len(s) >= 2}
    BY <1>1, <2>1, ChainsAreChains
  <2>3. CASE LayeredEdges = {}
    <3>1. layers = <<>>
      BY <2>1, <2>3 DEF IsLayering
    <3>2. Chains = {}
      <4>1. SUFFICES ASSUME NEW s \in Chains PROVE FALSE
        OBVIOUS
      <4>2. Len(s) \in Nat /\ Len(s) >= 2 /\ IsChain(s)
        BY <2>2
      <4>3. 1 \in 1 .. Len(s) - 1
        BY <4>2
      <4> QED
        BY <2>3, <4>2, <4>3 DEF IsChain
    <3>3. \A e \in Edges : ~ InChain(e)
      BY <3>1 DEF InChain, ToSet
    <3> QED
      BY <3>1, <3>2, <3>3 DEF LayersAreLongestChain
  <2>4. CASE LayeredEdges # {}
    <3>1. /\ IsChain(layers) /\ Len(layers) >= 2
          /\ \A r : IsChain(r) => Len(r) <= Len(layers)
      BY <2>1, <2>4 DEF IsLayering
    <3>2. layers \in Chains /\ layers # <<>>
      BY <2>2, <3>1 DEF IsChain
    <3>3. ASSUME NEW e \in Edges, InChain(e)
          PROVE  Position(e[1]) < Position(e[2]) \/ e \in LayerLeaks
      <4>1. DOMAIN layers = 1 .. Len(layers) /\ Len(layers) \in Nat
            /\ \A i \in DOMAIN layers : Position(layers[i]) = i
        BY <1>1, <2>1, LayersArePlaced
      <4>2. PICK i \in DOMAIN layers, j \in DOMAIN layers : e[1] = layers[i] /\ e[2] = layers[j]
        BY <3>3 DEF InChain, ToSet
      <4>3. i \in Nat /\ j \in Nat
        BY <4>1
      <4>4. e = <<layers[i], layers[j]>>
        BY <4>2 DEF Edges, Pairs
      <4>5. CASE i < j
        BY <4>1, <4>2, <4>5
      <4>6. CASE j <= i
        BY <1>1, <2>1, <3>3, <4>4, <4>6, LayersFlow
      <4> QED
        BY <4>3, <4>5, <4>6
    <3>4. \A s \in Chains : Len(s) <= Len(layers)
      BY <2>2, <3>1
    <3> QED
      BY <3>2, <3>3, <3>4 DEF LayersAreLongestChain
  <2> QED
    BY <2>3, <2>4
<1> QED
  BY <1>1, TanglesInvariant, LayeringInvariant, PTL

-----------------------------------------------------------------------------
(* The order of the leaks: by their counts, then by their names.           *)
LEMMA PrecedesOrders ==
  ASSUME Tangles, NEW es, es \subseteq leaks
  PROVE  /\ IsFiniteSet(es)
         /\ Orders({ef \in leaks \X leaks : ef[1] # ef[2] /\ Precedes(ef[1], ef[2])}, es)
<1> DEFINE before == {ef \in leaks \X leaks : ef[1] # ef[2] /\ Precedes(ef[1], ef[2])}
<1>1. es \subseteq Edges
  BY LeaksAreImports
<1>2. IsFiniteSet(es)
  BY <1>1, WeightIsNat DEF Tangles
<1>3. ASSUME NEW e \in es PROVE e[1] \in Nat /\ e[2] \in Nat /\ imports[e] \in Nat
  <2>1. e \in Pairs
    BY <1>1 DEF Edges
  <2>2. e[1] \in Nat /\ e[2] \in Nat
    BY <2>1, ConstantAssumption DEF Pairs, ConstantAssumption
  <2>3. imports[e] \in Nat
    BY <2>1 DEF Tangles
  <2> QED
    BY <2>2, <2>3
<1>4. \A x, y \in es : <<x, y>> \in before <=> x # y /\ Precedes(x, y)
  OBVIOUS
<1>5. \A x, y \in es : x[1] = y[1] /\ x[2] = y[2] => x = y
  BY <1>1 DEF Edges, Pairs
<1> HIDE DEF before
<1>6. ASSUME NEW x \in es, NEW y \in es, NEW z \in es
      PROVE  /\ x = y \/ <<x, y>> \in before \/ <<y, x>> \in before
             /\ ~ (<<x, y>> \in before /\ <<y, x>> \in before)
             /\ Precedes(x, y) /\ Precedes(y, z) => Precedes(x, z)
             /\ Precedes(x, y) /\ Precedes(y, x) => x = y
  <2>1. /\ x[1] \in Nat /\ x[2] \in Nat /\ imports[x] \in Nat
        /\ y[1] \in Nat /\ y[2] \in Nat /\ imports[y] \in Nat
        /\ z[1] \in Nat /\ z[2] \in Nat /\ imports[z] \in Nat
    BY <1>3
  <2>2. Precedes(x, y) /\ Precedes(y, z) => Precedes(x, z)
    BY <2>1 DEF Precedes
  <2>3. Precedes(x, y) \/ Precedes(y, x)
    BY <2>1 DEF Precedes
  <2>4. Precedes(x, y) /\ Precedes(y, x) => x = y
    <3>1. Precedes(x, y) /\ Precedes(y, x) => x[1] = y[1] /\ x[2] = y[2]
      BY <2>1 DEF Precedes
    <3> QED
      BY <1>5, <3>1
  <2> QED
    BY <1>4, <2>2, <2>3, <2>4
<1>7. \A x, y, z \in es : <<x, y>> \in before /\ <<y, z>> \in before => <<x, z>> \in before
  BY <1>4, <1>6
<1>8. Orders(before, es)
  BY <1>6, <1>7 DEF Orders
<1> QED
  BY <1>2, <1>8 DEF before

Checks == {"layers", "independent", "protect", "cycles", "leak"}
IsRule(r) ==
  \E name, of : \E check \in Checks, warn \in BOOLEAN : r = Rule(name, check, of, warn)

(* Whether a rule holds is decided by what it checks and by the code.      *)
LEMMA HoldingByCheck ==
  /\ \A r, q : r.check = q.check /\ r.of = q.of => (HoldsInCheck(r) <=> HoldsInCheck(q))
  /\ UNCHANGED code => \A r : HoldsInCheck(r)' <=> HoldsInCheck(r)
  /\ UNCHANGED code => \A r : HoldsInProduction(r)' <=> HoldsInProduction(r)
<1>1. \A r, q : r.check = q.check /\ r.of = q.of => (HoldsInCheck(r) <=> HoldsInCheck(q))
  BY DEF HoldsInCheck, Holds
<1>2. ASSUME UNCHANGED code
      PROVE  /\ \A r : HoldsInCheck(r)' <=> HoldsInCheck(r)
             /\ \A r : HoldsInProduction(r)' <=> HoldsInProduction(r)
  <2>1. Edges' = Edges /\ project' = project
    BY <1>2, CodeDecides DEF code
  <2>2. UsedOutside' = UsedOutside
    BY <2>1 DEF UsedOutside, Candidate
  <2> QED
    BY <2>1, <2>2 DEF HoldsInCheck, HoldsInProduction, Holds, AreOrdered, AreIndependent, OnlyImportedWithin,
      NoCycles, MustNotImport
<1> QED
  BY <1>1, <1>2

(* A rule of the generated file is a warning or holds of the code it was   *)
(* inferred from.                                                          *)
IsTrue(r) == r.warn = TRUE \/ HoldsInProduction(r)
IsFit(r) == IsRule(r) /\ IsTrue(r)

(* What the inference has found when the file is generated.                *)
IsInferred ==
  /\ project \in Projects /\ judged = Groups /\ IsLayering(layers)
  /\ IsMaximal(independent, Consumers) /\ protected \in Seq(Nat)

LEMMA FitByCheck ==
  ASSUME NEW name, NEW of, NEW warn \in BOOLEAN
  PROVE  /\ AreOrdered(of, Edges) => IsFit(Rule(name, "layers", of, warn))
         /\ AreIndependent(of, Edges) => IsFit(Rule(name, "independent", of, warn))
         /\ of[1] \notin UsedOutside => IsFit(Rule(name, "protect", of, warn))
         /\ ~ project.loops => IsFit(Rule(name, "cycles", of, warn))
         /\ \A check \in Checks : IsFit(Rule(name, check, of, TRUE))
<1>0. {"layers", "independent", "protect", "cycles"} \subseteq Checks
  BY DEF Checks
<1>1. \A check \in Checks :
        IsRule(Rule(name, check, of, warn)) /\ IsRule(Rule(name, check, of, TRUE))
  BY DEF IsRule
<1>2. AreOrdered(of, Edges) => HoldsInProduction(Rule(name, "layers", of, warn))
  BY DEF HoldsInProduction, Holds, Rule
<1>3. AreIndependent(of, Edges) => HoldsInProduction(Rule(name, "independent", of, warn))
  BY DEF HoldsInProduction, Holds, Rule
<1>4. of[1] \notin UsedOutside => HoldsInProduction(Rule(name, "protect", of, warn))
  BY DEF HoldsInProduction, Holds, Rule, OnlyImportedWithin
<1>5. ~ project.loops => HoldsInProduction(Rule(name, "cycles", of, warn))
  BY DEF HoldsInProduction, Holds, Rule, NoCycles
<1>6. \A check : IsTrue(Rule(name, check, of, TRUE))
  BY DEF IsTrue, Rule
<1> QED
  BY <1>0, <1>1, <1>2, <1>3, <1>4, <1>5, <1>6 DEF IsFit, IsTrue

(* Without leaks into them, all the layers are in order, ...               *)
LEMMA LayersAreOrdered ==
  ASSUME Tangles, IsInferred, LayerLeaks = {}
  PROVE  AreOrdered(layers, Edges)
<1>1. \A i \in DOMAIN layers : i \in Nat
  BY LayersArePlaced DEF IsInferred
<1>2. ASSUME NEW i \in DOMAIN layers, NEW j \in DOMAIN layers, i < j
      PROVE  <<layers[j], layers[i]>> \notin Edges
  <2>1. i <= j
    BY <1>1, <1>2
  <2> QED
    BY <2>1, LayersFlow DEF IsInferred
<1> QED
  BY <1>2 DEF AreOrdered

(* ... and else those that none leads into.                                *)
LEMMA EnforcedAreOrdered ==
  ASSUME Tangles, IsInferred
  PROVE  AreOrdered(EnforcedLayers, Edges)
<1> DEFINE members == {c \in ToSet(layers) : \A e \in LayerLeaks : e[2] # c}
           before == {cd \in members \X members : Position(cd[1]) < Position(cd[2])}
           n == Cardinality(members)
<1>1. /\ layers \in Seq(Components) /\ Len(layers) \in Nat /\ DOMAIN layers = 1 .. Len(layers)
      /\ \A i \in DOMAIN layers : Position(layers[i]) = i
  BY LayersArePlaced DEF IsInferred
<1>2. \A c \in members : \E i \in DOMAIN layers : c = layers[i] /\ Position(c) = i
  BY <1>1 DEF ToSet
<1>3. IsFiniteSet(members)
  <2>1. members \in SUBSET Components
    BY <1>1, <1>2
  <2> QED
    BY <2>1, ConstantAssumption, FS_Subset DEF ConstantAssumption
<1>4. Orders(before, members)
  <2>1. \A c \in members : Position(c) \in Nat
    BY <1>1, <1>2
  <2>2. \A c, d \in members : Position(c) = Position(d) => c = d
    BY <1>2
  <2>3. \A c, d \in members : <<c, d>> \in before <=> Position(c) < Position(d)
    OBVIOUS
  <2> HIDE DEF members, before
  <2> QED
    BY <2>1, <2>2, <2>3 DEF Orders
<1>5. EnforcedLayers = Sorted(members, before)
  BY DEF EnforcedLayers
<1>6. \A e \in before : Position(e[1]) < Position(e[2]) /\ e[1] \in members /\ e[2] \in members
  OBVIOUS
<1>7. \A c \in members, e \in LayerLeaks : e[2] # c
  OBVIOUS
<1> HIDE DEF members, before
<1>8. DOMAIN EnforcedLayers = 1 .. n /\ Sorts(EnforcedLayers, members, before)
  BY <1>3, <1>4, <1>5, SortedIsSorted
<1> HIDE DEF n
<1>9. ASSUME NEW i \in 1 .. n, NEW j \in 1 .. n, i < j
      PROVE  <<EnforcedLayers[j], EnforcedLayers[i]>> \notin Edges
  <2>1. PICK c, d : c = EnforcedLayers[i] /\ d = EnforcedLayers[j]
    OBVIOUS
  <2>2. <<c, d>> \in before
    BY <1>8, <1>9, <2>1 DEF Sorts, n
  <2>3. c \in members /\ d \in members /\ Position(c) < Position(d)
    BY <1>6, <2>2
  <2>4. PICK k \in DOMAIN layers : c = layers[k] /\ Position(c) = k
    BY <1>2, <2>3
  <2>5. PICK m \in DOMAIN layers : d = layers[m] /\ Position(d) = m
    BY <1>2, <2>3
  <2>6. k <= m
    BY <1>1, <2>3, <2>4, <2>5
  <2>7. <<d, c>> \in Edges => <<d, c>> \in LayerLeaks
    BY <2>4, <2>5, <2>6, LayersFlow DEF IsInferred
  <2> QED
    BY <1>7, <2>1, <2>3, <2>7
<1> QED
  BY <1>8, <1>9 DEF AreOrdered

LEMMA IndependentAreApart ==
  ASSUME IsInferred,
         NEW of, of = Sorted(independent, {cd \in independent \X independent : cd[1] < cd[2]})
  PROVE  AreIndependent(of, Edges)
<1> DEFINE before == {cd \in independent \X independent : cd[1] < cd[2]}
           n == Cardinality(independent)
<1>1. independent \in SUBSET Components /\ \A c, d \in independent : c # d => <<c, d>> \notin Comparable
  BY DEF IsInferred, IsMaximal, Consumers, Connected
<1>2. IsFiniteSet(independent) /\ independent \subseteq Nat
  BY <1>1, ConstantAssumption, FS_Subset DEF ConstantAssumption
<1>3. Orders(before, independent)
  <2>1. \A c, d \in independent : <<c, d>> \in before <=> c < d
    OBVIOUS
  <2> HIDE DEF before
  <2> QED
    BY <1>2, <2>1 DEF Orders
<1> HIDE DEF before
<1>4. DOMAIN of = 1 .. n /\ Sorts(of, independent, before)
  BY <1>2, <1>3, SortedIsSorted DEF before
<1>5. of \in [1 .. n -> independent]
  BY <1>4 DEF Sorts
<1> HIDE DEF n
<1>6. ASSUME NEW i \in 1 .. n, NEW j \in 1 .. n PROVE <<of[i], of[j]>> \notin Edges
  <2>1. PICK c \in independent, d \in independent : c = of[i] /\ d = of[j]
    BY <1>5
  <2>2. CASE c = d
    BY <2>1, <2>2 DEF Edges, Pairs
  <2>3. CASE c # d
    <3>1. <<c, d>> \notin Reach(Edges)
      BY <1>1, <2>3, ComparableByReach
    <3> QED
      BY <1>1, <2>1, <3>1, ReachIsPreorder
  <2> QED
    BY <2>2, <2>3
<1> QED
  BY <1>4, <1>6 DEF AreIndependent

LEMMA ShortSequence ==
  ASSUME NEW U, NEW a \in U, NEW b \in U, NEW s,
         s \in {<<>>, <<a>>, <<>> \o <<b>>, <<a>> \o <<b>>}
  PROVE  s \in Seq(U)
<1>1. CASE s = <<>>
  BY <1>1
<1>2. CASE s = <<a>>
  BY <1>2
<1>3. CASE s = <<>> \o <<b>>
  BY <1>3
<1>4. CASE s = <<a>> \o <<b>>
  BY <1>4
<1> QED
  BY <1>1, <1>2, <1>3, <1>4

(* The parts of the generated file, as sequences of rules.                 *)
LEMMA PartsAreFit ==
  ASSUME Tangles, IsInferred
  PROVE  \E U : /\ \A r \in U : IsFit(r)
                /\ {LayerRules, IndependentRules, ProtectRules, <<CycleRule>>, LeakRules}
                     \subseteq Seq(U)
<1>1. \E a, b : /\ IsFit(a) /\ IsFit(b)
                /\ LayerRules \in {<<>>, <<a>>, <<>> \o <<b>>, <<a>> \o <<b>>}
  <2> DEFINE Flow(members) == Rule(<<"layers-flow-downward">>, "layers", members, FALSE)
             b == Rule(<<"all-layers-flow-downward">>, "layers", layers, TRUE)
  <2>1. /\ IsFit(b) /\ IsFit(Flow(EnforcedLayers))
        /\ LayerLeaks = {} => IsFit(Flow(layers))
    <3>1. /\ IsFit(b)
          /\ \A members : AreOrdered(members, Edges) => IsFit(Flow(members))
      BY FitByCheck DEF Checks
    <3> HIDE DEF Flow, b
    <3> QED
      BY <3>1, LayersAreOrdered, EnforcedAreOrdered
  <2>2. LayerRules =
          CASE layers = <<>> -> <<>>
            [] layers # <<>> /\ LayerLeaks = {} -> <<Flow(layers)>>
            [] layers # <<>> /\ LayerLeaks # {} ->
                 (IF Len(EnforcedLayers) >= 2 THEN <<Flow(EnforcedLayers)>> ELSE <<>>) \o <<b>>
    BY DEF LayerRules
  <2> HIDE DEF Flow, b
  <2>3. CASE layers = <<>>
    BY <2>1, <2>2, <2>3
  <2>5. CASE layers # <<>> /\ LayerLeaks = {}
    <3>1. LayerRules = <<Flow(layers)>>
      BY <2>2, <2>5
    <3> QED
      BY <2>1, <2>5, <3>1
  <2>4. CASE layers # <<>> /\ LayerLeaks # {}
    <3>1. LayerRules \in {<<>> \o <<b>>, <<Flow(EnforcedLayers)>> \o <<b>>}
      BY <2>2, <2>4
    <3> QED
      BY <2>1, <3>1
  <2> QED
    BY <2>3, <2>4, <2>5
<1>2. PICK a : IsFit(a) /\ \E b : /\ IsFit(b)
                /\ LayerRules \in {<<>>, <<a>>, <<>> \o <<b>>, <<a>> \o <<b>>}
  BY <1>1
<1>3. PICK b : /\ IsFit(b)
               /\ LayerRules \in {<<>>, <<a>>, <<>> \o <<b>>, <<a>> \o <<b>>}
  BY <1>2
<1>4. PICK c : IsFit(c) /\ IndependentRules \in {<<>>, <<c>>}
  <2>1. CASE independent = {}
    BY <2>1, FitByCheck DEF IndependentRules, Checks
  <2>2. CASE independent # {}
    <3>1. PICK of : of = Sorted(independent, {cd \in independent \X independent : cd[1] < cd[2]})
      OBVIOUS
    <3>2. AreIndependent(of, Edges)
      BY <3>1, IndependentAreApart
    <3>3. IsFit(Rule(<<"independent-packages">>, "independent", of, FALSE))
      BY <3>2, FitByCheck
    <3> QED
      BY <2>2, <3>1, <3>3 DEF IndependentRules
  <2> QED
    BY <2>1, <2>2
<1>5. IsFit(CycleRule)
  <2>3. project.loops \in BOOLEAN
    BY ProjectAssumption DEF ProjectAssumption, IsInferred
  <2>1. CASE project.loops = TRUE
    BY <2>1, FitByCheck DEF CycleRule, Checks
  <2>2. CASE ~ project.loops
    BY <2>2, <2>3, FitByCheck DEF CycleRule, Checks
  <2> QED
    BY <2>1, <2>2, <2>3
<1>6. /\ Len(protected) \in Nat
      /\ ProtectRules = [i \in 1 .. Len(protected) |-> ProtectRules[i]]
      /\ \A i \in 1 .. Len(protected) : IsFit(ProtectRules[i])
  <2>1. DOMAIN protected = 1 .. Len(protected) /\ Len(protected) \in Nat
    BY DEF IsInferred
  <2>2. ASSUME NEW i \in DOMAIN protected PROVE IsFit(ProtectRules[i])
    <3>1. PICK p : p = protected[i]
      OBVIOUS
    <3>2. PICK used \in BOOLEAN : used = ("outside" \in project.importers[p])
      <4>1. ("outside" \in project.importers[p]) \in BOOLEAN
        OBVIOUS
      <4> QED
        BY <4>1, Zenon
    <3>3. PICK name, of : /\ ProtectRules[i] = Rule(name, "protect", of, used)
                          /\ of = <<p>>
      BY <3>2, <3>1 DEF ProtectRules
    <3>4. CASE "outside" \in project.importers[p]
      BY <3>2, <3>3, <3>4, FitByCheck DEF Checks
    <3>5. CASE "outside" \notin project.importers[p]
      <4>1. of[1] \notin UsedOutside
        BY <3>3, <3>5 DEF UsedOutside
      <4> QED
        BY <3>3, <4>1, FitByCheck
    <3> QED
      BY <3>4, <3>5
  <2>3. ProtectRules = [i \in DOMAIN protected |-> ProtectRules[i]]
    BY DEF ProtectRules
  <2> QED
    BY <2>1, <2>2, <2>3
<1>7. \E n \in Nat : /\ LeakRules = [i \in 1 .. n |-> LeakRules[i]]
                     /\ \A i \in 1 .. n : IsFit(LeakRules[i])
  <2> DEFINE first == {e \in leaks : Cardinality({f \in leaks : Precedes(f, e)}) <= MaxLeakRules}
             before == {ef \in leaks \X leaks : ef[1] # ef[2] /\ Precedes(ef[1], ef[2])}
             reported == Sorted(first \ LayerLeaks, before)
             n == Cardinality(first \ LayerLeaks)
  <2>1. IsFiniteSet(first \ LayerLeaks) /\ Orders(before, first \ LayerLeaks)
    BY PrecedesOrders
  <2>2. DOMAIN reported = 1 .. n /\ n \in Nat
    <3> HIDE DEF first, before
    <3> QED
      BY <2>1, SortedIsSorted, FS_CardinalityType
  <2>3. LeakRules = [i \in DOMAIN reported |->
                       Rule(<<"must-not-import", Slug[reported[i][1]], Slug[reported[i][2]]>>,
                            "leak", reported[i], TRUE)]
    BY DEF LeakRules
  <2> HIDE DEF first, before, reported, n
  <2>4. /\ LeakRules = [i \in 1 .. n |-> LeakRules[i]]
        /\ \A i \in 1 .. n : IsFit(LeakRules[i])
    BY <2>2, <2>3, FitByCheck DEF Checks
  <2> QED
    BY <2>2, <2>4
<1>8. PICK n \in Nat : /\ LeakRules = [i \in 1 .. n |-> LeakRules[i]]
                       /\ \A i \in 1 .. n : IsFit(LeakRules[i])
  BY <1>7
<1> DEFINE P == {ProtectRules[i] : i \in 1 .. Len(protected)}
           L == {LeakRules[i] : i \in 1 .. n}
           U == {a, b, c, CycleRule} \cup P \cup L
<1>9. \A r \in U : IsFit(r)
  BY <1>2, <1>3, <1>4, <1>5, <1>6, <1>8
<1>10. LayerRules \in Seq(U)
  <2>1. a \in U /\ b \in U
    OBVIOUS
  <2> HIDE DEF U
  <2> QED
    BY <1>3, <2>1, ShortSequence
<1>11. IndependentRules \in Seq(U)
  <2>1. c \in U /\ IndependentRules \in {<<>>, <<c>>, <<>> \o <<c>>, <<c>> \o <<c>>}
    BY <1>4
  <2> HIDE DEF U
  <2> QED
    BY <2>1, ShortSequence
<1>12. <<CycleRule>> \in Seq(U)
  <2>1. CycleRule \in U
    OBVIOUS
  <2> HIDE DEF U
  <2> QED
    BY <2>1
<1>13. ProtectRules \in Seq(U)
  <2>1. \A i \in 1 .. Len(protected) : ProtectRules[i] \in U
    OBVIOUS
  <2> HIDE DEF U
  <2> QED
    BY <1>6, <2>1
<1>14. LeakRules \in Seq(U)
  <2>1. \A i \in 1 .. n : LeakRules[i] \in U
    OBVIOUS
  <2> HIDE DEF U
  <2> QED
    BY <1>8, <2>1
<1> HIDE DEF U
<1> QED
  BY <1>9, <1>10, <1>11, <1>12, <1>13, <1>14

(* The inductive invariant of verification: after a run, the results are   *)
(* those of the rules as they are; in the second attempt, every rule that  *)
(* is no warning holds of all that check sees.                             *)
MayPass(rule) == HoldsInCheck(rule) \/ rule.warn = TRUE

Verified ==
  /\ project \in Projects /\ protected \in Seq(Nat) /\ at \in Nat
  /\ \A i \in DOMAIN rules : IsRule(rules[i])
  /\ phase \in {"tangles", "independent", "protect"} => attempt = 1
  /\ phase = "verified" =>
       /\ DOMAIN results = DOMAIN rules
       /\ \A i \in DOMAIN rules : results[i] = "failed" <=> ~ MayPass(rules[i])
  /\ attempt = 1 \/ \A i \in DOMAIN rules : MayPass(rules[i])
  /\ phase = "done" => \A i \in DOMAIN results : results[i] # "failed"

LEMMA RulesBuilt ==
  ASSUME Tangles, IsInferred, BuildRules
  PROVE  \A i \in DOMAIN rules' : IsFit(rules'[i])
<1>1. PICK U : /\ \A r \in U : IsFit(r)
               /\ {LayerRules, IndependentRules, ProtectRules, <<CycleRule>>, LeakRules}
                    \subseteq Seq(U)
  BY PartsAreFit
<1>2. rules' = LayerRules \o IndependentRules \o ProtectRules \o <<CycleRule>> \o LeakRules
  BY DEF BuildRules
<1>3. rules' \in Seq(U)
  BY <1>1, <1>2
<1>4. \A i \in DOMAIN rules' : rules'[i] \in U
  BY <1>3
<1> QED
  BY <1>1, <1>4

(* A step that leaves rules, results and attempt alone.                    *)
LEMMA VerifiedKept ==
  ASSUME Verified, UNCHANGED <<code, rules, results, attempt>>,
         protected' \in Seq(Nat), at' \in Nat,
         phase' \in {"tangles", "independent", "protect"} =>
           phase \in {"tangles", "independent", "protect"},
         phase' = "verified" => phase = "verified",
         phase' = "done" => phase = "done" \/ \A i \in DOMAIN results : results[i] # "failed"
  PROVE  Verified'
<1>1. \A r : MayPass(r)' <=> MayPass(r)
  BY HoldingByCheck DEF MayPass
<1>2. /\ (\A i \in DOMAIN rules : IsRule(rules[i]))'
      /\ (phase = "done" => \A i \in DOMAIN results : results[i] # "failed")'
      /\ (phase \in {"tangles", "independent", "protect"} => attempt = 1)'
  BY DEF Verified, IsRule, Rule
<1>3. \A i \in DOMAIN rules' : MayPass(rules[i])' <=> MayPass(rules[i])
  BY <1>1
<1> QED
  BY <1>2, <1>3 DEF Verified, code

(* A failing rule is made a warning, of the same check.                    *)
LEMMA DowngradeKeepsVerified ==
  ASSUME Verified, Downgrade PROVE Verified'
<1>1. /\ rules' = [i \in DOMAIN rules |->
                     [rules[i] EXCEPT !.warn = rules[i].warn \/ results[i] = "failed"]]
      /\ DOMAIN rules' = DOMAIN rules
      /\ phase = "verified" /\ phase' = "verify" /\ attempt' = 2
      /\ UNCHANGED <<code, protected, at>>
  BY DEF Downgrade, inferVars
<1>2. ASSUME NEW i \in DOMAIN rules PROVE IsRule(rules'[i]) /\ MayPass(rules[i])'
  <2>0. IsRule(rules[i]) /\ (results[i] = "failed" <=> ~ MayPass(rules[i]))
    BY <1>1 DEF Verified
  <2>1. PICK name, of :
          \E check \in Checks, warn \in BOOLEAN : rules[i] = Rule(name, check, of, warn)
    BY <2>0 DEF IsRule
  <2>2. PICK check \in Checks, warn \in BOOLEAN : rules[i] = Rule(name, check, of, warn)
    BY <2>1
  <2>3. rules'[i] = [rules[i] EXCEPT !.warn = rules[i].warn \/ results[i] = "failed"]
    BY <1>1
  <2>4. rules'[i] = Rule(name, check, of, warn \/ results[i] = "failed")
    BY <2>2, <2>3 DEF Rule
  <2>5. rules'[i].check = rules[i].check /\ rules'[i].of = rules[i].of
    BY <2>2, <2>4 DEF Rule
  <2>6. HoldsInCheck(rules[i])' <=> HoldsInCheck(rules[i])
    BY <1>1, <2>5, HoldingByCheck
  <2>7. CASE HoldsInCheck(rules[i])
    BY <2>4, <2>6, <2>7 DEF MayPass, IsRule
  <2>8. CASE ~ HoldsInCheck(rules[i])
    <3>1. warn = TRUE \/ results[i] = "failed"
      BY <2>0, <2>2, <2>8 DEF MayPass, Rule
    <3>2. rules'[i].warn = (warn \/ results[i] = "failed")
      BY <2>4 DEF Rule
    <3> QED
      BY <2>4, <3>1, <3>2 DEF MayPass, IsRule
  <2> QED
    BY <2>7, <2>8
<1>3. protected' \in Seq(Nat) /\ at' \in Nat
  BY <1>1 DEF Verified
<1> QED
  BY <1>1, <1>2, <1>3 DEF Verified, code

(* Every reachable state satisfies it: after a downgrade, all that fails   *)
(* is a warning (infer.py:877-922).                                        *)
THEOREM VerifiedInvariant == Spec => []Verified
<1>1. Init => Verified
  BY DEF Init, Verified
<1>2. ASSUME Tangles, Layering, MaximalConsumers, Verified, [Next]_vars PROVE Verified'
  <2>1. CASE Cut \/ Judge \/ InferLayers \/ InferIndependent \/ Execute \/ Raise \/ Over
             \/ Done \/ UNCHANGED vars
    <3>1. /\ UNCHANGED <<code, rules, results, attempt, protected, at>>
          /\ phase' \in {"tangles", "independent", "protect"} =>
               phase \in {"tangles", "independent", "protect"}
          /\ phase' = "verified" => phase = "verified"
      BY <2>1 DEF Cut, Judge, InferLayers, InferIndependent, Execute, Raise, Over, Done,
        vars, inferVars
    <3>2. phase' = "done" => phase = "done" \/ \A i \in DOMAIN results : results[i] # "failed"
      <4>1. CASE Done
        BY <1>2, <4>1 DEF Done, Verified
      <4>2. CASE ~ Done
        BY <2>1, <4>2 DEF Cut, Judge, InferLayers, InferIndependent, Execute, Raise, Over, vars
      <4> QED
        BY <4>1, <4>2
    <3>3. protected' \in Seq(Nat) /\ at' \in Nat
      BY <1>2, <3>1 DEF Verified
    <3> QED
      BY <1>2, <3>1, <3>2, <3>3, VerifiedKept
  <2>2. CASE Protect
    <3>1. /\ UNCHANGED <<code, rules, results, attempt, phase>>
          /\ protected' \in {protected, Append(protected, at)} /\ at' = at + 1
      BY <2>2 DEF Protect
    <3>2. protected' \in Seq(Nat) /\ at' \in Nat
      BY <1>2, <3>1 DEF Verified
    <3>3. phase # "done" /\ phase = "protect"
      BY <2>2 DEF Protect
    <3> QED
      BY <1>2, <3>1, <3>2, <3>3, VerifiedKept
  <2>3. CASE BuildRules
    <3>1. /\ phase' = "verify" /\ attempt = 1 /\ UNCHANGED <<protected, at, attempt>>
      BY <1>2, <2>3 DEF BuildRules, inferVars, Verified
    <3>2. \A i \in DOMAIN rules' : IsRule(rules'[i])
      <4>1. IsInferred
        BY <1>2, <2>3 DEF BuildRules, Tangles, Layering, MaximalConsumers, Verified, IsInferred
      <4> QED
        BY <1>2, <2>3, <4>1, RulesBuilt DEF IsFit
    <3> QED
      BY <1>2, <2>3, <3>1, <3>2 DEF Verified, BuildRules, code
  <2>4. CASE RunRules
    <3>1. /\ results' = [i \in DOMAIN rules |->
                           IF HoldsInCheck(rules[i]) THEN "passed"
                           ELSE IF rules[i].warn THEN "warned" ELSE "failed"]
          /\ phase' = "verified" /\ UNCHANGED <<code, protected, at, attempt, rules>>
      BY <2>4 DEF RunRules, inferVars
    <3>2. \A r : MayPass(r)' <=> MayPass(r)
      BY <3>1, HoldingByCheck DEF MayPass
    <3>3. ASSUME NEW i \in DOMAIN rules PROVE results'[i] = "failed" <=> ~ MayPass(rules[i])
      BY <3>1 DEF MayPass
    <3>4. DOMAIN results' = DOMAIN rules'
      BY <3>1
    <3>5. \A i \in DOMAIN rules' : MayPass(rules[i])' <=> MayPass(rules[i])
      BY <3>1, <3>2
    <3>6. (\A i \in DOMAIN rules : IsRule(rules[i]))'
      BY <1>2, <3>1 DEF Verified, IsRule, Rule
    <3> QED
      BY <1>2, <3>1, <3>3, <3>4, <3>5, <3>6 DEF Verified, code
  <2>5. CASE Downgrade
    BY <1>2, <2>5, DowngradeKeepsVerified
  <2> QED
    BY <1>2, <2>1, <2>2, <2>3, <2>4, <2>5 DEF Next
<1> QED
  BY <1>1, <1>2, TanglesInvariant, LayeringInvariant, MaximalInvariant, PTL DEF Spec

(* The generated file passes on all the code that check will see: the      *)
(* first archetype check is green (infer.py:907-927).                      *)
THEOREM ChecksGreen == Spec => []FirstCheckGreen
<1>1. Verified => FirstCheckGreen
  BY DEF Verified, FirstCheckGreen, ToSet
<1> QED
  BY <1>1, VerifiedInvariant, PTL

(* "Every rule describes structure the code already has": before it is     *)
(* verified, a rule that is no warning holds of the code it was inferred   *)
(* from (infer.py:437-439, infer.py:743, 802-808).                         *)
THEOREM RulesHold == Spec => []RulesHoldByConstruction
<1> DEFINE Inv == phase = "verify" /\ attempt = 1 => \A i \in DOMAIN rules : IsTrue(rules[i])
<1>1. Init => Inv
  BY DEF Init
<1>2. ASSUME Tangles, Layering, MaximalConsumers, Verified, Inv, [Next]_vars PROVE Inv'
  <2>1. CASE BuildRules
    <3>1. IsInferred
      BY <1>2, <2>1 DEF BuildRules, Tangles, Layering, MaximalConsumers, Verified, IsInferred
    <3>2. \A i \in DOMAIN rules' : IsTrue(rules'[i])
      BY <1>2, <2>1, <3>1, RulesBuilt DEF IsFit
    <3>3. \A r : HoldsInProduction(r)' <=> HoldsInProduction(r)
      <4>1. UNCHANGED code
        BY <2>1 DEF BuildRules
      <4> QED
        BY <4>1, HoldingByCheck
    <3>4. \A i \in DOMAIN rules' : IsTrue(rules[i])' <=> IsTrue(rules'[i])
      BY <3>3 DEF IsTrue
    <3> QED
      BY <3>2, <3>4
  <2>2. CASE Over \/ UNCHANGED vars
    <3>1. UNCHANGED <<code, rules, phase, attempt>>
      BY <2>2 DEF Over, vars
    <3>2. \A r : HoldsInProduction(r)' <=> HoldsInProduction(r)
      BY <3>1, HoldingByCheck
    <3>3. \A i \in DOMAIN rules' : IsTrue(rules[i])' <=> IsTrue(rules[i])
      BY <3>1, <3>2 DEF IsTrue
    <3> QED
      BY <1>2, <3>1, <3>3
  <2>3. CASE Cut \/ Judge \/ InferLayers \/ InferIndependent \/ Protect \/ Execute
             \/ RunRules \/ Raise \/ Downgrade \/ Done
    <3>1. phase' # "verify" \/ attempt' # 1
      BY <2>3 DEF Cut, Judge, InferLayers, InferIndependent, Protect, Execute, RunRules,
        Raise, Downgrade, Done
    <3> QED
      BY <3>1
  <2> QED
    BY <1>2, <2>1, <2>2, <2>3 DEF Next
<1>3. Inv => RulesHoldByConstruction
  BY DEF RulesHoldByConstruction, IsTrue
<1> QED
  BY <1>1, <1>2, <1>3, TanglesInvariant, LayeringInvariant, MaximalInvariant,
     VerifiedInvariant, PTL DEF Spec

-----------------------------------------------------------------------------
(* The types, but for what follows from the other invariants.              *)
Phases == {"tangles", "independent", "protect", "build", "verify", "running", "raising",
           "verified", "done", "failed"}
Results == {"passed", "warned", "failed"}

Typed ==
  /\ imports \in [Pairs -> Counts \cup {0}]
  /\ phase \in Phases
  /\ ToSet(layers) \subseteq Components /\ independent \subseteq Components
  /\ at \in 1 .. Len(Candidates) + 1
  /\ \A i \in DOMAIN protected : protected[i] \in Candidate
  /\ protected \in Seq(Nat) /\ Len(protected) <= MaxBoundaryRules
  /\ attempt \in {1, 2}
  /\ \A i \in DOMAIN results : results[i] \in Results

LEMMA ProtectKeepsTyped ==
  ASSUME Typed, Protect PROVE Typed'
<1>1. /\ phase = "protect" /\ at <= Len(Candidates) /\ Len(protected) < MaxBoundaryRules
      /\ protected' \in {protected, Append(protected, at)} /\ at' = at + 1
      /\ UNCHANGED <<imports, phase, layers, independent, attempt, results>>
  BY DEF Protect, code
<1>2. Len(Candidates) \in Nat /\ Candidate = 1 .. Len(Candidates) /\ MaxBoundaryRules \in Nat
  BY ConstantAssumption DEF ConstantAssumption
<1>3. at \in Nat /\ at \in Candidate /\ at' \in 1 .. Len(Candidates) + 1
  BY <1>1, <1>2 DEF Typed
<1>4. PICK s : s = protected'
  OBVIOUS
<1>5. /\ s \in Seq(Nat) /\ Len(s) <= MaxBoundaryRules
      /\ \A i \in DOMAIN s : s[i] \in Candidate
  <2>1. CASE s = protected
    BY <2>1 DEF Typed
  <2>2. CASE s = Append(protected, at)
    <3>1. protected \in Seq(Nat) /\ Len(protected) \in Nat
      BY DEF Typed
    <3>2. s \in Seq(Nat) /\ Len(s) = Len(protected) + 1
      BY <1>3, <2>2, <3>1
    <3>3. \A i \in DOMAIN s : s[i] = at \/ (i \in DOMAIN protected /\ s[i] = protected[i])
      BY <1>3, <2>2, <3>1
    <3>4. Len(s) <= MaxBoundaryRules
      BY <1>1, <1>2, <3>1, <3>2
    <3>5. \A i \in DOMAIN protected : protected[i] \in Candidate
      BY DEF Typed
    <3>6. \A i \in DOMAIN s : s[i] \in Candidate
      BY <1>3, <3>3, <3>5, Zenon
    <3> QED
      BY <3>2, <3>4, <3>6
  <2> QED
    BY <1>1, <1>4, <2>1, <2>2
<1> QED
  BY <1>1, <1>3, <1>4, <1>5 DEF Typed, Pairs, Candidate

(* The type invariant, for any components, imports and candidates          *)
(* (infer.py:100-143).                                                     *)
THEOREM TypeCorrect == Spec => []TypeOK
<1>1. Init => Typed
  <2> SUFFICES ASSUME Init PROVE Typed
    OBVIOUS
  <2>1. imports \in [Pairs -> Counts \cup {0}]
    <3>1. PICK es \in SUBSET Pairs : \E count \in [es -> Counts] :
            imports = [e \in Pairs |-> IF e \in es THEN count[e] ELSE 0]
      BY DEF Init
    <3>2. PICK count \in [es -> Counts] :
            imports = [e \in Pairs |-> IF e \in es THEN count[e] ELSE 0]
      BY <3>1
    <3> QED
      BY <3>2
  <2>2. /\ phase = "tangles" /\ layers = <<>> /\ independent = {} /\ at = 1
        /\ protected = <<>> /\ attempt = 1 /\ results = <<>>
    BY DEF Init
  <2>3. 1 \in 1 .. Len(Candidates) + 1 /\ MaxBoundaryRules \in Nat
    BY ConstantAssumption DEF ConstantAssumption
  <2>4. ToSet(layers) = {}
    BY <2>2 DEF ToSet
  <2> QED
    BY <2>1, <2>2, <2>3, <2>4 DEF Typed, Phases
<1>2. ASSUME Tangles, MaximalConsumers', Typed, [Next]_vars PROVE Typed'
  <2>1. CASE InferLayers
    <3>1. /\ phase' = "independent" /\ judged = Groups
          /\ UNCHANGED <<imports, independent, at, protected, attempt, results>>
          /\ layers' = IF LayeredEdges # {} THEN LongestChain ELSE <<>>
      BY <2>1 DEF InferLayers, code
    <3>2. \A i \in DOMAIN layers' : layers'[i] \in Components
      <4>1. CASE LayeredEdges # {}
        <5>1. LongestChain \in Seq(Layered)
          BY <1>2, <3>1, <4>1, LongestIsLongest DEF IsChain
        <5>2. Layered \subseteq Components
          BY LayeredIsFinite
        <5> QED
          BY <3>1, <4>1, <5>1, <5>2
      <4>2. CASE LayeredEdges = {}
        BY <3>1, <4>2
      <4> QED
        BY <4>1, <4>2
    <3>3. ToSet(layers)' \subseteq Components
      BY <3>2 DEF ToSet
    <3> QED
      BY <1>2, <3>1, <3>3 DEF Typed, Phases, Pairs, Candidate
  <2>2. CASE InferIndependent
    <3>1. /\ phase' = "protect"
          /\ UNCHANGED <<imports, layers, at, protected, attempt, results>>
      BY <2>2 DEF InferIndependent, code
    <3>2. independent' \subseteq Components
      BY <1>2, <3>1 DEF MaximalConsumers, IsMaximal, Consumers, Connected
    <3> QED
      BY <1>2, <3>1, <3>2 DEF Typed, Phases, Pairs, Candidate, ToSet
  <2>3. CASE Protect
    BY <1>2, <2>3, ProtectKeepsTyped
  <2>4. CASE RunRules
    <3>1. /\ phase' = "verified" /\ UNCHANGED <<imports, layers, independent, at, protected, attempt>>
          /\ \A i \in DOMAIN results' : results'[i] \in Results
      BY <2>4 DEF RunRules, code, inferVars, Results
    <3> QED
      BY <1>2, <3>1 DEF Typed, Phases, Pairs, Candidate, ToSet
  <2>5. CASE Cut \/ Judge \/ BuildRules \/ Execute \/ Raise \/ Downgrade \/ Done \/ Over
             \/ UNCHANGED vars
    <3>1. /\ UNCHANGED <<imports, layers, independent, at, protected, results>>
          /\ phase' \in {phase, "verify", "running", "raising", "failed", "done"}
          /\ attempt' \in {attempt, 2}
      BY <2>5 DEF Cut, Judge, BuildRules, Execute, Raise, Downgrade, Done, Over, vars, code, inferVars
    <3> QED
      BY <1>2, <3>1 DEF Typed, Phases, Pairs, Candidate, ToSet
  <2> QED
    BY <1>2, <2>1, <2>2, <2>3, <2>4, <2>5 DEF Next
<1>3. ASSUME Tangles, Verified, Typed PROVE TypeOK
  <2>1. judged \subseteq SUBSET Components
    BY <1>3, GroupMembers DEF Tangles, Groups
  <2>2. cut \subseteq Edges /\ leaks \subseteq Edges
    BY <1>3, LeaksAreImports
  <2>3. ASSUME NEW i \in DOMAIN rules
        PROVE  rules[i].check \in Checks /\ rules[i].warn \in BOOLEAN
    <3>1. IsRule(rules[i])
      BY <1>3 DEF Verified
    <3>2. PICK name, of :
            \E check \in Checks, warn \in BOOLEAN : rules[i] = Rule(name, check, of, warn)
      BY <3>1 DEF IsRule
    <3>3. PICK check \in Checks, warn \in BOOLEAN : rules[i] = Rule(name, check, of, warn)
      BY <3>2
    <3> QED
      BY <3>3 DEF Rule
  <2>4. ToSet(protected) \subseteq Candidate /\ ToSet(results) \subseteq Results
    BY <1>3 DEF Typed, ToSet
  <2>5. project \in Projects /\ tangled \subseteq judged
    BY <1>3 DEF Tangles, Verified
  <2> QED
    BY <1>3, <2>1, <2>2, <2>3, <2>4, <2>5 DEF Typed, TypeOK, Phases, Results, Checks
<1> QED
  BY <1>1, <1>2, <1>3, TanglesInvariant, MaximalInvariant, VerifiedInvariant, PTL DEF Spec

=============================================================================
