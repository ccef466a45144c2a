---------------------------- MODULE QueriesProofs ---------------------------
(***************************************************************************)
(* Proofs about Queries, for any projects, statements, patterns and names: *)
(* the edges of the import graph are the imports as Python resolves them,  *)
(* patterns select what is documented, and what the rules over the graph   *)
(* have to do with one another.                                            *)
(***************************************************************************)
EXTENDS Queries, FiniteSetTheorems, SequenceTheorems, WellFoundedInduction, TLAPS

-----------------------------------------------------------------------------
(* A set of natural numbers has a least one.                               *)
LEMMA LeastNatural ==
  ASSUME NEW T, T \subseteq Nat, T # {}
  PROVE  \E m \in T : \A k \in T : m <= k
<1>1. PICK m \in T : \A k \in T : <<k, m>> \notin OpToRel(<, Nat)
  BY WFMin, NatLessThanWellFounded
<1>2. \A k \in T : ~ (k < m)
  BY <1>1 DEF OpToRel
<1> QED
  BY <1>2

(* Induction up to n: what 0 is in, and each number whose predecessor is,  *)
(* every number is in.                                                     *)
LEMMA FiniteInduction ==
  ASSUME NEW n \in Nat, NEW T, 0 \in T, \A k \in 1 .. n : k - 1 \in T => k \in T
  PROVE  \A k \in 0 .. n : k \in T
<1> DEFINE Out == {k \in 0 .. n : k \notin T}
<1>1. ASSUME Out # {} PROVE FALSE
  <2>1. PICK m \in Out : \A k \in Out : m <= k
    <3>1. Out \subseteq Nat
      OBVIOUS
    <3> HIDE DEF Out
    <3> QED
      BY <1>1, <3>1, LeastNatural
  <2>2. m \in 1 .. n
    BY <2>1
  <2>3. m - 1 \in T
    BY <2>1, <2>2
  <2> QED
    BY <2>1, <2>2, <2>3
<1> QED
  BY <1>1

(* What each step makes of its number and of the value before it, and the  *)
(* values that n steps from v make.                                        *)
IsStep(step, n, V) == step \in [(1 .. n) \X V -> V]

Recursions(step, n, V, v) ==
  {f \in [0 .. n -> V] : f[0] = v /\ \A k \in 1 .. n : f[k] = step[<<k, f[k - 1]>>]}

(* Recursion up to n has a solution.                                       *)
LEMMA FiniteRecursion ==
  ASSUME NEW n \in Nat, NEW V, NEW v \in V, NEW step, IsStep(step, n, V)
  PROVE  Recursions(step, n, V, v) # {}
<1> DEFINE Solves(f, m) == f[0] = v /\ \A k \in 1 .. m : f[k] = step[<<k, f[k - 1]>>]
           Solved == {m \in 0 .. n : \E f \in [0 .. m -> V] : Solves(f, m)}
<1> step \in [(1 .. n) \X V -> V]
  BY DEF IsStep
<1>1. 0 \in Solved
  <2> DEFINE f == [k \in 0 .. 0 |-> v]
  <2>1. f \in [0 .. 0 -> V] /\ f[0] = v
    OBVIOUS
  <2> HIDE DEF f
  <2>2. \E h \in [0 .. 0 -> V] : Solves(h, 0)
    BY <2>1
  <2> QED
    BY <2>2
<1>2. ASSUME NEW m \in 1 .. n, m - 1 \in Solved PROVE m \in Solved
  <2>1. PICK f \in [0 .. m - 1 -> V] : Solves(f, m - 1)
    BY <1>2
  <2> DEFINE g == [k \in 0 .. m |-> IF k = m THEN step[<<m, f[m - 1]>>] ELSE f[k]]
  <2>2. step[<<m, f[m - 1]>>] \in V
    OBVIOUS
  <2>3. g \in [0 .. m -> V]
    BY <2>2
  <2>4. g[0] = v
    BY <2>1
  <2>5. ASSUME NEW k \in 1 .. m PROVE g[k] = step[<<k, g[k - 1]>>]
    <3>1. g[k - 1] = f[k - 1]
      OBVIOUS
    <3>2. CASE k = m
      <4>1. g[m] = step[<<m, f[m - 1]>>]
        OBVIOUS
      <4> QED
        BY <3>1, <3>2, <4>1
    <3>3. CASE k \in 1 .. m - 1
      <4>1. g[k] = f[k]
        BY <3>3
      <4> QED
        BY <2>1, <3>1, <3>3, <4>1
    <3> QED
      BY <3>2, <3>3
  <2> HIDE DEF g
  <2>6. \E h \in [0 .. m -> V] : Solves(h, m)
    BY <2>3, <2>4, <2>5
  <2> QED
    BY <2>6
<1> HIDE DEF Solved
<1>3. n \in Solved
  BY <1>1, <1>2, FiniteInduction
<1> QED
  BY <1>3 DEF Solved, Recursions
-----------------------------------------------------------------------------
(* A sequence of whatever it is a sequence of.                             *)
IsSequence(s) == \E S : s \in Seq(S)

(* Two sequences are sequences over one set.                               *)
LEMMA Together ==
  ASSUME NEW s, NEW t, IsSequence(s), IsSequence(t)
  PROVE  \E S : s \in Seq(S) /\ t \in Seq(S)
<1>1. PICK A : s \in Seq(A)
  BY DEF IsSequence
<1>2. PICK B : t \in Seq(B)
  BY DEF IsSequence
<1>3. s \in Seq(A \cup B) /\ t \in Seq(A \cup B)
  BY <1>1, <1>2
<1> QED
  BY <1>3

LEMMA AppendIsSequence ==
  ASSUME NEW s, IsSequence(s), NEW x
  PROVE  /\ IsSequence(Append(s, x)) /\ Len(s) \in Nat
         /\ Len(Append(s, x)) = Len(s) + 1 /\ Append(s, x)[Len(s) + 1] = x
         /\ \A i \in 1 .. Len(s) : Append(s, x)[i] = s[i]
<1>1. PICK A : s \in Seq(A)
  BY DEF IsSequence
<1>2. s \in Seq(A \cup {x}) /\ x \in A \cup {x}
  BY <1>1
<1> DEFINE T == A \cup {x}
<1> HIDE DEF T
<1>3. /\ Append(s, x) \in Seq(T) /\ Len(Append(s, x)) = Len(s) + 1
      /\ Append(s, x)[Len(s) + 1] = x /\ \A i \in 1 .. Len(s) : Append(s, x)[i] = s[i]
  BY <1>2, AppendProperties DEF T
<1>4. Len(s) \in Nat
  BY <1>1, LenProperties
<1> QED
  BY <1>3, <1>4 DEF IsSequence

LEMMA SubSeqIsSequence ==
  ASSUME NEW s, IsSequence(s), NEW m \in 1 .. Len(s) + 1, NEW n \in m - 1 .. Len(s)
  PROVE  /\ IsSequence(SubSeq(s, m, n)) /\ Len(SubSeq(s, m, n)) = n - m + 1
         /\ \A i \in 1 .. n - m + 1 : SubSeq(s, m, n)[i] = s[m + i - 1]
<1>1. PICK A : s \in Seq(A)
  BY DEF IsSequence
<1>2. Len(s) \in Nat /\ \A i \in 1 .. Len(s) : s[i] \in A
  BY <1>1, LenProperties, ElementOfSeq
<1>3. m \in Int /\ n \in Int /\ \A i \in m .. n : s[i] \in A
  BY <1>2
<1>4. /\ SubSeq(s, m, n) \in Seq(A)
      /\ Len(SubSeq(s, m, n)) = IF m <= n THEN n - m + 1 ELSE 0
      /\ \A i \in 1 .. n - m + 1 : SubSeq(s, m, n)[i] = s[m + i - 1]
  BY <1>3, SubSeqProperties
<1> QED
  BY <1>2, <1>4 DEF IsSequence

LEMMA ConcatIsSequence ==
  ASSUME NEW s, NEW t, IsSequence(s), IsSequence(t)
  PROVE  /\ IsSequence(s \o t) /\ Len(s) \in Nat /\ Len(t) \in Nat
         /\ Len(s \o t) = Len(s) + Len(t)
         /\ \A i \in 1 .. Len(s) : (s \o t)[i] = s[i]
         /\ \A i \in 1 .. Len(t) : (s \o t)[Len(s) + i] = t[i]
<1>1. PICK S : s \in Seq(S) /\ t \in Seq(S)
  BY Together
<1>2. Len(s) \in Nat /\ Len(t) \in Nat
  BY <1>1, LenProperties
<1>3. /\ s \o t \in Seq(S) /\ Len(s \o t) = Len(s) + Len(t)
      /\ \A i \in 1 .. Len(s) + Len(t) :
           (s \o t)[i] = IF i <= Len(s) THEN s[i] ELSE t[i - Len(s)]
  BY <1>1, ConcatProperties
<1>4. \A i \in 1 .. Len(t) : Len(s) + i \in 1 .. Len(s) + Len(t) /\ ~ (Len(s) + i <= Len(s))
                             /\ (Len(s) + i) - Len(s) = i
  BY <1>2
<1> QED
  BY <1>2, <1>3, <1>4 DEF IsSequence

(* Sequences of one length that agree everywhere are one.                  *)
LEMMA SameSequence ==
  ASSUME NEW s, NEW t, IsSequence(s), IsSequence(t),
         Len(s) = Len(t), \A i \in 1 .. Len(s) : s[i] = t[i]
  PROVE  s = t
<1>1. PICK S : s \in Seq(S) /\ t \in Seq(S)
  BY Together
<1> QED
  BY <1>1, SeqEqual

LEMMA EmptySequence ==
  /\ IsSequence(<<>>) /\ Len(<<>>) = 0
  /\ \A s : IsSequence(s) /\ s # <<>> => Len(s) \in Nat \ {0}
<1>1. <<>> \in Seq({}) /\ Len(<<>>) = 0
  BY EmptySeq
<1>2. ASSUME NEW s, IsSequence(s), s # <<>> PROVE Len(s) \in Nat \ {0}
  <2>1. PICK S : s \in Seq(S)
    BY <1>2 DEF IsSequence
  <2> QED
    BY <1>2, <2>1, EmptySeq
<1> QED
  BY <1>1, <1>2 DEF IsSequence

LEMMA SingleSequence ==
  ASSUME NEW x
  PROVE  IsSequence(<<x>>) /\ Len(<<x>>) = 1 /\ <<x>>[1] = x
<1>1. <<x>> \in Seq({x})
  OBVIOUS
<1> QED
  BY <1>1 DEF IsSequence

(* Images of finite sets, and sets with two elements in them.              *)
LEMMA ImageIsFinite ==
  ASSUME NEW S, IsFiniteSet(S), NEW f, DOMAIN f = S, f = [x \in S |-> f[x]]
  PROVE  /\ IsFiniteSet({f[x] : x \in S})
         /\ Cardinality({f[x] : x \in S}) <= Cardinality(S)
         /\ (\A x, y \in S : f[x] = f[y] => x = y) =>
              Cardinality({f[x] : x \in S}) = Cardinality(S)
<1> DEFINE T == {f[x] : x \in S}
<1>1. f \in [S -> T] /\ \A t \in T : \E x \in S : f[x] = t
  OBVIOUS
<1> HIDE DEF T
<1>2. f \in Surjection(S, T)
  BY <1>1 DEF Surjection
<1>3. /\ IsFiniteSet(T) /\ Cardinality(T) <= Cardinality(S)
      /\ Cardinality(T) = Cardinality(S) <=> f \in Injection(S, T)
  BY <1>2, FS_Surjection
<1>4. (\A x, y \in S : f[x] = f[y] => x = y) => f \in Injection(S, T)
  BY <1>1 DEF Injection, IsInjective
<1> QED
  BY <1>3, <1>4 DEF T

LEMMA TwoInside ==
  ASSUME NEW D, IsFiniteSet(D), NEW x \in D, NEW y \in D, x # y
  PROVE  Cardinality(D) > 1
<1>1. IsFiniteSet({x}) /\ Cardinality({x}) = 1
  BY FS_Singleton
<1>2. Cardinality(D) \in Nat /\ Cardinality({x}) <= Cardinality(D)
  BY FS_CardinalityType, FS_Subset
<1>3. Cardinality(D) = Cardinality({x}) => D = {x}
  BY FS_Subset
<1>4. D # {x}
  OBVIOUS
<1> QED
  BY <1>1, <1>2, <1>3, <1>4

-----------------------------------------------------------------------------
(* Package roots, and the modules that files are, are names.               *)
LEMMA FilesAreNamed ==
  ASSUME NEW p \in Projects
  PROVE  /\ IsSequence(p.root) /\ IsFiniteSet(p.files)
         /\ \A f \in p.files : IsSequence(f.dir)
  BY ProjectAssumption DEF IsSequence

LEMMA DirsAreSequences ==
  ASSUME NEW p \in Projects, NEW d \in Dirs(p)
  PROVE  IsSequence(d)
<1>1. PICK f \in p.files : d \in Prefixes(f.dir)
  BY DEF Dirs
<1>2. PICK l \in 0 .. Len(f.dir) : d = SubSeq(f.dir, 1, l)
  BY <1>1 DEF Prefixes
<1>3. IsSequence(f.dir)
  BY FilesAreNamed
<1>4. Len(f.dir) \in Nat
  BY <1>3, LenProperties DEF IsSequence
<1>5. 1 \in 1 .. Len(f.dir) + 1 /\ l \in 1 - 1 .. Len(f.dir)
  BY <1>4
<1> QED
  BY <1>2, <1>3, <1>5, SubSeqIsSequence

LEMMA RootsAreSequences ==
  ASSUME NEW p \in Projects, NEW r \in PackageRoots(p)
  PROVE  IsSequence(r)
<1>1. r = p.root \/ r = Append(p.root, "src") \/ r \in Dirs(p)
  BY DEF PackageRoots
<1>2. IsSequence(p.root)
  BY FilesAreNamed
<1>3. IsSequence(Append(p.root, "src"))
  BY <1>2, AppendIsSequence
<1> QED
  BY <1>1, <1>2, <1>3, DirsAreSequences

LEMMA ModulesAreSequences ==
  ASSUME NEW p \in Projects, NEW rf \in PythonFiles(p)
  PROVE  IsSequence(ModuleOf(rf[1], rf[2]))
<1>1. /\ rf[1] \in PackageRoots(p) /\ rf[2] \in p.files /\ IsPrefix(rf[1], rf[2].dir)
      /\ rf = <<rf[1], rf[2]>>
  BY DEF PythonFiles
<1> DEFINE r == rf[1]  d == rf[2].dir
<1>2. IsSequence(r) /\ IsSequence(d)
  BY <1>1, RootsAreSequences, FilesAreNamed
<1> HIDE DEF r, d
<1>3. Len(r) \in Nat /\ Len(d) \in Nat
  BY <1>2, LenProperties DEF IsSequence
<1>4. Len(r) <= Len(d)
  BY <1>1 DEF IsPrefix, r, d
<1>5. IsSequence(Below(r, d))
  <2>1. Len(r) + 1 \in 1 .. Len(d) + 1 /\ Len(d) \in Len(r) + 1 - 1 .. Len(d)
    BY <1>3, <1>4
  <2> QED
    BY <1>2, <2>1, SubSeqIsSequence DEF Below
<1> DEFINE t == IF rf[2].stem \in Inits THEN <<>> ELSE <<rf[2].stem>>
<1>6. IsSequence(t)
  BY EmptySequence, SingleSequence
<1>7. ModuleOf(rf[1], rf[2]) = Below(r, d) \o t
  BY DEF ModuleOf, r, d
<1> HIDE DEF t
<1> QED
  BY <1>5, <1>6, <1>7, ConcatIsSequence

(* What a relative import stands for is found by dropping as many parts as *)
(* there are dots, in __init__.py too (imports.py:241-251).                *)
LEMMA BaseIsAbsolute ==
  ASSUME NEW p \in Projects, NEW rf \in PythonFiles(p), NEW s, IsStatement(s),
         ModuleOf(rf[1], rf[2]) # <<>>, IsValid(rf, s)
  PROVE  BaseOf(rf, s) = Absolute(rf, s) /\ IsSequence(BaseOf(rf, s))
<1> DEFINE module == ModuleOf(rf[1], rf[2])
           init == rf[2].stem \in Inits
           context == IF init THEN Append(module, "__init__") ELSE module
           n == Len(module)
<1>1. IsSequence(module) /\ n \in Nat \ {0}
  BY ModulesAreSequences, EmptySequence
<1>2. s.level \in Nat /\ IsSequence(s.base)
  BY DEF IsStatement, IsSequence
<1>3. CASE s.level = 0
  BY <1>2, <1>3 DEF BaseOf, Absolute
<1>4. CASE s.level # 0
  <2>1. s.level \in 1 .. IF init THEN n ELSE n - 1
    <3>1. s.level <= Len(IF init THEN module ELSE Front(module))
      BY DEF IsValid, PackageOf
    <3>2. Len(Front(module)) = n - 1
      <4>1. 1 \in 1 .. n + 1 /\ n - 1 \in 1 - 1 .. n
        BY <1>1
      <4> HIDE DEF module
      <4>2. Len(SubSeq(module, 1, n - 1)) = n - 1 - 1 + 1
        BY <1>1, <4>1, SubSeqIsSequence
      <4>3. n - 1 - 1 + 1 = n - 1
        BY <1>1
      <4> QED
        BY <4>2, <4>3 DEF Front
    <3> HIDE DEF module, init
    <3> QED
      BY <1>1, <1>2, <1>4, <3>1, <3>2
  <2>2. BaseOf(rf, s) = ResolveRelative(context, s.base, s.level)
    BY <1>4 DEF BaseOf
  <2>3. Absolute(rf, s) = SubSeq(PackageOf(rf), 1, Len(PackageOf(rf)) - (s.level - 1)) \o s.base
    BY <1>4 DEF Absolute
  <2>4. PackageOf(rf) = IF init THEN module ELSE Front(module)
    BY DEF PackageOf
  <2> HIDE DEF module
  <2>5. CASE init
    <3> DEFINE m == n + 1 - s.level
    <3>1. /\ IsSequence(context) /\ Len(context) = n + 1
          /\ \A i \in 1 .. n : context[i] = module[i]
      BY <1>1, <2>5, AppendIsSequence
    <3>2. BaseOf(rf, s) = SubSeq(context, 1, m) \o s.base
      <4>1. s.level <= Len(context) /\ Len(context) - s.level = m
        BY <1>1, <2>1, <2>5, <3>1
      <4> HIDE DEF context, m
      <4> QED
        BY <2>2, <4>1 DEF ResolveRelative
    <3>3. Absolute(rf, s) = SubSeq(module, 1, m) \o s.base
      <4>1. n - (s.level - 1) = m
        BY <1>1, <1>2
      <4> QED
        BY <2>3, <2>4, <2>5, <4>1
    <3>4. SubSeq(context, 1, m) = SubSeq(module, 1, m) /\ IsSequence(SubSeq(module, 1, m))
      <4> DEFINE a == SubSeq(context, 1, m)  b == SubSeq(module, 1, m)
      <4>1. m \in 0 .. n
        BY <1>1, <2>1, <2>5
      <4>2. /\ 1 \in 1 .. Len(context) + 1 /\ m \in 1 - 1 .. Len(context)
            /\ 1 \in 1 .. Len(module) + 1 /\ m \in 1 - 1 .. Len(module)
        BY <1>1, <3>1, <4>1
      <4> HIDE DEF context, m
      <4>3. /\ IsSequence(a) /\ Len(a) = m - 1 + 1
            /\ \A i \in 1 .. m - 1 + 1 : a[i] = context[1 + i - 1]
        BY <3>1, <4>2, SubSeqIsSequence
      <4>4. /\ IsSequence(b) /\ Len(b) = m - 1 + 1
            /\ \A i \in 1 .. m - 1 + 1 : b[i] = module[1 + i - 1]
        BY <1>1, <4>2, SubSeqIsSequence
      <4> HIDE DEF a, b
      <4>5. \A i \in 1 .. m - 1 + 1 : 1 + i - 1 = i /\ i \in 1 .. n
        BY <1>1, <4>1
      <4>6. Len(a) = Len(b) /\ \A i \in 1 .. Len(a) : a[i] = b[i]
        BY <3>1, <4>3, <4>4, <4>5
      <4>7. a = b
        BY <4>3, <4>4, <4>6, SameSequence
      <4> QED
        BY <4>4, <4>7 DEF a, b
    <3> HIDE DEF context, m
    <3>6. IsSequence(SubSeq(module, 1, m) \o s.base)
      BY <1>2, <3>4, ConcatIsSequence
    <3> QED
      BY <3>2, <3>3, <3>4, <3>6
<2>6. CASE ~init
    <3> DEFINE m == n - s.level  front == Front(module)
    <3>1. BaseOf(rf, s) = SubSeq(module, 1, m) \o s.base
      <4>1. s.level <= n
        BY <1>1, <2>1, <2>6
      <4> QED
        BY <2>2, <2>6, <4>1 DEF ResolveRelative
    <3>2. m \in 0 .. n - 1
      BY <1>1, <2>1, <2>6
    <3>3. /\ IsSequence(front) /\ Len(front) = n - 1
          /\ \A i \in 1 .. n - 1 : front[i] = module[i]
      <4>1. 1 \in 1 .. n + 1 /\ n - 1 \in 1 - 1 .. n
        BY <1>1
      <4>2. /\ IsSequence(front) /\ Len(front) = n - 1 - 1 + 1
            /\ \A i \in 1 .. n - 1 - 1 + 1 : front[i] = module[1 + i - 1]
        BY <1>1, <4>1, SubSeqIsSequence DEF Front
      <4> QED
        BY <1>1, <4>2
    <3>4. Absolute(rf, s) = SubSeq(front, 1, m) \o s.base
      <4>1. n - 1 - (s.level - 1) = m
        BY <1>1, <1>2
      <4> QED
        BY <2>3, <2>4, <2>6, <3>3, <4>1
    <3>5. SubSeq(front, 1, m) = SubSeq(module, 1, m) /\ IsSequence(SubSeq(module, 1, m))
      <4> DEFINE a == SubSeq(front, 1, m)  b == SubSeq(module, 1, m)
      <4>1. /\ 1 \in 1 .. Len(front) + 1 /\ m \in 1 - 1 .. Len(front)
            /\ 1 \in 1 .. Len(module) + 1 /\ m \in 1 - 1 .. Len(module)
        BY <1>1, <3>2, <3>3
      <4> HIDE DEF front, m
      <4>2. /\ IsSequence(a) /\ Len(a) = m - 1 + 1
            /\ \A i \in 1 .. m - 1 + 1 : a[i] = front[1 + i - 1]
        BY <3>3, <4>1, SubSeqIsSequence
      <4>3. /\ IsSequence(b) /\ Len(b) = m - 1 + 1
            /\ \A i \in 1 .. m - 1 + 1 : b[i] = module[1 + i - 1]
        BY <1>1, <4>1, SubSeqIsSequence
      <4> HIDE DEF a, b
      <4>4. \A i \in 1 .. m - 1 + 1 : 1 + i - 1 = i /\ i \in 1 .. n - 1
        BY <1>1, <3>2
      <4>5. Len(a) = Len(b) /\ \A i \in 1 .. Len(a) : a[i] = b[i]
        BY <3>3, <4>2, <4>3, <4>4
      <4>6. a = b
        BY <4>2, <4>3, <4>5, SameSequence
      <4> QED
        BY <4>3, <4>6 DEF a, b
    <3> HIDE DEF front, m
    <3>6. IsSequence(SubSeq(module, 1, m) \o s.base)
      BY <1>2, <3>5, ConcatIsSequence
    <3> QED
      BY <3>1, <3>4, <3>5, <3>6
  <2> QED
    BY <2>5, <2>6
<1> QED
  BY <1>2, <1>3, <1>4

(* A statement gives edges to what it denotes ...                          *)
LEMMA TargetsAreDenoted ==
  ASSUME NEW p \in Projects, NEW rf \in PythonFiles(p), NEW s, IsStatement(s),
         ModuleOf(rf[1], rf[2]) # <<>>, IsValid(rf, s), NEW t \in TargetsOf(p, rf, s)
  PROVE  t \in Denoted(p, rf, s) /\ IsLocal(p, t)
<1> DEFINE base == BaseOf(rf, s)
           submodules == {m \in {Append(base, n) : n \in s.names} : IsLocal(p, m)}
<1>1. base = Absolute(rf, s)
  BY BaseIsAbsolute
<1>2. TargetsOf(p, rf, s)
        = IF s.from
          THEN submodules \cup (IF IsLocal(p, base) /\ (submodules = {} \/ s.star)
                                THEN {base} ELSE {})
          ELSE {m \in {s.base} : IsLocal(p, m)}
  BY DEF TargetsOf
<1>3. Denoted(p, rf, s)
        = IF s.from /\ ~s.star
          THEN {IF IsLocal(p, Append(base, n)) THEN Append(base, n) ELSE base : n \in s.names}
          ELSE {base}
  BY <1>1 DEF Denoted
<1>4. CASE s = Import(s.base)
  <2>1. ~s.from /\ s.level = 0
    BY <1>4 DEF Import
  <2>2. base = s.base
    BY <2>1 DEF BaseOf
  <2> HIDE DEF base
  <2> QED
    BY <1>2, <1>3, <2>1, <2>2
<1>5. CASE s = ImportFrom(s.level, s.base, s.names) /\ s.names # {}
  <2>1. s.from /\ ~s.star
    BY <1>5 DEF ImportFrom
  <2> HIDE DEF base
  <2>2. CASE t \in submodules
    BY <1>3, <2>1, <2>2
  <2>3. CASE t = base /\ submodules = {} /\ IsLocal(p, base)
    <3>1. \A n \in s.names : ~IsLocal(p, Append(base, n))
      BY <2>3
    <3> QED
      BY <1>3, <1>5, <2>1, <2>3, <3>1
  <2> QED
    BY <1>2, <2>1, <2>2, <2>3
<1>6. CASE s = ImportStar(s.level, s.base)
  <2>1. s.from /\ s.star /\ s.names = {}
    BY <1>6 DEF ImportStar, ImportFrom
  <2> HIDE DEF base
  <2> QED
    BY <1>2, <1>3, <2>1
<1> QED
  BY <1>4, <1>5, <1>6 DEF IsStatement

(* ... and to all of it that is local, but to the base only if there is    *)
(* nothing else.                                                           *)
LEMMA DenotedAreTargets ==
  ASSUME NEW p \in Projects, NEW rf \in PythonFiles(p), NEW s, IsStatement(s),
         ModuleOf(rf[1], rf[2]) # <<>>, IsValid(rf, s), NEW t \in Denoted(p, rf, s)
  PROVE  \/ t \in TargetsOf(p, rf, s)
         \/ ~IsLocal(p, t)
         \/ t = Absolute(rf, s) /\ Cardinality(Denoted(p, rf, s)) > 1
<1> DEFINE base == BaseOf(rf, s)
           submodules == {m \in {Append(base, n) : n \in s.names} : IsLocal(p, m)}
           of(n) == IF IsLocal(p, Append(base, n)) THEN Append(base, n) ELSE base
<1>1. base = Absolute(rf, s) /\ IsSequence(base)
  BY BaseIsAbsolute
<1>2. TargetsOf(p, rf, s)
        = IF s.from
          THEN submodules \cup (IF IsLocal(p, base) /\ (submodules = {} \/ s.star)
                                THEN {base} ELSE {})
          ELSE {m \in {s.base} : IsLocal(p, m)}
  BY DEF TargetsOf
<1>3. Denoted(p, rf, s) = IF s.from /\ ~s.star THEN {of(n) : n \in s.names} ELSE {base}
  BY <1>1 DEF Denoted
<1>4. CASE s = Import(s.base)
  <2>1. ~s.from /\ s.level = 0
    BY <1>4 DEF Import
  <2>2. base = s.base
    BY <2>1 DEF BaseOf
  <2> HIDE DEF base
  <2> QED
    BY <1>2, <1>3, <2>1, <2>2
<1>5. CASE s = ImportFrom(s.level, s.base, s.names) /\ s.names # {}
  <2>1. s.from /\ ~s.star
    BY <1>5 DEF ImportFrom
  <2> HIDE DEF base
  <2>2. CASE t # base
    BY <1>2, <1>3, <2>1, <2>2
  <2>3. CASE t = base /\ submodules = {}
    BY <1>2, <2>1, <2>3
  <2>4. CASE t = base /\ submodules # {}
    <3>1. PICK n \in s.names : IsLocal(p, Append(base, n))
      BY <2>4
    <3>2. of(n) = Append(base, n) /\ of(n) \in Denoted(p, rf, s)
      BY <1>3, <2>1, <3>1
    <3>3. Append(base, n) # base
      BY <1>1, AppendIsSequence
    <3>4. IsFiniteSet(Denoted(p, rf, s))
      <4>1. IsFiniteSet(s.names)
        BY DEF IsStatement
      <4> DEFINE each == [k \in s.names |-> of(k)]
      <4>2. DOMAIN each = s.names /\ each = [k \in s.names |-> each[k]]
        OBVIOUS
      <4>3. Denoted(p, rf, s) = {each[k] : k \in s.names}
        BY <1>3, <2>1
      <4> HIDE DEF each
      <4> QED
        BY <4>1, <4>2, <4>3, ImageIsFinite
    <3>5. Cardinality(Denoted(p, rf, s)) > 1
      <4>1. Append(base, n) \in Denoted(p, rf, s) /\ Append(base, n) # t
        BY <2>4, <3>2, <3>3
      <4> HIDE DEF base
      <4> QED
        BY <3>4, <4>1, TwoInside
    <3> QED
      BY <1>1, <2>4, <3>5
  <2> QED
    BY <2>2, <2>3, <2>4
<1>6. CASE s = ImportStar(s.level, s.base)
  <2>1. s.from /\ s.star /\ s.names = {}
    BY <1>6 DEF ImportStar, ImportFrom
  <2> HIDE DEF base
  <2> QED
    BY <1>2, <1>3, <2>1
<1> QED
  BY <1>4, <1>5, <1>6 DEF IsStatement

(* The edges that a statement of a file gives.                             *)
SourcesOf(p, f) == {rf \in PythonFiles(p) : rf[2] = f /\ ModuleOf(rf[1], rf[2]) # <<>>}
EdgesOf(p, f, s) ==
  UNION {{<<ModuleOf(rf[1], f), t>> : t \in TargetsOf(p, rf, s)} : rf \in SourcesOf(p, f)}

(* The graph is that of the statements that have been read.                *)
GraphAsRead ==
  /\ project \in Projects
  /\ \A fs \in read : /\ fs = <<fs[1], fs[2]>>
                      /\ fs[1] \in project.files /\ fs[2] \in StatementsOf[fs[1]]
  /\ edges = UNION {EdgesOf(project, fs[1], fs[2]) : fs \in read}
  /\ nodes = LocalModules(project) \cup {e[2] : e \in edges}

(* In every state the graph is that of the statements that have been read  *)
(* (imports.py:201-278).                                                   *)
THEOREM GraphInvariant == Spec => []GraphAsRead
<1>1. Init => GraphAsRead
  BY DEF Init, GraphInit, GraphAsRead
<1>2. ASSUME GraphAsRead, [Next]_vars PROVE GraphAsRead'
  <2>1. CASE UNCHANGED vars
    BY <1>2, <2>1 DEF GraphAsRead, vars, graphVars
  <2>2. CASE ReadStatement
    <3> DEFINE Adds(f, s) ==
                 /\ read' = read \cup {<<f, s>>}
                 /\ nodes' = nodes \cup {e[2] : e \in EdgesOf(project, f, s)}
                 /\ edges' = edges \cup EdgesOf(project, f, s)
    <3>1. PICK f \in project.files : \E s \in StatementsOf[f] : Adds(f, s)
      BY <2>2 DEF ReadStatement, EdgesOf, SourcesOf
    <3>6. PICK s \in StatementsOf[f] : Adds(f, s)
      BY <3>1
    <3>2. /\ read' = read \cup {<<f, s>>} /\ project' = project
          /\ nodes' = nodes \cup {e[2] : e \in EdgesOf(project, f, s)}
          /\ edges' = edges \cup EdgesOf(project, f, s)
      BY <2>2, <3>6 DEF ReadStatement
    <3>3. \A fs \in read' : /\ fs = <<fs[1], fs[2]>>
                            /\ fs[1] \in project.files /\ fs[2] \in StatementsOf[fs[1]]
      BY <1>2, <3>2 DEF GraphAsRead
    <3>4. edges' = UNION {EdgesOf(project, fs[1], fs[2]) : fs \in read'}
      <4>1. \A e : e \in edges <=> \E fs \in read : e \in EdgesOf(project, fs[1], fs[2])
        BY <1>2 DEF GraphAsRead
      <4>2. <<f, s>>[1] = f /\ <<f, s>>[2] = s
        OBVIOUS
      <4>3. \A e : e \in edges' <=> \E fs \in read' : e \in EdgesOf(project, fs[1], fs[2])
        BY <3>2, <4>1, <4>2
      <4> QED
        BY <4>3
    <3>5. nodes' = LocalModules(project) \cup {e[2] : e \in edges'}
      BY <1>2, <3>2 DEF GraphAsRead
    <3> QED
      BY <1>2, <3>2, <3>3, <3>4, <3>5 DEF GraphAsRead
  <2> QED
    BY <1>2, <2>1, <2>2 DEF Next
<1> QED
  BY <1>1, <1>2, PTL DEF Spec

(* What a statement that has been read gives, by the statement.            *)
LEMMA EdgesByStatement ==
  ASSUME GraphAsRead
  PROVE  /\ \A rs \in ReadModules :
              /\ rs[1] \in PythonFiles(project) /\ IsStatement(rs[2])
              /\ ModuleOf(rs[1][1], rs[1][2]) # <<>> /\ IsValid(rs[1], rs[2])
              /\ \A t \in TargetsOf(project, rs[1], rs[2]) :
                   <<ModuleOf(rs[1][1], rs[1][2]), t>> \in edges
         /\ \A e \in edges : \E rs \in ReadModules :
              /\ e = <<ModuleOf(rs[1][1], rs[1][2]), e[2]>>
              /\ e[2] \in TargetsOf(project, rs[1], rs[2])
<1>1. ASSUME NEW rs \in ReadModules
      PROVE  /\ rs[1] \in PythonFiles(project) /\ IsStatement(rs[2])
             /\ ModuleOf(rs[1][1], rs[1][2]) # <<>> /\ IsValid(rs[1], rs[2])
             /\ \A t \in TargetsOf(project, rs[1], rs[2]) :
                  <<ModuleOf(rs[1][1], rs[1][2]), t>> \in edges
  <2>1. /\ rs[1] \in PythonFiles(project) /\ <<rs[1][2], rs[2]>> \in read
        /\ ModuleOf(rs[1][1], rs[1][2]) # <<>> /\ IsValid(rs[1], rs[2])
    BY DEF ReadModules
  <2>2. rs[2] \in StatementsOf[rs[1][2]] /\ project \in Projects
    BY <2>1 DEF GraphAsRead
  <2>3. IsStatement(rs[2])
    BY <2>1, <2>2, ProjectAssumption
  <2>4. ASSUME NEW t \in TargetsOf(project, rs[1], rs[2])
        PROVE  <<ModuleOf(rs[1][1], rs[1][2]), t>> \in edges
    <3>1. <<ModuleOf(rs[1][1], rs[1][2]), t>> \in EdgesOf(project, rs[1][2], rs[2])
      BY <2>1 DEF EdgesOf, SourcesOf
    <3> QED
      BY <2>1, <3>1 DEF GraphAsRead
  <2> QED
    BY <2>1, <2>3, <2>4
<1>2. ASSUME NEW e \in edges
      PROVE  \E rs \in ReadModules :
               /\ e = <<ModuleOf(rs[1][1], rs[1][2]), e[2]>>
               /\ e[2] \in TargetsOf(project, rs[1], rs[2])
  <2>1. PICK fs \in read : e \in EdgesOf(project, fs[1], fs[2])
    BY DEF GraphAsRead
  <2>2. PICK rf \in PythonFiles(project) :
          /\ rf[2] = fs[1] /\ ModuleOf(rf[1], rf[2]) # <<>>
          /\ e \in {<<ModuleOf(rf[1], fs[1]), t>> : t \in TargetsOf(project, rf, fs[2])}
    BY <2>1 DEF EdgesOf, SourcesOf
  <2>3. PICK t \in TargetsOf(project, rf, fs[2]) : e = <<ModuleOf(rf[1], fs[1]), t>>
    BY <2>2
  <2>4. /\ fs = <<fs[1], fs[2]>> /\ fs[2] \in StatementsOf[fs[1]] /\ project \in Projects
    BY DEF GraphAsRead
  <2>5. IsValid(rf, fs[2])
    BY <2>2, <2>4, ProjectAssumption
  <2>6. <<rf, fs[2]>> \in ReadModules
    BY <2>2, <2>4, <2>5 DEF ReadModules
  <2> QED
    BY <2>2, <2>3, <2>6
<1> QED
  BY <1>1, <1>2

(* The edges of the import graph are the imports as Python resolves them   *)
(* (imports.py:230-278).                                                   *)
THEOREM EdgesWritten == Spec => []EdgesAsWritten
<1>1. ASSUME GraphAsRead PROVE EdgesAsWritten
  <2>1. project \in Projects
    BY <1>1 DEF GraphAsRead
  <2>2. ASSUME NEW e \in edges
        PROVE  \E rs \in ReadModules : /\ e[1] = ModuleOf(rs[1][1], rs[1][2])
                                       /\ e[2] \in Denoted(project, rs[1], rs[2])
    <3>1. PICK rs \in ReadModules : /\ e = <<ModuleOf(rs[1][1], rs[1][2]), e[2]>>
                                    /\ e[2] \in TargetsOf(project, rs[1], rs[2])
      BY <1>1, EdgesByStatement
    <3>2. /\ rs[1] \in PythonFiles(project) /\ IsStatement(rs[2])
          /\ ModuleOf(rs[1][1], rs[1][2]) # <<>> /\ IsValid(rs[1], rs[2])
      BY <1>1, EdgesByStatement
    <3>3. e[2] \in Denoted(project, rs[1], rs[2])
      BY <2>1, <3>1, <3>2, TargetsAreDenoted
    <3> QED
      BY <3>1, <3>3
  <2>3. ASSUME NEW rs \in ReadModules, NEW t \in Denoted(project, rs[1], rs[2])
        PROVE  \/ <<ModuleOf(rs[1][1], rs[1][2]), t>> \in edges
               \/ ~IsLocal(project, t)
               \/ t = Absolute(rs[1], rs[2]) /\ Cardinality(Denoted(project, rs[1], rs[2])) > 1
    <3>1. /\ rs[1] \in PythonFiles(project) /\ IsStatement(rs[2])
          /\ ModuleOf(rs[1][1], rs[1][2]) # <<>> /\ IsValid(rs[1], rs[2])
          /\ \A u \in TargetsOf(project, rs[1], rs[2]) :
               <<ModuleOf(rs[1][1], rs[1][2]), u>> \in edges
      BY <1>1, EdgesByStatement
    <3> QED
      BY <2>1, <3>1, DenotedAreTargets
  <2> QED
    BY <2>2, <2>3 DEF EdgesAsWritten
<1> QED
  BY <1>1, GraphInvariant, PTL

-----------------------------------------------------------------------------
(* The modules in the graph are finitely many names, local modules or      *)
(* packages above them, and the edges are between them.                    *)
LEMMA PrefixesAreFinite ==
  ASSUME NEW s, IsSequence(s)
  PROVE  IsFiniteSet(Prefixes(s))
<1> DEFINE cut == [l \in 0 .. Len(s) |-> SubSeq(s, 1, l)]
<1>1. Len(s) \in Nat
  BY LenProperties DEF IsSequence
<1>2. IsFiniteSet(0 .. Len(s))
  BY <1>1, FS_Interval
<1>3. DOMAIN cut = 0 .. Len(s) /\ cut = [l \in 0 .. Len(s) |-> cut[l]]
  OBVIOUS
<1>4. Prefixes(s) = {cut[l] : l \in 0 .. Len(s)}
  BY DEF Prefixes
<1> HIDE DEF cut
<1> QED
  BY <1>2, <1>3, <1>4, ImageIsFinite

LEMMA PrefixIsCut ==
  ASSUME NEW s, NEW t, IsSequence(s), IsSequence(t)
  PROVE  IsPrefix(s, t) <=> Len(s) <= Len(t) /\ \A i \in 1 .. Len(s) : s[i] = t[i]
<1>1. PICK S : s \in Seq(S) /\ t \in Seq(S)
  BY Together
<1>2. SubSeq(s, 1, Len(s)) = s /\ Len(s) \in Nat /\ Len(t) \in Nat
  BY <1>1, SubSeqFull, LenProperties
<1>3. ASSUME Len(s) <= Len(t)
      PROVE  s = SubSeq(t, 1, Len(s)) <=> \A i \in 1 .. Len(s) : s[i] = t[i]
  <2> DEFINE u == SubSeq(t, 1, Len(s))
  <2>1. 1 \in 1 .. Len(t) + 1 /\ Len(s) \in 1 - 1 .. Len(t)
    BY <1>2, <1>3
  <2>2. /\ IsSequence(u) /\ Len(u) = Len(s) - 1 + 1
        /\ \A i \in 1 .. Len(s) - 1 + 1 : u[i] = t[1 + i - 1]
    BY <2>1, SubSeqIsSequence
  <2>3. Len(u) = Len(s) /\ \A i \in 1 .. Len(s) : u[i] = t[i]
    BY <1>2, <2>2
  <2> HIDE DEF u
  <2>4. s = u <=> \A i \in 1 .. Len(s) : s[i] = u[i]
    BY <2>2, <2>3, SameSequence
  <2>5. s = u <=> \A i \in 1 .. Len(s) : s[i] = t[i]
    BY <2>3, <2>4
  <2> QED
    BY <2>5 DEF u
<1> QED
  BY <1>2, <1>3 DEF IsPrefix

LEMMA PrefixIsPrefix ==
  ASSUME NEW s, NEW t, IsSequence(s), IsSequence(t), IsPrefix(s, t)
  PROVE  s \in Prefixes(t)
<1>1. PICK S : s \in Seq(S) /\ t \in Seq(S)
  BY Together
<1>2. SubSeq(s, 1, Len(s)) = s /\ Len(s) \in 0 .. Len(t)
  BY <1>1, SubSeqFull, LenProperties DEF IsPrefix
<1> QED
  BY <1>2 DEF IsPrefix, Prefixes

LEMMA LocalModulesAreFinite ==
  ASSUME NEW p \in Projects
  PROVE  /\ IsFiniteSet(LocalModules(p)) /\ IsFiniteSet(PythonFiles(p))
         /\ \A m \in LocalModules(p) : IsSequence(m) /\ m # <<>>
<1>1. IsFiniteSet(Dirs(p))
  <2> DEFINE each == [f \in p.files |-> Prefixes(f.dir)]
  <2>1. IsFiniteSet(p.files) /\ DOMAIN each = p.files /\ each = [f \in p.files |-> each[f]]
    BY FilesAreNamed
  <2>2. \A f \in p.files : IsFiniteSet(each[f])
    BY FilesAreNamed, PrefixesAreFinite
  <2>3. Dirs(p) = UNION {each[f] : f \in p.files}
    BY DEF Dirs
  <2> HIDE DEF each
  <2>4. IsFiniteSet({each[f] : f \in p.files})
    BY <2>1, ImageIsFinite
  <2> QED
    BY <2>2, <2>3, <2>4, FS_UNION
<1>2. IsFiniteSet(PackageRoots(p))
  <2>1. IsFiniteSet(Dirs(p) \cup {p.root})
    BY <1>1, FS_AddElement
  <2>2. IsFiniteSet((Dirs(p) \cup {p.root}) \cup {Append(p.root, "src")})
    BY <2>1, FS_AddElement
  <2>3. PackageRoots(p) \in SUBSET ((Dirs(p) \cup {p.root}) \cup {Append(p.root, "src")})
    BY DEF PackageRoots
  <2> QED
    BY <2>2, <2>3, FS_Subset
<1>3. IsFiniteSet(PythonFiles(p))
  <2>1. IsFiniteSet(PackageRoots(p) \X p.files)
    BY <1>2, FilesAreNamed, FS_Product
  <2>2. PythonFiles(p) \in SUBSET (PackageRoots(p) \X p.files)
    BY DEF PythonFiles
  <2> QED
    BY <2>1, <2>2, FS_Subset
<1>4. IsFiniteSet(LocalModules(p))
  <2> DEFINE each == [rf \in PythonFiles(p) |-> ModuleOf(rf[1], rf[2])]
             all == {each[rf] : rf \in PythonFiles(p)}
  <2>1. DOMAIN each = PythonFiles(p) /\ each = [rf \in PythonFiles(p) |-> each[rf]]
    OBVIOUS
  <2>2. LocalModules(p) \in SUBSET all
    BY DEF LocalModules
  <2> HIDE DEF each
  <2>3. IsFiniteSet(all)
    BY <1>3, <2>1, ImageIsFinite
  <2> HIDE DEF all
  <2> QED
    BY <2>2, <2>3, FS_Subset
<1>5. \A m \in LocalModules(p) : IsSequence(m) /\ m # <<>>
  BY ModulesAreSequences DEF LocalModules
<1> QED
  BY <1>3, <1>4, <1>5

LEMMA GraphIsTyped ==
  ASSUME GraphAsRead
  PROVE  /\ IsFiniteSet(nodes) /\ edges \subseteq nodes \X nodes
         /\ \A m \in nodes : /\ IsSequence(m) /\ m # <<>>
                             /\ \E k \in LocalModules(project) : IsPrefix(m, k)
<1>1. project \in Projects
  BY DEF GraphAsRead
<1> DEFINE locals == LocalModules(project)
<1>2. ASSUME NEW e \in edges
      PROVE  /\ e \in locals \X {e[2]}
             /\ IsSequence(e[2]) /\ e[2] # <<>> /\ \E k \in locals : IsPrefix(e[2], k)
  <2>1. PICK rs \in ReadModules : /\ e = <<ModuleOf(rs[1][1], rs[1][2]), e[2]>>
                                  /\ e[2] \in TargetsOf(project, rs[1], rs[2])
    BY EdgesByStatement
  <2>2. /\ rs[1] \in PythonFiles(project) /\ IsStatement(rs[2])
        /\ ModuleOf(rs[1][1], rs[1][2]) # <<>> /\ IsValid(rs[1], rs[2])
    BY EdgesByStatement
  <2>3. IsLocal(project, e[2]) /\ e[2] \in Denoted(project, rs[1], rs[2])
    BY <1>1, <2>1, <2>2, TargetsAreDenoted
  <2>4. ModuleOf(rs[1][1], rs[1][2]) \in locals
    BY <2>2 DEF LocalModules
  <2>5. IsSequence(e[2])
    <3>1. IsSequence(Absolute(rs[1], rs[2]))
      BY <1>1, <2>2, BaseIsAbsolute
    <3>2. \A n : IsSequence(Append(Absolute(rs[1], rs[2]), n))
      BY <3>1, AppendIsSequence
    <3> QED
      BY <2>3, <3>1, <3>2 DEF Denoted
  <2> QED
    BY <2>1, <2>3, <2>4, <2>5 DEF IsLocal
<1>3. \A m \in locals : IsSequence(m) /\ m # <<>> /\ IsPrefix(m, m)
  <2>1. \A m \in locals : IsSequence(m) /\ m # <<>>
    BY <1>1, LocalModulesAreFinite
  <2>2. \A m \in locals : Len(m) \in Nat
    BY <2>1, EmptySequence
  <2> QED
    BY <2>1, <2>2 DEF IsPrefix
<1>4. nodes = locals \cup {e[2] : e \in edges}
  BY DEF GraphAsRead
<1>5. \A m \in nodes : IsSequence(m) /\ m # <<>> /\ \E k \in locals : IsPrefix(m, k)
  BY <1>2, <1>3, <1>4
<1>6. edges \subseteq nodes \X nodes
  BY <1>2, <1>4
<1>7. IsFiniteSet(nodes)
  <2> DEFINE each == [k \in locals |-> Prefixes(k)]
             all == UNION {each[k] : k \in locals}
  <2>1. DOMAIN each = locals /\ each = [k \in locals |-> each[k]]
    OBVIOUS
  <2>2. \A k \in locals : IsFiniteSet(each[k])
    BY <1>3, PrefixesAreFinite
  <2>3. IsFiniteSet({each[k] : k \in locals})
    <3>1. IsFiniteSet(locals)
      BY <1>1, LocalModulesAreFinite
    <3> HIDE DEF each, locals
    <3> QED
      BY <2>1, <3>1, ImageIsFinite
  <2>4. IsFiniteSet(all)
    <3> HIDE DEF each
    <3> QED
      BY <2>2, <2>3, FS_UNION
  <2>5. nodes \in SUBSET all
    <3>1. ASSUME NEW m \in nodes PROVE m \in all
      <4>1. PICK k \in locals : IsPrefix(m, k)
        BY <1>5
      <4>2. m \in Prefixes(k)
        BY <1>3, <1>5, <4>1, PrefixIsPrefix
      <4> QED
        BY <4>2
    <3> QED
      BY <3>1
  <2> HIDE DEF all
  <2> QED
    BY <2>4, <2>5, FS_Subset
<1> QED
  BY <1>5, <1>6, <1>7

-----------------------------------------------------------------------------
(* Finite graphs, and sets of modules that no import leaves.               *)
IsGraph(H) == IsFiniteSet(H.nodes) /\ H.edges \subseteq H.nodes \X H.nodes

IsClosed(H, S) == \A e \in H.edges : e[1] \in S => e[2] \in S

Reached(H, m) == Descendants(H, m) \cup {m}

LEMMA SuccessorsAreNodes ==
  ASSUME NEW H, IsGraph(H), NEW S, S \subseteq H.nodes
  PROVE  /\ UNION {Successors(H, j) : j \in S} \subseteq H.nodes
         /\ \A k : k \in UNION {Successors(H, j) : j \in S} <=> \E e \in H.edges : e[1] \in S /\ e[2] = k
<1>1. \A j, k : k \in Successors(H, j) <=> \E e \in H.edges : e[1] = j /\ e[2] = k
  BY DEF Successors
<1>2. \A e \in H.edges : e[2] \in H.nodes
  BY DEF IsGraph
<1> QED
  BY <1>1, <1>2

(* The search for what a module reaches, step by step.                     *)
IsSearch(H, m, n, near) ==
  /\ near \in [0 .. n -> SUBSET H.nodes]
  /\ near[0] = {m} /\ Descendants(H, m) = near[n] \ {m}
  /\ \A k \in 1 .. n : near[k] = near[k - 1] \cup UNION {Successors(H, j) : j \in near[k - 1]}

LEMMA SearchByStep ==
  ASSUME NEW H, IsGraph(H), NEW m \in H.nodes
  PROVE  \E near : IsSearch(H, m, Cardinality(H.nodes), near)
<1> DEFINE n == Cardinality(H.nodes)
           V == SUBSET H.nodes
           Wider(S) == S \cup UNION {Successors(H, j) : j \in S}
           Of(f, k) == IF k = 0 THEN {m} ELSE Wider(f[k - 1])
           within[k \in 0 .. Cardinality(H.nodes)] ==
             IF k = 0 THEN {m}
             ELSE LET near == within[k - 1]
                  IN  near \cup UNION {Successors(H, j) : j \in near}
           step == [p \in (1 .. n) \X V |-> Wider(p[2])]
<1>1. Descendants(H, m) = within[n] \ {m}
  BY DEF Descendants
<1>2. n \in Nat
  BY FS_CardinalityType DEF IsGraph
<1>3. \A S \in V : Wider(S) \in V
  BY SuccessorsAreNodes
<1>4. IsStep(step, n, V) /\ \A k \in 1 .. n, S \in V : step[<<k, S>>] = Wider(S)
  <2> HIDE DEF Wider, V
  <2> QED
    BY <1>3 DEF IsStep
<1>5. {m} \in V
  OBVIOUS
<1> HIDE DEF n, V, step
<1>6. PICK f \in [0 .. n -> V] : f[0] = {m} /\ \A k \in 1 .. n : f[k] = step[<<k, f[k - 1]>>]
  <2>1. Recursions(step, n, V, {m}) # {}
    BY <1>2, <1>4, <1>5, FiniteRecursion
  <2> HIDE DEF within
  <2> QED
    BY <2>1 DEF Recursions
<1>7. \A k \in 0 .. n : f[k] = Of(f, k)
  <2> HIDE DEF Wider, within
  <2> TAKE k \in 0 .. n
  <2>1. CASE k = 0
    BY <1>6, <2>1
  <2>2. CASE k \in 1 .. n
    <3>1. f[k - 1] \in V /\ k # 0
      BY <1>2, <2>2
    <3> QED
      BY <1>4, <1>6, <2>2, <3>1
  <2> QED
    BY <1>2, <2>1, <2>2
<1>8. within = [k \in 0 .. n |-> Of(within, k)]
  <2>1. f = [k \in 0 .. n |-> Of(f, k)]
    <3>1. f = [k \in 0 .. n |-> f[k]]
      OBVIOUS
    <3> HIDE DEF Of
    <3> QED
      BY <1>7, <3>1
  <2> QED
    BY <2>1 DEF n
<1> HIDE DEF within
<1>9. within[0] = {m} /\ \A k \in 1 .. n : within[k] = Wider(within[k - 1])
  <2>1. \A k \in 0 .. n : within[k] = Of(within, k)
    <3> HIDE DEF Of
    <3> QED
      BY <1>8
  <2>2. within[0] = Of(within, 0) /\ \A k \in 1 .. n : k # 0 /\ within[k] = Of(within, k)
    <3> HIDE DEF Of
    <3> QED
      BY <1>2, <2>1
  <2> QED
    BY <2>2
<1>10. \A k \in 0 .. n : within[k] \in V
  <2> DEFINE T == {k \in 0 .. n : within[k] \in V}
  <2>1. 0 \in T
    <3>1. within[0] \in V
      BY <1>5, <1>9, Zenon
    <3> QED
      BY <1>2, <3>1
  <2>2. \A k \in 1 .. n : k - 1 \in T => k \in T
    <3> HIDE DEF Wider
    <3> QED
      BY <1>2, <1>3, <1>9
  <2> HIDE DEF T
  <2>3. \A k \in 0 .. n : k \in T
    BY <1>2, <2>1, <2>2, FiniteInduction
  <2> QED
    BY <2>3 DEF T
<1>11. within \in [0 .. n -> V]
  <2> HIDE DEF Of
  <2> QED
    BY <1>8, <1>10
<1>12. IsSearch(H, m, n, within)
  BY <1>1, <1>9, <1>11 DEF V, IsSearch
<1> QED
  BY <1>12 DEF n

(* What a module reaches is the smallest set that it is in and that no     *)
(* import leaves.                                                          *)
LEMMA ReachedIsClosed ==
  ASSUME NEW H, IsGraph(H), NEW m \in H.nodes
  PROVE  /\ Reached(H, m) \subseteq H.nodes /\ IsClosed(H, Reached(H, m))
         /\ Descendants(H, m) = Reached(H, m) \ {m}
<1> DEFINE n == Cardinality(H.nodes)
<1>0. PICK near : IsSearch(H, m, n, near)
  BY SearchByStep
<1>1. /\ near \in [0 .. n -> SUBSET H.nodes]
      /\ near[0] = {m} /\ Descendants(H, m) = near[n] \ {m}
      /\ \A k \in 1 .. n : near[k] = near[k - 1] \cup UNION {Successors(H, j) : j \in near[k - 1]}
  BY <1>0, Zenon DEF IsSearch
<1>2. n \in Nat /\ IsFiniteSet(H.nodes)
  BY FS_CardinalityType DEF IsGraph
<1>3. \A S \in SUBSET H.nodes :
        IsFiniteSet(S) /\ Cardinality(S) \in Nat /\ Cardinality(S) <= n
  BY <1>2, FS_Subset, FS_CardinalityType
<1> HIDE DEF n
<1>4. ASSUME NEW k \in 1 .. n
      PROVE  /\ near[k - 1] \in SUBSET H.nodes /\ near[k] \in SUBSET H.nodes
             /\ near[k - 1] \subseteq near[k]
             /\ \A j : j \in near[k] <=> j \in near[k - 1]
                                        \/ \E e \in H.edges : e[1] \in near[k - 1] /\ e[2] = j
  <2>1. k - 1 \in 0 .. n /\ k \in 0 .. n
    BY <1>2
  <2>2. near[k - 1] \in SUBSET H.nodes /\ near[k] \in SUBSET H.nodes
    BY <1>1, <2>1
  <2>3. \A j : j \in UNION {Successors(H, i) : i \in near[k - 1]}
               <=> \E e \in H.edges : e[1] \in near[k - 1] /\ e[2] = j
    BY <2>2, SuccessorsAreNodes
  <2>4. near[k] = near[k - 1] \cup UNION {Successors(H, j) : j \in near[k - 1]}
    BY <1>1
  <2>5. \A j : j \in near[k] <=> j \in near[k - 1]
                                \/ j \in UNION {Successors(H, i) : i \in near[k - 1]}
    BY <2>4
  <2>6. near[k - 1] \subseteq near[k]
    BY <2>5
  <2>7. \A j : j \in near[k] <=> j \in near[k - 1]
                                \/ \E e \in H.edges : e[1] \in near[k - 1] /\ e[2] = j
    BY <2>3, <2>5, Zenon
  <2> QED
    BY <2>2, <2>6, <2>7, Zenon
<1> DEFINE T == {k \in 0 .. n : /\ m \in near[k]
                                /\ IsClosed(H, near[k]) \/ Cardinality(near[k]) >= k + 1}
<1>5. 0 \in T
  <2>1. Cardinality({m}) = 1
    BY FS_Singleton
  <2>2. m \in near[0] /\ Cardinality(near[0]) = 1
    BY <1>1, <2>1, Zenon
  <2> QED
    BY <1>2, <2>2
<1>6. ASSUME NEW k \in 1 .. n, k - 1 \in T PROVE k \in T
  <2>1. CASE IsClosed(H, near[k - 1])
    <3>1. near[k] = near[k - 1]
      <4>1. \A j : j \in near[k] <=> j \in near[k - 1]
        BY <1>4, <2>1 DEF IsClosed
      <4> QED
        BY <1>4, <4>1
    <3> QED
      BY <1>6, <2>1, <3>1
  <2>2. CASE ~IsClosed(H, near[k - 1])
    <3>1. near[k] # near[k - 1] /\ near[k - 1] \in SUBSET near[k]
      BY <1>4, <2>2 DEF IsClosed
    <3>2. /\ IsFiniteSet(near[k]) /\ Cardinality(near[k]) \in Nat
          /\ Cardinality(near[k - 1]) \in Nat
      BY <1>3, <1>4
    <3>3. Cardinality(near[k - 1]) < Cardinality(near[k])
      BY <3>1, <3>2, FS_Subset
    <3>4. Cardinality(near[k - 1]) >= (k - 1) + 1 /\ m \in near[k]
      BY <1>4, <1>6, <2>2
    <3>5. Cardinality(near[k]) >= k + 1
      BY <3>2, <3>3, <3>4
    <3> QED
      BY <3>4, <3>5
  <2> QED
    BY <2>1, <2>2
<1> HIDE DEF T
<1>7. n \in T
  <2>1. \A k \in 1 .. n : k - 1 \in T => k \in T
    BY <1>6
  <2>2. \A k \in 0 .. n : k \in T
    BY <1>2, <1>5, <2>1, FiniteInduction
  <2> QED
    BY <1>2, <2>2
<1>8. near[n] \in SUBSET H.nodes /\ m \in near[n] /\ IsClosed(H, near[n])
  <2>1. near[n] \in SUBSET H.nodes
    BY <1>1, <1>2
  <2> QED
    BY <1>2, <1>3, <1>7, <2>1 DEF T
<1>9. Reached(H, m) = near[n]
  BY <1>1, <1>8 DEF Reached
<1> QED
  BY <1>1, <1>8, <1>9

LEMMA ReachedIsSmallest ==
  ASSUME NEW H, IsGraph(H), NEW m \in H.nodes, NEW S, m \in S, IsClosed(H, S)
  PROVE  Reached(H, m) \subseteq S
<1> DEFINE n == Cardinality(H.nodes)
<1>0. PICK near : IsSearch(H, m, n, near)
  BY SearchByStep
<1>1. /\ near \in [0 .. n -> SUBSET H.nodes]
      /\ near[0] = {m} /\ Descendants(H, m) = near[n] \ {m}
      /\ \A k \in 1 .. n : near[k] = near[k - 1] \cup UNION {Successors(H, j) : j \in near[k - 1]}
  BY <1>0, Zenon DEF IsSearch
<1>2. n \in Nat
  BY FS_CardinalityType DEF IsGraph
<1> HIDE DEF n
<1> DEFINE T == {k \in 0 .. n : near[k] \subseteq S}
<1>3. 0 \in T
  BY <1>1, <1>2
<1>4. ASSUME NEW k \in 1 .. n, k - 1 \in T PROVE k \in T
  <2>1. near[k - 1] \in SUBSET H.nodes /\ near[k - 1] \subseteq S
    BY <1>1, <1>2, <1>4
  <2>2. \A j \in UNION {Successors(H, i) : i \in near[k - 1]} : j \in S
    <3>1. \A j : j \in UNION {Successors(H, i) : i \in near[k - 1]}
                 <=> \E e \in H.edges : e[1] \in near[k - 1] /\ e[2] = j
      BY <2>1, SuccessorsAreNodes
    <3> QED
      BY <2>1, <3>1 DEF IsClosed
  <2> QED
    BY <1>1, <1>4, <2>1, <2>2
<1> HIDE DEF T
<1>5. n \in T
  <2>1. \A k \in 1 .. n : k - 1 \in T => k \in T
    BY <1>4
  <2>2. \A k \in 0 .. n : k \in T
    BY <1>2, <1>3, <2>1, FiniteInduction
  <2> QED
    BY <1>2, <2>2
<1> QED
  BY <1>1, <1>5 DEF T, Reached

-----------------------------------------------------------------------------
(* Subgraphs, and the modules in cycles.                                   *)
LEMMA SubgraphIsGraph ==
  ASSUME NEW H, IsGraph(H), NEW ms, ms \subseteq H.nodes
  PROVE  /\ IsGraph(Subgraph(H, ms)) /\ Subgraph(H, ms).nodes = ms
         /\ Subgraph(H, ms).edges = {e \in H.edges : e[1] \in ms /\ e[2] \in ms}
<1>1. IsFiniteSet(ms)
  BY FS_Subset DEF IsGraph
<1>2. Subgraph(H, ms).nodes = ms /\ Subgraph(H, ms).edges = H.edges \cap (ms \X ms)
  BY DEF Subgraph
<1>3. H.edges \cap (ms \X ms) = {e \in H.edges : e[1] \in ms /\ e[2] \in ms}
  BY DEF IsGraph
<1> QED
  BY <1>1, <1>2, <1>3 DEF IsGraph

LEMMA CycleMembers ==
  ASSUME NEW H, NEW m
  PROVE  m \in OnCycle(H) <=> m \in H.nodes /\ \E k \in Reached(H, m) : <<k, m>> \in H.edges
  BY DEF OnCycle, Reached

LEMMA EdgesAreFinite ==
  ASSUME NEW H, IsGraph(H), NEW c, c \subseteq H.edges
  PROVE  /\ IsFiniteSet(c) /\ IsFiniteSet({e[1] : e \in c})
         /\ \A e \in c : e[1] \in H.nodes /\ e[2] \in H.nodes /\ e = <<e[1], e[2]>>
<1>1. IsFiniteSet(H.nodes \X H.nodes) /\ c \in SUBSET (H.nodes \X H.nodes)
  BY FS_Product DEF IsGraph
<1>2. IsFiniteSet(c)
  BY <1>1, FS_Subset
<1> DEFINE first == [e \in c |-> e[1]]
<1>3. DOMAIN first = c /\ first = [e \in c |-> first[e]] /\ {e[1] : e \in c} = {first[e] : e \in c}
  OBVIOUS
<1> HIDE DEF first
<1>4. IsFiniteSet({first[e] : e \in c})
  BY <1>2, <1>3, ImageIsFinite
<1>5. \A e \in c : e[1] \in H.nodes /\ e[2] \in H.nodes /\ e = <<e[1], e[2]>>
  BY DEF IsGraph
<1> QED
  BY <1>2, <1>3, <1>4, <1>5

(* Round a simple cycle every module leads to every other.                 *)
LEMMA SimpleCycleLoops ==
  ASSUME NEW H, IsGraph(H), NEW c \in SimpleCycles(H)
  PROVE  /\ c # {} /\ c \subseteq H.edges
         /\ {e[1] : e \in c} = {e[2] : e \in c}
         /\ \A m \in {e[1] : e \in c} : \A S :
              m \in S /\ (\A e \in c : e[1] \in S => e[2] \in S) => {e[1] : e \in c} \subseteq S
<1> DEFINE C == [nodes |-> {e[1] : e \in c}, edges |-> c]
<1>1. c \subseteq H.edges /\ IsSimpleCycle(c)
  BY DEF SimpleCycles
<1>2. c # {} /\ C.nodes = {e[2] : e \in c} /\ \A m \in C.nodes : Descendants(C, m) = C.nodes \ {m}
  BY <1>1 DEF IsSimpleCycle
<1>3. IsGraph(C)
  <2>1. IsFiniteSet(C.nodes) /\ \A e \in c : e = <<e[1], e[2]>>
    BY <1>1, EdgesAreFinite
  <2>2. \A e \in c : e[1] \in C.nodes /\ e[2] \in C.nodes
    <3>1. \A e \in c : e[1] \in {d[1] : d \in c} /\ e[2] \in {d[2] : d \in c}
      OBVIOUS
    <3>2. C.nodes = {e[1] : e \in c}
      OBVIOUS
    <3> HIDE DEF C
    <3> QED
      BY <1>2, <3>1, <3>2, Zenon
  <2> QED
    BY <2>1, <2>2 DEF IsGraph
<1>4. C.nodes = {e[1] : e \in c} /\ C.edges = c
  OBVIOUS
<1> HIDE DEF C
<1>5. ASSUME NEW m \in C.nodes, NEW S, m \in S, \A e \in c : e[1] \in S => e[2] \in S
      PROVE  C.nodes \subseteq S
  <2>1. Reached(C, m) \subseteq S
    BY <1>3, <1>4, <1>5, ReachedIsSmallest DEF IsClosed
  <2>2. Reached(C, m) = C.nodes
    BY <1>2 DEF Reached
  <2> QED
    BY <2>1, <2>2
<1> QED
  BY <1>1, <1>2, <1>4, <1>5

LEMMA SimpleCyclesAreOnCycle ==
  ASSUME NEW H, IsGraph(H), NEW c \in SimpleCycles(H), NEW e \in c
  PROVE  e[1] \in OnCycle(H)
<1>1. /\ c \subseteq H.edges /\ {f[1] : f \in c} = {f[2] : f \in c}
      /\ \A m \in {f[1] : f \in c} : \A S :
           m \in S /\ (\A f \in c : f[1] \in S => f[2] \in S) => {f[1] : f \in c} \subseteq S
  BY SimpleCycleLoops
<1>2. PICK f \in c : f[2] = e[1]
  BY <1>1
<1>3. e[1] \in H.nodes /\ f = <<f[1], e[1]>> /\ f \in H.edges
  BY <1>1, <1>2, EdgesAreFinite
<1>4. IsClosed(H, Reached(H, e[1])) /\ e[1] \in Reached(H, e[1])
  BY <1>3, ReachedIsClosed DEF Reached
<1>5. f[1] \in Reached(H, e[1])
  <2>1. \A g \in c : g[1] \in Reached(H, e[1]) => g[2] \in Reached(H, e[1])
    BY <1>1, <1>4 DEF IsClosed
  <2> QED
    BY <1>1, <1>4, <2>1
<1> QED
  BY <1>3, <1>5, CycleMembers

-----------------------------------------------------------------------------
(* Walks from a module to another, by their modules.                       *)
IsWalk(H, p, l) ==
  /\ p \in [0 .. l -> H.nodes]
  /\ \A i \in 1 .. l : <<p[i - 1], p[i]>> \in H.edges

LEMMA ReachedByWalk ==
  ASSUME NEW H, IsGraph(H), NEW m \in H.nodes, NEW k \in Reached(H, m)
  PROVE  \E l \in Nat : \E p : IsWalk(H, p, l) /\ p[0] = m /\ p[l] = k
<1> DEFINE Walks(x, l, p) == IsWalk(H, p, l) /\ p[0] = m /\ p[l] = x
           S == {x \in H.nodes : \E l \in Nat : \E p : Walks(x, l, p)}
<1>1. m \in S
  <2> DEFINE p == [i \in 0 .. 0 |-> m]
  <2>1. Walks(m, 0, p)
    BY DEF IsWalk
  <2> QED
    BY <2>1
<1>2. ASSUME NEW e \in H.edges, e[1] \in S PROVE e[2] \in S
  <2>1. PICK l \in Nat : \E p : Walks(e[1], l, p)
    BY <1>2
  <2>2. PICK p : Walks(e[1], l, p)
    BY <2>1
  <2> DEFINE q == [i \in 0 .. l + 1 |-> IF i = l + 1 THEN e[2] ELSE p[i]]
  <2>3. e[2] \in H.nodes /\ e = <<e[1], e[2]>>
    BY EdgesAreFinite
  <2>4. \A i \in 0 .. l : q[i] = p[i] /\ p[i] \in H.nodes
    BY <2>1, <2>2 DEF IsWalk
  <2>5. q[l + 1] = e[2]
    OBVIOUS
  <2>6. q \in [0 .. l + 1 -> H.nodes]
    BY <2>2, <2>3 DEF IsWalk
  <2> HIDE DEF q
  <2>7. ASSUME NEW i \in 1 .. l + 1 PROVE <<q[i - 1], q[i]>> \in H.edges
    <3>1. CASE i = l + 1
      <4>1. q[i - 1] = e[1] /\ q[i] = e[2]
        BY <2>2, <2>4, <2>5, <3>1
      <4> QED
        BY <2>3, <4>1
    <3>2. CASE i \in 1 .. l
      <4>1. q[i - 1] = p[i - 1] /\ q[i] = p[i] /\ <<p[i - 1], p[i]>> \in H.edges
        BY <2>2, <2>4, <3>2 DEF IsWalk
      <4> QED
        BY <4>1
    <3> QED
      BY <3>1, <3>2
  <2>8. q[0] = m /\ l + 1 \in Nat
    BY <2>2, <2>4
  <2>9. IsWalk(H, q, l + 1)
    BY <2>6, <2>7 DEF IsWalk
  <2> QED
    BY <2>3, <2>5, <2>8, <2>9
<1>3. IsClosed(H, S)
  <2> HIDE DEF S
  <2> QED
    BY <1>2 DEF IsClosed
<1>4. k \in S
  <2> HIDE DEF S
  <2> QED
    BY <1>1, <1>3, ReachedIsSmallest
<1> QED
  BY <1>4

(* A shortest walk back to where it starts meets no module twice.          *)
IsRound(H, p, l) == IsWalk(H, p, l) /\ <<p[l], p[0]>> \in H.edges

LEMMA ShortRound ==
  ASSUME NEW H, IsGraph(H), NEW m \in OnCycle(H)
  PROVE  \E l \in Nat : \E p : /\ IsRound(H, p, l) /\ p[0] = m
                               /\ \A i, j \in 0 .. l : p[i] = p[j] => i = j
<1> DEFINE Rounds(l, p) == IsRound(H, p, l) /\ p[0] = m
           Ls == {l \in Nat : \E p : Rounds(l, p)}
<1>1. PICK k \in Reached(H, m) : m \in H.nodes /\ <<k, m>> \in H.edges
  BY CycleMembers
<1>2. Ls # {}
  <2>1. PICK l \in Nat : \E p : IsWalk(H, p, l) /\ p[0] = m /\ p[l] = k
    BY <1>1, ReachedByWalk
  <2> QED
    BY <1>1, <2>1 DEF IsRound
<1>3. PICK l \in Ls : \A n \in Ls : l <= n
  <2>1. Ls \subseteq Nat
    OBVIOUS
  <2> HIDE DEF Ls
  <2> QED
    BY <1>2, <2>1, LeastNatural
<1>4. PICK p : Rounds(l, p)
  BY <1>3
<1>5. ASSUME NEW i \in 0 .. l, NEW j \in 0 .. l, i < j, p[i] = p[j] PROVE FALSE
  <2> DEFINE d == j - i
             q == [t \in 0 .. l - d |-> IF t <= i THEN p[t] ELSE p[t + d]]
  <2>1. d \in 1 .. l /\ l - d \in Nat /\ l - d < l /\ l \in Nat
    BY <1>3, <1>5
  <2>2. p \in [0 .. l -> H.nodes] /\ \A t \in 1 .. l : <<p[t - 1], p[t]>> \in H.edges
    BY <1>4 DEF IsRound, IsWalk
  <2>3. \A t \in 0 .. l - d : q[t] = IF t <= i THEN p[t] ELSE p[t + d]
    OBVIOUS
  <2>4. q \in [0 .. l - d -> H.nodes]
    <3>1. \A t \in 0 .. l - d : (IF t <= i THEN p[t] ELSE p[t + d]) \in H.nodes
      <4>1. \A t \in 0 .. l - d : t \in 0 .. l /\ t + d \in 0 .. l
        BY <2>1
      <4> HIDE DEF d
      <4> QED
        BY <2>2, <4>1
    <3> QED
      BY <3>1
  <2>11. \A t \in 0 .. l - d : t >= i => q[t] = p[t + d]
    <3>1. i + d = j
      BY <1>5
    <3> HIDE DEF d, q
    <3> QED
      BY <1>5, <2>3, <3>1
  <2> HIDE DEF q
  <2>5. ASSUME NEW t \in 1 .. l - d PROVE <<q[t - 1], q[t]>> \in H.edges
    <3>1. /\ t \in 1 .. l /\ t - 1 \in 0 .. l - d /\ t \in 0 .. l - d /\ t + d \in 1 .. l
          /\ (t - 1) + d = (t + d) - 1
      BY <2>1
    <3>2. CASE t <= i
      <4>1. q[t - 1] = p[t - 1] /\ q[t] = p[t]
        BY <2>3, <3>1, <3>2
      <4> QED
        BY <2>2, <3>1, <4>1
    <3>3. CASE t > i
      <4>1. q[t - 1] = p[(t + d) - 1] /\ q[t] = p[t + d]
        <5>1. t - 1 >= i /\ t >= i
          BY <3>3
        <5> HIDE DEF d
        <5> QED
          BY <2>11, <3>1, <5>1
      <4> HIDE DEF d
      <4> QED
        BY <2>2, <3>1, <4>1
    <3> QED
      BY <3>2, <3>3
  <2>6. IsWalk(H, q, l - d)
    BY <2>4, <2>5 DEF IsWalk
  <2>7. q[0] = m
    BY <1>4, <1>5, <2>1, <2>3
  <2>8. q[l - d] = p[l]
    <3>1. l - d >= i /\ (l - d) + d = l /\ l - d \in 0 .. l - d
      BY <1>3, <1>5, <2>1
    <3> HIDE DEF d
    <3> QED
      BY <2>11, <3>1
  <2>9. <<q[l - d], q[0]>> \in H.edges
    BY <1>4, <2>7, <2>8 DEF IsRound
  <2>10. l - d \in Ls
    BY <2>1, <2>6, <2>7, <2>9 DEF IsRound
  <2> HIDE DEF Ls, d
  <2> QED
    BY <1>3, <2>1, <2>10
<1>6. \A i, j \in 0 .. l : p[i] = p[j] => i = j
  <2>1. \A i, j \in 0 .. l : i < j \/ j < i \/ i = j
    BY <1>3
  <2> HIDE DEF Ls
  <2> QED
    BY <1>5, <2>1
<1> QED
  BY <1>3, <1>4, <1>6

(* The edges of such a walk are a simple cycle.                            *)
LEMMA RoundIsSimpleCycle ==
  ASSUME NEW H, IsGraph(H), NEW l \in Nat, NEW p, IsRound(H, p, l),
         \A i, j \in 0 .. l : p[i] = p[j] => i = j
  PROVE  \E c \in SimpleCycles(H) : \E e \in c : e[1] = p[0]
<1> DEFINE After(i) == IF i = l THEN 0 ELSE i + 1
           edge == [i \in 0 .. l |-> <<p[i], p[After(i)]>>]
           c == {edge[i] : i \in 0 .. l}
           C == [nodes |-> {e[1] : e \in c}, edges |-> c]
           N == {p[i] : i \in 0 .. l}
<1>1. /\ p \in [0 .. l -> H.nodes] /\ <<p[l], p[0]>> \in H.edges
      /\ \A i \in 1 .. l : <<p[i - 1], p[i]>> \in H.edges
  BY DEF IsRound, IsWalk
<1>2. \A i \in 0 .. l : After(i) \in 0 .. l
  OBVIOUS
<1>3. \A i \in 0 .. l : edge[i] = <<p[i], p[After(i)]>> /\ edge[i][1] = p[i] /\ edge[i][2] = p[After(i)]
  OBVIOUS
<1>4. \A i \in 0 .. l : edge[i] \in H.edges
  <2>1. ASSUME NEW i \in 0 .. l PROVE <<p[i], p[After(i)]>> \in H.edges
    <3>1. CASE i = l
      BY <1>1, <3>1
    <3>2. CASE i # l
      <4>1. i + 1 \in 1 .. l /\ (i + 1) - 1 = i /\ After(i) = i + 1
        BY <3>2
      <4> HIDE DEF After
      <4>2. <<p[(i + 1) - 1], p[i + 1]>> \in H.edges
        BY <1>1, <4>1
      <4> QED
        BY <4>1, <4>2
    <3> QED
      BY <3>1, <3>2
  <2> HIDE DEF After, edge
  <2> QED
    BY <1>3, <2>1
<1>5. \A i \in 0 .. l : \E j \in 0 .. l : After(j) = i
  <2> TAKE i \in 0 .. l
  <2>1. CASE i = 0
    <3>1. l \in 0 .. l /\ After(l) = i
      BY <2>1
    <3> HIDE DEF After
    <3> QED
      BY <3>1
  <2>2. CASE i # 0
    <3>1. i - 1 \in 0 .. l /\ After(i - 1) = i
      BY <2>2
    <3> HIDE DEF After
    <3> QED
      BY <3>1
  <2> QED
    BY <2>1, <2>2
<1>6. DOMAIN edge = 0 .. l /\ edge = [i \in 0 .. l |-> edge[i]]
  OBVIOUS
<1> HIDE DEF After, edge
<1>7. {e[1] : e \in c} = N /\ {e[2] : e \in c} = N
  <2>1. {e[1] : e \in c} = {edge[i][1] : i \in 0 .. l} /\ {e[2] : e \in c} = {edge[i][2] : i \in 0 .. l}
    OBVIOUS
  <2>2. {edge[i][1] : i \in 0 .. l} = N
    BY <1>3
  <2>3. {edge[i][2] : i \in 0 .. l} = N
    <3>1. \A i \in 0 .. l : edge[i][2] \in N
      BY <1>2, <1>3
    <3>2. \A i \in 0 .. l : \E j \in 0 .. l : edge[j][2] = p[i]
      BY <1>2, <1>3, <1>5
    <3>3. \A x : x \in {edge[i][2] : i \in 0 .. l} <=> \E i \in 0 .. l : x = edge[i][2]
      OBVIOUS
    <3>4. \A x : x \in N <=> \E i \in 0 .. l : x = p[i]
      OBVIOUS
    <3> HIDE DEF N
    <3>5. \A x : x \in {edge[i][2] : i \in 0 .. l} => x \in N
      BY <3>1, <3>3
    <3>6. \A x : x \in N => x \in {edge[i][2] : i \in 0 .. l}
      BY <3>2, <3>3, <3>4
    <3> QED
      BY <3>5, <3>6, Zenon
  <2> QED
    BY <2>1, <2>2, <2>3
<1>8. Cardinality(N) = Cardinality(c)
  <2>1. IsFiniteSet(0 .. l)
    BY FS_Interval
  <2>2. DOMAIN p = 0 .. l /\ p = [i \in 0 .. l |-> p[i]]
    BY <1>1
  <2>3. Cardinality(N) = Cardinality(0 .. l)
    <3>1. \A i, j \in 0 .. l : p[i] = p[j] => i = j
      OBVIOUS
    <3> QED
      BY <2>1, <2>2, <3>1, ImageIsFinite, SMTT(30)
  <2>4. \A i, j \in 0 .. l : edge[i] = edge[j] => i = j
    BY <1>3
  <2>5. Cardinality(c) = Cardinality(0 .. l)
    BY <1>6, <2>1, <2>4, ImageIsFinite, SMTT(30)
  <2> QED
    BY <2>3, <2>5
<1>9. c \subseteq H.edges /\ c # {}
  <2>1. 0 \in 0 .. l
    OBVIOUS
  <2> QED
    BY <1>4, <2>1
<1>10. C.nodes = N /\ C.edges = c
  BY <1>7
<1>11. IsGraph(C)
  <2>1. IsFiniteSet(C.nodes) /\ \A e \in c : e = <<e[1], e[2]>>
    BY <1>9, EdgesAreFinite
  <2>2. \A e \in c : e[1] \in N /\ e[2] \in N
    BY <1>7
  <2> QED
    BY <1>10, <2>1, <2>2 DEF IsGraph
<1>12. ASSUME NEW m \in N, NEW S, m \in S, \A e \in c : e[1] \in S => e[2] \in S
       PROVE  N \subseteq S
  <2>1. PICK i \in 0 .. l : m = p[i]
    OBVIOUS
  <2>2. \A j \in 0 .. l : p[j] \in S => p[After(j)] \in S
    BY <1>3, <1>12
  <2>3. p[0] \in S
    <3> DEFINE T == {t \in 0 .. l : t <= l - i => p[i + t] \in S}
    <3>1. 0 \in T
      BY <1>12, <2>1
    <3>2. ASSUME NEW t \in 1 .. l, t - 1 \in T PROVE t \in T
      <4>1. CASE t <= l - i
        <5>1. /\ i + (t - 1) \in 0 .. l /\ i + (t - 1) # l /\ t - 1 <= l - i
              /\ (i + (t - 1)) + 1 = i + t
          BY <4>1
        <5>2. After(i + (t - 1)) = i + t
          BY <5>1 DEF After
        <5> QED
          BY <2>2, <3>2, <5>1, <5>2
      <4> QED
        BY <4>1
    <3> HIDE DEF T
    <3>3. l - i \in T
      <4>1. \A t \in 0 .. l : t \in T
        BY <3>1, <3>2, FiniteInduction
      <4> QED
        BY <4>1
    <3>4. p[l] \in S
      <4>1. i + (l - i) = l
        OBVIOUS
      <4> QED
        BY <3>3, <4>1 DEF T
    <3>5. After(l) = 0 /\ l \in 0 .. l
      BY DEF After
    <3> QED
      BY <2>2, <3>4, <3>5
  <2>4. \A j \in 0 .. l : p[j] \in S
    <3> DEFINE T == {j \in 0 .. l : p[j] \in S}
    <3>1. 0 \in T
      BY <2>3
    <3>2. ASSUME NEW j \in 1 .. l, j - 1 \in T PROVE j \in T
      <4>1. j - 1 \in 0 .. l /\ After(j - 1) = j
        BY DEF After
      <4> QED
        BY <2>2, <3>2, <4>1
    <3> HIDE DEF T
    <3>3. \A j \in 0 .. l : j \in T
      BY <3>1, <3>2, FiniteInduction
    <3> QED
      BY <3>3 DEF T
  <2> QED
    BY <2>4
<1> HIDE DEF C
<1>13. ASSUME NEW m \in N PROVE Descendants(C, m) = N \ {m}
  <2>1. /\ Reached(C, m) \subseteq N /\ IsClosed(C, Reached(C, m)) /\ m \in Reached(C, m)
        /\ Descendants(C, m) = Reached(C, m) \ {m}
    BY <1>10, <1>11, ReachedIsClosed DEF Reached
  <2>2. N \subseteq Reached(C, m)
    <3>1. \A e \in c : e[1] \in Reached(C, m) => e[2] \in Reached(C, m)
      BY <1>10, <2>1 DEF IsClosed
    <3> HIDE DEF N, c
    <3> QED
      BY <1>12, <2>1, <3>1
  <2> QED
    BY <2>1, <2>2
<1>14. IsSimpleCycle(c)
  <2>1. C = [nodes |-> {e[1] : e \in c}, edges |-> c]
    BY DEF C
  <2> HIDE DEF c, N
  <2> QED
    BY <1>7, <1>8, <1>9, <1>10, <1>13, <2>1 DEF IsSimpleCycle
<1>15. ASSUME NEW e \in c PROVE e[1] \in {e[2]} \cup Descendants(H, e[2])
  <2>1. e[1] \in N /\ e[2] \in N /\ e[2] \in H.nodes
    BY <1>7, <1>9, EdgesAreFinite
  <2>2. IsClosed(H, Reached(H, e[2])) /\ e[2] \in Reached(H, e[2])
    BY <2>1, ReachedIsClosed DEF Reached
  <2>3. \A f \in c : f[1] \in Reached(H, e[2]) => f[2] \in Reached(H, e[2])
    BY <1>9, <2>2 DEF IsClosed
  <2> HIDE DEF N, c
  <2>4. e[1] \in Reached(H, e[2])
    BY <1>12, <2>1, <2>2, <2>3
  <2> QED
    BY <2>4 DEF Reached
<1>16. c \in SimpleCycles(H)
  <2> HIDE DEF c
  <2>1. c \subseteq {e \in H.edges : e[1] \in {e[2]} \cup Descendants(H, e[2])}
    BY <1>9, <1>15
  <2> QED
    BY <1>14, <2>1 DEF SimpleCycles
<1>17. edge[0] \in c /\ edge[0][1] = p[0]
  <2>1. 0 \in 0 .. l
    OBVIOUS
  <2> QED
    BY <1>3, <2>1
<1> HIDE DEF c
<1> QED
  BY <1>16, <1>17

(* The modules that come back to themselves are those in simple cycles     *)
(* (query.py:244-273, cycles.py:48-108).                                   *)
LEMMA CyclesAreOfMembers ==
  ASSUME NEW H, IsGraph(H)
  PROVE  /\ OnCycle(H) = {e[1] : e \in UNION SimpleCycles(H)}
         /\ OnCycle(H) = {} <=> SimpleCycles(H) = {}
<1>1. ASSUME NEW c \in SimpleCycles(H), NEW e \in c PROVE e[1] \in OnCycle(H)
  BY SimpleCyclesAreOnCycle
<1>2. ASSUME NEW m \in OnCycle(H) PROVE \E c \in SimpleCycles(H) : \E e \in c : e[1] = m
  <2>1. PICK l \in Nat : \E p : /\ IsRound(H, p, l) /\ p[0] = m
                                /\ \A i, j \in 0 .. l : p[i] = p[j] => i = j
    BY ShortRound
  <2>2. PICK p : /\ IsRound(H, p, l) /\ p[0] = m
                 /\ \A i, j \in 0 .. l : p[i] = p[j] => i = j
    BY <2>1
  <2> QED
    BY <2>2, RoundIsSimpleCycle
<1>3. \A c \in SimpleCycles(H) : c # {}
  BY SimpleCycleLoops
<1> QED
  BY <1>1, <1>2, <1>3

-----------------------------------------------------------------------------
(* Taking away modules that import nothing, step by step.                  *)
LEMMA OrderByStep ==
  ASSUME NEW S, IsFiniteSet(S.nodes)
  PROVE  /\ Cardinality(S.nodes) \in Nat
         /\ \E left \in [0 .. Cardinality(S.nodes) -> SUBSET S.nodes] :
              /\ left[0] = S.nodes
              /\ HasOrder(S) <=> left[Cardinality(S.nodes)] = {}
              /\ \A k \in 1 .. Cardinality(S.nodes) :
                   left[k] = {m \in left[k - 1] : Successors(S, m) \cap left[k - 1] # {}}
<1> DEFINE n == Cardinality(S.nodes)
           V == SUBSET S.nodes
           Fewer(last) == {m \in last : Successors(S, m) \cap last # {}}
           Of(f, k) == IF k = 0 THEN S.nodes ELSE Fewer(f[k - 1])
           left[k \in 0 .. Cardinality(S.nodes)] ==
             IF k = 0 THEN S.nodes
             ELSE LET last == left[k - 1]
                  IN  {m \in last : Successors(S, m) \cap last # {}}
           step == [p \in (1 .. n) \X V |-> Fewer(p[2])]
<1>1. HasOrder(S) <=> left[n] = {}
  BY DEF HasOrder
<1>2. n \in Nat
  BY FS_CardinalityType
<1>3. \A T \in V : Fewer(T) \in V
  OBVIOUS
<1>4. IsStep(step, n, V) /\ \A k \in 1 .. n, T \in V : step[<<k, T>>] = Fewer(T)
  <2> HIDE DEF Fewer, V
  <2> QED
    BY <1>3 DEF IsStep
<1>5. S.nodes \in V
  OBVIOUS
<1> HIDE DEF n, V, step
<1>6. PICK f \in [0 .. n -> V] : f[0] = S.nodes /\ \A k \in 1 .. n : f[k] = step[<<k, f[k - 1]>>]
  <2>1. Recursions(step, n, V, S.nodes) # {}
    BY <1>2, <1>4, <1>5, FiniteRecursion
  <2> HIDE DEF left
  <2> QED
    BY <2>1 DEF Recursions
<1>7. \A k \in 0 .. n : f[k] = Of(f, k)
  <2> HIDE DEF Fewer, left
  <2> TAKE k \in 0 .. n
  <2>1. CASE k = 0
    BY <1>6, <2>1
  <2>2. CASE k \in 1 .. n
    <3>1. f[k - 1] \in V /\ k # 0
      BY <1>2, <2>2
    <3> QED
      BY <1>4, <1>6, <2>2, <3>1
  <2> QED
    BY <1>2, <2>1, <2>2
<1>8. left = [k \in 0 .. n |-> Of(left, k)]
  <2>1. f = [k \in 0 .. n |-> Of(f, k)]
    <3>1. f = [k \in 0 .. n |-> f[k]]
      OBVIOUS
    <3> HIDE DEF Of
    <3> QED
      BY <1>7, <3>1
  <2> QED
    BY <2>1 DEF n
<1> HIDE DEF left
<1>9. left[0] = S.nodes /\ \A k \in 1 .. n : left[k] = Fewer(left[k - 1])
  <2>1. \A k \in 0 .. n : left[k] = Of(left, k)
    <3> HIDE DEF Of
    <3> QED
      BY <1>8
  <2>2. left[0] = Of(left, 0) /\ \A k \in 1 .. n : k # 0 /\ left[k] = Of(left, k)
    <3> HIDE DEF Of
    <3> QED
      BY <1>2, <2>1
  <2> QED
    BY <2>2
<1>10. \A k \in 0 .. n : left[k] \in V
  <2> DEFINE T == {k \in 0 .. n : left[k] \in V}
  <2>1. 0 \in T
    <3>1. left[0] \in V
      BY <1>5, <1>9, Zenon
    <3> QED
      BY <1>2, <3>1
  <2>2. \A k \in 1 .. n : k - 1 \in T => k \in T
    <3> HIDE DEF Fewer
    <3> QED
      BY <1>2, <1>3, <1>9
  <2> HIDE DEF T
  <2>3. \A k \in 0 .. n : k \in T
    BY <1>2, <2>1, <2>2, FiniteInduction
  <2> QED
    BY <2>3 DEF T
<1>11. left \in [0 .. n -> V]
  <2> HIDE DEF Of
  <2> QED
    BY <1>8, <1>10
<1> QED
  BY <1>1, <1>2, <1>9, <1>11 DEF n, V

(* What is left in the end is empty, or each module of it imports another  *)
(* of it.                                                                  *)
LEMMA OrderOrCore ==
  ASSUME NEW S, IsGraph(S), ~HasOrder(S)
  PROVE  \E core \in SUBSET S.nodes :
           core # {} /\ \A m \in core : \E e \in S.edges : e[1] = m /\ e[2] \in core
<1> DEFINE n == Cardinality(S.nodes)
<1>1. PICK left \in [0 .. n -> SUBSET S.nodes] :
        /\ left[0] = S.nodes
        /\ HasOrder(S) <=> left[n] = {}
        /\ \A k \in 1 .. n :
             left[k] = {m \in left[k - 1] : Successors(S, m) \cap left[k - 1] # {}}
  BY OrderByStep DEF IsGraph
<1>2. n \in Nat /\ IsFiniteSet(S.nodes)
  BY FS_CardinalityType DEF IsGraph
<1>3. \A U \in SUBSET S.nodes : IsFiniteSet(U) /\ Cardinality(U) \in Nat
  BY <1>2, FS_Subset, FS_CardinalityType
<1>4. Cardinality(left[0]) = n
  BY <1>1
<1> HIDE DEF n
<1> DEFINE Core(k) == \A m \in left[k] : Successors(S, m) \cap left[k] # {}
           T == {k \in 0 .. n : Core(k) \/ Cardinality(left[k]) <= n - k}
<1>5. 0 \in T
  BY <1>2, <1>4
<1>6. ASSUME NEW k \in 1 .. n, k - 1 \in T PROVE k \in T
  <2>1. k - 1 \in 0 .. n /\ left[k - 1] \in SUBSET S.nodes
    BY <1>2
  <2>2. left[k] = {m \in left[k - 1] : Successors(S, m) \cap left[k - 1] # {}}
    BY <1>1
  <2>3. CASE Core(k - 1)
    <3>1. left[k] = left[k - 1]
      BY <2>2, <2>3
    <3>2. Core(k)
      BY <2>3, <3>1
    <3> QED
      BY <3>2
  <2>4. CASE ~Core(k - 1)
    <3>1. left[k] # left[k - 1] /\ left[k] \in SUBSET left[k - 1]
      BY <2>2, <2>4
    <3>2. Cardinality(left[k]) < Cardinality(left[k - 1])
      BY <1>3, <2>1, <3>1, FS_Subset
    <3>3. Cardinality(left[k - 1]) <= n - (k - 1) /\ Cardinality(left[k - 1]) \in Nat
      BY <1>3, <1>6, <2>1, <2>4
    <3>4. Cardinality(left[k]) \in Nat
      BY <1>3, <2>1, <3>1
    <3>5. Cardinality(left[k]) <= n - k
      BY <1>2, <3>2, <3>3, <3>4
    <3> QED
      BY <3>5
  <2> QED
    BY <2>3, <2>4
<1> HIDE DEF T
<1>7. n \in T
  BY <1>2, <1>5, <1>6, FiniteInduction
<1>8. left[n] \in SUBSET S.nodes /\ left[n] # {}
  BY <1>1, <1>2
<1>9. Core(n)
  <2>1. Core(n) \/ Cardinality(left[n]) <= n - n
    BY <1>7 DEF T
  <2>2. Cardinality(left[n]) # 0 /\ Cardinality(left[n]) \in Nat
    BY <1>3, <1>8, FS_EmptySet
  <2> HIDE DEF Core
  <2> QED
    BY <1>2, <2>1, <2>2
<1>10. \A m \in left[n] : \E e \in S.edges : e[1] = m /\ e[2] \in left[n]
  BY <1>9 DEF Successors
<1> QED
  BY <1>8, <1>10

LEMMA SmallerInside ==
  ASSUME NEW W, IsFiniteSet(W), NEW N \in SUBSET W, N # W
  PROVE  Cardinality(N) < Cardinality(W)
<1>1. /\ IsFiniteSet(N) /\ Cardinality(N) <= Cardinality(W)
      /\ Cardinality(W) = Cardinality(N) => W = N
  BY FS_Subset
<1>2. Cardinality(N) \in Nat /\ Cardinality(W) \in Nat
  BY <1>1, FS_CardinalityType
<1> QED
  BY <1>1, <1>2

(* Of modules that each import another of them, one comes back to itself:  *)
(* the one that fewest can be reached from.                                *)
LEMMA CoreHasCycle ==
  ASSUME NEW S, IsGraph(S), NEW core \in SUBSET S.nodes, core # {},
         \A m \in core : \E e \in S.edges : e[1] = m /\ e[2] \in core
  PROVE  OnCycle(S) # {}
<1> DEFINE size == [m \in S.nodes |-> Cardinality(Reached(S, m))]
<1>1. ASSUME NEW m \in S.nodes
      PROVE  /\ Reached(S, m) \in SUBSET S.nodes /\ IsClosed(S, Reached(S, m)) /\ m \in Reached(S, m)
             /\ IsFiniteSet(Reached(S, m)) /\ Cardinality(Reached(S, m)) \in Nat
  <2>1. Reached(S, m) \in SUBSET S.nodes /\ IsClosed(S, Reached(S, m)) /\ m \in Reached(S, m)
    BY ReachedIsClosed DEF Reached
  <2> QED
    BY <2>1, FS_Subset, FS_CardinalityType DEF IsGraph
<1>2. \A m \in S.nodes : size[m] = Cardinality(Reached(S, m)) /\ size[m] \in Nat
  BY <1>1
<1> HIDE DEF size
<1>3. PICK m \in core : \A k \in core : size[m] <= size[k]
  <2> DEFINE T == {size[k] : k \in core}
  <2>1. T \subseteq Nat /\ T # {}
    BY <1>2
  <2>2. \E s \in T : \A t \in T : s <= t
    <3> HIDE DEF T
    <3> QED
      BY <2>1, LeastNatural
  <2> QED
    BY <2>2
<1>4. PICK e \in S.edges : e[1] = m /\ e[2] \in core
  OBVIOUS
<1>5. e = <<m, e[2]>> /\ e[2] \in S.nodes /\ m \in S.nodes
  BY <1>4, EdgesAreFinite
<1>6. e[2] \in Reached(S, m)
  BY <1>1, <1>4, <1>5 DEF IsClosed
<1>7. Reached(S, e[2]) \in SUBSET Reached(S, m)
  BY <1>1, <1>5, <1>6, ReachedIsSmallest
<1>8. Reached(S, e[2]) = Reached(S, m)
  <2>1. Cardinality(Reached(S, e[2])) >= Cardinality(Reached(S, m))
    BY <1>2, <1>3, <1>4, <1>5
  <2>2. Reached(S, e[2]) # Reached(S, m) => Cardinality(Reached(S, e[2])) < Cardinality(Reached(S, m))
    <3>1. IsFiniteSet(Reached(S, m))
      BY <1>1, <1>5
    <3> QED
      BY <1>7, <3>1, SmallerInside
  <2> QED
    BY <1>1, <1>5, <2>1, <2>2
<1>9. m \in Reached(S, e[2])
  BY <1>1, <1>5, <1>8
<1>10. e[2] \in OnCycle(S)
  <2>1. <<m, e[2]>> \in S.edges
    BY <1>5
  <2> QED
    BY <1>5, <1>9, <2>1, CycleMembers
<1> QED
  BY <1>10

(* The imports of a simple cycle cannot be listed.                         *)
LEMMA OrderHasNoCycle ==
  ASSUME NEW S, IsGraph(S), HasOrder(S)
  PROVE  SimpleCycles(S) = {}
<1>1. SUFFICES ASSUME NEW c \in SimpleCycles(S) PROVE FALSE
  OBVIOUS
<1> DEFINE n == Cardinality(S.nodes)
           N == {e[1] : e \in c}
<1>2. PICK left \in [0 .. n -> SUBSET S.nodes] :
        /\ left[0] = S.nodes
        /\ HasOrder(S) <=> left[n] = {}
        /\ \A k \in 1 .. n :
             left[k] = {m \in left[k - 1] : Successors(S, m) \cap left[k - 1] # {}}
  BY OrderByStep DEF IsGraph
<1>3. n \in Nat
  BY FS_CardinalityType DEF IsGraph
<1>4. c # {} /\ c \subseteq S.edges /\ N = {e[2] : e \in c}
  BY SimpleCycleLoops
<1> HIDE DEF n
<1>5. N \subseteq S.nodes
  BY <1>4, EdgesAreFinite
<1>6. ASSUME NEW m \in N, NEW T, N \subseteq T PROVE Successors(S, m) \cap T # {}
  <2>1. PICK e \in c : m = e[1]
    OBVIOUS
  <2>2. e[2] \in N /\ e \in S.edges
    BY <1>4
  <2>3. e[2] \in Successors(S, m)
    BY <2>1, <2>2 DEF Successors
  <2> QED
    BY <1>6, <2>2, <2>3
<1> DEFINE T == {k \in 0 .. n : N \subseteq left[k]}
<1>7. 0 \in T
  BY <1>2, <1>3, <1>5
<1>8. ASSUME NEW k \in 1 .. n, k - 1 \in T PROVE k \in T
  <2>1. N \subseteq left[k - 1]
    BY <1>8
  <2>2. \A m \in N : m \in left[k - 1] /\ Successors(S, m) \cap left[k - 1] # {}
    BY <1>6, <2>1
  <2> HIDE DEF N
  <2>3. \A m \in N : m \in left[k]
    BY <1>2, <2>2
  <2> QED
    BY <2>3
<1> HIDE DEF T
<1>9. n \in T
  BY <1>3, <1>7, <1>8, FiniteInduction
<1>10. N # {}
  BY <1>4
<1> HIDE DEF N
<1> QED
  BY <1>2, <1>9, <1>10 DEF T

LEMMA NoCycleHasOrder ==
  ASSUME NEW S, IsGraph(S), SimpleCycles(S) = {}
  PROVE  HasOrder(S)
BY OrderOrCore, CoreHasCycle, CyclesAreOfMembers

(* Matching selects among the nodes that it is given.                      *)
LEMMA MatchingSelects ==
  ASSUME NEW p, NEW ms
  PROVE  Matching(p, ms) \subseteq ms
BY DEF Matching

(* The cycle rules agree with one another and with what a cycle is, for    *)
(* every graph that is read and every pattern (query.py:244-273;           *)
(* cycles.py:29-108).                                                      *)
THEOREM CycleRulesAgree == Spec => []CyclesAgree
<1>1. ASSUME GraphAsRead PROVE CyclesAgree
  <2> USE DEF CyclesAgree
  <2> TAKE p \in Patterns
  <2> DEFINE S == Subgraph(G, Matching(p, nodes))
  <2>1. IsGraph(G) /\ G.nodes = nodes
    BY <1>1, GraphIsTyped DEF G, IsGraph
  <2>2. IsGraph(S)
    BY <2>1, MatchingSelects, SubgraphIsGraph
  <2>3. NoCycles(G, p).violations = SimpleCycles(S) /\ HasNoCycles(G, p).violations = OnCycle(S)
    BY <2>1 DEF NoCycles, HasNoCycles, Found
  <2> HIDE DEF S
  <2>4. /\ OnCycle(S) = {e[1] : e \in UNION SimpleCycles(S)}
        /\ OnCycle(S) = {} <=> SimpleCycles(S) = {}
    BY <2>2, CyclesAreOfMembers
  <2>5. SimpleCycles(S) = {} <=> HasOrder(S)
    BY <2>2, OrderHasNoCycle, NoCycleHasOrder
  <2> QED
    BY <2>3, <2>4, <2>5 DEF Passes, S
<1> QED
  BY <1>1, GraphInvariant, PTL

-----------------------------------------------------------------------------
(* The number that node_owner and node_layer_index give a module: of the   *)
(* first pattern that selects it, 0 if none does.                          *)
LEMMA OwnerSelects ==
  ASSUME NEW patterns, IsSequence(patterns), NEW m \in nodes
  PROVE  /\ OwnerIn(patterns, m) \in Nat
         /\ OwnerIn(patterns, m) = 0 <=> \A i \in 1 .. Len(patterns) : m \notin Matching(patterns[i], nodes)
         /\ OwnerIn(patterns, m) # 0 =>
              /\ OwnerIn(patterns, m) \in 1 .. Len(patterns)
              /\ m \in Matching(patterns[OwnerIn(patterns, m)], nodes)
              /\ \A i \in 1 .. Len(patterns) :
                   m \in Matching(patterns[i], nodes) => OwnerIn(patterns, m) <= i
<1> DEFINE I == {i \in 1 .. Len(patterns) : Matching(patterns[i], {m}) # {}}
<1>1. OwnerIn(patterns, m) = IF I # {} THEN Min(I) ELSE 0
  BY DEF OwnerIn, SelectInSeq
<1>2. \A p : Matching(p, {m}) # {} <=> m \in Matching(p, nodes)
  BY DEF Matching
<1>3. Len(patterns) \in Nat
  BY LenProperties DEF IsSequence
<1>4. I \subseteq Nat /\ \A i : i \in I <=> i \in 1 .. Len(patterns) /\ m \in Matching(patterns[i], nodes)
  <2>1. I \subseteq Nat /\ \A i : i \in I <=> i \in 1 .. Len(patterns) /\ Matching(patterns[i], {m}) # {}
    BY <1>3
  <2> HIDE DEF I
  <2>2. \A i : Matching(patterns[i], {m}) # {} <=> m \in Matching(patterns[i], nodes)
    BY <1>2
  <2> QED
    BY <2>1, <2>2
<1> HIDE DEF I
<1>5. CASE I = {}
  BY <1>1, <1>4, <1>5
<1>6. CASE I # {}
  <2>1. \E i \in I : \A j \in I : i <= j
    BY <1>4, <1>6, LeastNatural
  <2>2. Min(I) \in I /\ \A i \in I : Min(I) <= i
    BY <2>1 DEF Min
  <2> QED
    BY <1>1, <1>4, <1>6, <2>2
<1> QED
  BY <1>5, <1>6

LEMMA LayerListsAreSequences ==
  ASSUME NEW patterns \in LayerLists
  PROVE  /\ IsSequence(patterns) /\ Len(patterns) \in Nat /\ Len(patterns) >= 2
         /\ DOMAIN patterns = 1 .. Len(patterns)
         /\ \A i \in 1 .. Len(patterns) : IsPattern(patterns[i])
<1>1. patterns \in Seq(ToSet(patterns)) /\ Len(patterns) >= 2
  BY QueriesAssumption
<1>2. Len(patterns) \in Nat /\ DOMAIN patterns = 1 .. Len(patterns)
  BY <1>1, LenProperties
<1>3. \A i \in 1 .. Len(patterns) : patterns[i] \in ToSet(patterns)
  BY <1>1, ElementOfSeq
<1> QED
  BY <1>1, <1>2, <1>3, QueriesAssumption DEF IsSequence

(* must_not_depend_on finds what some chain of must_not_import would       *)
(* (query.py:197-242).                                                     *)
LEMMA ReachedByStep ==
  ASSUME NEW H, IsGraph(H), NEW s \in H.nodes, NEW t, s # t
  PROVE  t \in Descendants(H, s) <=> \E k \in Successors(H, s) : k = t \/ t \in Descendants(H, k)
<1>1. /\ Reached(H, s) \subseteq H.nodes /\ IsClosed(H, Reached(H, s)) /\ s \in Reached(H, s)
      /\ Descendants(H, s) = Reached(H, s) \ {s}
  BY ReachedIsClosed DEF Reached
<1>2. \A k : k \in Successors(H, s) <=> \E e \in H.edges : e[1] = s /\ e[2] = k
  BY DEF Successors
<1>3. ASSUME NEW k \in Successors(H, s)
      PROVE  k \in H.nodes /\ k \in Reached(H, s) /\ Reached(H, k) \subseteq Reached(H, s)
  <2>1. PICK e \in H.edges : e[1] = s /\ e[2] = k
    BY <1>2, <1>3
  <2>2. k \in H.nodes /\ k \in Reached(H, s)
    BY <1>1, <2>1, EdgesAreFinite DEF IsClosed
  <2> QED
    BY <1>1, <2>2, ReachedIsSmallest
<1>4. \A k \in H.nodes : \A u : u \in Reached(H, k) <=> u = k \/ u \in Descendants(H, k)
  BY DEF Reached
<1>5. ASSUME NEW k \in Successors(H, s), k = t \/ t \in Descendants(H, k)
      PROVE  t \in Descendants(H, s)
  BY <1>1, <1>3, <1>4, <1>5
<1>6. ASSUME t \in Descendants(H, s)
      PROVE  \E k \in Successors(H, s) : k = t \/ t \in Descendants(H, k)
  <2> DEFINE S == {u \in H.nodes : u = s \/ \E k \in Successors(H, s) : u \in Reached(H, k)}
  <2>1. ASSUME NEW e \in H.edges, e[1] \in S PROVE e[2] \in S
    <3>1. e[1] \in H.nodes /\ e[2] \in H.nodes
      BY EdgesAreFinite
    <3>2. CASE e[1] = s
      <4>1. e[2] \in Successors(H, s) /\ e[2] \in Reached(H, e[2])
        BY <1>2, <3>2 DEF Reached
      <4> QED
        BY <3>1, <4>1
    <3>3. CASE e[1] # s
      <4>1. PICK k \in Successors(H, s) : e[1] \in Reached(H, k)
        BY <2>1, <3>3
      <4>2. IsClosed(H, Reached(H, k))
        BY <1>3, ReachedIsClosed
      <4>3. e[2] \in Reached(H, k)
        BY <4>1, <4>2 DEF IsClosed
      <4> QED
        BY <3>1, <4>3
    <3> QED
      BY <3>2, <3>3
  <2>2. s \in S
    OBVIOUS
  <2> HIDE DEF S
  <2>3. Reached(H, s) \subseteq S
    BY <2>1, <2>2, ReachedIsSmallest DEF IsClosed
  <2>4. t \in S
    BY <1>1, <1>6, <2>3
  <2>5. PICK k \in Successors(H, s) : t \in Reached(H, k)
    BY <2>4 DEF S
  <2> QED
    BY <1>3, <1>4, <2>5
<1> QED
  BY <1>5, <1>6

(* Where the layers have every module, one layer of each module is its     *)
(* own, the first, and it is in no earlier one.                            *)
LEMMA OwnLayer ==
  ASSUME NEW patterns \in LayerLists, AreAll(patterns), NEW m \in nodes
  PROVE  /\ OwnerIn(patterns, m) \in DOMAIN patterns
         /\ m \in Matching(patterns[OwnerIn(patterns, m)], nodes)
<1>1. IsSequence(patterns) /\ DOMAIN patterns = 1 .. Len(patterns)
  BY LayerListsAreSequences
<1>2. \E i \in 1 .. Len(patterns) : m \in Matching(patterns[i], nodes)
  BY <1>1 DEF AreAll, ToSet
<1> QED
  BY <1>1, <1>2, OwnerSelects

(* Where they are in order, an import leads from a layer to no upper one,  *)
(* whichever layers its ends are in.                                       *)
LEMMA OrderedLeadDown ==
  ASSUME NEW patterns, Passes(AreOrdered(G, patterns)), NEW e \in G.edges,
         NEW i \in DOMAIN patterns, NEW j \in DOMAIN patterns,
         e[1] \in Matching(patterns[i], nodes), e[2] \in Matching(patterns[j], nodes)
  PROVE  ~ (j < i)
<1>1. \A f \in G.edges : ~ \E upper, lower \in DOMAIN patterns :
        /\ upper < lower
        /\ f[1] \in Matching(patterns[lower], nodes) /\ f[2] \in Matching(patterns[upper], nodes)
  BY DEF Passes, AreOrdered, Found, G
<1> QED
  BY <1>1

(* Where they are in order or adjacent, an import leads from the own layer *)
(* of a module to no own layer above.                                      *)
LEMMA OwnersLeadDown ==
  ASSUME NEW patterns \in LayerLists, IsGraph(G), AreAll(patterns),
         Passes(AreOrdered(G, patterns)) \/ Passes(AreAdjacent(G, patterns)),
         NEW e \in G.edges
  PROVE  OwnerIn(patterns, e[1]) <= OwnerIn(patterns, e[2])
<1> DEFINE s == OwnerIn(patterns, e[1])
           t == OwnerIn(patterns, e[2])
<1>1. e[1] \in nodes /\ e[2] \in nodes
  <2>1. G.edges \subseteq G.nodes \X G.nodes /\ G.nodes = nodes
    BY DEF G, IsGraph
  <2> QED
    BY <2>1
<1>2. /\ s \in DOMAIN patterns /\ e[1] \in Matching(patterns[s], nodes)
      /\ t \in DOMAIN patterns /\ e[2] \in Matching(patterns[t], nodes)
  BY <1>1, OwnLayer
<1>3. DOMAIN patterns = 1 .. Len(patterns) /\ Len(patterns) \in Nat
  BY LayerListsAreSequences
<1>4. CASE Passes(AreOrdered(G, patterns))
  <2>1. ~ (t < s)
    BY <1>2, <1>4, OrderedLeadDown
  <2> HIDE DEF s, t
  <2>2. s <= t
    BY <1>2, <1>3, <2>1
  <2> QED
    BY <2>2 DEF s, t
<1>5. CASE Passes(AreAdjacent(G, patterns))
  <2>1. s # 0 /\ t # 0 => t - s \in {0, 1}
    BY <1>5 DEF Passes, AreAdjacent, Found, G
  <2> HIDE DEF s, t
  <2>2. s <= t
    BY <1>2, <1>3, <2>1
  <2> QED
    BY <2>2 DEF s, t
<1> QED
  BY <1>4, <1>5

(* Where they are in order, no chain of imports leads from a layer to an   *)
(* upper one.                                                              *)
LEMMA ChainsLeadDown ==
  ASSUME NEW patterns \in LayerLists, IsGraph(G), AreAll(patterns),
         Passes(AreOrdered(G, patterns)),
         NEW upper \in DOMAIN patterns, NEW lower \in DOMAIN patterns, upper < lower,
         NEW s \in Matching(patterns[lower], nodes), NEW t \in Matching(patterns[upper], nodes)
  PROVE  t \notin Descendants(G, s)
<1> SUFFICES ASSUME t \in Descendants(G, s) PROVE FALSE
  OBVIOUS
<1> DEFINE S == {m \in nodes : \A i \in DOMAIN patterns : m \in Matching(patterns[i], nodes) => i >= lower}
<1>1. /\ G.nodes = nodes /\ s \in G.nodes /\ \A i \in DOMAIN patterns : i \in Nat
      /\ \A e \in G.edges : e[1] \in nodes /\ e[2] \in nodes
  <2>1. G.edges \subseteq G.nodes \X G.nodes /\ G.nodes = nodes
    BY DEF G, IsGraph
  <2>2. DOMAIN patterns = 1 .. Len(patterns) /\ Len(patterns) \in Nat
    BY LayerListsAreSequences
  <2> QED
    BY <2>1, <2>2, MatchingSelects
<1>2. ASSUME NEW e \in G.edges, NEW j \in DOMAIN patterns, j >= lower,
             e[1] \in Matching(patterns[j], nodes)
      PROVE  e[2] \in S
  <2>1. ASSUME NEW i \in DOMAIN patterns, e[2] \in Matching(patterns[i], nodes) PROVE i >= lower
    <3>1. ~ (i < j)
      BY <1>2, <2>1, OrderedLeadDown
    <3> QED
      BY <1>1, <1>2, <3>1
  <2> QED
    BY <1>1, <2>1
<1>3. ASSUME NEW e \in G.edges, e[1] \in S PROVE e[2] \in S
  <2>1. /\ OwnerIn(patterns, e[1]) \in DOMAIN patterns
        /\ e[1] \in Matching(patterns[OwnerIn(patterns, e[1])], nodes)
    BY <1>1, OwnLayer
  <2>2. OwnerIn(patterns, e[1]) >= lower
    BY <1>3, <2>1
  <2> HIDE DEF S
  <2> QED
    BY <1>2, <2>1, <2>2
<1>4. t \notin S
  <2>1. ~ (upper >= lower)
    BY <1>1
  <2> QED
    BY <2>1
<1>5. s # t /\ lower >= lower
  BY <1>1 DEF Descendants
<1> HIDE DEF S
<1>6. PICK k \in Successors(G, s) : k = t \/ t \in Descendants(G, k)
  BY <1>1, <1>5, ReachedByStep
<1>7. PICK e \in G.edges : e[1] = s /\ e[2] = k
  BY DEF Successors
<1>8. k \in S /\ k \in G.nodes
  BY <1>1, <1>2, <1>5, <1>7
<1>9. Reached(G, k) \subseteq S
  BY <1>3, <1>8, ReachedIsSmallest DEF IsClosed
<1>10. t \in Reached(G, k)
  BY <1>6 DEF Reached
<1> QED
  BY <1>4, <1>9, <1>10

(* A cycle within the modules ms goes round in their subgraph.             *)
LEMMA CycleWithin ==
  ASSUME NEW H, IsGraph(H), NEW K, IsGraph(K), K.edges \subseteq H.edges,
         NEW c \in SimpleCycles(K),
         NEW ms, ms \subseteq H.nodes, {e[1] : e \in c} \subseteq ms
  PROVE  OnCycle(Subgraph(H, ms)) # {}
<1> DEFINE S == Subgraph(H, ms)
           N == {e[1] : e \in c}
<1>1. /\ c # {} /\ c \subseteq H.edges /\ N = {e[2] : e \in c}
      /\ \A m \in N : \A U : m \in U /\ (\A e \in c : e[1] \in U => e[2] \in U) => N \subseteq U
  BY SimpleCycleLoops
<1>2. IsGraph(S) /\ S.nodes = ms /\ S.edges = {e \in H.edges : e[1] \in ms /\ e[2] \in ms}
  BY SubgraphIsGraph
<1> HIDE DEF S
<1>3. \A e \in c : e[1] \in N /\ e[2] \in N
  BY <1>1
<1>4. \A e \in c : e \in S.edges /\ e = <<e[1], e[2]>>
  BY <1>1, <1>2, <1>3, EdgesAreFinite
<1>5. PICK e \in c : TRUE
  BY <1>1
<1>6. e[2] \in ms
  BY <1>3, <1>5
<1>7. IsClosed(S, Reached(S, e[2])) /\ e[2] \in Reached(S, e[2])
  BY <1>2, <1>6, ReachedIsClosed DEF Reached
<1>8. e[1] \in Reached(S, e[2])
  <2>1. \A f \in c : f[1] \in Reached(S, e[2]) => f[2] \in Reached(S, e[2])
    BY <1>4, <1>7 DEF IsClosed
  <2>2. e[2] \in N /\ e[1] \in N
    BY <1>3, <1>5
  <2> HIDE DEF N
  <2>3. N \subseteq Reached(S, e[2])
    BY <1>1, <1>7, <2>1, <2>2
  <2> QED
    BY <2>2, <2>3
<1>9. e[2] \in OnCycle(S)
  BY <1>2, <1>4, <1>5, <1>6, <1>8, CycleMembers
<1> QED
  BY <1>9 DEF S

(* Layers that have every module and are in order leave no chain of        *)
(* imports that leads up, and those that are in order or adjacent no cycle *)
(* that is not within one of them, overlapping or not (layers.py:22-141;   *)
(* query.py:197-273; cycles.py:29-108).                                    *)
THEOREM LayersHoldCycles == Spec => []LayersExcludeLoops
<1>1. ASSUME GraphAsRead PROVE LayersExcludeLoops
  <2>1. IsGraph(G) /\ G.nodes = nodes
    BY <1>1, GraphIsTyped DEF G, IsGraph
  <2>2. SUFFICES ASSUME NEW patterns \in LayerLists, AreAll(patterns)
                 PROVE  /\ Passes(AreOrdered(G, patterns)) =>
                             \A upper, lower \in DOMAIN patterns :
                               upper < lower =>
                                 Passes(MustNotDependOn(G, patterns[lower], patterns[upper]))
                        /\ /\ Passes(AreOrdered(G, patterns)) \/ Passes(AreAdjacent(G, patterns))
                           /\ \A p \in ToSet(patterns) : Passes(HasNoCycles(G, p))
                           => Passes(NoCycles(G, <<GlobStar>>))
    BY DEF LayersExcludeLoops
  <2>3. \A i \in DOMAIN patterns : i \in Nat /\ patterns[i] \in ToSet(patterns)
    BY LayerListsAreSequences DEF ToSet
  <2>4. ASSUME Passes(AreOrdered(G, patterns)),
               NEW upper \in DOMAIN patterns, NEW lower \in DOMAIN patterns, upper < lower
        PROVE  Passes(MustNotDependOn(G, patterns[lower], patterns[upper]))
    <3>1. \A st \in Matching(patterns[lower], nodes) \X Matching(patterns[upper], nodes) :
            st[2] \notin Descendants(G, st[1])
      BY <2>1, <2>2, <2>4, ChainsLeadDown
    <3> QED
      BY <2>1, <3>1 DEF Passes, MustNotDependOn, Found
  <2>5. ASSUME Passes(AreOrdered(G, patterns)) \/ Passes(AreAdjacent(G, patterns)),
               \A p \in ToSet(patterns) : Passes(HasNoCycles(G, p))
        PROVE  Passes(NoCycles(G, <<GlobStar>>))
    <3> DEFINE ms == Matching(<<GlobStar>>, nodes)
               S == Subgraph(G, ms)
               own(m) == OwnerIn(patterns, m)
    <3>1. ms \subseteq nodes /\ IsGraph(S) /\ S.edges = {e \in G.edges : e[1] \in ms /\ e[2] \in ms}
      BY <2>1, MatchingSelects, SubgraphIsGraph
    <3>2. \A e \in G.edges : own(e[1]) <= own(e[2])
      BY <2>1, <2>2, <2>5, OwnersLeadDown
    <3>3. \A m \in nodes : own(m) \in DOMAIN patterns /\ m \in Matching(patterns[own(m)], nodes)
      BY <2>2, OwnLayer
    <3> HIDE DEF ms, S, own
    <3>4. ASSUME NEW c \in SimpleCycles(S) PROVE FALSE
      <4> DEFINE N == {e[1] : e \in c}
      <4>1. /\ c # {} /\ c \subseteq S.edges /\ N = {e[2] : e \in c}
            /\ \A m \in N : \A U : m \in U /\ (\A e \in c : e[1] \in U => e[2] \in U) => N \subseteq U
        BY <3>1, SimpleCycleLoops
      <4>2. c \subseteq G.edges /\ N \subseteq nodes
        BY <2>1, <3>1, <4>1, EdgesAreFinite
      <4>3. \A e \in c : e[1] \in N /\ e[2] \in N
        BY <4>1
      <4> HIDE DEF N
      <4>4. PICK e \in c : TRUE
        BY <4>1
      <4> DEFINE i == own(e[1])
      <4>5. e[1] \in N /\ i \in DOMAIN patterns
        BY <3>3, <4>2, <4>3, <4>4
      <4>6. ASSUME NEW m \in N, NEW k \in N PROVE own(m) <= own(k)
        <5> DEFINE U == {n \in N : own(m) <= own(n)}
        <5>1. m \in U
          <6>1. own(m) \in Nat
            BY <2>3, <3>3, <4>2
          <6> QED
            BY <6>1
        <5>2. ASSUME NEW f \in c, f[1] \in U PROVE f[2] \in U
          <6>1. f[1] \in N /\ f[2] \in N /\ own(m) <= own(f[1]) /\ own(f[1]) <= own(f[2])
            BY <3>2, <4>2, <4>3, <5>2
          <6>2. own(m) \in Nat /\ own(f[1]) \in Nat /\ own(f[2]) \in Nat
            BY <2>3, <3>3, <4>2, <6>1
          <6> QED
            BY <6>1, <6>2
        <5>3. N \subseteq U
          BY <4>1, <5>1, <5>2
        <5> QED
          BY <5>3
      <4>7. ASSUME NEW m \in N PROVE m \in Matching(patterns[i], nodes)
        <5>1. own(m) <= i /\ i <= own(m)
          BY <4>5, <4>6
        <5>2. own(m) \in Nat /\ i \in Nat /\ m \in Matching(patterns[own(m)], nodes)
          BY <2>3, <3>3, <4>2, <4>5
        <5>3. own(m) = i
          BY <5>1, <5>2
        <5> QED
          BY <5>2, <5>3
      <4> HIDE DEF i
      <4>8. Matching(patterns[i], nodes) \subseteq G.nodes
        BY <2>1, MatchingSelects
      <4>9. S.edges \subseteq G.edges /\ N \subseteq Matching(patterns[i], nodes)
        BY <3>1, <4>7
      <4>10. OnCycle(Subgraph(G, Matching(patterns[i], nodes))) # {}
        BY <2>1, <3>1, <4>8, <4>9, CycleWithin DEF N
      <4>11. Passes(HasNoCycles(G, patterns[i]))
        BY <2>3, <2>5, <4>5
      <4> QED
        BY <2>1, <4>10, <4>11 DEF Passes, HasNoCycles, Found
    <3> QED
      BY <2>1, <3>4 DEF Passes, NoCycles, Found, S, ms
  <2> QED
    BY <2>4, <2>5
<1> QED
  BY <1>1, GraphInvariant, PTL

-----------------------------------------------------------------------------
(* What a part of a pattern makes of the positions that the parts before   *)
(* it fit, and the positions for all parts.                                *)
Fitted(S, part, name) ==
  IF part = GlobStar
  THEN {j \in 0 .. Len(name) : \E i \in S : i <= j}
  ELSE {j \in 1 .. Len(name) : j - 1 \in S /\ name[j] \in part.names}

AreFits(f, pattern, name) ==
  /\ f \in [0 .. Len(pattern) -> SUBSET (0 .. Len(name))]
  /\ f[0] = {0}
  /\ \A k \in 1 .. Len(pattern) : f[k] = Fitted(f[k - 1], pattern[k], name)

LEMMA FitsAreSolved ==
  ASSUME NEW pattern, IsSequence(pattern), NEW name, IsSequence(name)
  PROVE  \E f : AreFits(f, pattern, name)
<1> DEFINE n == Len(pattern)
           V == SUBSET (0 .. Len(name))
           step == [p \in (1 .. n) \X V |-> Fitted(p[2], pattern[p[1]], name)]
<1>1. n \in Nat /\ Len(name) \in Nat
  BY LenProperties DEF IsSequence
<1>2. \A S, part : Fitted(S, part, name) \in V
  BY <1>1 DEF Fitted
<1>3. IsStep(step, n, V) /\ \A k \in 1 .. n, S \in V : step[<<k, S>>] = Fitted(S, pattern[k], name)
  <2> HIDE DEF V
  <2> QED
    BY <1>2 DEF IsStep
<1>4. {0} \in V
  BY <1>1
<1> HIDE DEF n, V, step
<1>5. PICK f \in [0 .. n -> V] : f[0] = {0} /\ \A k \in 1 .. n : f[k] = step[<<k, f[k - 1]>>]
  <2>1. Recursions(step, n, V, {0}) # {}
    BY <1>1, <1>3, <1>4, FiniteRecursion
  <2> QED
    BY <2>1 DEF Recursions
<1>6. \A k \in 1 .. n : f[k] = Fitted(f[k - 1], pattern[k], name)
  <2> TAKE k \in 1 .. n
  <2>1. f[k - 1] \in V
    BY <1>1
  <2> QED
    BY <1>3, <1>5, <2>1
<1> QED
  BY <1>5, <1>6 DEF AreFits, n, V

(* One pattern and one name have one such function.                        *)
LEMMA FitsAreOne ==
  ASSUME NEW pattern, IsSequence(pattern), NEW name,
         NEW f, NEW g, DOMAIN g = 0 .. Len(pattern), g = [k \in 0 .. Len(pattern) |-> g[k]],
         AreFits(f, pattern, name),
         g[0] = {0}, \A k \in 1 .. Len(pattern) : g[k] = Fitted(g[k - 1], pattern[k], name)
  PROVE  f = g
<1> DEFINE n == Len(pattern)
           T == {k \in 0 .. n : f[k] = g[k]}
<1>1. n \in Nat
  BY LenProperties DEF IsSequence
<1>2. f \in [0 .. n -> SUBSET (0 .. Len(name))] /\ g = [k \in 0 .. n |-> g[k]] /\ f[0] = g[0]
  BY DEF AreFits
<1>3. \A k \in 1 .. n : f[k - 1] = g[k - 1] => f[k] = g[k]
  <2>1. \A k \in 1 .. n : /\ f[k] = Fitted(f[k - 1], pattern[k], name)
                          /\ g[k] = Fitted(g[k - 1], pattern[k], name)
    BY DEF AreFits
  <2> HIDE DEF n
  <2> QED
    BY <2>1
<1> HIDE DEF n
<1>4. f[0] = g[0]
  BY <1>2
<1>5. 0 \in T /\ \A k \in 1 .. n : k - 1 \in T => k \in T
  BY <1>1, <1>3, <1>4
<1> HIDE DEF T
<1>6. \A k \in 0 .. n : k \in T
  BY <1>1, <1>5, FiniteInduction
<1>7. \A k \in 0 .. n : f[k] = g[k]
  BY <1>6 DEF T
<1> QED
  BY <1>2, <1>7

LEMMA SelectsByFits ==
  ASSUME NEW pattern, IsSequence(pattern), NEW name, IsSequence(name),
         NEW f, AreFits(f, pattern, name)
  PROVE  Selects(pattern, name) <=>
           IF IsLiteral(pattern) THEN f[Len(pattern)] # {} ELSE Len(name) \in f[Len(pattern)]
<1> DEFINE n == Len(pattern)
           fits[k \in 0 .. Len(pattern)] ==
             IF k = 0 THEN {0}
             ELSE IF pattern[k] = GlobStar
             THEN {j \in 0 .. Len(name) : \E i \in fits[k - 1] : i <= j}
             ELSE {j \in 1 .. Len(name) : j - 1 \in fits[k - 1] /\ name[j] \in pattern[k].names}
           Of(g, k) == IF k = 0 THEN {0}
                       ELSE IF pattern[k] = GlobStar
                       THEN {j \in 0 .. Len(name) : \E i \in g[k - 1] : i <= j}
                       ELSE {j \in 1 .. Len(name) : j - 1 \in g[k - 1] /\ name[j] \in pattern[k].names}
<1>1. Selects(pattern, name) <=>
        IF IsLiteral(pattern) THEN fits[n] # {} ELSE Len(name) \in fits[n]
  BY DEF Selects
<1>2. \A g, k : Of(g, k) = IF k = 0 THEN {0} ELSE Fitted(g[k - 1], pattern[k], name)
  BY DEF Fitted
<1>3. \A k \in 0 .. n : f[k] = Of(f, k)
  <2> HIDE DEF Of
  <2>1. \A k \in 0 .. n : k = 0 \/ k \in 1 .. n
    BY LenProperties DEF IsSequence
  <2>2. \A k \in 1 .. n : k # 0
    OBVIOUS
  <2> QED
    BY <1>2, <2>1, <2>2 DEF AreFits
<1>4. fits = [k \in 0 .. n |-> Of(fits, k)]
  <2>1. f = [k \in 0 .. n |-> Of(f, k)]
    <3>1. f = [k \in 0 .. n |-> f[k]]
      BY DEF AreFits
    <3> HIDE DEF Of
    <3> QED
      BY <1>3, <3>1
  <2> QED
    BY <2>1
<1> HIDE DEF fits
<1>5. /\ DOMAIN fits = 0 .. n /\ fits = [k \in 0 .. n |-> fits[k]]
      /\ fits[0] = {0} /\ \A k \in 1 .. n : fits[k] = Fitted(fits[k - 1], pattern[k], name)
  <2> HIDE DEF Of
  <2>1. DOMAIN fits = 0 .. n /\ \A k \in 0 .. n : fits[k] = Of(fits, k)
    BY <1>4
  <2>2. fits = [k \in 0 .. n |-> fits[k]]
    BY <1>4, <2>1
  <2>3. 0 \in 0 .. n /\ \A k \in 1 .. n : k \in 0 .. n /\ k # 0
    BY LenProperties DEF IsSequence
  <2> HIDE DEF n
  <2> QED
    BY <1>2, <2>1, <2>2, <2>3
<1>6. f = fits
  BY <1>5, FitsAreOne
<1> QED
  BY <1>1, <1>6

(* A pattern is collapsed part by part.                                    *)
Joined(s, part) ==
  IF part = GlobStar /\ s # <<>> /\ Last(s) = GlobStar THEN s ELSE Append(s, part)

LEMMA CollapsedByStep ==
  ASSUME NEW pattern, pattern \in Seq(ToSet(pattern))
  PROVE  \E q \in [0 .. Len(pattern) -> Seq(ToSet(pattern))] :
           /\ q[0] = <<>> /\ Collapsed(pattern) = q[Len(pattern)]
           /\ \A k \in 1 .. Len(pattern) : q[k] = Joined(q[k - 1], pattern[k])
<1> DEFINE n == Len(pattern)
           V == Seq(ToSet(pattern))
           parts[k \in 0 .. Len(pattern)] ==
             IF k = 0 THEN <<>>
             ELSE IF pattern[k] = GlobStar /\ parts[k - 1] # <<>> /\ Last(parts[k - 1]) = GlobStar
             THEN parts[k - 1] ELSE Append(parts[k - 1], pattern[k])
           Of(g, k) == IF k = 0 THEN <<>>
                       ELSE IF pattern[k] = GlobStar /\ g[k - 1] # <<>> /\ Last(g[k - 1]) = GlobStar
                       THEN g[k - 1] ELSE Append(g[k - 1], pattern[k])
           step == [p \in (1 .. n) \X V |-> Joined(p[2], pattern[p[1]])]
<1>1. Collapsed(pattern) = parts[n]
  BY DEF Collapsed
<1>2. n \in Nat /\ \A k \in 1 .. n : pattern[k] \in ToSet(pattern)
  BY LenProperties, ElementOfSeq
<1>3. \A k \in 1 .. n, s \in V : Joined(s, pattern[k]) \in V
  BY <1>2, AppendProperties DEF Joined
<1>4. IsStep(step, n, V) /\ \A k \in 1 .. n, s \in V : step[<<k, s>>] = Joined(s, pattern[k])
  <2> HIDE DEF V
  <2> QED
    BY <1>3 DEF IsStep
<1>5. <<>> \in V
  OBVIOUS
<1> HIDE DEF n, V, step
<1>6. PICK f \in [0 .. n -> V] : f[0] = <<>> /\ \A k \in 1 .. n : f[k] = step[<<k, f[k - 1]>>]
  <2>1. Recursions(step, n, V, <<>>) # {}
    BY <1>2, <1>4, <1>5, FiniteRecursion
  <2> HIDE DEF parts
  <2> QED
    BY <2>1 DEF Recursions
<1>7. \A k \in 1 .. n : f[k] = Joined(f[k - 1], pattern[k])
  <2> TAKE k \in 1 .. n
  <2>1. f[k - 1] \in V
    BY <1>2
  <2> HIDE DEF parts
  <2> QED
    BY <1>4, <1>6, <2>1
<1>8. \A g, k : Of(g, k) = IF k = 0 THEN <<>> ELSE Joined(g[k - 1], pattern[k])
  BY DEF Joined
<1>9. parts = [k \in 0 .. n |-> Of(parts, k)]
  <2>1. f = [k \in 0 .. n |-> Of(f, k)]
    <3>1. f = [k \in 0 .. n |-> f[k]]
      OBVIOUS
    <3>2. \A k \in 0 .. n : k = 0 \/ (k \in 1 .. n /\ k # 0)
      BY <1>2
    <3> HIDE DEF Of, parts
    <3>3. \A k \in 0 .. n : f[k] = Of(f, k)
      BY <1>6, <1>7, <1>8, <3>2
    <3> QED
      BY <3>1, <3>3
  <2> QED
    BY <2>1 DEF n
<1> HIDE DEF parts, Of
<1>10. \A k \in 0 .. n : parts[k] = f[k]
  <2> DEFINE T == {k \in 0 .. n : parts[k] = f[k]}
  <2>1. \A k \in 0 .. n : parts[k] = Of(parts, k)
    BY <1>9
  <2>2. 0 \in T
    BY <1>2, <1>6, <1>8, <2>1
  <2>3. ASSUME NEW k \in 1 .. n, k - 1 \in T PROVE k \in T
    <3>1. k \in 0 .. n /\ k # 0 /\ parts[k - 1] = f[k - 1]
      BY <1>2, <2>3
    <3> QED
      BY <1>7, <1>8, <2>1, <3>1
  <2> HIDE DEF T
  <2>4. \A k \in 0 .. n : k \in T
    BY <1>2, <2>2, <2>3, FiniteInduction
  <2> QED
    BY <2>4 DEF T
<1> QED
  <2>1. n \in 0 .. n
    BY <1>2
  <2>2. Collapsed(pattern) = f[n]
    BY <1>1, <1>10, <2>1
  <2> QED
    BY <1>6, <1>7, <2>2 DEF n, V

-----------------------------------------------------------------------------
(* The chunks of a regular expression match one after the other.           *)
Places == Nat \X {"name", "dot"}

IsChunk(chunk) ==
  chunk.kind \in {"segment", "separated", "leading", "trailing", "between", "everything"}

Onward(P, chunk, name) == UNION {MatchedFrom(chunk, name, from) : from \in P}

LEMMA MatchesArePlaces ==
  ASSUME NEW chunk, IsChunk(chunk), NEW name, Len(name) \in Nat, NEW P, P \subseteq Places
  PROVE  Onward(P, chunk, name) \subseteq Places
<1>1. ASSUME NEW from \in P PROVE MatchedFrom(chunk, name, from) \subseteq Places
  <2>1. from \in Places /\ from[1] \in Nat
    BY DEF Places
  <2>2. \A j \in Nat : AfterName(j) \in Places /\ AfterDot(j) \in Places
    BY DEF Places, AfterName, AfterDot
  <2>3. \A i \in from[1] .. Len(name) - 1 : i \in Nat
    BY <2>1
  <2>4. \A i \in from[1] .. Len(name) : i \in Nat
    BY <2>1
  <2>5. \A i \in from[1] + 1 .. Len(name) : i \in Nat
    BY <2>1
  <2>6. \A i \in {from[1] + 1} : i \in Nat
    BY <2>1
  <2> HIDE DEF Places
  <2>7. CASE chunk.kind \in {"segment", "separated"}
    BY <2>2, <2>6, <2>7 DEF MatchedFrom
  <2>8. CASE chunk.kind \in {"leading", "between"}
    BY <2>1, <2>2, <2>3, <2>8 DEF MatchedFrom
  <2>9. CASE chunk.kind \in {"trailing", "everything"}
    BY <2>1, <2>2, <2>4, <2>5, <2>9 DEF MatchedFrom
  <2> QED
    BY <2>7, <2>8, <2>9 DEF IsChunk
<1> QED
  BY <1>1 DEF Onward

LEMMA FullMatchByStep ==
  ASSUME NEW regex, Len(regex) \in Nat, \A k \in 1 .. Len(regex) : IsChunk(regex[k]),
         NEW name, Len(name) \in Nat
  PROVE  \E q \in [0 .. Len(regex) -> SUBSET Places] :
           /\ q[0] = {AfterDot(0)}
           /\ FullMatch(regex, name) <=> AfterName(Len(name)) \in q[Len(regex)]
           /\ \A k \in 1 .. Len(regex) : q[k] = Onward(q[k - 1], regex[k], name)
<1> DEFINE n == Len(regex)
           V == SUBSET Places
           places[k \in 0 .. Len(regex)] ==
             IF k = 0 THEN {AfterDot(0)}
             ELSE UNION {MatchedFrom(regex[k], name, from) : from \in places[k - 1]}
           Of(g, k) == IF k = 0 THEN {AfterDot(0)}
                       ELSE UNION {MatchedFrom(regex[k], name, from) : from \in g[k - 1]}
           step == [p \in (1 .. n) \X V |-> Onward(p[2], regex[p[1]], name)]
<1>1. FullMatch(regex, name) <=> AfterName(Len(name)) \in places[n]
  BY DEF FullMatch
<1>2. n \in Nat
  OBVIOUS
<1>3. \A k \in 1 .. n, P \in V : Onward(P, regex[k], name) \in V
  BY MatchesArePlaces
<1>4. IsStep(step, n, V) /\ \A k \in 1 .. n, P \in V : step[<<k, P>>] = Onward(P, regex[k], name)
  <2> HIDE DEF V
  <2> QED
    BY <1>3 DEF IsStep
<1>5. {AfterDot(0)} \in V
  BY DEF AfterDot, Places
<1> HIDE DEF n, V, step
<1>6. PICK f \in [0 .. n -> V] :
        f[0] = {AfterDot(0)} /\ \A k \in 1 .. n : f[k] = step[<<k, f[k - 1]>>]
  <2>1. Recursions(step, n, V, {AfterDot(0)}) # {}
    BY <1>2, <1>4, <1>5, FiniteRecursion
  <2> HIDE DEF places
  <2> QED
    BY <2>1 DEF Recursions
<1>7. \A k \in 1 .. n : f[k] = Onward(f[k - 1], regex[k], name)
  <2> TAKE k \in 1 .. n
  <2>1. f[k - 1] \in V
    BY <1>2
  <2> HIDE DEF places
  <2> QED
    BY <1>4, <1>6, <2>1
<1>8. \A g, k : Of(g, k) = IF k = 0 THEN {AfterDot(0)} ELSE Onward(g[k - 1], regex[k], name)
  BY DEF Onward
<1>9. places = [k \in 0 .. n |-> Of(places, k)]
  <2>1. f = [k \in 0 .. n |-> Of(f, k)]
    <3>1. f = [k \in 0 .. n |-> f[k]]
      OBVIOUS
    <3>2. \A k \in 0 .. n : k = 0 \/ (k \in 1 .. n /\ k # 0)
      BY <1>2
    <3> HIDE DEF Of, places
    <3>3. \A k \in 0 .. n : f[k] = Of(f, k)
      BY <1>6, <1>7, <1>8, <3>2
    <3> QED
      BY <3>1, <3>3
  <2> QED
    BY <2>1 DEF n
<1> HIDE DEF places, Of
<1>10. \A k \in 0 .. n : places[k] = f[k]
  <2> DEFINE T == {k \in 0 .. n : places[k] = f[k]}
  <2>1. \A k \in 0 .. n : places[k] = Of(places, k)
    BY <1>9
  <2>2. 0 \in T
    <3>1. 0 \in 0 .. n
      BY <1>2
    <3>2. places[0] = Of(places, 0) /\ Of(places, 0) = {AfterDot(0)}
      BY <1>8, <2>1, <3>1
    <3> QED
      BY <1>6, <3>1, <3>2
  <2>3. ASSUME NEW k \in 1 .. n, k - 1 \in T PROVE k \in T
    <3>1. k \in 0 .. n /\ k # 0 /\ places[k - 1] = f[k - 1]
      BY <1>2, <2>3
    <3> QED
      BY <1>7, <1>8, <2>1, <3>1
  <2> HIDE DEF T
  <2>4. \A k \in 0 .. n : k \in T
    BY <1>2, <2>2, <2>3, FiniteInduction
  <2> QED
    BY <2>4 DEF T
<1> QED
  BY <1>1, <1>2, <1>6, <1>7, <1>10 DEF n, V

-----------------------------------------------------------------------------
(* Of "**" parts next to each other collapsing leaves one, and what is     *)
(* selected is the same.                                                   *)
IsRegular(s) == \A i \in 2 .. Len(s) : s[i] = GlobStar => s[i - 1] # GlobStar

LEMMA JoinedIsRegular ==
  ASSUME NEW s, IsSequence(s), IsRegular(s), NEW part
  PROVE  IsSequence(Joined(s, part)) /\ IsRegular(Joined(s, part)) /\ Joined(s, part) # <<>>
<1>1. CASE part = GlobStar /\ s # <<>> /\ Last(s) = GlobStar
  BY <1>1 DEF Joined
<1>2. CASE ~ (part = GlobStar /\ s # <<>> /\ Last(s) = GlobStar)
  <2> DEFINE t == Append(s, part)
  <2>1. /\ IsSequence(t) /\ Len(s) \in Nat /\ Len(t) = Len(s) + 1 /\ t[Len(s) + 1] = part
        /\ \A i \in 1 .. Len(s) : t[i] = s[i]
    BY AppendIsSequence
  <2>2. Joined(s, part) = t
    BY <1>2 DEF Joined
  <2> HIDE DEF t
  <2>3. ASSUME NEW i \in 2 .. Len(t), t[i] = GlobStar PROVE t[i - 1] # GlobStar
    <3>1. CASE i \in 2 .. Len(s)
      BY <2>1, <2>3, <3>1 DEF IsRegular
    <3>2. CASE i = Len(s) + 1
      <4>1. part = GlobStar /\ s # <<>> /\ i - 1 = Len(s) /\ Len(s) \in 1 .. Len(s)
        BY <2>1, <2>3, <3>2, EmptySequence
      <4> QED
        BY <1>2, <2>1, <4>1 DEF Last
    <3> QED
      BY <2>1, <2>3, <3>1, <3>2
  <2>4. t # <<>>
    BY <2>1, EmptySequence
  <2> QED
    BY <2>1, <2>2, <2>3, <2>4 DEF IsRegular
<1> QED
  BY <1>1, <1>2

LEMMA FitsOfAppend ==
  ASSUME NEW s, IsSequence(s), NEW part, NEW name, NEW h, AreFits(h, Append(s, part), name)
  PROVE  /\ h[Len(s) + 1] = Fitted(h[Len(s)], part, name)
         /\ \E g : AreFits(g, s, name) /\ g[Len(s)] = h[Len(s)]
<1> DEFINE g == [i \in 0 .. Len(s) |-> h[i]]
<1>1. /\ Len(s) \in Nat /\ Len(Append(s, part)) = Len(s) + 1
      /\ Append(s, part)[Len(s) + 1] = part /\ \A i \in 1 .. Len(s) : Append(s, part)[i] = s[i]
  BY AppendIsSequence
<1>2. /\ h \in [0 .. Len(s) + 1 -> SUBSET (0 .. Len(name))] /\ h[0] = {0}
      /\ \A k \in 1 .. Len(s) + 1 : h[k] = Fitted(h[k - 1], Append(s, part)[k], name)
  BY <1>1 DEF AreFits
<1>3. h[Len(s) + 1] = Fitted(h[Len(s)], part, name)
  <2>1. Len(s) + 1 \in 1 .. Len(s) + 1 /\ (Len(s) + 1) - 1 = Len(s)
    BY <1>1
  <2> QED
    BY <1>1, <1>2, <2>1
<1>4. \A k \in 1 .. Len(s) : h[k] = Fitted(h[k - 1], s[k], name)
  <2>1. \A k \in 1 .. Len(s) : k \in 1 .. Len(s) + 1
    BY <1>1
  <2> QED
    BY <1>1, <1>2, <2>1
<1>5. g \in [0 .. Len(s) -> SUBSET (0 .. Len(name))] /\ \A i \in 0 .. Len(s) : g[i] = h[i]
  BY <1>1, <1>2
<1> HIDE DEF g
<1>6. AreFits(g, s, name)
  <2>1. 0 \in 0 .. Len(s) /\ \A k \in 1 .. Len(s) : k \in 0 .. Len(s) /\ k - 1 \in 0 .. Len(s)
    BY <1>1
  <2> QED
    BY <1>2, <1>4, <1>5, <2>1 DEF AreFits
<1>7. g[Len(s)] = h[Len(s)]
  BY <1>1, <1>5
<1> QED
  BY <1>3, <1>6, <1>7

LEMMA GlobStarTwice ==
  ASSUME NEW name, Len(name) \in Nat, NEW S, S \subseteq Nat
  PROVE  Fitted(Fitted(S, GlobStar, name), GlobStar, name) = Fitted(S, GlobStar, name)
<1> DEFINE F == {j \in 0 .. Len(name) : \E i \in S : i <= j}
           F2 == {j \in 0 .. Len(name) : \E i \in F : i <= j}
<1>1. \A j \in F2 : j \in F
  OBVIOUS
<1>2. \A j \in F : j \in F2
  OBVIOUS
<1>3. F2 = F
  BY <1>1, <1>2
<1> QED
  BY <1>3 DEF Fitted

LEMMA CollapsedIsRegular ==
  ASSUME NEW pattern, IsPattern(pattern)
  PROVE  /\ IsSequence(Collapsed(pattern)) /\ Collapsed(pattern) # <<>>
         /\ IsRegular(Collapsed(pattern))
<1> DEFINE n == Len(pattern)
<1>1. PICK q \in [0 .. n -> Seq(ToSet(pattern))] :
        /\ q[0] = <<>> /\ Collapsed(pattern) = q[n]
        /\ \A k \in 1 .. n : q[k] = Joined(q[k - 1], pattern[k])
  BY CollapsedByStep DEF IsPattern
<1>2. n \in Nat \ {0}
  BY EmptySequence DEF IsPattern, IsSequence
<1> HIDE DEF n
<1> DEFINE T == {k \in 0 .. n : IsSequence(q[k]) /\ IsRegular(q[k]) /\ (k # 0 => q[k] # <<>>)}
<1>3. 0 \in T
  BY <1>1, <1>2, EmptySequence DEF IsRegular
<1>4. \A k \in 1 .. n : k - 1 \in T => k \in T
  BY <1>1, <1>2, JoinedIsRegular
<1> HIDE DEF T
<1>5. n \in T
  <2>1. n \in Nat
    BY <1>2
  <2>2. \A k \in 0 .. n : k \in T
    BY <1>3, <1>4, <2>1, FiniteInduction
  <2> QED
    BY <2>1, <2>2
<1> QED
  BY <1>1, <1>2, <1>5 DEF T

LEMMA CollapsedFits ==
  ASSUME NEW pattern, IsPattern(pattern), NEW name, IsSequence(name),
         NEW f, AreFits(f, pattern, name), NEW h, AreFits(h, Collapsed(pattern), name)
  PROVE  f[Len(pattern)] = h[Len(Collapsed(pattern))]
<1> DEFINE n == Len(pattern)
<1>1. PICK q \in [0 .. n -> Seq(ToSet(pattern))] :
        /\ q[0] = <<>> /\ Collapsed(pattern) = q[n]
        /\ \A k \in 1 .. n : q[k] = Joined(q[k - 1], pattern[k])
  BY CollapsedByStep DEF IsPattern
<1>2. n \in Nat /\ Len(name) \in Nat
  BY LenProperties DEF IsPattern, IsSequence
<1>3. /\ f[0] = {0} /\ \A k \in 1 .. n : f[k] = Fitted(f[k - 1], pattern[k], name)
      /\ \A k \in 0 .. n : f[k] \in SUBSET (0 .. Len(name))
  BY DEF AreFits
<1> HIDE DEF n
<1> DEFINE Agree(k) == \A g : AreFits(g, q[k], name) => g[Len(q[k])] = f[k]
           T == {k \in 0 .. n : Agree(k)}
<1>4. 0 \in T
  <2>1. Len(q[0]) = 0
    BY <1>1, EmptySequence
  <2>2. \A g : AreFits(g, q[0], name) => g[0] = {0}
    BY DEF AreFits
  <2>3. Agree(0)
    BY <1>3, <2>1, <2>2
  <2> QED
    BY <1>2, <2>3
<1>5. ASSUME NEW k \in 1 .. n, k - 1 \in T PROVE k \in T
  <2>1. Agree(k - 1) /\ IsSequence(q[k - 1]) /\ k - 1 \in 0 .. n
    <3>1. k - 1 \in 0 .. n
      BY <1>2
    <3> QED
      BY <1>5, <3>1 DEF IsSequence
  <2> DEFINE s == q[k - 1]
             part == pattern[k]
  <2>2. q[k] = Joined(s, part) /\ f[k] = Fitted(f[k - 1], part, name)
    BY <1>1, <1>3
  <2>3. SUFFICES ASSUME NEW g, AreFits(g, q[k], name) PROVE g[Len(q[k])] = f[k]
    BY <1>2
  <2>4. CASE part = GlobStar /\ s # <<>> /\ Last(s) = GlobStar
    <3>1. q[k] = s
      BY <2>2, <2>4 DEF Joined
    <3>2. Len(s) \in Nat \ {0} /\ s[Len(s)] = GlobStar
      BY <2>1, <2>4, EmptySequence DEF Last
    <3>3. AreFits(g, s, name) /\ g[Len(s)] = f[k - 1]
      BY <2>1, <2>3, <3>1
    <3>4. g[Len(s)] = Fitted(g[Len(s) - 1], GlobStar, name)
      <4>1. Len(s) \in 1 .. Len(s)
        BY <3>2
      <4> HIDE DEF s
      <4> QED
        BY <3>2, <3>3, <4>1 DEF AreFits
    <3>5. g[Len(s) - 1] \subseteq Nat
      <4>1. Len(s) - 1 \in 0 .. Len(s)
        BY <3>2
      <4> HIDE DEF s
      <4>2. g[Len(s) - 1] \in SUBSET (0 .. Len(name))
        BY <3>3, <4>1 DEF AreFits
      <4> QED
        BY <1>2, <4>2
    <3>6. Fitted(g[Len(s)], GlobStar, name) = g[Len(s)]
      BY <1>2, <3>4, <3>5, GlobStarTwice
    <3> QED
      BY <2>2, <2>4, <3>1, <3>3, <3>6
  <2>5. CASE ~ (part = GlobStar /\ s # <<>> /\ Last(s) = GlobStar)
    <3>1. q[k] = Append(s, part)
      BY <2>2, <2>5 DEF Joined
    <3>2. Len(q[k]) = Len(s) + 1
      BY <2>1, <3>1, AppendIsSequence
    <3>3. AreFits(g, Append(s, part), name)
      BY <2>3, <3>1
    <3> HIDE DEF s, part
    <3>4. /\ g[Len(s) + 1] = Fitted(g[Len(s)], part, name)
          /\ \E a : AreFits(a, s, name) /\ a[Len(s)] = g[Len(s)]
      BY <2>1, <3>3, FitsOfAppend DEF s
    <3>5. g[Len(s)] = f[k - 1]
      BY <2>1, <3>4 DEF s
    <3> QED
      BY <2>2, <3>2, <3>4, <3>5
  <2> QED
    BY <2>4, <2>5
<1> HIDE DEF T
<1>6. n \in T
  <2>1. \A k \in 0 .. n : k \in T
    BY <1>2, <1>4, <1>5, FiniteInduction
  <2> QED
    BY <1>2, <2>1
<1>7. Agree(n)
  BY <1>6 DEF T
<1>8. AreFits(h, q[n], name)
  BY <1>1
<1>9. h[Len(q[n])] = f[n]
  BY <1>7, <1>8
<1> QED
  BY <1>1, <1>9 DEF n

-----------------------------------------------------------------------------
(* What each chunk matches, from a set of places.                          *)
AtDots(S) == {AfterDot(j) : j \in S}
AtNames(S) == {AfterName(j) : j \in S}

LEMMA PlacesDiffer ==
  /\ \A i, j : AfterName(i) = AfterName(j) => i = j
  /\ \A i, j : AfterDot(i) = AfterDot(j) => i = j
  /\ \A i, j : AfterName(i) # AfterDot(j)
  /\ \A j : AfterName(j)[1] = j /\ AfterDot(j)[1] = j
BY DEF AfterName, AfterDot

Matched(S, N, name) == {j \in 1 .. Len(name) : j - 1 \in S /\ name[j] \in N}
Inside(S, name) == {i \in S : i < Len(name)}

LEMMA SegmentMatches ==
  ASSUME NEW name, Len(name) \in Nat, NEW S, S \subseteq Nat, NEW N
  PROVE  /\ Onward(AtDots(Inside(S, name)), Segment(N), name) = AtNames(Matched(S, N, name))
         /\ Onward(AtNames(S), Separated(N), name) = AtNames(Matched(S, N, name))
<1> DEFINE L == Len(name)
           one(j) == {AfterName(i) : i \in {k \in {j + 1} : k <= L /\ name[k] \in N}}
           next == AtNames(Matched(S, N, name))
<1>1. \A j : MatchedFrom(Segment(N), name, AfterDot(j)) = one(j)
  BY PlacesDiffer DEF MatchedFrom, Segment
<1>2. \A j : MatchedFrom(Separated(N), name, AfterName(j)) = one(j)
  BY PlacesDiffer DEF MatchedFrom, Separated
<1>3. \A j, y : y \in one(j) <=> j + 1 <= L /\ name[j + 1] \in N /\ y = AfterName(j + 1)
  OBVIOUS
<1>4. \A y : y \in next <=> \E i \in 1 .. L : i - 1 \in S /\ name[i] \in N /\ y = AfterName(i)
  BY DEF AtNames, Matched
<1> HIDE DEF one, next
<1>5. \A y : y \in next <=> \E j \in S : y \in one(j)
  <2>1. \A i \in 1 .. L : i - 1 \in Nat /\ (i - 1) + 1 = i /\ (i - 1) + 1 <= L
    OBVIOUS
  <2>2. \A j \in S : j + 1 <= L => j + 1 \in 1 .. L /\ (j + 1) - 1 = j
    OBVIOUS
  <2> HIDE DEF L
  <2> QED
    BY <1>3, <1>4, <2>1, <2>2
<1>6. \A y : y \in Onward(AtDots(Inside(S, name)), Segment(N), name)
             <=> \E j \in S : j < L /\ y \in one(j)
  BY <1>1 DEF Onward, AtDots, Inside
<1>7. \A y : y \in Onward(AtNames(S), Separated(N), name) <=> \E j \in S : y \in one(j)
  BY <1>2 DEF Onward, AtNames
<1>8. \A y : \A j \in S : y \in one(j) => j < L
  BY <1>3
<1>9. Onward(AtDots(Inside(S, name)), Segment(N), name) = next
  BY <1>5, <1>6, <1>8
<1>10. Onward(AtNames(S), Separated(N), name) = next
  BY <1>5, <1>7
<1> QED
  BY <1>9, <1>10 DEF next

LEMMA GlobStarMatches ==
  ASSUME NEW name, Len(name) \in Nat, NEW S, S \subseteq Nat
  PROVE  LET F == Fitted(S, GlobStar, name)
         IN  /\ S = {0} => Onward({AfterDot(0)}, Leading, name) = AtDots(Inside(F, name))
             /\ Onward(AtNames(S), Between, name) = AtDots(Inside(F, name))
             /\ Onward(AtNames(S), Trailing, name) = AtNames(F)
<1> DEFINE L == Len(name)
           F == Fitted(S, GlobStar, name)
<1>1. \A j : MatchedFrom(Leading, name, AfterDot(j)) = {AfterDot(i) : i \in j .. L - 1}
  BY PlacesDiffer DEF MatchedFrom, Leading
<1>2. \A j : MatchedFrom(Between, name, AfterName(j)) = {AfterDot(i) : i \in j .. L - 1}
  BY PlacesDiffer DEF MatchedFrom, Between
<1>3. \A j : MatchedFrom(Trailing, name, AfterName(j)) = {AfterName(i) : i \in j .. L}
  BY PlacesDiffer DEF MatchedFrom, Trailing
<1>4. \A i : i \in F <=> i \in 0 .. L /\ \E j \in S : j <= i
  BY DEF Fitted
<1>5. \A y : y \in AtDots(Inside(F, name)) <=> \E i : i \in F /\ i < L /\ y = AfterDot(i)
  BY DEF AtDots, Inside
<1>6. \A y : y \in AtNames(F) <=> \E i : i \in F /\ y = AfterName(i)
  BY DEF AtNames
<1> HIDE DEF F
<1>7. \A i : i \in F /\ i < L <=> \E j \in S : i \in j .. L - 1
  BY <1>4
<1>8. \A i : i \in F <=> \E j \in S : i \in j .. L
  BY <1>4
<1>9. Onward(AtNames(S), Between, name) = AtDots(Inside(F, name))
  <2>1. \A y : y \in Onward(AtNames(S), Between, name) <=> \E j \in S : \E i \in j .. L - 1 : y = AfterDot(i)
    <3>1. \A y : y \in Onward(AtNames(S), Between, name)
                   <=> \E j \in S : y \in MatchedFrom(Between, name, AfterName(j))
      <4>1. \A from : from \in AtNames(S) <=> \E j \in S : from = AfterName(j)
        BY DEF AtNames
      <4>2. \A y : y \in Onward(AtNames(S), Between, name)
                    <=> \E from \in AtNames(S) : y \in MatchedFrom(Between, name, from)
        BY Zenon DEF Onward
      <4> HIDE DEF AtNames, Onward
      <4> QED
        BY <4>1, <4>2
    <3>2. \A j, y : y \in MatchedFrom(Between, name, AfterName(j))
                      <=> \E i \in j .. L - 1 : y = AfterDot(i)
      BY <1>2
    <3> QED
      BY <3>1, <3>2
  <2>2. \A y : y \in AtDots(Inside(F, name)) <=> \E j \in S : \E i \in j .. L - 1 : y = AfterDot(i)
    BY <1>5, <1>7
  <2> QED
    BY <2>1, <2>2
<1>10. Onward(AtNames(S), Trailing, name) = AtNames(F)
  <2>1. \A y : y \in Onward(AtNames(S), Trailing, name) <=> \E j \in S : \E i \in j .. L : y = AfterName(i)
    <3>1. \A y : y \in Onward(AtNames(S), Trailing, name)
                   <=> \E j \in S : y \in MatchedFrom(Trailing, name, AfterName(j))
      <4>1. \A from : from \in AtNames(S) <=> \E j \in S : from = AfterName(j)
        BY DEF AtNames
      <4>2. \A y : y \in Onward(AtNames(S), Trailing, name)
                    <=> \E from \in AtNames(S) : y \in MatchedFrom(Trailing, name, from)
        BY Zenon DEF Onward
      <4> HIDE DEF AtNames, Onward
      <4> QED
        BY <4>1, <4>2
    <3>2. \A j, y : y \in MatchedFrom(Trailing, name, AfterName(j))
                      <=> \E i \in j .. L : y = AfterName(i)
      BY <1>3
    <3> QED
      BY <3>1, <3>2
  <2>2. \A y : y \in AtNames(F) <=> \E j \in S : \E i \in j .. L : y = AfterName(i)
    BY <1>6, <1>8
  <2> QED
    BY <2>1, <2>2
<1>11. ASSUME S = {0} PROVE Onward({AfterDot(0)}, Leading, name) = AtDots(Inside(F, name))
  <2>1. \A y : y \in Onward({AfterDot(0)}, Leading, name) <=> \E i \in 0 .. L - 1 : y = AfterDot(i)
    BY <1>1 DEF Onward
  <2>2. \A y : y \in AtDots(Inside(F, name)) <=> \E i \in 0 .. L - 1 : y = AfterDot(i)
    BY <1>5, <1>7, <1>11
  <2> QED
    BY <2>1, <2>2
<1> QED
  BY <1>9, <1>10, <1>11 DEF F

(* The regular expression of a pattern matches the names that its parts    *)
(* fit to the end.                                                         *)
OnDots(parts, k) == k = 0 \/ (parts[k] = GlobStar /\ k < Len(parts))

PlacesOf(parts, g, name, k) ==
  IF OnDots(parts, k) THEN AtDots(Inside(g[k], name)) ELSE AtNames(g[k])

LEMMA ChunkMatches ==
  ASSUME NEW parts, IsSequence(parts), IsRegular(parts), parts # <<GlobStar>>,
         NEW name, Len(name) \in Nat \ {0}, NEW g, AreFits(g, parts, name),
         NEW k \in 1 .. Len(parts)
  PROVE  Onward(PlacesOf(parts, g, name, k - 1), ChunkOf(parts, k), name)
           = PlacesOf(parts, g, name, k)
<1> DEFINE n == Len(parts)
<1>1. n \in Nat
  BY LenProperties DEF IsSequence
<1>2. /\ g[k] = Fitted(g[k - 1], parts[k], name) /\ g[0] = {0}
      /\ g[k - 1] \subseteq Nat
  <2>1. k - 1 \in 0 .. n
    BY <1>1
  <2>2. g[k - 1] \in SUBSET (0 .. Len(name))
    BY <2>1 DEF AreFits
  <2> QED
    BY <2>2 DEF AreFits
<1>3. OnDots(parts, k - 1) <=> k = 1 \/ parts[k - 1] = GlobStar
  BY <1>1 DEF OnDots
<1>6. n = 1 => parts[1] # GlobStar
  <2> SUFFICES ASSUME n = 1, parts[1] = GlobStar PROVE FALSE
    OBVIOUS
  <2>1. /\ IsSequence(<<GlobStar>>) /\ Len(<<GlobStar>>) = n
        /\ \A i \in 1 .. n : parts[i] = <<GlobStar>>[i]
    BY SingleSequence
  <2>2. parts = <<GlobStar>>
    BY <2>1, SameSequence
  <2> QED
    BY <2>2
<1>7. k \in 1 .. n
  OBVIOUS
<1> HIDE DEF n
<1>4. CASE parts[k] # GlobStar
  <2> DEFINE N == parts[k].names
             S == g[k - 1]
  <2>1. g[k] = Matched(S, N, name)
    BY <1>2, <1>4 DEF Fitted, Matched
  <2>2. PlacesOf(parts, g, name, k) = AtNames(g[k])
    BY <1>4 DEF PlacesOf, OnDots
  <2>3. /\ Onward(AtDots(Inside(S, name)), Segment(N), name) = AtNames(g[k])
        /\ Onward(AtNames(S), Separated(N), name) = AtNames(g[k])
    <3> HIDE DEF N, S
    <3>1. S \subseteq Nat /\ Len(name) \in Nat
      BY <1>2 DEF S
    <3> QED
      BY <2>1, <3>1, SegmentMatches
  <2>4. ChunkOf(parts, k) = IF OnDots(parts, k - 1) THEN Segment(N) ELSE Separated(N)
    BY <1>3, <1>4 DEF ChunkOf, n
  <2> QED
    BY <2>2, <2>3, <2>4 DEF PlacesOf
<1>5. CASE parts[k] = GlobStar
  <2> DEFINE S == g[k - 1]
             F == Fitted(S, GlobStar, name)
  <2>1. g[k] = F /\ S \subseteq Nat
    BY <1>2, <1>5
  <2>2. /\ S = {0} => Onward({AfterDot(0)}, Leading, name) = AtDots(Inside(F, name))
        /\ Onward(AtNames(S), Between, name) = AtDots(Inside(F, name))
        /\ Onward(AtNames(S), Trailing, name) = AtNames(F)
    <3> HIDE DEF S
    <3> QED
      BY <2>1, GlobStarMatches
  <2> HIDE DEF F
  <2>3. CASE k = 1
    <3>1. n > 1
      BY <1>1, <1>5, <1>6, <1>7, <2>3
    <3>2. ChunkOf(parts, k) = Leading
      BY <1>5, <2>3 DEF ChunkOf, n
    <3>3. OnDots(parts, k) /\ OnDots(parts, k - 1) /\ S = {0}
      BY <1>2, <1>5, <2>3, <3>1 DEF OnDots, n
    <3>4. PlacesOf(parts, g, name, k - 1) = {AfterDot(0)}
      <4>1. Inside({0}, name) = {0}
        BY DEF Inside
      <4> QED
        BY <3>3, <4>1 DEF PlacesOf, AtDots
    <3>5. PlacesOf(parts, g, name, k) = AtDots(Inside(F, name))
      BY <2>1, <3>3 DEF PlacesOf
    <3> QED
      BY <2>2, <3>2, <3>3, <3>4, <3>5
  <2>4. CASE k # 1
    <3>1. parts[k - 1] # GlobStar
      <4>1. k \in 2 .. n
        BY <1>1, <1>7, <2>4
      <4> QED
        BY <1>5, <4>1 DEF IsRegular, n
    <3>2. PlacesOf(parts, g, name, k - 1) = AtNames(S)
      BY <1>3, <2>4, <3>1 DEF PlacesOf
    <3>3. ChunkOf(parts, k) = IF k = n THEN Trailing ELSE Between
      BY <1>5, <2>4 DEF ChunkOf, n
    <3>4. OnDots(parts, k) <=> k # n
      BY <1>1, <1>5 DEF OnDots, n
    <3>5. PlacesOf(parts, g, name, k) = IF k = n THEN AtNames(F) ELSE AtDots(Inside(F, name))
      BY <2>1, <3>4 DEF PlacesOf
    <3> QED
      BY <2>2, <3>2, <3>3, <3>5
  <2> QED
    BY <2>3, <2>4
<1> QED
  BY <1>4, <1>5

LEMMA ChunksAreChunks ==
  ASSUME NEW parts, NEW k
  PROVE  IsChunk(ChunkOf(parts, k)) /\ IsChunk(Everything)
BY DEF IsChunk, ChunkOf, Segment, Separated, Leading, Trailing, Between, Everything

LEMMA RegexMatches ==
  ASSUME NEW pattern, IsPattern(pattern), NEW name, IsModuleName(name),
         NEW f, AreFits(f, pattern, name)
  PROVE  FullMatch(WildcardRegex(pattern), name) <=> Len(name) \in f[Len(pattern)]
<1> DEFINE c == Collapsed(pattern)
           n == Len(c)
           L == Len(name)
<1>1. IsSequence(c) /\ c # <<>> /\ IsRegular(c)
  BY CollapsedIsRegular
<1>2. IsSequence(name) /\ L \in Nat \ {0} /\ n \in Nat \ {0}
  <2>1. IsSequence(name) /\ name # <<>>
    BY DEF IsModuleName, IsSequence
  <2> HIDE DEF c
  <2> QED
    BY <1>1, <2>1, EmptySequence
<1>3. PICK g : AreFits(g, c, name)
  BY <1>1, <1>2, FitsAreSolved
<1>4. f[Len(pattern)] = g[n]
  BY <1>2, <1>3, CollapsedFits
<1>5. CASE c = <<GlobStar>>
  <2> DEFINE regex == <<Everything>>
  <2>1. WildcardRegex(pattern) = regex
    BY <1>5 DEF WildcardRegex
  <2>2. Len(regex) = 1 /\ regex[1] = Everything
    OBVIOUS
  <2> HIDE DEF regex, c
  <2>3. Len(regex) \in Nat /\ \A k \in 1 .. Len(regex) : IsChunk(regex[k])
    BY <2>2, ChunksAreChunks
  <2>4. PICK q \in [0 .. Len(regex) -> SUBSET Places] :
          /\ q[0] = {AfterDot(0)}
          /\ FullMatch(regex, name) <=> AfterName(Len(name)) \in q[Len(regex)]
          /\ \A k \in 1 .. Len(regex) : q[k] = Onward(q[k - 1], regex[k], name)
    BY <1>2, <2>3, FullMatchByStep
  <2>5. q[1] = Onward({AfterDot(0)}, Everything, name)
    <3>1. 1 \in 1 .. Len(regex) /\ 1 - 1 = 0
      BY <2>2
    <3> QED
      BY <2>2, <2>4, <3>1
  <2>6. AfterName(L) \in MatchedFrom(Everything, name, AfterDot(0))
    <3>1. MatchedFrom(Everything, name, AfterDot(0)) = {AfterName(i) : i \in 1 .. L}
      BY PlacesDiffer DEF MatchedFrom, Everything
    <3> QED
      BY <1>2, <3>1
  <2>7. FullMatch(regex, name)
    BY <2>2, <2>4, <2>5, <2>6 DEF Onward
  <2>8. g[n] = Fitted({0}, GlobStar, name)
    <3>1. n = 1 /\ c[1] = GlobStar
      BY <1>5, SingleSequence
    <3> HIDE DEF n
    <3>2. g[0] = {0} /\ g[1] = Fitted(g[1 - 1], c[1], name)
      BY <1>3, <3>1 DEF AreFits, n
    <3> QED
      BY <3>1, <3>2
  <2>9. L \in g[n]
    BY <1>2, <2>8 DEF Fitted
  <2> QED
    BY <1>4, <2>1, <2>7, <2>9
<1>6. CASE c # <<GlobStar>>
  <2> DEFINE regex == [i \in 1 .. n |-> ChunkOf(c, i)]
  <2>1. WildcardRegex(pattern) = regex
    BY <1>6 DEF WildcardRegex
  <2>2. Len(regex) = n /\ \A k \in 1 .. n : regex[k] = ChunkOf(c, k)
    <3> HIDE DEF c
    <3>1. regex \in Seq({ChunkOf(c, i) : i \in 1 .. n}) /\ DOMAIN regex = 1 .. n
      BY <1>2
    <3> HIDE DEF n
    <3> QED
      BY <1>2, <3>1, LenProperties
  <2> HIDE DEF regex, c
  <2>3. Len(regex) \in Nat /\ \A k \in 1 .. Len(regex) : IsChunk(regex[k])
    BY <1>2, <2>2, ChunksAreChunks
  <2>4. PICK q \in [0 .. Len(regex) -> SUBSET Places] :
          /\ q[0] = {AfterDot(0)}
          /\ FullMatch(regex, name) <=> AfterName(Len(name)) \in q[Len(regex)]
          /\ \A k \in 1 .. Len(regex) : q[k] = Onward(q[k - 1], regex[k], name)
    BY <1>2, <2>3, FullMatchByStep
  <2> DEFINE T == {k \in 0 .. n : q[k] = PlacesOf(c, g, name, k)}
  <2>5. 0 \in T
    <3>1. Inside({0}, name) = {0} /\ g[0] = {0}
      BY <1>2, <1>3 DEF AreFits, Inside
    <3>2. PlacesOf(c, g, name, 0) = {AfterDot(0)}
      BY <3>1 DEF PlacesOf, OnDots, AtDots
    <3>3. q[0] = PlacesOf(c, g, name, 0) /\ 0 \in 0 .. n
      BY <1>2, <2>4, <3>2
    <3> QED
      BY <3>3
  <2>6. ASSUME NEW k \in 1 .. n, k - 1 \in T PROVE k \in T
    <3>1. Onward(PlacesOf(c, g, name, k - 1), ChunkOf(c, k), name) = PlacesOf(c, g, name, k)
      BY <1>1, <1>2, <1>3, <1>6, ChunkMatches
    <3> QED
      BY <1>2, <2>2, <2>4, <2>6, <3>1
  <2> HIDE DEF T
  <2>7. n \in T
    <3>1. n \in Nat
      BY <1>2
    <3>2. \A k \in 0 .. n : k \in T
      BY <2>5, <2>6, <3>1, FiniteInduction
    <3> QED
      BY <3>1, <3>2
  <2>8. q[n] = AtNames(g[n])
    <3>1. ~OnDots(c, n)
      BY <1>2 DEF OnDots
    <3> QED
      BY <2>7, <3>1 DEF PlacesOf, T
  <2>9. AfterName(L) \in q[n] <=> L \in g[n]
    BY <2>8, PlacesDiffer DEF AtNames
  <2> QED
    BY <1>4, <2>1, <2>2, <2>4, <2>9
<1> QED
  BY <1>5, <1>6

-----------------------------------------------------------------------------
(* A literal pattern fits a name segment by segment.                       *)
Begins(name, pattern) ==
  Len(pattern) <= Len(name) /\ \A i \in 1 .. Len(pattern) : name[i] \in pattern[i].names

LEMMA LiteralBegins ==
  ASSUME NEW pattern, IsSequence(pattern), NEW name, IsSequence(name)
  PROVE  IsName(name, pattern) \/ IsBelow(name, pattern) <=> Begins(name, pattern)
<1> DEFINE n == Len(pattern)
           L == Len(name)
           cut == SubSeq(name, 1, n)
<1>1. n \in Nat /\ L \in Nat /\ DOMAIN name = 1 .. L
  BY LenProperties DEF IsSequence
<1>2. IsName(name, pattern) <=> L = n /\ Begins(name, pattern)
  BY <1>1 DEF IsName, Begins
<1>3. ASSUME L > n PROVE IsName(cut, pattern) <=> Begins(name, pattern)
  <2>1. 1 \in 1 .. L + 1 /\ n \in 1 - 1 .. L
    BY <1>1, <1>3
  <2>2. IsSequence(cut) /\ Len(cut) = n - 1 + 1 /\ \A i \in 1 .. n - 1 + 1 : cut[i] = name[1 + i - 1]
    BY <2>1, SubSeqIsSequence
  <2>3. n - 1 + 1 = n /\ \A i \in 1 .. n : 1 + i - 1 = i
    BY <1>1
  <2>4. IsSequence(cut) /\ Len(cut) = n /\ \A i \in 1 .. n : cut[i] = name[i]
    BY <2>2, <2>3
  <2> HIDE DEF cut
  <2>5. DOMAIN cut = 1 .. n
    BY <2>4, LenProperties DEF IsSequence
  <2> QED
    BY <1>1, <1>3, <2>4, <2>5 DEF IsName, Begins
<1>4. IsBelow(name, pattern) <=> L > n /\ Begins(name, pattern)
  BY <1>3 DEF IsBelow
<1>5. Begins(name, pattern) => L >= n
  BY <1>1 DEF Begins
<1> QED
  BY <1>1, <1>2, <1>4, <1>5

LEMMA LiteralFits ==
  ASSUME NEW pattern, IsSequence(pattern), IsLiteral(pattern), NEW name, IsSequence(name),
         NEW f, AreFits(f, pattern, name)
  PROVE  /\ f[Len(pattern)] # {} <=> Begins(name, pattern)
         /\ Len(name) \in f[Len(pattern)] => f[Len(pattern)] # {}
<1> DEFINE n == Len(pattern)
           L == Len(name)
           Fit(k) == k <= L /\ \A i \in 1 .. k : name[i] \in pattern[i].names
           T == {k \in 0 .. n : \A j : j \in f[k] <=> j = k /\ Fit(k)}
<1>1. n \in Nat /\ L \in Nat /\ DOMAIN pattern = 1 .. n
  BY LenProperties DEF IsSequence
<1>2. f[0] = {0} /\ \A k \in 1 .. n : f[k] = Fitted(f[k - 1], pattern[k], name)
  BY DEF AreFits
<1>3. \A k \in 1 .. n : pattern[k] # GlobStar
  BY <1>1 DEF IsLiteral, GlobStar
<1>4. 0 \in T
  BY <1>1, <1>2
<1>5. ASSUME NEW k \in 1 .. n, k - 1 \in T PROVE k \in T
  <2>1. \A j : j \in f[k] <=> j \in 1 .. L /\ j - 1 \in f[k - 1] /\ name[j] \in pattern[k].names
    BY <1>2, <1>3 DEF Fitted
  <2>2. \A j : j \in f[k - 1] <=> j = k - 1 /\ Fit(k - 1)
    BY <1>5
  <2>3. Fit(k) <=> k <= L /\ Fit(k - 1) /\ name[k] \in pattern[k].names
    <3>1. \A i \in 1 .. k : i \in 1 .. k - 1 \/ i = k
      OBVIOUS
    <3>2. \A i \in 1 .. k - 1 : i \in 1 .. k
      OBVIOUS
    <3> QED
      BY <1>1, <3>1, <3>2
  <2> HIDE DEF Fit
  <2>4. \A j : j \in f[k] <=> j = k /\ Fit(k)
    BY <1>1, <2>1, <2>2, <2>3
  <2> QED
    BY <2>4
<1> HIDE DEF T
<1>6. n \in T
  <2>1. \A k \in 0 .. n : k \in T
    BY <1>1, <1>4, <1>5, FiniteInduction
  <2> QED
    BY <1>1, <2>1
<1>7. \A j : j \in f[n] <=> j = n /\ Fit(n)
  BY <1>6 DEF T
<1>8. Fit(n) <=> Begins(name, pattern)
  BY DEF Begins
<1> HIDE DEF Fit
<1> QED
  BY <1>7, <1>8

(* find_matching_nodes and matches_pattern select what is documented.      *)
IsFound(name, pattern) ==
  \/ IsLiteral(pattern) /\ (IsName(name, pattern) \/ IsBelow(name, pattern))
  \/ FullMatch(WildcardRegex(pattern), name)

LEMMA MatchingIsSelecting ==
  ASSUME NEW pattern, IsPattern(pattern), NEW name, IsModuleName(name)
  PROVE  /\ IsFound(name, pattern) <=> Selects(pattern, name)
         /\ Matches(name, pattern) <=> Selects(pattern, name)
<1>1. IsSequence(pattern) /\ IsSequence(name)
  BY DEF IsPattern, IsModuleName, IsSequence
<1>2. PICK f : AreFits(f, pattern, name)
  BY <1>1, FitsAreSolved
<1>3. FullMatch(WildcardRegex(pattern), name) <=> Len(name) \in f[Len(pattern)]
  BY <1>2, RegexMatches
<1>4. Selects(pattern, name) <=>
        IF IsLiteral(pattern) THEN f[Len(pattern)] # {} ELSE Len(name) \in f[Len(pattern)]
  BY <1>1, <1>2, SelectsByFits
<1>5. CASE IsLiteral(pattern)
  <2>1. /\ f[Len(pattern)] # {} <=> Begins(name, pattern)
        /\ Len(name) \in f[Len(pattern)] => f[Len(pattern)] # {}
    BY <1>1, <1>2, <1>5, LiteralFits
  <2>2. IsName(name, pattern) \/ IsBelow(name, pattern) <=> Begins(name, pattern)
    BY <1>1, LiteralBegins
  <2> QED
    BY <1>3, <1>4, <1>5, <2>1, <2>2 DEF Matches, IsFound
<1>6. CASE ~IsLiteral(pattern)
  BY <1>3, <1>4, <1>6 DEF Matches, IsFound
<1> QED
  BY <1>5, <1>6

LEMMA PatternsSelect ==
  ASSUME NEW pattern, IsPattern(pattern), NEW ms, \A m \in ms : IsModuleName(m)
  PROVE  /\ Matching(pattern, ms) = {m \in ms : Selects(pattern, m)}
         /\ PatternAgrees(pattern, ms)
<1>1. \A m \in ms : /\ IsFound(m, pattern) <=> Selects(pattern, m)
                    /\ Matches(m, pattern) <=> Selects(pattern, m)
  BY MatchingIsSelecting
<1>2. Matching(pattern, ms) = {m \in ms : Selects(pattern, m)}
  <2>1. Matching(pattern, ms) = {m \in ms : IsFound(m, pattern)}
    BY DEF Matching, IsFound
  <2> QED
    BY <1>1, <2>1
<1>3. {m \in ms : Matches(m, pattern)} = {m \in ms : Selects(pattern, m)}
  BY <1>1
<1> QED
  BY <1>2, <1>3 DEF PatternAgrees

(* Both ways to match select, of whatever names, those that the            *)
(* documentation says the pattern selects (pattern.py:33-107;              *)
(* rules.md:18-34).                                                        *)
THEOREM PatternsSelectAsDocumented == Spec => []PatternsAgree
<1>1. PatternsAgree
  BY PatternsSelect, QueriesAssumption DEF PatternsAgree
<1> QED
  BY <1>1, PTL

-----------------------------------------------------------------------------
(* The first pattern that selects a module is the part that it is in.      *)
LEMMA PartsAreOwned ==
  ASSUME NEW patterns, IsSequence(patterns), NEW m \in nodes, NEW i \in 1 .. Len(patterns)
  PROVE  m \in Part(patterns, i) <=> OwnerIn(patterns, m) = i
<1> DEFINE o == OwnerIn(patterns, m)
<1>1. Len(patterns) \in Nat
  BY LenProperties DEF IsSequence
<1>2. m \in Part(patterns, i) <=>
        /\ m \in Matching(patterns[i], nodes)
        /\ \A k \in 1 .. i - 1 : m \notin Matching(patterns[k], nodes)
  BY DEF Part
<1>3. /\ o \in Nat
      /\ o = 0 <=> \A k \in 1 .. Len(patterns) : m \notin Matching(patterns[k], nodes)
      /\ o # 0 => /\ o \in 1 .. Len(patterns) /\ m \in Matching(patterns[o], nodes)
                  /\ \A k \in 1 .. Len(patterns) : m \in Matching(patterns[k], nodes) => o <= k
  BY OwnerSelects
<1> HIDE DEF o
<1>4. ASSUME m \in Part(patterns, i) PROVE o = i
  <2>1. o # 0 /\ o <= i
    BY <1>2, <1>3, <1>4
  <2>2. o \notin 1 .. i - 1
    BY <1>2, <1>3, <1>4, <2>1
  <2> QED
    BY <1>1, <1>3, <2>1, <2>2
<1>5. ASSUME o = i PROVE m \in Part(patterns, i)
  <2>1. o # 0
    BY <1>1, <1>5
  <2>2. ASSUME NEW k \in 1 .. i - 1 PROVE m \notin Matching(patterns[k], nodes)
    <3>1. k \in 1 .. Len(patterns) /\ ~ (i <= k)
      BY <1>1
    <3> QED
      BY <1>3, <1>5, <2>1, <3>1
  <2> QED
    BY <1>2, <1>3, <1>5, <2>1, <2>2
<1> QED
  BY <1>4, <1>5 DEF o

(* The rules on lists of patterns agree, in the graph of every project and *)
(* for all lists, overlapping or not: are_adjacent and independent by the  *)
(* first pattern of each module, are_ordered with them but for imports by  *)
(* modules in several patterns (independence.py:10-64, layers.py:22-141).  *)
THEOREM OverlapsAgreeAlways == Spec => []OverlapsAgree
<1>1. ASSUME GraphAsRead PROVE OverlapsAgree
  <2> SUFFICES ASSUME NEW patterns \in LayerLists
               PROVE  LET layers == DOMAIN patterns
                          across(pairs) ==
                            edges \cap UNION {Part(patterns, ij[1]) \X Part(patterns, ij[2]) : ij \in pairs}
                          ordered == AreOrdered(G, patterns).violations
                          adjacent == AreAdjacent(G, patterns).violations
                      IN  /\ Independent(G, patterns).violations
                               = across({ij \in layers \X layers : ij[1] # ij[2]})
                          /\ adjacent
                               = across({ij \in layers \X layers : ij[2] \notin {ij[1], ij[1] + 1}})
                          /\ across({ij \in layers \X layers : ij[2] < ij[1]}) \subseteq ordered
                          /\ \A e \in ordered \ adjacent : e[1] \in Shared(patterns)
    BY DEF OverlapsAgree
  <2> DEFINE layers == DOMAIN patterns
             across(pairs) ==
               edges \cap UNION {Part(patterns, ij[1]) \X Part(patterns, ij[2]) : ij \in pairs}
             ordered == AreOrdered(G, patterns).violations
             adjacent == AreAdjacent(G, patterns).violations
             independent == Independent(G, patterns).violations
             own(m) == OwnerIn(patterns, m)
             Apart == {ij \in layers \X layers : ij[1] # ij[2]}
             Far == {ij \in layers \X layers : ij[2] \notin {ij[1], ij[1] + 1}}
             Up == {ij \in layers \X layers : ij[2] < ij[1]}
  <2>1. /\ IsSequence(patterns) /\ layers = 1 .. Len(patterns) /\ Len(patterns) \in Nat
        /\ \A i \in layers : i \in Nat \ {0}
    BY LayerListsAreSequences
  <2>2. \A e \in edges : e[1] \in nodes /\ e[2] \in nodes /\ e = <<e[1], e[2]>>
    BY <1>1, GraphIsTyped
  <2>3. \A m \in nodes : \A i \in layers : m \in Part(patterns, i) <=> own(m) = i
    BY <2>1, PartsAreOwned
  <2>4. \A m \in nodes : own(m) # 0 =>
          /\ own(m) \in layers /\ m \in Matching(patterns[own(m)], nodes)
          /\ \A i \in layers : m \in Matching(patterns[i], nodes) => own(m) <= i
    BY <2>1, OwnerSelects
  <2>5. \A m \in nodes : \A i \in layers : m \in Matching(patterns[i], nodes) => own(m) # 0
    BY <2>1, OwnerSelects
  <2>6. /\ \A e : e \in independent <=>
             e \in edges /\ own(e[1]) # 0 /\ own(e[2]) # 0 /\ own(e[1]) # own(e[2])
        /\ \A e : e \in adjacent <=>
             e \in edges /\ own(e[1]) # 0 /\ own(e[2]) # 0 /\ own(e[2]) - own(e[1]) \notin {0, 1}
        /\ \A e : e \in ordered <=>
             /\ e \in edges
             /\ \E upper, lower \in layers :
                  /\ upper < lower
                  /\ e[1] \in Matching(patterns[lower], nodes)
                  /\ e[2] \in Matching(patterns[upper], nodes)
    BY DEF Independent, AreAdjacent, AreOrdered, Found, G
  <2> HIDE DEF own, independent, adjacent, ordered, layers
  <2>7. ASSUME NEW pairs \in SUBSET (layers \X layers), NEW e
        PROVE  e \in across(pairs) <=>
                 /\ e \in edges /\ own(e[1]) # 0 /\ own(e[2]) # 0
                 /\ <<own(e[1]), own(e[2])>> \in pairs
    <3>1. e \in across(pairs) <=>
            e \in edges /\ \E ij \in pairs : e[1] \in Part(patterns, ij[1]) /\ e[2] \in Part(patterns, ij[2])
      BY <2>2
    <3>2. \A ij \in pairs : ij[1] \in layers /\ ij[2] \in layers /\ ij = <<ij[1], ij[2]>>
      OBVIOUS
    <3>3. ASSUME e \in edges
          PROVE  (\E ij \in pairs : e[1] \in Part(patterns, ij[1]) /\ e[2] \in Part(patterns, ij[2]))
                   <=> /\ own(e[1]) # 0 /\ own(e[2]) # 0
                       /\ <<own(e[1]), own(e[2])>> \in pairs
      <4>1. e[1] \in nodes /\ e[2] \in nodes
        BY <2>2, <3>3
      <4>2. ASSUME NEW ij \in pairs
            PROVE  e[1] \in Part(patterns, ij[1]) /\ e[2] \in Part(patterns, ij[2])
                     <=> own(e[1]) = ij[1] /\ own(e[2]) = ij[2]
        BY <2>3, <3>2, <4>1
      <4>3. \A ij \in pairs : ij[1] # 0 /\ ij[2] # 0
        BY <2>1, <3>2
      <4>4. ASSUME NEW ij \in pairs, e[1] \in Part(patterns, ij[1]), e[2] \in Part(patterns, ij[2])
            PROVE  /\ own(e[1]) # 0 /\ own(e[2]) # 0
                   /\ <<own(e[1]), own(e[2])>> \in pairs
        BY <3>2, <4>2, <4>3, <4>4
      <4>5. ASSUME <<own(e[1]), own(e[2])>> \in pairs
            PROVE  \E ij \in pairs : e[1] \in Part(patterns, ij[1]) /\ e[2] \in Part(patterns, ij[2])
        <5> DEFINE st == <<own(e[1]), own(e[2])>>
        <5>1. st \in pairs /\ st[1] = own(e[1]) /\ st[2] = own(e[2])
          BY <4>5
        <5> HIDE DEF st
        <5>2. e[1] \in Part(patterns, st[1]) /\ e[2] \in Part(patterns, st[2])
          BY <4>2, <5>1
        <5> QED
          BY <5>1, <5>2
      <4> QED
        BY <4>4, <4>5
    <3> QED
      BY <3>1, <3>3
  <2>8. /\ Apart \in SUBSET (layers \X layers) /\ Far \in SUBSET (layers \X layers)
        /\ Up \in SUBSET (layers \X layers)
        /\ \A i, j \in layers : /\ <<i, j>> \in Apart <=> i # j
                                /\ <<i, j>> \in Far <=> j - i \notin {0, 1}
                                /\ <<i, j>> \in Up <=> j < i
    BY <2>1
  <2> HIDE DEF across, Apart, Far, Up
  <2>9. independent = across(Apart)
    <3>1. ASSUME NEW e PROVE e \in independent <=> e \in across(Apart)
      BY <2>2, <2>4, <2>6, <2>7, <2>8
    <3> QED
      BY <3>1
  <2>10. adjacent = across(Far)
    <3>1. ASSUME NEW e PROVE e \in adjacent <=> e \in across(Far)
      BY <2>2, <2>4, <2>6, <2>7, <2>8
    <3> QED
      BY <3>1
  <2>11. across(Up) \subseteq ordered
    <3>1. ASSUME NEW e, e \in across(Up) PROVE e \in ordered
      <4>1. e \in edges /\ own(e[1]) # 0 /\ own(e[2]) # 0 /\ <<own(e[1]), own(e[2])>> \in Up
        BY <2>7, <2>8, <3>1
      <4>2. /\ own(e[1]) \in layers /\ e[1] \in Matching(patterns[own(e[1])], nodes)
            /\ own(e[2]) \in layers /\ e[2] \in Matching(patterns[own(e[2])], nodes)
        BY <2>2, <2>4, <4>1
      <4>3. own(e[2]) < own(e[1])
        BY <2>8, <4>1, <4>2
      <4> QED
        BY <2>6, <4>1, <4>2, <4>3
    <3> QED
      BY <3>1
  <2>12. ASSUME NEW e \in ordered \ adjacent PROVE e[1] \in Shared(patterns)
    <3>1. PICK upper, lower \in layers : /\ upper < lower
                                         /\ e[1] \in Matching(patterns[lower], nodes)
                                         /\ e[2] \in Matching(patterns[upper], nodes)
      BY <2>6, <2>12
    <3>2. e \in edges /\ e[1] \in nodes /\ e[2] \in nodes
      BY <2>2, <2>6, <2>12
    <3>3. /\ own(e[1]) # 0 /\ own(e[1]) \in layers /\ e[1] \in Matching(patterns[own(e[1])], nodes)
          /\ own(e[2]) # 0 /\ own(e[2]) \in layers /\ own(e[2]) <= upper
      BY <2>4, <2>5, <3>1, <3>2
    <3>4. own(e[2]) - own(e[1]) \in {0, 1}
      BY <2>6, <2>12, <3>2, <3>3
    <3>5. own(e[1]) # lower
      BY <2>1, <3>1, <3>3, <3>4
    <3> QED
      BY <3>1, <3>2, <3>3, <3>5 DEF Shared, layers
  <2> QED
    BY <2>9, <2>10, <2>11, <2>12
       DEF layers, across, ordered, adjacent, independent, Apart, Far, Up
<1> QED
  BY <1>1, GraphInvariant, PTL

-----------------------------------------------------------------------------
(* must_not_depend_on finds what some chain of must_not_import would       *)
(* (query.py:197-242).                                                     *)
LEMMA DependenciesAgreeAlways ==
  ASSUME IsGraph(G), NEW p, NEW q
  PROVE  DependenciesAgree(p, q)
<1> DEFINE P == Matching(p, nodes)
           Q == Matching(q, nodes)
<1>1. G.nodes = nodes /\ P \subseteq nodes /\ Q \subseteq nodes
  BY MatchingSelects DEF G
<1> SUFFICES ASSUME NEW st \in P \X Q, st[1] # st[2]
             PROVE  st \in MustNotDependOn(G, p, q).violations
                      <=> \E k \in Successors(G, st[1]) : k = st[2] \/ st[2] \in Descendants(G, k)
  BY DEF DependenciesAgree
<1>2. st \in MustNotDependOn(G, p, q).violations <=> st[2] \in Descendants(G, st[1])
  BY <1>1 DEF MustNotDependOn, Found
<1>3. st[1] \in G.nodes
  BY <1>1
<1> QED
  BY <1>2, <1>3, ReachedByStep

(* For two layers are_ordered and must_not_import are one rule             *)
(* (layers.py:22-73; query.py:163-195).                                    *)
LEMMA TwoLayersAreOrdered ==
  ASSUME IsGraph(G), NEW p, NEW q
  PROVE  AreOrdered(G, <<q, p>>).violations = MustNotImport(G, p, q).violations
<1> DEFINE P == Matching(p, nodes)
           Q == Matching(q, nodes)
           qp == <<q, p>>
<1>1. G.nodes = nodes /\ G.edges = edges
      /\ \A e \in edges : e = <<e[1], e[2]>>
  BY DEF G, IsGraph
<1>2. DOMAIN qp = 1 .. 2 /\ qp[1] = q /\ qp[2] = p
  OBVIOUS
<1>3. \A e : e \in MustNotImport(G, p, q).violations <=> e \in edges /\ e[1] \in P /\ e[2] \in Q
  BY <1>1 DEF MustNotImport, Found
<1> HIDE DEF qp
<1>4. \A e : e \in AreOrdered(G, qp).violations <=>
        e \in edges /\ \E upper, lower \in 1 .. 2 :
          /\ upper < lower
          /\ e[1] \in Matching(qp[lower], nodes)
          /\ e[2] \in Matching(qp[upper], nodes)
  BY <1>1, <1>2 DEF AreOrdered, Found
<1>5. \A upper, lower \in 1 .. 2 : upper < lower <=> upper = 1 /\ lower = 2
  OBVIOUS
<1>6. \A e : e \in AreOrdered(G, qp).violations <=> e \in edges /\ e[1] \in P /\ e[2] \in Q
  BY <1>2, <1>4, <1>5
<1> QED
  BY <1>3, <1>6 DEF qp

(* A chain of imports ends in an import.                                   *)
LEMMA ReachedByLastStep ==
  ASSUME NEW H, IsGraph(H), NEW s \in H.nodes, NEW t \in Descendants(H, s)
  PROVE  \E k \in Reached(H, s) : <<k, t>> \in H.edges
<1>1. SUFFICES ASSUME \A k \in Reached(H, s) : <<k, t>> \notin H.edges PROVE FALSE
  OBVIOUS
<1>2. IsClosed(H, Reached(H, s)) /\ s \in Reached(H, s) /\ t # s /\ t \in Reached(H, s)
  BY ReachedIsClosed DEF Reached, Descendants
<1> DEFINE S == Reached(H, s) \ {t}
<1>3. ASSUME NEW e \in H.edges, e[1] \in S PROVE e[2] \in S
  <2>1. e = <<e[1], e[2]>>
    BY DEF IsGraph
  <2>2. e[2] \in Reached(H, s) /\ e[2] # t
    BY <1>1, <1>2, <1>3, <2>1 DEF IsClosed
  <2> QED
    BY <2>2
<1>4. s \in S /\ t \notin S
  BY <1>2
<1> HIDE DEF S
<1>5. Reached(H, s) \subseteq S
  BY <1>3, <1>4, ReachedIsSmallest DEF IsClosed
<1> QED
  BY <1>2, <1>4, <1>5

(* What only_imported_within and must_only_import_from mean for chains of  *)
(* imports (boundaries.py:35-79; query.py:275-312).                        *)
LEMMA BoundariesHoldAlways ==
  ASSUME IsGraph(G), NEW p, NEW q
  PROVE  BoundariesHold(p, q)
<1> DEFINE P == Matching(p, nodes)
           Q == Matching(q, nodes)
<1>1. G.nodes = nodes /\ G.edges = edges /\ P \subseteq nodes /\ Q \subseteq nodes
  BY MatchingSelects DEF G
<1> HIDE DEF P, Q
<1>2. ASSUME Passes(OnlyImportedWithin(G, p, q)), NEW s \in nodes \ Q, NEW t \in P,
             t \in Descendants(G, s)
      PROVE  Descendants(G, s) \cap Predecessors(G, t) \cap Q # {}
  <2>1. \A e \in G.edges : e[1] \in Q \/ e[2] \notin P
    BY <1>1, <1>2 DEF Passes, OnlyImportedWithin, Found, P, Q
  <2>2. PICK k \in Reached(G, s) : <<k, t>> \in G.edges
    BY <1>1, <1>2, ReachedByLastStep
  <2>3. k \in Q
    <3> DEFINE e == <<k, t>>
    <3>1. e \in G.edges /\ e[1] = k /\ e[2] = t
      BY <2>2
    <3> HIDE DEF e
    <3> QED
      BY <1>2, <2>1, <3>1
  <2>4. k \in Descendants(G, s)
    BY <1>2, <2>2, <2>3 DEF Reached
  <2>5. k \in Predecessors(G, t)
    BY <2>2 DEF Predecessors
  <2> QED
    BY <2>3, <2>4, <2>5
<1>3. ASSUME Passes(MustOnlyImportFrom(G, p, {p, q})), Passes(MustOnlyImportFrom(G, q, {p, q})),
             NEW s \in P, NEW t \in Descendants(G, s)
      PROVE  t \in P \cup Q
  <2>1. UNION {Matching(r, G.nodes) : r \in {p, q}} = P \cup Q
    BY <1>1 DEF P, Q
  <2>2. \A e \in G.edges : e[1] \in P \cup Q => e[2] \in P \cup Q
    BY <1>1, <1>3, <2>1 DEF Passes, MustOnlyImportFrom, Found, P, Q
  <2>3. Reached(G, s) \subseteq P \cup Q
    <3> DEFINE S == P \cup Q
    <3>1. s \in S /\ IsClosed(G, S)
      BY <1>3, <2>2 DEF IsClosed
    <3> HIDE DEF S
    <3>2. Reached(G, s) \subseteq S
      BY <1>1, <3>1, ReachedIsSmallest
    <3> QED
      BY <3>2 DEF S
  <2> QED
    BY <2>3 DEF Reached
<1>4. ASSUME Passes(OnlyImportedWithin(G, p, q)), NEW st \in (nodes \ Q) \X P,
             st[2] \in Descendants(G, st[1])
      PROVE  Descendants(G, st[1]) \cap Predecessors(G, st[2]) \cap Q # {}
  BY <1>2, <1>4
<1>5. ASSUME Passes(MustOnlyImportFrom(G, p, {p, q})), Passes(MustOnlyImportFrom(G, q, {p, q})),
             NEW st \in MustNotDependOn(G, p, <<GlobStar>>).violations
      PROVE  st[2] \in P \cup Q
  <2>1. st[1] \in P /\ st[2] \in Descendants(G, st[1])
    BY <1>1 DEF MustNotDependOn, Found, P
  <2> QED
    BY <1>3, <1>5, <2>1
<1> QED
  BY <1>4, <1>5 DEF BoundariesHold, P, Q

-----------------------------------------------------------------------------
(* The file of a module, below a package root.                             *)
LEMMA BelowIsRest ==
  ASSUME NEW r, NEW d, IsSequence(r), IsSequence(d), IsPrefix(r, d)
  PROVE  /\ IsSequence(Below(r, d)) /\ Len(r) \in Nat /\ Len(d) \in Nat
         /\ Len(Below(r, d)) = Len(d) - Len(r) /\ Len(r) <= Len(d)
         /\ \A i \in 1 .. Len(d) - Len(r) : Below(r, d)[i] = d[Len(r) + i]
         /\ \A i \in 1 .. Len(r) : r[i] = d[i]
<1>1. Len(r) \in Nat /\ Len(d) \in Nat
  BY LenProperties DEF IsSequence
<1>2. Len(r) <= Len(d) /\ \A i \in 1 .. Len(r) : r[i] = d[i]
  BY PrefixIsCut
<1>3. Len(r) + 1 \in 1 .. Len(d) + 1 /\ Len(d) \in Len(r) + 1 - 1 .. Len(d)
  BY <1>1, <1>2
<1> DEFINE b == SubSeq(d, Len(r) + 1, Len(d))
<1>4. /\ IsSequence(b) /\ Len(b) = Len(d) - (Len(r) + 1) + 1
      /\ \A i \in 1 .. Len(d) - (Len(r) + 1) + 1 : b[i] = d[Len(r) + 1 + i - 1]
  BY <1>3, SubSeqIsSequence
<1>5. Below(r, d) = b
  BY DEF Below
<1> HIDE DEF b
<1>6. /\ Len(d) - (Len(r) + 1) + 1 = Len(d) - Len(r)
      /\ \A i \in 1 .. Len(d) - Len(r) : Len(r) + 1 + i - 1 = Len(r) + i
  BY <1>1
<1> QED
  BY <1>1, <1>2, <1>4, <1>5, <1>6

LEMMA AddSegment ==
  ASSUME NEW s, IsSequence(s), NEW x
  PROVE  /\ IsSequence(s \o <<x>>) /\ Len(s \o <<x>>) = Len(s) + 1
         /\ \A i \in 1 .. Len(s) : (s \o <<x>>)[i] = s[i]
         /\ (s \o <<x>>)[Len(s) + 1] = x
<1> DEFINE one == <<x>>
<1>1. IsSequence(one) /\ Len(one) = 1 /\ one[1] = x
  BY SingleSequence
<1>2. IsSequence(one)
  BY <1>1
<1> HIDE DEF one
<1>3. /\ IsSequence(s \o one) /\ Len(s \o one) = Len(s) + Len(one)
      /\ \A i \in 1 .. Len(s) : (s \o one)[i] = s[i]
      /\ \A i \in 1 .. Len(one) : (s \o one)[Len(s) + i] = one[i]
  BY <1>2, ConcatIsSequence
<1> QED
  BY <1>1, <1>3 DEF one

LEMMA FileOfModule ==
  ASSUME NEW r, IsSequence(r), NEW f, IsSequence(f.dir), NEW m, IsSequence(m), m # <<>>
  PROVE  /\ f.stem \notin Inits => ( r \o m = Append(f.dir, f.stem)
                                     <=> IsPrefix(r, f.dir) /\ ModuleOf(r, f) = m )
         /\ f.stem \in Inits => ( r \o m = f.dir <=> IsPrefix(r, f.dir) /\ ModuleOf(r, f) = m )
<1> DEFINE d == f.dir
           x == f.stem
           full == r \o m
<1>1. /\ IsSequence(full) /\ Len(r) \in Nat /\ Len(m) \in Nat /\ Len(full) = Len(r) + Len(m)
      /\ \A i \in 1 .. Len(r) : full[i] = r[i]
      /\ \A i \in 1 .. Len(m) : full[Len(r) + i] = m[i]
  BY ConcatIsSequence
<1>2. Len(m) \in Nat \ {0}
  BY EmptySequence
<1>3. Len(d) \in Nat
  BY LenProperties DEF IsSequence
<1> DEFINE joined == Append(d, x)
<1>4. /\ IsSequence(joined) /\ Len(joined) = Len(d) + 1 /\ joined[Len(d) + 1] = x
      /\ \A i \in 1 .. Len(d) : joined[i] = d[i]
  BY AppendIsSequence
<1> DEFINE b == Below(r, d)
<1>5. ASSUME IsPrefix(r, d)
      PROVE  /\ IsSequence(b) /\ Len(b) = Len(d) - Len(r) /\ Len(r) <= Len(d)
             /\ \A i \in 1 .. Len(d) - Len(r) : b[i] = d[Len(r) + i]
             /\ \A i \in 1 .. Len(r) : r[i] = d[i]
  BY <1>5, BelowIsRest
<1>6. IsPrefix(r, d) <=> Len(r) <= Len(d) /\ \A i \in 1 .. Len(r) : r[i] = d[i]
  BY PrefixIsCut
<1>7. ModuleOf(r, f) = b \o (IF x \in Inits THEN <<>> ELSE <<x>>)
  BY DEF ModuleOf
<1>8. ASSUME x \notin Inits
      PROVE  full = joined <=> IsPrefix(r, d) /\ ModuleOf(r, f) = m
  <2> DEFINE named == b \o <<x>>
  <2>1. IsPrefix(r, d) => /\ IsSequence(named) /\ Len(named) = Len(b) + 1
                          /\ \A i \in 1 .. Len(b) : named[i] = b[i]
                          /\ named[Len(b) + 1] = x
    <3>1. IsPrefix(r, d) => IsSequence(b)
      BY <1>5
    <3> HIDE DEF b
    <3> QED
      BY <3>1, AddSegment
  <2>2. ModuleOf(r, f) = named
    BY <1>7, <1>8
  <2> HIDE DEF full, joined, b, named
  <2>3. ASSUME full = joined PROVE IsPrefix(r, d) /\ named = m
    <3>1. Len(r) + Len(m) = Len(d) + 1 /\ Len(r) <= Len(d)
      BY <1>1, <1>2, <1>3, <1>4, <2>3
    <3>2. \A i \in 1 .. Len(r) : r[i] = d[i]
      <4>1. \A i \in 1 .. Len(r) : i \in 1 .. Len(d)
        BY <1>1, <1>3, <3>1
      <4> QED
        BY <1>1, <1>4, <2>3, <4>1
    <3>3. IsPrefix(r, d)
      BY <1>6, <3>1, <3>2
    <3>4. Len(named) = Len(m) /\ Len(b) = Len(m) - 1
      BY <1>1, <1>3, <1>5, <2>1, <3>1, <3>3
    <3>5. ASSUME NEW i \in 1 .. Len(named) PROVE named[i] = m[i]
      <4>1. i \in 1 .. Len(m) /\ full[Len(r) + i] = m[i]
        BY <1>1, <3>4
      <4>2. CASE i = Len(m)
        <5>1. i = Len(b) + 1 /\ Len(r) + i = Len(d) + 1
          BY <1>1, <1>2, <1>3, <3>1, <3>4, <4>2
        <5> QED
          BY <1>4, <2>1, <2>3, <3>3, <4>1, <5>1
      <4>3. CASE i # Len(m)
        <5>1. i \in 1 .. Len(b) /\ i \in 1 .. Len(d) - Len(r) /\ Len(r) + i \in 1 .. Len(d)
          BY <1>1, <1>2, <1>3, <3>1, <3>4, <4>1, <4>3
        <5> QED
          BY <1>4, <1>5, <2>1, <2>3, <3>3, <4>1, <5>1
      <4> QED
        BY <4>2, <4>3
    <3> QED
      BY <2>1, <3>3, <3>4, <3>5, SameSequence
  <2>4. ASSUME IsPrefix(r, d), named = m PROVE full = joined
    <3>a. Len(m) = Len(b) + 1
      BY <2>1, <2>4
    <3>b. Len(b) = Len(d) - Len(r) /\ Len(r) <= Len(d)
      BY <1>5, <2>4
    <3>c. Len(full) = Len(r) + Len(m) /\ Len(joined) = Len(d) + 1 /\ Len(r) \in Nat /\ Len(d) \in Nat
      BY <1>1, <1>3, <1>4
    <3>1. Len(full) = Len(joined) /\ Len(m) = Len(b) + 1 /\ Len(b) = Len(d) - Len(r) /\ Len(r) <= Len(d)
      BY <3>a, <3>b, <3>c
    <3>2. ASSUME NEW i \in 1 .. Len(full) PROVE full[i] = joined[i]
      <4>1. CASE i \in 1 .. Len(r)
        <5>1. i \in 1 .. Len(d)
          BY <1>1, <1>3, <3>1, <4>1
        <5> QED
          BY <1>1, <1>4, <1>5, <2>4, <4>1, <5>1
      <4>2. CASE i \in Len(r) + 1 .. Len(d)
        <5>1. /\ i - Len(r) \in 1 .. Len(m) /\ i - Len(r) \in 1 .. Len(b)
              /\ i - Len(r) \in 1 .. Len(d) - Len(r)
              /\ Len(r) + (i - Len(r)) = i /\ i \in 1 .. Len(d)
          BY <1>1, <1>3, <3>1, <4>2
        <5>2. full[i] = m[i - Len(r)]
          BY <1>1, <5>1
        <5>3. m[i - Len(r)] = d[i]
          BY <1>5, <2>1, <2>4, <5>1
        <5> QED
          BY <1>4, <5>1, <5>2, <5>3
      <4>3. CASE i = Len(d) + 1
        <5>1. Len(m) \in 1 .. Len(m) /\ Len(r) + Len(m) = i
          BY <1>2, <1>3, <3>1, <4>3
        <5>2. full[i] = m[Len(m)]
          BY <1>1, <5>1
        <5> QED
          BY <1>4, <2>1, <2>4, <3>1, <4>3, <5>2
      <4> QED
        BY <1>1, <1>3, <3>1, <4>1, <4>2, <4>3
    <3> QED
      BY <1>1, <1>4, <3>1, <3>2, SameSequence
  <2> QED
    BY <2>2, <2>3, <2>4
<1>9. ASSUME x \in Inits
      PROVE  full = d <=> IsPrefix(r, d) /\ ModuleOf(r, f) = m
  <2>1. IsPrefix(r, d) => ModuleOf(r, f) = b
    <3> HIDE DEF b
    <3>1. ModuleOf(r, f) = b \o <<>>
      BY <1>7, <1>9
    <3>2. IsPrefix(r, d) => \E S : b \in Seq(S)
      BY <1>5 DEF IsSequence
    <3> QED
      BY <3>1, <3>2, ConcatEmptySeq
  <2> HIDE DEF full, b
  <2>2. ASSUME full = d PROVE IsPrefix(r, d) /\ b = m
    <3>1. Len(r) + Len(m) = Len(d) /\ Len(r) <= Len(d)
      BY <1>1, <1>2, <1>3, <2>2
    <3>2. IsPrefix(r, d)
      BY <1>1, <1>6, <2>2, <3>1
    <3>3. Len(b) = Len(m) /\ Len(m) = Len(d) - Len(r)
      BY <1>1, <1>3, <1>5, <3>1, <3>2
    <3>4. \A i \in 1 .. Len(b) : b[i] = m[i]
      BY <1>1, <1>5, <2>2, <3>2, <3>3
    <3> QED
      BY <1>5, <3>2, <3>3, <3>4, SameSequence
  <2>3. ASSUME IsPrefix(r, d), b = m PROVE full = d
    <3>1. Len(full) = Len(d) /\ Len(m) = Len(d) - Len(r) /\ Len(r) <= Len(d)
      BY <1>1, <1>3, <1>5, <2>3
    <3>2. ASSUME NEW i \in 1 .. Len(full) PROVE full[i] = d[i]
      <4>1. CASE i \in 1 .. Len(r)
        BY <1>1, <1>5, <2>3, <4>1
      <4>2. CASE i \in Len(r) + 1 .. Len(d)
        <5>1. i - Len(r) \in 1 .. Len(m) /\ Len(r) + (i - Len(r)) = i
          BY <1>1, <1>3, <3>1, <4>2
        <5>2. full[i] = m[i - Len(r)]
          BY <1>1, <5>1
        <5> QED
          BY <1>5, <2>3, <3>1, <5>1, <5>2
      <4> QED
        BY <1>1, <1>3, <3>1, <4>1, <4>2
    <3> QED
      BY <1>1, <3>1, <3>2, SameSequence
  <2> QED
    BY <2>1, <2>2, <2>3
<1> QED
  BY <1>8, <1>9


(* A local module is found in the files that it is read from, of those     *)
(* that the graph does not leave out (imports.py:139-163).                 *)
LEMMA LocationsAgreeAlways ==
  ASSUME project \in Projects
  PROVE  LocationsAgree
<1> SUFFICES ASSUME NEW m \in LocalModules(project)
             PROVE  LET files == {rf[2] : rf \in {sf \in PythonFiles(project) :
                                                    ModuleOf(sf[1], sf[2]) = m}}
                    IN  /\ ResolveModuleFile(project, m) # {}
                        /\ ResolveModuleFile(project, m) \subseteq files \cup LeftOut
  BY DEF LocationsAgree
<1> DEFINE files == {rf[2] : rf \in {sf \in PythonFiles(project) : ModuleOf(sf[1], sf[2]) = m}}
           leaf(r) == {f \in project.files : f.stem \notin Inits /\ r \o m = Append(f.dir, f.stem)}
           init(r) == {f \in project.files : f.stem \in Inits /\ r \o m = f.dir}
<1>1. IsSequence(m) /\ m # <<>>
  BY LocalModulesAreFinite
<1>2. \A r : FilesOfModule(project, r, m)
               = IF leaf(r) # {} THEN leaf(r)
                 ELSE {f \in init(r) : f.stem = "__init__" \/ Cardinality(init(r)) = 1}
  BY DEF FilesOfModule
<1>3. ASSUME NEW r \in PackageRoots(project), NEW f \in project.files
      PROVE  f \in leaf(r) \/ f \in init(r) <=> IsPrefix(r, f.dir) /\ ModuleOf(r, f) = m
  <2>1. IsSequence(r) /\ IsSequence(f.dir)
    BY FilesAreNamed, RootsAreSequences
  <2>2. /\ f.stem \notin Inits => ( r \o m = Append(f.dir, f.stem)
                                     <=> IsPrefix(r, f.dir) /\ ModuleOf(r, f) = m )
        /\ f.stem \in Inits => ( r \o m = f.dir <=> IsPrefix(r, f.dir) /\ ModuleOf(r, f) = m )
    BY <1>1, <2>1, FileOfModule
  <2> QED
    BY <2>2
<1>4. ASSUME NEW r \in PackageRoots(project), NEW f \in FilesOfModule(project, r, m)
      PROVE  f \in files \cup LeftOut
  <2>1. f \in project.files /\ (f \in leaf(r) \/ f \in init(r))
    BY <1>2, <1>4
  <2>2. IsPrefix(r, f.dir) /\ ModuleOf(r, f) = m
    BY <1>3, <2>1
  <2>3. CASE f \notin LeftOut
    <3>1. <<r, f>> \in PythonFiles(project)
      BY <2>1, <2>2, <2>3 DEF PythonFiles, LeftOut
    <3> QED
      BY <2>2, <3>1
  <2> QED
    BY <2>3
<1>5. PICK rf \in PythonFiles(project) : ModuleOf(rf[1], rf[2]) = m
  BY DEF LocalModules
<1> DEFINE r == rf[1]
           f == rf[2]
<1>6. r \in PackageRoots(project) /\ f \in project.files /\ IsPrefix(r, f.dir)
  BY DEF PythonFiles
<1>7. FilesOfModule(project, r, m) # {}
  <2>1. f \in leaf(r) \/ f \in init(r)
    BY <1>3, <1>5, <1>6
  <2>2. CASE leaf(r) # {}
    BY <1>2, <2>2
  <2>3. CASE leaf(r) = {}
    <3>1. f \in init(r)
      BY <2>1, <2>3
    <3>2. CASE \E g \in init(r) : g.stem = "__init__"
      BY <1>2, <2>3, <3>2
    <3>3. CASE \A g \in init(r) : g.stem # "__init__"
      <4>1. \A g \in init(r) : g = f
        <5>1. \A g \in init(r) : /\ g \in project.files /\ g.dir = r \o m /\ g.stem = "init"
          BY <3>3 DEF Inits
        <5> QED
          BY <3>1, <5>1, ProjectAssumption
      <4>2. init(r) = {f}
        <5> HIDE DEF init
        <5> QED
          BY <3>1, <4>1
      <4>3. Cardinality(init(r)) = 1
        <5> HIDE DEF init, f
        <5> QED
          BY <4>2, FS_Singleton
      <4> QED
        BY <1>2, <2>3, <3>1, <4>3
    <3> QED
      BY <3>2, <3>3
  <2> QED
    BY <2>2, <2>3
<1> HIDE DEF r, f, files, leaf, init
<1>8. /\ ResolveModuleFile(project, m) # {}
      /\ ResolveModuleFile(project, m) \subseteq files \cup LeftOut
  BY <1>4, <1>6, <1>7 DEF ResolveModuleFile
<1> QED
  BY <1>8 DEF files

(* Naming rules look at the files that the modules they match are read     *)
(* from and that are named from the analysis root (naming.py:20-48).       *)
LEMMA NamingAgreesAlways ==
  ASSUME project \in Projects, \A m \in nodes : m # <<>>, NEW p
  PROVE  NamingAgrees(p)
<1> DEFINE M == Matching(p, nodes)
           rootFiles == {rf[2] : rf \in {sf \in PythonFiles(project) : sf[1] = project.root}}
<1> SUFFICES ASSUME project.root \in PackageRoots(project)
             PROVE  NamingFiles(project, M) \ LeftOut
                      = {f \in rootFiles : ModuleOf(project.root, f) \in M}
  BY DEF NamingAgrees
<1>1. M \ {<<>>} = M
  BY MatchingSelects
<1> HIDE DEF M
<1>2. \A f : f \in NamingFiles(project, M) \ LeftOut <=>
        /\ f \in project.files /\ IsPrefix(project.root, f.dir) /\ ModuleOf(project.root, f) \in M
        /\ ~IsIgnored(f.dir) /\ ~IsExcluded(project, f.dir)
  BY <1>1 DEF NamingFiles, LeftOut
<1>3. \A rf : rf \in PythonFiles(project) <=>
        /\ rf \in PackageRoots(project) \X project.files /\ IsPrefix(rf[1], rf[2].dir)
        /\ ~IsIgnored(rf[2].dir) /\ ~IsExcluded(project, rf[2].dir)
  BY DEF PythonFiles
<1>4. ASSUME NEW f
      PROVE  f \in rootFiles <=>
               /\ f \in project.files /\ IsPrefix(project.root, f.dir)
               /\ ~IsIgnored(f.dir) /\ ~IsExcluded(project, f.dir)
  <2>1. ASSUME f \in rootFiles
        PROVE  /\ f \in project.files /\ IsPrefix(project.root, f.dir)
               /\ ~IsIgnored(f.dir) /\ ~IsExcluded(project, f.dir)
    <3>1. PICK rf \in PythonFiles(project) : rf[1] = project.root /\ f = rf[2]
      BY <2>1
    <3> QED
      BY <1>3, <3>1
  <2>2. ASSUME f \in project.files, IsPrefix(project.root, f.dir),
               ~IsIgnored(f.dir), ~IsExcluded(project, f.dir)
        PROVE  f \in rootFiles
    <3> DEFINE rf == <<project.root, f>>
    <3>1. rf \in PackageRoots(project) \X project.files /\ rf[1] = project.root /\ rf[2] = f
      BY <2>2
    <3> HIDE DEF rf
    <3>2. rf \in PythonFiles(project)
      BY <1>3, <2>2, <3>1
    <3> QED
      BY <3>1, <3>2
  <2> QED
    BY <2>1, <2>2
<1> HIDE DEF rootFiles
<1>5. \A f : f \in NamingFiles(project, M) \ LeftOut
               <=> f \in {g \in rootFiles : ModuleOf(project.root, g) \in M}
  BY <1>2, <1>4
<1> QED
  BY <1>5

-----------------------------------------------------------------------------
(* "**" selects every module, "*.*.**" those of two segments and more.     *)
LEMMA GlobStarSelects ==
  ASSUME NEW name, IsModuleName(name)
  PROVE  IsPattern(<<GlobStar>>) /\ Selects(<<GlobStar>>, name)
<1> DEFINE all == <<GlobStar>>
<1>1. all \in Seq({GlobStar}) /\ Len(all) = 1 /\ DOMAIN all = 1 .. 1 /\ all[1] = GlobStar /\ all # <<>>
  OBVIOUS
<1>2. ToSet(all) = {GlobStar}
  BY <1>1 DEF ToSet
<1>3. ~IsLiteral(all)
  BY <1>1 DEF IsLiteral, GlobStar
<1> HIDE DEF all
<1>4. IsPattern(all) /\ IsSequence(all) /\ IsSequence(name)
  BY <1>1, <1>2 DEF IsPattern, IsModuleName, IsSequence
<1>5. Len(name) \in Nat
  BY <1>4, LenProperties DEF IsSequence
<1>6. PICK f : AreFits(f, all, name)
  BY <1>4, FitsAreSolved
<1>7. f[0] = {0} /\ f[1] = Fitted({0}, GlobStar, name)
  <2>1. f[0] = {0} /\ f[1] = Fitted(f[1 - 1], all[1], name)
    BY <1>1, <1>6 DEF AreFits
  <2>2. 1 - 1 = 0
    OBVIOUS
  <2> QED
    BY <1>1, <2>1, <2>2
<1>8. Len(name) \in f[1]
  BY <1>5, <1>7 DEF Fitted
<1>9. Selects(all, name)
  BY <1>1, <1>3, <1>4, <1>6, <1>8, SelectsByFits
<1> QED
  BY <1>4, <1>9 DEF all

LEMMA TwoSegmentsSelect ==
  ASSUME NEW N, NEW name, IsModuleName(name), ToSet(name) \subseteq N
  PROVE  /\ IsPattern(<<Glob(N), Glob(N), GlobStar>>)
         /\ Selects(<<Glob(N), Glob(N), GlobStar>>, name) <=> Len(name) > 1
<1> DEFINE deep == <<Glob(N), Glob(N), GlobStar>>
<1>1. /\ deep \in Seq({Glob(N), GlobStar}) /\ Len(deep) = 3 /\ DOMAIN deep = 1 .. 3 /\ deep # <<>>
      /\ deep[1] = Glob(N) /\ deep[2] = Glob(N) /\ deep[3] = GlobStar
  OBVIOUS
<1>2. ToSet(deep) = {Glob(N), GlobStar}
  BY <1>1 DEF ToSet
<1>3. Glob(N).names = N /\ Glob(N) # GlobStar /\ Glob(N).kind # "literal"
  BY DEF Glob, GlobStar
<1>4. ~IsLiteral(deep)
  BY <1>1, <1>3 DEF IsLiteral
<1> HIDE DEF deep
<1>5. IsPattern(deep) /\ IsSequence(deep) /\ IsSequence(name) /\ name \in Seq(ToSet(name)) /\ name # <<>>
  <2>1. \A part \in ToSet(deep) : part = GlobStar \/ part = Glob(part.names)
    BY <1>2, <1>3
  <2>2. deep \in Seq(ToSet(deep))
    BY <1>1, <1>2
  <2> QED
    BY <1>1, <2>1, <2>2 DEF IsPattern, IsModuleName, IsSequence
<1>6. Len(name) \in Nat \ {0} /\ \A j \in 1 .. Len(name) : name[j] \in N
  <2>1. Len(name) \in Nat \ {0}
    BY <1>5, EmptySequence
  <2>2. \A j \in 1 .. Len(name) : name[j] \in ToSet(name)
    BY <1>5, ElementOfSeq
  <2> QED
    BY <2>1, <2>2
<1>7. PICK f : AreFits(f, deep, name)
  BY <1>5, FitsAreSolved
<1>8. /\ f[0] = {0} /\ f[1] = Fitted(f[0], Glob(N), name)
      /\ f[2] = Fitted(f[1], Glob(N), name) /\ f[3] = Fitted(f[2], GlobStar, name)
  <2>1. f[0] = {0} /\ \A k \in 1 .. 3 : f[k] = Fitted(f[k - 1], deep[k], name)
    BY <1>1, <1>7 DEF AreFits
  <2>2. 1 - 1 = 0 /\ 2 - 1 = 1 /\ 3 - 1 = 2 /\ 1 \in 1 .. 3 /\ 2 \in 1 .. 3 /\ 3 \in 1 .. 3
    OBVIOUS
  <2> QED
    BY <1>1, <2>1, <2>2
<1>9. \A S : Fitted(S, Glob(N), name) = {j \in 1 .. Len(name) : j - 1 \in S}
  BY <1>3, <1>6 DEF Fitted
<1>10. f[1] = {1}
  BY <1>6, <1>8, <1>9
<1>11. \A j : j \in f[2] <=> j = 2 /\ Len(name) > 1
  BY <1>6, <1>8, <1>9, <1>10
<1>12. Len(name) \in f[3] <=> Len(name) > 1
  BY <1>6, <1>8, <1>11 DEF Fitted
<1>13. Selects(deep, name) <=> Len(name) > 1
  BY <1>1, <1>4, <1>5, <1>7, <1>12, SelectsByFits
<1> QED
  BY <1>5, <1>13 DEF deep

(* Limits of nothing and of one agree with rules that need none            *)
(* (query.py:163-195, 275-432).                                            *)
LEMMA LimitsAgreeAlways ==
  ASSUME IsGraph(G), \A m \in nodes : IsModuleName(m), NEW p
  PROVE  LimitsAgree(p)
<1> DEFINE M == Matching(p, nodes)
           all == <<GlobStar>>
           N == UNION {ToSet(m) : m \in nodes}
           star == Glob(N)
           deep == <<star, star, GlobStar>>
<1>1. G.nodes = nodes /\ G.edges = edges /\ M \subseteq nodes
  BY MatchingSelects DEF G
<1>2. edges \subseteq nodes \X nodes /\ \A e \in edges : e = <<e[1], e[2]>> /\ e[1] \in nodes /\ e[2] \in nodes
  BY <1>1 DEF IsGraph
<1>3. Matching(all, nodes) = nodes
  <2>1. \A m \in nodes : IsPattern(all) /\ Selects(all, m)
    BY GlobStarSelects
  <2>2. CASE nodes = {}
    BY <2>2, MatchingSelects
  <2>3. CASE nodes # {}
    <3>1. Matching(all, nodes) = {m \in nodes : Selects(all, m)}
      BY <2>1, <2>3, PatternsSelect
    <3> QED
      BY <2>1, <3>1
  <2> QED
    BY <2>2, <2>3
<1>4. \A m \in nodes : m \in Matching(deep, nodes) <=> Len(m) > 1
  <2>1. \A m \in nodes : ToSet(m) \subseteq N
    OBVIOUS
  <2> HIDE DEF N
  <2>2. \A m \in nodes : IsPattern(deep) /\ (Selects(deep, m) <=> Len(m) > 1)
    BY <2>1, TwoSegmentsSelect
  <2>3. ASSUME NEW k \in nodes PROVE Matching(deep, nodes) = {m \in nodes : Selects(deep, m)}
    BY <2>2, <2>3, PatternsSelect
  <2> QED
    BY <2>2, <2>3
<1> HIDE DEF M, all, deep
<1>5. ASSUME NEW m
      PROVE  /\ Cardinality(Successors(G, m)) > 0 <=> \E e \in edges : e[1] = m
             /\ Cardinality(Predecessors(G, m)) > 0 <=> \E e \in edges : e[2] = m
  <2>1. Successors(G, m) \subseteq nodes /\ Predecessors(G, m) \subseteq nodes
    BY <1>1, <1>2 DEF Successors, Predecessors
  <2>2. IsFiniteSet(Successors(G, m)) /\ IsFiniteSet(Predecessors(G, m))
    BY <1>1, <2>1, FS_Subset DEF IsGraph
  <2>3. /\ Successors(G, m) # {} <=> \E e \in edges : e[1] = m
        /\ Predecessors(G, m) # {} <=> \E e \in edges : e[2] = m
    BY <1>1 DEF Successors, Predecessors
  <2>4. \A S : IsFiniteSet(S) => (Cardinality(S) > 0 <=> S # {})
    BY FS_CardinalityType, FS_EmptySet
  <2> QED
    BY <2>2, <2>3, <2>4
<1>6. FanOutAtMost(G, p, 0).violations = {e[1] : e \in MustOnlyImportFrom(G, p, {}).violations}
  <2>1. \A m : m \in FanOutAtMost(G, p, 0).violations <=> m \in M /\ \E e \in edges : e[1] = m
    BY <1>1, <1>5 DEF FanOutAtMost, Found, M
  <2>2. \A e : e \in MustOnlyImportFrom(G, p, {}).violations <=> e \in edges /\ e[1] \in M
    BY <1>1 DEF MustOnlyImportFrom, Found, M
  <2> QED
    BY <2>1, <2>2
<1>7. FanInAtMost(G, p, 0).violations = {e[2] : e \in MustNotImport(G, all, p).violations}
  <2>1. \A m : m \in FanInAtMost(G, p, 0).violations <=> m \in M /\ \E e \in edges : e[2] = m
    BY <1>1, <1>5 DEF FanInAtMost, Found, M
  <2>2. \A e : e \in MustNotImport(G, all, p).violations <=> e \in edges /\ e[2] \in M
    BY <1>1, <1>2, <1>3 DEF MustNotImport, Found, M
  <2> QED
    BY <2>1, <2>2
<1>8. MaxDepth(G, p, 1).violations = MustNotImport(G, p, deep).violations
  <2>1. \A e : e \in MaxDepth(G, p, 1).violations <=> e \in edges /\ e[1] \in M /\ Len(e[2]) > 1
    BY <1>1 DEF MaxDepth, Found, M
  <2>2. \A e : e \in MustNotImport(G, p, deep).violations <=>
          e \in edges /\ e[1] \in M /\ e[2] \in Matching(deep, nodes)
    BY <1>1, <1>2 DEF MustNotImport, Found, M
  <2> QED
    BY <1>2, <1>4, <2>1, <2>2
<1> QED
  BY <1>6, <1>7, <1>8 DEF LimitsAgree, all, deep

-----------------------------------------------------------------------------
(* A literal pattern selects a name and all below it.                      *)
LEMMA SequencesAreNames ==
  ASSUME NEW s, IsSequence(s), s # <<>>
  PROVE  IsModuleName(s)
<1>1. PICK S : s \in Seq(S)
  BY DEF IsSequence
<1>2. Len(s) \in Nat /\ s \in [1 .. Len(s) -> S]
  BY <1>1, LenProperties
<1>3. s \in [1 .. Len(s) -> ToSet(s)]
  <2>1. ToSet(s) = {s[i] : i \in 1 .. Len(s)}
    BY <1>2 DEF ToSet
  <2> QED
    BY <1>2, <2>1
<1>4. s \in Seq(ToSet(s))
  <2> DEFINE T == ToSet(s)
  <2>1. s \in [1 .. Len(s) -> T]
    BY <1>3
  <2> HIDE DEF T
  <2>2. s \in Seq(T)
    BY <1>2, <2>1, SeqDef
  <2> QED
    BY <2>2 DEF T
<1> QED
  BY <1>4 DEF IsModuleName

LEMMA LiteralSelects ==
  ASSUME NEW pattern, IsPattern(pattern), IsLiteral(pattern), NEW ms,
         \A m \in ms : IsSequence(m) /\ m # <<>>
  PROVE  \A m \in ms : m \in Matching(pattern, ms) <=> Begins(m, pattern)
<1>1. \A m \in ms : IsModuleName(m)
  BY SequencesAreNames
<1>2. Matching(pattern, ms) = {m \in ms : Selects(pattern, m)}
  BY <1>1, PatternsSelect
<1>3. IsSequence(pattern)
  BY DEF IsPattern, IsSequence
<1>4. ASSUME NEW m \in ms PROVE Selects(pattern, m) <=> Begins(m, pattern)
  <2>1. PICK f : AreFits(f, pattern, m)
    BY <1>3, FitsAreSolved
  <2>2. f[Len(pattern)] # {} <=> Begins(m, pattern)
    BY <1>3, <2>1, LiteralFits
  <2> QED
    BY <1>3, <2>1, <2>2, SelectsByFits
<1> QED
  BY <1>2, <1>4

(* The one name that a literal pattern is.                                 *)
LEMMA LiteralIsName ==
  ASSUME NEW pattern, IsPattern(pattern), IsLiteral(pattern),
         NEW m, IsSequence(m), Len(m) = Len(pattern), Begins(m, pattern),
         NEW k, IsSequence(k)
  PROVE  IsPrefix(m, k) <=> Begins(k, pattern)
<1>1. pattern \in Seq(ToSet(pattern))
  BY DEF IsPattern
<1>2. Len(pattern) \in Nat /\ DOMAIN pattern = 1 .. Len(pattern)
  BY <1>1, LenProperties
<1>3. \A i \in 1 .. Len(pattern) : m[i] \in pattern[i].names
  BY DEF Begins
<1>4. ASSUME NEW i \in 1 .. Len(pattern) PROVE pattern[i].names = {m[i]}
  <2>1. pattern[i] \in ToSet(pattern)
    BY <1>1, ElementOfSeq
  <2>2. pattern[i].kind = "literal"
    BY <1>2 DEF IsLiteral
  <2>3. \E name \in pattern[i].names : pattern[i] = Literal(name)
    <3>1. GlobStar.kind # "literal" /\ \A N : Glob(N).kind # "literal"
      BY DEF GlobStar, Glob
    <3> QED
      BY <2>1, <2>2, <3>1 DEF IsPattern
  <2> QED
    BY <1>3, <2>3 DEF Literal
<1>5. IsPrefix(m, k) <=> Len(pattern) <= Len(k) /\ \A i \in 1 .. Len(pattern) : m[i] = k[i]
  BY PrefixIsCut
<1> QED
  BY <1>4, <1>5 DEF Begins

(* The names of modules and of the packages above them are sequences, and  *)
(* so is what is left of one, and one of them, without its last segment.   *)
LEMMA NamesAreImplied ==
  ASSUME \A m \in nodes : IsSequence(m) /\ m # <<>>, NEW m \in ImpliedNames(G)
  PROVE  /\ IsSequence(m) /\ m # <<>>
         /\ Len(m) > 1 => /\ Front(m) \in ImpliedNames(G) /\ IsSequence(Front(m))
                          /\ Len(Front(m)) = Len(m) - 1
                          /\ \A i \in 1 .. Len(m) - 1 : Front(m)[i] = m[i]
<1>1. PICK k \in nodes : m \in Prefixes(k) /\ m # <<>>
  BY DEF ImpliedNames, G
<1>2. PICK l \in 0 .. Len(k) : m = SubSeq(k, 1, l)
  BY <1>1 DEF Prefixes
<1>3. IsSequence(k) /\ Len(k) \in Nat
  BY EmptySequence
<1>4. 1 \in 1 .. Len(k) + 1 /\ l \in 1 - 1 .. Len(k) /\ l - 1 + 1 = l
      /\ \A i \in 1 .. l : 1 + i - 1 = i
  BY <1>3
<1>5. IsSequence(m) /\ Len(m) = l /\ \A i \in 1 .. l : m[i] = k[i]
  <2>1. /\ IsSequence(SubSeq(k, 1, l)) /\ Len(SubSeq(k, 1, l)) = l - 1 + 1
        /\ \A i \in 1 .. l - 1 + 1 : SubSeq(k, 1, l)[i] = k[1 + i - 1]
    BY <1>3, <1>4, SubSeqIsSequence
  <2> QED
    BY <1>2, <1>4, <2>1
<1>6. ASSUME l > 1
      PROVE  /\ Front(m) \in ImpliedNames(G) /\ IsSequence(Front(m))
             /\ Len(Front(m)) = l - 1
             /\ \A i \in 1 .. l - 1 : Front(m)[i] = m[i]
  <2> DEFINE u == SubSeq(m, 1, l - 1)
  <2>1. 1 \in 1 .. Len(m) + 1 /\ l - 1 \in 1 - 1 .. Len(m) /\ l - 1 - 1 + 1 = l - 1
        /\ \A i \in 1 .. l - 1 : 1 + i - 1 = i
    BY <1>5, <1>6
  <2>2. /\ IsSequence(u) /\ Len(u) = l - 1 - 1 + 1
        /\ \A i \in 1 .. l - 1 - 1 + 1 : u[i] = m[1 + i - 1]
    BY <1>5, <2>1, SubSeqIsSequence
  <2>3. Front(m) = u
    BY <1>5 DEF Front
  <2> HIDE DEF u
  <2>4. IsSequence(u) /\ Len(u) = l - 1 /\ \A i \in 1 .. l - 1 : u[i] = m[i]
    BY <2>1, <2>2
  <2>5. Len(u) <= Len(k) /\ \A i \in 1 .. Len(u) : u[i] = k[i]
    BY <1>3, <1>5, <2>4
  <2>6. u \in Prefixes(k)
    <3>1. IsPrefix(u, k)
      BY <1>3, <2>4, <2>5, PrefixIsCut
    <3> QED
      BY <1>3, <2>4, <3>1, PrefixIsPrefix
  <2>7. u # <<>>
    BY <1>6, <2>4, EmptySequence
  <2>8. u \in ImpliedNames(G)
    BY <2>6, <2>7 DEF ImpliedNames, G
  <2> QED
    BY <2>3, <2>4, <2>8
<1>7. ASSUME Len(m) > 1
      PROVE  /\ Front(m) \in ImpliedNames(G) /\ IsSequence(Front(m))
             /\ Len(Front(m)) = Len(m) - 1
             /\ \A i \in 1 .. Len(m) - 1 : Front(m)[i] = m[i]
  <2>1. l > 1 /\ l = Len(m)
    BY <1>5, <1>7
  <2> QED
    BY <1>6, <2>1
<1> QED
  BY <1>1, <1>5, <1>7

(* A package with an empty __all__ can be imported from outside as itself  *)
(* only, one that declares all that is in it as anything                   *)
(* (public_api.py:108-185).                                                *)
LEMMA PublicApiAgreesAlways ==
  ASSUME IsGraph(G), \A m \in nodes : IsSequence(m) /\ m # <<>>, NEW p, IsPattern(p)
  PROVE  PublicApiAgrees(p)
<1> DEFINE packages == Packages(G, p)
           children(m) == {n[Len(m) + 1] : n \in {k \in nodes : IsStrictPrefix(m, k)}}
           empty == PublicApi(G, p, [m \in packages |-> {}])
<1>1. G.nodes = nodes /\ G.edges = edges
      /\ \A e \in edges : e[1] \in nodes /\ e[2] \in nodes /\ e = <<e[1], e[2]>>
  BY DEF G, IsGraph
<1>2. Passes(PublicApi(G, p, [m \in packages |-> children(m)]))
  <2> DEFINE all == [m \in packages |-> children(m)]
  <2>1. ASSUME NEW m \in packages, NEW k \in nodes, IsStrictPrefix(m, k)
        PROVE  k[Len(m) + 1] \in all[m]
    BY <2>1
  <2> HIDE DEF all
  <2>2. PublicApi(G, p, all).violations = {}
    BY <1>1, <2>1 DEF PublicApi
  <2> QED
    BY <2>2 DEF Passes, all
<1>3. \A em : em \in empty.violations <=>
        /\ em \in edges \X packages
        /\ ~IsPrefix(em[2], em[1][1]) /\ IsStrictPrefix(em[2], em[1][2])
  BY <1>1 DEF PublicApi
<1> HIDE DEF empty
<1>4. ASSUME IsLiteral(p), packages # {}
      PROVE  {em[1] : em \in empty.violations}
               = Deprecated(G, p).violations \ {e \in edges : e[2] \in packages}
  <2> DEFINE M == Matching(p, nodes)
             implied == ImpliedNames(G)
             matched == Matching(p, implied)
  <2>1. \A m \in nodes : m \in M <=> Begins(m, p)
    BY <1>4, LiteralSelects
  <2>2. \A m \in implied : IsSequence(m) /\ m # <<>>
    BY NamesAreImplied
  <2>3. \A m \in implied : m \in matched <=> Begins(m, p)
    <3> HIDE DEF implied
    <3> QED
      BY <1>4, <2>2, LiteralSelects
  <2>4. Len(p) \in Nat \ {0}
    BY EmptySequence DEF IsPattern, IsSequence
  <2>5. ASSUME NEW m \in packages
        PROVE  IsSequence(m) /\ Len(m) = Len(p) /\ Begins(m, p)
    <3>1. m \in matched /\ Front(m) \notin matched /\ m \in implied
      BY MatchingSelects DEF Packages, ApiRoots
    <3>2. IsSequence(m) /\ Begins(m, p) /\ Len(m) \in Nat
      BY <2>2, <2>3, <3>1, EmptySequence
    <3>3. Len(p) <= Len(m)
      BY <3>2 DEF Begins
    <3>4. ASSUME Len(m) > Len(p) PROVE FALSE
      <4>1. Len(m) > 1 /\ Len(p) <= Len(m) - 1 /\ \A i \in 1 .. Len(p) : i \in 1 .. Len(m) - 1
        BY <2>4, <3>2, <3>4
      <4>2. /\ Front(m) \in implied /\ Len(Front(m)) = Len(m) - 1
            /\ \A i \in 1 .. Len(m) - 1 : Front(m)[i] = m[i]
        BY <3>1, <4>1, NamesAreImplied
      <4>3. Begins(Front(m), p)
        BY <3>2, <4>1, <4>2 DEF Begins
      <4> QED
        BY <2>3, <3>1, <4>2, <4>3
    <3> QED
      BY <2>4, <3>2, <3>3, <3>4
  <2>6. PICK P \in packages : TRUE
    BY <1>4
  <2> HIDE DEF packages, M, implied, matched
  <2>7. \A m \in nodes : IsPrefix(P, m) <=> m \in M
    BY <1>4, <2>1, <2>5, LiteralIsName
  <2>8. packages = {P}
    <3>1. ASSUME NEW m \in packages PROVE m = P
      <4>1. IsPrefix(P, m)
        BY <1>4, <2>5, LiteralIsName
      <4>2. \A i \in 1 .. Len(P) : P[i] = m[i]
        BY <2>5, <4>1, PrefixIsCut
      <4> QED
        BY <2>5, <4>2, SameSequence
    <3> QED
      BY <3>1
  <2>9. \A e : e \in Deprecated(G, p).violations <=> e \in edges /\ e[1] \notin M /\ e[2] \in M
    BY <1>1 DEF Deprecated, Found, M
  <2>10. \A e \in edges : ~IsPrefix(P, e[1]) /\ IsStrictPrefix(P, e[2])
                            <=> e[1] \notin M /\ e[2] \in M /\ e[2] # P
    BY <1>1, <2>7 DEF IsStrictPrefix
  <2>11. \A em : em \in empty.violations <=>
           /\ em \in edges \X {P}
           /\ em[1][1] \notin M /\ em[1][2] \in M /\ em[1][2] # P
    BY <1>3, <2>8, <2>10
  <2>12. ASSUME NEW e
         PROVE  e \in {em[1] : em \in empty.violations}
                  <=> e \in edges /\ e[1] \notin M /\ e[2] \in M /\ e[2] # P
    <3>1. ASSUME e \in edges, e[1] \notin M, e[2] \in M, e[2] # P
          PROVE  e \in {em[1] : em \in empty.violations}
      <4>1. <<e, P>> \in empty.violations
        BY <2>11, <3>1
      <4> QED
        BY <4>1
    <3> QED
      BY <2>11, <3>1
  <2> QED
    BY <2>8, <2>9, <2>12
<1> QED
  BY <1>2, <1>4 DEF PublicApiAgrees, empty

-----------------------------------------------------------------------------
(* What RulesAgree says of limits, boundaries, interfaces, naming rules    *)
(* and located files holds in the graph of every project and for every     *)
(* pattern (query.py:163-432, boundaries.py:35-79, public_api.py:108-185,  *)
(* naming.py:20-48).                                                       *)
THEOREM RulesAgreeAlways == Spec => []RulesAgree
<1>1. ASSUME GraphAsRead PROVE RulesAgree
  <2>1. project \in Projects
    BY <1>1 DEF GraphAsRead
  <2>2. IsGraph(G) /\ \A m \in nodes : IsSequence(m) /\ m # <<>> /\ IsModuleName(m)
    BY <1>1, GraphIsTyped, SequencesAreNames DEF G, IsGraph
  <2>3. \A p \in Patterns : IsPattern(p)
    BY QueriesAssumption
  <2>4. LocationsAgree
    BY <2>1, LocationsAgreeAlways
  <2>5. \A p \in Patterns : PublicApiAgrees(p) /\ NamingAgrees(p) /\ LimitsAgree(p)
    BY <2>1, <2>2, <2>3, PublicApiAgreesAlways, NamingAgreesAlways, LimitsAgreeAlways
  <2>6. \A p, q : /\ AreOrdered(G, <<q, p>>).violations = MustNotImport(G, p, q).violations
                  /\ DependenciesAgree(p, q) /\ BoundariesHold(p, q)
    BY <2>2, TwoLayersAreOrdered, DependenciesAgreeAlways, BoundariesHoldAlways
  <2> QED
    BY <2>4, <2>5, <2>6 DEF RulesAgree
<1> QED
  BY <1>1, GraphInvariant, PTL
=============================================================================
