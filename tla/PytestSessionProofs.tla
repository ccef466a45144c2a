------------------------ MODULE PytestSessionProofs -------------------------
(***************************************************************************)
(* Proofs about PytestSession, for any number of files, any scripts in     *)
(* which a use of the pack comes after an import of it, and any pack.      *)
(***************************************************************************)
EXTENDS PytestSession, Integers, SequenceTheorems, TLAPS

-----------------------------------------------------------------------------
(* Appending to a sequence.                                                *)
LEMMA Extended ==
  ASSUME NEW S, NEW T, S \subseteq T, NEW s \in Seq(S), NEW x \in T
  PROVE  /\ Append(s, x) \in Seq(T) /\ Len(Append(s, x)) = Len(s) + 1 /\ Len(s) \in Nat
         /\ Append(s, x)[Len(s) + 1] = x
         /\ \A i \in 1 .. Len(s) : Append(s, x)[i] = s[i]
         /\ Len(s) = 0 => Append(s, x) = <<x>>
<1>1. s \in Seq(T) /\ Len(s) \in Nat
  OBVIOUS
<1>2. ASSUME Len(s) = 0 PROVE Append(s, x) = <<x>>
  <2>1. s = <<>>
    BY <1>2, EmptySeq
  <2> QED
    BY <2>1
<1> QED
  BY <1>1, <1>2


-----------------------------------------------------------------------------
(* The ranges of the sequences that the actions make.                      *)
LEMMA RangeOfAppend ==
  ASSUME NEW S, NEW s \in Seq(S), NEW x \in S
  PROVE  Range(Append(s, x)) = Range(s) \cup {x}
<1>1. /\ Append(s, x) \in Seq(S) /\ Len(Append(s, x)) = Len(s) + 1 /\ Len(s) \in Nat
      /\ Append(s, x)[Len(s) + 1] = x
      /\ \A i \in 1 .. Len(s) : Append(s, x)[i] = s[i]
  BY Extended
<1> DEFINE t == Append(s, x)
<1>2. DOMAIN t = 1 .. Len(s) + 1 /\ DOMAIN s = 1 .. Len(s)
  BY <1>1
<1> HIDE DEF t
<1>3. /\ \A i \in DOMAIN t : t[i] = x \/ (i \in DOMAIN s /\ t[i] = s[i])
      /\ \A i \in DOMAIN s : i \in DOMAIN t /\ t[i] = s[i]
      /\ Len(s) + 1 \in DOMAIN t /\ t[Len(s) + 1] = x
  BY <1>1, <1>2 DEF t
<1>4. Range(t) = Range(s) \cup {x}
  BY <1>3 DEF Range
<1> QED
  BY <1>4 DEF t

LEMMA RangeOfHeadAndTail ==
  ASSUME NEW S, NEW s \in Seq(S), s # <<>>
  PROVE  /\ Head(s) \in S /\ Tail(s) \in Seq(S)
         /\ Range(s) = Range(Tail(s)) \cup {Head(s)}
<1> DEFINE t == Tail(s)
<1>1. /\ t \in Seq(S) /\ Len(t) = Len(s) - 1 /\ Len(s) \in Nat /\ Len(s) > 0
      /\ \A i \in 1 .. Len(t) : t[i] = s[i + 1]
      /\ Head(s) = s[1] /\ Head(s) \in S
      /\ DOMAIN s = 1 .. Len(s)
  BY EmptySeq, HeadTailProperties
<1>2. DOMAIN t = 1 .. Len(t)
  BY <1>1
<1> HIDE DEF t
<1>3. /\ \A i \in DOMAIN t : i + 1 \in DOMAIN s /\ t[i] = s[i + 1]
      /\ 1 \in DOMAIN s
      /\ \A i \in DOMAIN s : i = 1 \/ (i - 1 \in DOMAIN t /\ t[i - 1] = s[i])
  BY <1>1, <1>2
<1>4. ASSUME NEW x \in Range(s) PROVE x \in Range(t) \cup {Head(s)}
  <2>1. PICK i \in DOMAIN s : s[i] = x
    BY DEF Range
  <2>2. CASE i = 1
    BY <1>1, <2>1, <2>2
  <2>3. CASE i - 1 \in DOMAIN t /\ t[i - 1] = s[i]
    BY <2>1, <2>3 DEF Range
  <2> QED
    BY <1>3, <2>2, <2>3
<1>5. ASSUME NEW x \in Range(t) PROVE x \in Range(s)
  <2>1. PICK i \in DOMAIN t : t[i] = x
    BY DEF Range
  <2> QED
    BY <1>3, <2>1 DEF Range
<1>6. Head(s) \in Range(s)
  BY <1>1, <1>3 DEF Range
<1> QED
  BY <1>1, <1>4, <1>5, <1>6 DEF t

LEMMA RangeOfEmpty == Range(<<>>) = {}
  BY DEF Range

LEMMA RangeInSet ==
  ASSUME NEW S, NEW s \in Seq(S)
  PROVE  Range(s) \subseteq S
  BY DEF Range

-----------------------------------------------------------------------------
(* The functions of the pack.                                              *)
LEMMA PackFunctions ==
  /\ PackRules \in Seq(Function)
  /\ \A fn \in Range(PackRules) : fn.of = "pack"
  /\ ~Conflict(Range(PackRules))
<1>1. Pack \in Seq(Names) /\ IsInjective(Pack)
  BY ScriptAssumption
<1>2. /\ DOMAIN Pack = 1 .. Len(Pack) /\ Len(Pack) \in Nat
      /\ \A i \in DOMAIN Pack : Pack[i] \in Names
      /\ \A i, j \in DOMAIN Pack : Pack[i] = Pack[j] => i = j
  BY <1>1 DEF IsInjective
<1>3. /\ DOMAIN PackRules = DOMAIN Pack
      /\ \A i \in DOMAIN Pack :
           /\ PackRules[i] \in Function
           /\ PackRules[i].name = Pack[i] /\ PackRules[i].of = "pack"
  BY <1>2 DEF PackRules, Function
<1>4. PackRules \in Seq(Function)
  BY <1>2, <1>3 DEF PackRules
<1>5. \A fn \in Range(PackRules) : \E i \in DOMAIN Pack : fn = PackRules[i]
  BY <1>3 DEF Range
<1>6. \A fn \in Range(PackRules) : fn.of = "pack"
  BY <1>3, <1>5
<1>7. ~Conflict(Range(PackRules))
  BY <1>2, <1>3, <1>5 DEF Conflict
<1> QED
  BY <1>4, <1>6, <1>7

(* The statements of a file.                                               *)
LEMMA ScriptOfFile ==
  ASSUME TypeOK, NEW f \in Files
  PROVE  /\ Len(script[f]) \in Nat /\ DOMAIN script[f] = 1 .. Len(script[f])
         /\ Uses(f) => Imports(f)
         /\ \A i \in 1 .. Len(script[f]) :
              script[f][i].op = "rule" => OwnFunction(f, i) \in Function /\ i \in Statements(f, "rule")
<1>1. /\ script[f] \in Seq(Statement)
      /\ \A i \in DOMAIN script[f] : script[f][i].op = "use" =>
           \E j \in 1 .. i : script[f][j].op = "import"
  BY ScriptAssumption DEF TypeOK
<1>2. Len(script[f]) \in Nat /\ DOMAIN script[f] = 1 .. Len(script[f])
  BY <1>1
<1>3. ASSUME Uses(f) PROVE Imports(f)
  <2>1. PICK i \in DOMAIN script[f] : script[f][i].op = "use"
    BY <1>3 DEF Uses, Statements
  <2>2. PICK j \in 1 .. i : script[f][j].op = "import"
    BY <1>1, <2>1
  <2>3. j \in DOMAIN script[f]
    BY <1>2, <2>1
  <2> QED
    BY <2>2, <2>3 DEF Imports, Statements
<1>4. ASSUME NEW i \in 1 .. Len(script[f]), script[f][i].op = "rule"
      PROVE  OwnFunction(f, i) \in Function /\ i \in Statements(f, "rule")
  <2>1. script[f][i] \in Statement
    BY <1>1, <1>2
  <2>2. script[f][i].name \in Names
    BY <1>4, <2>1 DEF Statement
  <2> QED
    BY <1>2, <1>4, <2>2 DEF OwnFunction, Function, Statements
<1> QED
  BY <1>2, <1>3, <1>4

(* What a file may register, and what of it conflicts.                     *)
LEMMA RulesOfFile ==
  ASSUME TypeOK, NEW f \in Files
  PROVE  /\ Declared(f) \subseteq MayRegister(f)
         /\ MayRegister(f) \subseteq Function
         /\ Uses(f) \/ ~Imports(f) => Declared(f) = MayRegister(f)
<1>1. OwnRules(f) \subseteq Function
  BY ScriptOfFile DEF OwnRules, Statements
<1>2. Range(PackRules) \subseteq Function
  BY PackFunctions, RangeInSet
<1> QED
  BY <1>1, <1>2, ScriptOfFile DEF Declared, MayRegister

-----------------------------------------------------------------------------
(* Scripts do not change, nor what is said of them.                        *)
LEMMA SameScripts ==
  ASSUME script' = script, NEW f
  PROVE  /\ (Declared(f))' = Declared(f) /\ (MayRegister(f))' = MayRegister(f)
         /\ (Uses(f))' = Uses(f) /\ (Imports(f))' = Imports(f)
         /\ \A i : (OwnFunction(f, i))' = OwnFunction(f, i)
  BY DEF Declared, MayRegister, Uses, Imports, OwnRules, Statements, OwnFunction, PackRules, Range

(* A step that collects no file and yields no item keeps what is said of   *)
(* the files collected.                                                    *)
LEMMA SameItems ==
  ASSUME SessionInv, UNCHANGED <<script, items>>, Collected' = Collected
  PROVE  /\ OneItemPerRule'
         /\ \A f \in Collected' : ~Conflict((Declared(f))')
         /\ \A i \in DOMAIN items' : items'[i].file \in Collected'
<1>1. \A f : /\ (Declared(f))' = Declared(f)
             /\ (Uses(f))' = Uses(f) /\ (Imports(f))' = Imports(f)
  BY SameScripts
<1>2. \A f : (ItemsOf(f))' = ItemsOf(f)
  BY DEF ItemsOf
<1>3. OneItemPerRule'
  BY <1>1, <1>2 DEF SessionInv, OneItemPerRule
<1>4. \A f \in Collected' : ~Conflict((Declared(f))')
  BY <1>1 DEF SessionInv, RefusedForConflict
<1> QED
  BY <1>3, <1>4 DEF SessionInv

(* The file goes on to a statement that registers these functions.         *)
LEMMA Executed ==
  ASSUME SessionInv, NEW f \in Files, current = f, queue = <<>>, line < Len(script[f]),
         NEW functions \in Seq(Function), Range(functions) \subseteq MayRegister(f),
         script[f][line + 1].op = "rule" => OwnFunction(f, line + 1) \in Range(functions),
         script[f][line + 1].op = "use" => Range(PackRules) \subseteq Range(functions),
         line' = line + 1, queue' = functions, imported' \in BOOLEAN,
         UNCHANGED <<script, waiting, current, registry, graph, items, broken, ran>>
  PROVE  SessionInv'
<1>1. TypeOK'
  BY DEF SessionInv, TypeOK
<1>2. Reached = Range(registry) /\ Reached' = Range(registry) \cup Range(functions)
  BY RangeOfEmpty DEF Reached
<1>3. CollectInv(f) /\ line \in Nat /\ Len(script[f]) \in Nat
  BY ScriptOfFile DEF SessionInv, TypeOK
<1>4. (CollectInv(f))'
  <2>1. (MayRegister(f))' = MayRegister(f) /\ \A i : (OwnFunction(f, i))' = OwnFunction(f, i)
    BY SameScripts
  <2>2. line' \in 0 .. Len(script'[f]) /\ 1 .. line' = (1 .. line) \cup {line + 1}
    BY <1>3
  <2>3. \A i \in 1 .. line' : i \in 1 .. line \/ i = line + 1
    BY <2>2
  <2>4. \A i \in 1 .. line' : script'[f][i].op = "rule" => (OwnFunction(f, i))' \in Reached'
    BY <1>2, <1>3, <2>1, <2>3 DEF CollectInv
  <2>5. \A i \in 1 .. line' : script'[f][i].op = "use" => Range(PackRules) \subseteq Reached'
    BY <1>2, <1>3, <2>3 DEF CollectInv
  <2>6. Reached' \subseteq (MayRegister(f))'
    BY <1>2, <1>3, <2>1 DEF CollectInv
  <2>7. \A i, j \in DOMAIN registry' : registry'[i].name = registry'[j].name => i = j
    BY <1>3 DEF CollectInv
  <2> QED
    BY <2>2, <2>4, <2>5, <2>6, <2>7 DEF CollectInv
<1>5. Collected' = Collected
  BY DEF Collected
<1>6. /\ OneItemPerRule' /\ \A i \in DOMAIN items' : items'[i].file \in Collected'
      /\ \A g \in Collected' : ~Conflict((Declared(g))')
  BY <1>5, SameItems
<1>7. RefusedForConflict'
  BY <1>6, SameScripts DEF SessionInv, RefusedForConflict
<1>8. current' # NoFile
  BY ScriptAssumption
<1> QED
  BY <1>1, <1>4, <1>6, <1>7, <1>8 DEF SessionInv

(* A function that is refused conflicts with one of the same file.         *)
LEMMA RefusedConflicts ==
  ASSUME SessionInv, Refuse
  PROVE  current \in Files /\ Conflict(MayRegister(current))
<1>1. current \in Files /\ CollectInv(current)
  BY DEF SessionInv, TypeOK, Refuse
<1>2. Head(queue) \in Reached
  BY RangeOfHeadAndTail DEF SessionInv, TypeOK, Refuse, Reached
<1>3. PICK other \in Range(registry) : Head(queue) # other /\ Head(queue).name = other.name
  BY DEF Refuse, Clashes
<1>4. other \in Reached
  BY <1>3 DEF Reached
<1> QED
  BY <1>1, <1>2, <1>3, <1>4 DEF CollectInv, Conflict

(* When a file has run, what is registered is what it declares, but for a  *)
(* mere import of the pack.                                                *)
LEMMA RegistersDeclared ==
  ASSUME SessionInv, NEW f \in Files, current = f, queue = <<>>, line = Len(script[f])
  PROVE  /\ Declared(f) \subseteq Range(registry) /\ Range(registry) \subseteq MayRegister(f)
         /\ ~Conflict(Range(registry))
         /\ \A i, j \in DOMAIN registry : registry[i] = registry[j] => i = j
<1>1. CollectInv(f) /\ Reached = Range(registry)
  BY RangeOfEmpty DEF SessionInv, Reached
<1>2. DOMAIN script[f] = 1 .. line
  BY ScriptOfFile DEF SessionInv
<1>3. OwnRules(f) \subseteq Range(registry)
  BY <1>1, <1>2 DEF CollectInv, OwnRules, Statements
<1>4. Uses(f) => Range(PackRules) \subseteq Range(registry)
  BY <1>1, <1>2 DEF CollectInv, Uses, Statements
<1>5. ~Conflict(Range(registry))
  BY <1>1 DEF CollectInv, Conflict, Range
<1> QED
  BY <1>1, <1>3, <1>4, <1>5 DEF CollectInv, Declared

(* The items of each file once one is collected.                           *)
LEMMA Yielded ==
  ASSUME SessionInv, NEW f \in Files, current = f, EndCollect
  PROVE  /\ items' \in Seq([file : Files, func : Function])
         /\ Len(items) <= Len(items')
         /\ \A i \in DOMAIN items' : items'[i].file = f \/ items'[i].file \in Collected
         /\ \A g : g # f => (ItemsOf(g))' = ItemsOf(g) /\ \A i \in ItemsOf(g) : items'[i] = items[i]
         /\ {items'[i].func : i \in (ItemsOf(f))'} = Range(registry)
         /\ \A i, j \in (ItemsOf(f))' : items'[i].func = items'[j].func => i = j
<1>1. PICK m \in Nat : m = Len(items)
  BY DEF SessionInv, TypeOK
<1>2. PICK n \in Nat : n = Len(registry)
  BY DEF SessionInv, TypeOK
<1> DEFINE Item == [file : Files, func : Function]
           added == [i \in DOMAIN registry |-> [file |-> current, func |-> registry[i]]]
<1>3. /\ registry \in Seq(Function) /\ DOMAIN registry = 1 .. n
      /\ \A i \in 1 .. n : registry[i] \in Function
      /\ items \in Seq(Item) /\ DOMAIN items = 1 .. m
      /\ f \notin Collected /\ \A i \in DOMAIN items : items[i].file \in Collected
  BY <1>1, <1>2 DEF SessionInv, TypeOK, Collected
<1>4. /\ added \in Seq(Item) /\ Len(added) = n
      /\ \A i \in 1 .. n : added[i].file = f /\ added[i].func = registry[i]
  BY <1>3
<1>5. items' = items \o added
  BY DEF EndCollect
<1> HIDE DEF added
<1>6. /\ items' \in Seq(Item) /\ Len(items') = Len(items) + Len(added)
      /\ \A i \in 1 .. Len(items) + Len(added) :
           items'[i] = IF i <= Len(items) THEN items[i] ELSE added[i - Len(items)]
  BY <1>3, <1>4, <1>5, ConcatProperties
<1> HIDE DEF Item
<1>7. /\ DOMAIN items' = 1 .. m + n
      /\ \A i \in 1 .. m : items'[i] = items[i]
      /\ \A i \in m + 1 .. m + n : items'[i].file = f /\ items'[i].func = registry[i - m]
  <2>1. \A i \in 1 .. m + n : items'[i] = IF i <= m THEN items[i] ELSE added[i - m]
    BY <1>1, <1>4, <1>6
  <2>2. ASSUME NEW i \in m + 1 .. m + n
        PROVE  items'[i].file = f /\ items'[i].func = registry[i - m]
    <3>1. i - m \in 1 .. n /\ ~(i <= m) /\ i \in 1 .. m + n
      OBVIOUS
    <3> QED
      BY <1>4, <2>1, <3>1
  <2>3. DOMAIN items' = 1 .. m + n
    <3>1. \A s \in Seq(Item) : DOMAIN s = 1 .. Len(s)
      OBVIOUS
    <3>2. Len(items') = m + n
      BY <1>1, <1>4, <1>6
    <3> QED
      BY <1>6, <3>1, <3>2
  <2>4. ASSUME NEW i \in 1 .. m PROVE items'[i] = items[i]
    <3>1. i \in 1 .. m + n /\ i <= m
      OBVIOUS
    <3> QED
      BY <2>1, <3>1
  <2> QED
    BY <2>2, <2>3, <2>4
<1>8. ASSUME NEW i \in DOMAIN items' PROVE i \in 1 .. m \/ i \in m + 1 .. m + n
  BY <1>7
<1>9. ASSUME NEW g, g # f
      PROVE  (ItemsOf(g))' = ItemsOf(g) /\ \A i \in ItemsOf(g) : items'[i] = items[i]
  <2>1. \A i \in DOMAIN items' : items'[i].file = g => i \in 1 .. m
    BY <1>7, <1>8, <1>9
  <2>2. \A i \in 1 .. m : i \in DOMAIN items' /\ items'[i].file = items[i].file
    BY <1>7
  <2> QED
    BY <1>3, <1>7, <2>1, <2>2 DEF ItemsOf
<1>10. (ItemsOf(f))' = m + 1 .. m + n
  <2>1. \A i \in 1 .. m : items'[i].file # f
    BY <1>3, <1>7
  <2>2. \A i \in m + 1 .. m + n : i \in DOMAIN items' /\ items'[i].file = f
    BY <1>7
  <2> QED
    BY <1>8, <2>1, <2>2 DEF ItemsOf
<1>11. {items'[i].func : i \in (ItemsOf(f))'} = Range(registry)
  <2>1. \A i \in m + 1 .. m + n : i - m \in 1 .. n /\ items'[i].func = registry[i - m]
    BY <1>7
  <2>2. \A k \in 1 .. n : k + m \in m + 1 .. m + n /\ items'[k + m].func = registry[k]
    <3> TAKE k \in 1 .. n
    <3>1. k + m \in m + 1 .. m + n /\ (k + m) - m = k
      OBVIOUS
    <3> QED
      BY <1>7, <3>1
  <2> QED
    BY <1>3, <1>10, <2>1, <2>2 DEF Range
<1>12. ASSUME NEW i \in (ItemsOf(f))', NEW j \in (ItemsOf(f))', items'[i].func = items'[j].func
       PROVE  i = j
  <2>1. \A k, l \in DOMAIN registry : registry[k] = registry[l] => k = l
    BY RegistersDeclared DEF EndCollect
  <2>2. i - m \in 1 .. n /\ j - m \in 1 .. n /\ registry[i - m] = registry[j - m]
    BY <1>7, <1>10, <1>12
  <2>3. i - m = j - m
    BY <1>3, <2>1, <2>2
  <2>4. i \in Int /\ j \in Int
    BY <1>10
  <2> QED
    BY <2>3, <2>4
<1>13. \A i \in DOMAIN items' : items'[i].file = f \/ items'[i].file \in Collected
  BY <1>3, <1>7, <1>8
<1>14. Len(items) <= Len(items')
  BY <1>1, <1>4, <1>6
<1> QED
  BY <1>6, <1>9, <1>11, <1>12, <1>13, <1>14 DEF Item

-----------------------------------------------------------------------------
(* The inductive invariant of a session: its types; a file is waiting,     *)
(* being collected, collected or refused; what the file being collected    *)
(* has registered and has still to; and what has come of the others        *)
(* (pytest_plugin.py:28-73, rule.py:56-92).                                *)
THEOREM SessionInvariant == Spec => []SessionInv
<1>1. Init => SessionInv
  <2> SUFFICES ASSUME Init PROVE SessionInv
    OBVIOUS
  <2>1. Collected = {}
    BY DEF Init, Collected
  <2>2. TypeOK
    <3>1. queue \in Seq(Function) /\ registry \in Seq(Function)
      BY DEF Init
    <3>2. items \in Seq([file : Files, func : Function]) /\ ran \in Seq(Files)
      BY DEF Init
    <3>3. Len(ran) <= Len(items)
      BY DEF Init
    <3>4. /\ script \in [Files -> Scripts] /\ waiting = Files /\ broken = {}
          /\ current = NoFile /\ graph = NoFile /\ line \in Nat /\ imported \in BOOLEAN
      BY DEF Init
    <3> QED
      BY <3>1, <3>2, <3>3, <3>4 DEF TypeOK
  <2> QED
    BY <2>1, <2>2, ScriptAssumption
    DEF Init, SessionInv, OneItemPerRule, RefusedForConflict
<1>2. ASSUME SessionInv, [Next]_vars PROVE SessionInv'
  <2>1. TypeOK /\ NoFile \notin Files
    BY <1>2, ScriptAssumption DEF SessionInv
  <2>2. ASSUME NEW f \in Files, Collect(f) PROVE SessionInv'
    <3>1. /\ current = NoFile /\ f \in waiting /\ current' = f /\ waiting' = waiting \ {f}
          /\ registry' = <<>> /\ graph' = f /\ line' = 0 /\ queue' = <<>>
          /\ UNCHANGED <<script, imported, items, broken, ran>>
      BY <1>2, <2>2 DEF Collect, SessionInv
    <3>2. Collected' = Collected
      BY <2>1, <3>1 DEF Collected
    <3>3. /\ OneItemPerRule' /\ \A i \in DOMAIN items' : items'[i].file \in Collected'
          /\ \A g \in Collected' : ~Conflict((Declared(g))')
      BY <1>2, <3>1, <3>2, SameItems
    <3>4. RefusedForConflict'
      BY <1>2, <3>1, <3>3, SameScripts DEF SessionInv, RefusedForConflict
    <3>5. (CollectInv(f))'
      <4>1. Reached' = {}
        BY <3>1, RangeOfEmpty DEF Reached
      <4>2. Len(script[f]) \in Nat
        BY <2>1, ScriptOfFile
      <4> QED
        BY <3>1, <4>1, <4>2 DEF CollectInv
    <3>6. TypeOK'
      BY <2>1, <3>1, EmptySeq DEF TypeOK
    <3> QED
      BY <1>2, <2>1, <3>1, <3>3, <3>4, <3>5, <3>6 DEF SessionInv
  <2>3. ASSUME NEW op, NEW functions, Executes(op, functions)
        PROVE  /\ current \in Files /\ queue = <<>> /\ line < Len(script[current])
               /\ line + 1 \in 1 .. Len(script[current])
               /\ script[current][line + 1].op = op
               /\ line' = line + 1 /\ queue' = functions
               /\ UNCHANGED <<script, waiting, current, registry, graph, items, broken, ran>>
    <3>1. current \in Files /\ line \in Nat
      BY <2>1, <2>3 DEF TypeOK, Executes
    <3>2. Len(script[current]) \in Nat
      BY <2>1, <3>1, ScriptOfFile
    <3> QED
      BY <2>3, <3>1, <3>2 DEF Executes
  <2>4. CASE OwnRule
    <3> DEFINE fn == OwnFunction(current, line + 1)
    <3>1. Executes("rule", <<fn>>) /\ imported' \in BOOLEAN
      BY <2>1, <2>4 DEF OwnRule, TypeOK
    <3>2. fn \in Function /\ fn \in OwnRules(current)
      BY <2>1, <2>3, <3>1, ScriptOfFile DEF OwnRules
    <3>3. <<fn>> \in Seq(Function) /\ Range(<<fn>>) = {fn}
      <4> HIDE DEF fn
      <4> QED
        BY <3>2 DEF Range
    <3>4. fn \in MayRegister(current)
      BY <3>2 DEF MayRegister
    <3>5. PICK functions \in Seq(Function) :
            functions = <<fn>> /\ Range(functions) = {OwnFunction(current, line + 1)}
      BY <3>3, Zenon
    <3>6. Range(functions) \subseteq MayRegister(current)
      BY <3>4, <3>5
    <3>7. Executes("rule", functions) /\ imported' \in BOOLEAN
      BY <3>1, <3>5
    <3>8. /\ current \in Files /\ queue = <<>> /\ line < Len(script[current])
          /\ script[current][line + 1].op = "rule"
          /\ line' = line + 1 /\ queue' = functions
          /\ UNCHANGED <<script, waiting, current, registry, graph, items, broken, ran>>
      BY <2>3, <3>7
    <3> HIDE DEF fn
    <3> QED
      BY <1>2, <3>5, <3>6, <3>7, <3>8, Executed
  <2>5. CASE ImportPack
    <3> DEFINE functions == IF imported THEN <<>> ELSE PackRules
    <3>1. Executes("import", functions) /\ imported' \in BOOLEAN
      BY <2>5 DEF ImportPack
    <3>2. Imports(current)
      BY <2>1, <2>3, <3>1, ScriptOfFile DEF Imports, Statements
    <3>3. functions \in Seq(Function) /\ Range(functions) \subseteq Range(PackRules)
      BY PackFunctions, RangeOfEmpty, EmptySeq
    <3>4. Range(functions) \subseteq MayRegister(current)
      BY <3>2, <3>3 DEF MayRegister
    <3> HIDE DEF functions
    <3> QED
      BY <1>2, <2>3, <3>1, <3>3, <3>4, Executed
  <2>6. CASE UsePack
    <3>1. Executes("use", PackRules) /\ imported' \in BOOLEAN
      BY <2>1, <2>6 DEF UsePack, TypeOK
    <3>2. Imports(current)
      BY <2>1, <2>3, <3>1, ScriptOfFile DEF Uses, Statements
    <3>3. Range(PackRules) \subseteq MayRegister(current)
      BY <3>2 DEF MayRegister
    <3> QED
      BY <1>2, <2>3, <3>1, <3>3, PackFunctions, Executed
  <2>7. CASE Register
    <3> DEFINE fn == Head(queue)
    <3>1. /\ queue # <<>> /\ ~Clashes(fn) /\ queue' = Tail(queue)
          /\ fn \in Range(registry) => registry' = registry
          /\ fn \notin Range(registry) => registry' = Append(registry, fn)
          /\ UNCHANGED <<script, waiting, current, line, imported, graph, items, broken, ran>>
      BY <2>7 DEF Register
    <3>2. /\ registry \in Seq(Function) /\ queue \in Seq(Function) /\ current \in Files
          /\ CollectInv(current)
      BY <1>2, <2>1, <3>1 DEF SessionInv, TypeOK
    <3>3. /\ fn \in Function /\ queue' \in Seq(Function)
          /\ Range(queue) = Range(queue') \cup {fn}
      BY <3>1, <3>2, RangeOfHeadAndTail
    <3> HIDE DEF fn
    <3>4. registry' \in Seq(Function) /\ Range(registry') = Range(registry) \cup {fn}
      <4>1. CASE fn \in Range(registry)
        BY <3>1, <3>2, <4>1
      <4>2. CASE fn \notin Range(registry)
        <5>1. registry' = Append(registry, fn)
          BY <3>1, <4>2
        <5>2. Append(registry, fn) \in Seq(Function)
          BY <3>2, <3>3, Extended
        <5>3. Range(Append(registry, fn)) = Range(registry) \cup {fn}
          BY <3>2, <3>3, RangeOfAppend
        <5> QED
          BY <5>1, <5>2, <5>3, Zenon
      <4> QED
        BY <4>1, <4>2
    <3>5. Reached' = Reached
      BY <3>3, <3>4 DEF Reached
    <3>6. ASSUME NEW i \in DOMAIN registry', NEW j \in DOMAIN registry',
                 registry'[i].name = registry'[j].name
          PROVE  i = j
      <4>1. \A k, l \in DOMAIN registry : registry[k].name = registry[l].name => k = l
        BY <3>2 DEF CollectInv
      <4>2. CASE fn \in Range(registry)
        BY <3>1, <3>6, <4>1, <4>2
      <4>3. CASE fn \notin Range(registry)
        <5>1. PICK n \in Nat : n = Len(registry)
          BY <3>2
        <5>2. registry' = Append(registry, fn)
          BY <3>1, <4>3
        <5>3. /\ Len(registry') = n + 1 /\ registry'[n + 1] = fn
              /\ \A k \in 1 .. n : registry'[k] = registry[k]
          BY <3>2, <3>3, <5>1, <5>2, Extended
        <5>4. /\ DOMAIN registry = 1 .. n
              /\ \A k \in DOMAIN registry' : k \in 1 .. n \/ k = n + 1
          <6>1. \A s \in Seq(Function) : DOMAIN s = 1 .. Len(s)
            OBVIOUS
          <6>2. DOMAIN registry = 1 .. n /\ DOMAIN registry' = 1 .. n + 1
            BY <3>2, <3>4, <5>1, <5>3, <6>1
          <6> QED
            BY <6>2
        <5>5. ASSUME NEW k \in 1 .. n PROVE registry[k].name # fn.name
          <6>1. registry[k] \in Range(registry)
            BY <5>4 DEF Range
          <6> QED
            BY <3>1, <4>3, <6>1 DEF Clashes
        <5>6. CASE i \in 1 .. n /\ j \in 1 .. n
          BY <3>6, <4>1, <5>3, <5>4, <5>6
        <5>7. CASE i \in 1 .. n /\ j = n + 1
          BY <3>6, <5>3, <5>5, <5>7
        <5>8. CASE i = n + 1 /\ j \in 1 .. n
          BY <3>6, <5>3, <5>5, <5>8
        <5> QED
          BY <5>4, <5>6, <5>7, <5>8
      <4> QED
        BY <4>2, <4>3
    <3>7. \A f \in Files : current' = f => (CollectInv(f))'
      <4>1. PICK f \in Files : f = current
        BY <3>2
      <4>2. (MayRegister(f))' = MayRegister(f) /\ \A i : (OwnFunction(f, i))' = OwnFunction(f, i)
        BY <3>1, SameScripts
      <4>3. (CollectInv(f))'
        BY <3>1, <3>2, <3>5, <3>6, <4>1, <4>2 DEF CollectInv
      <4> QED
        BY <3>1, <4>1, <4>3
    <3>8. /\ OneItemPerRule' /\ \A i \in DOMAIN items' : items'[i].file \in Collected'
          /\ \A g \in Collected' : ~Conflict((Declared(g))')
      BY <1>2, <3>1, SameItems DEF Collected
    <3>9. RefusedForConflict'
      BY <1>2, <3>1, <3>8, SameScripts DEF SessionInv, RefusedForConflict
    <3>10. TypeOK'
      BY <2>1, <3>1, <3>3, <3>4 DEF TypeOK
    <3> QED
      BY <1>2, <2>1, <3>1, <3>2, <3>7, <3>8, <3>9, <3>10 DEF SessionInv
  <2>8. CASE Refuse
    <3>1. PICK f \in Files : f = current /\ Conflict(MayRegister(f))
      BY <1>2, <2>8, RefusedConflicts
    <3>2. /\ broken' = broken \cup {f} /\ current' = NoFile /\ queue' = <<>>
          /\ imported' \in BOOLEAN
          /\ UNCHANGED <<script, waiting, line, registry, graph, items, ran>>
      BY <2>8, <3>1 DEF Refuse
    <3>3. Collected' = Collected
      BY <2>1, <3>1, <3>2 DEF Collected
    <3>4. /\ OneItemPerRule' /\ \A i \in DOMAIN items' : items'[i].file \in Collected'
          /\ \A g \in Collected' : ~Conflict((Declared(g))')
      BY <1>2, <3>2, <3>3, SameItems
    <3>5. RefusedForConflict'
      BY <1>2, <3>1, <3>2, <3>4, SameScripts DEF SessionInv, RefusedForConflict
    <3>6. TypeOK'
      BY <2>1, <3>2, EmptySeq DEF TypeOK
    <3>7. broken' \cap waiting' = {} /\ NoFile \notin waiting' \cup broken'
      BY <1>2, <2>1, <3>1, <3>2 DEF SessionInv, TypeOK
    <3> QED
      BY <1>2, <2>1, <3>1, <3>2, <3>4, <3>5, <3>6, <3>7 DEF SessionInv
  <2>9. CASE EndCollect
    <3>1. PICK f \in Files : f = current
      BY <2>1, <2>9 DEF EndCollect, TypeOK
    <3>2. /\ queue = <<>> /\ line = Len(script[f]) /\ current' = NoFile /\ f \notin waiting \cup broken
          /\ UNCHANGED <<script, waiting, line, queue, registry, imported, graph, broken, ran>>
      BY <1>2, <2>9, <3>1 DEF EndCollect, SessionInv
    <3>3. Collected' = Collected \cup {f} /\ f \notin Collected
      BY <2>1, <3>1, <3>2 DEF Collected
    <3>4. /\ Declared(f) \subseteq Range(registry) /\ Range(registry) \subseteq MayRegister(f)
          /\ ~Conflict(Range(registry))
      BY <1>2, <3>1, <3>2, RegistersDeclared
    <3>5. /\ items' \in Seq([file : Files, func : Function])
          /\ Len(items) <= Len(items')
          /\ \A i \in DOMAIN items' : items'[i].file = f \/ items'[i].file \in Collected
          /\ \A g : g # f => (ItemsOf(g))' = ItemsOf(g) /\ \A i \in ItemsOf(g) : items'[i] = items[i]
          /\ {items'[i].func : i \in (ItemsOf(f))'} = Range(registry)
          /\ \A i, j \in (ItemsOf(f))' : items'[i].func = items'[j].func => i = j
      BY <1>2, <2>9, <3>1, Yielded
    <3>6. \A g : /\ (Declared(g))' = Declared(g) /\ (MayRegister(g))' = MayRegister(g)
                 /\ (Uses(g))' = Uses(g) /\ (Imports(g))' = Imports(g)
      BY <3>2, SameScripts
    <3>7. ASSUME NEW g \in Collected', (Uses(g) \/ ~Imports(g))'
          PROVE  /\ {items'[i].func : i \in (ItemsOf(g))'} = (Declared(g))'
                 /\ \A i, j \in (ItemsOf(g))' : items'[i].func = items'[j].func => i = j
      <4>1. CASE g = f
        <5>1. Declared(f) = MayRegister(f)
          BY <2>1, <3>6, <3>7, <4>1, RulesOfFile
        <5> QED
          BY <3>4, <3>5, <3>6, <4>1, <5>1
      <4>2. CASE g # f
        <5>1. /\ {items[i].func : i \in ItemsOf(g)} = Declared(g)
              /\ \A i, j \in ItemsOf(g) : items[i].func = items[j].func => i = j
          BY <1>2, <3>3, <3>6, <3>7, <4>2 DEF SessionInv, OneItemPerRule
        <5>2. (ItemsOf(g))' = ItemsOf(g) /\ \A i \in ItemsOf(g) : items'[i] = items[i]
          BY <3>5, <4>2
        <5>3. {items'[i].func : i \in ItemsOf(g)} = {items[i].func : i \in ItemsOf(g)}
          BY <5>2
        <5> QED
          BY <3>6, <5>1, <5>2, <5>3
      <4> QED
        BY <4>1, <4>2
    <3>8. OneItemPerRule'
      BY <3>7 DEF OneItemPerRule
    <3>9. ~Conflict(Declared(f))
      BY <3>4 DEF Conflict
    <3>10. RefusedForConflict'
      BY <1>2, <3>2, <3>3, <3>6, <3>9 DEF SessionInv, RefusedForConflict
    <3>11. TypeOK'
      <4>1. Len(ran) <= Len(items')
        <5>1. Len(ran) \in Nat /\ Len(items) \in Nat /\ Len(items') \in Nat /\ Len(ran) <= Len(items)
          BY <2>1, <3>5 DEF TypeOK
        <5> QED
          BY <3>5, <5>1
      <4> QED
        BY <2>1, <3>2, <3>5, <4>1 DEF TypeOK
    <3>12. \A i \in DOMAIN items' : items'[i].file \in Collected'
      BY <3>3, <3>5
    <3>13. broken' \cap waiting' = {} /\ NoFile \notin waiting' \cup broken'
      BY <1>2, <2>1, <3>2 DEF SessionInv, TypeOK
    <3> QED
      BY <1>2, <2>1, <3>2, <3>8, <3>10, <3>11, <3>12, <3>13 DEF SessionInv
  <2>10. CASE RunItem
    <3>1. /\ ran' = Append(ran, graph) /\ Len(ran) < Len(items) /\ waiting = {}
          /\ UNCHANGED <<script, waiting, current, line, queue, registry, imported, graph, items, broken>>
      BY <2>10 DEF RunItem
    <3>2. graph \in Files
      <4>1. Len(items) > 0 /\ 1 \in DOMAIN items
        BY <2>1, <3>1 DEF TypeOK
      <4>2. items[1].file \in Files
        BY <1>2, <4>1 DEF SessionInv, Collected
      <4> QED
        BY <1>2, <2>1, <3>1, <4>2 DEF SessionInv, TypeOK
    <3>3. ran' \in Seq(Files) /\ Len(ran') <= Len(items)
      BY <2>1, <3>1, <3>2 DEF TypeOK
    <3>4. TypeOK'
      BY <2>1, <3>1, <3>3 DEF TypeOK
    <3>5. UNCHANGED <<script, waiting, current, line, queue, registry, graph, items, broken>>
      BY <3>1
    <3> QED
      BY <1>2, <3>4, <3>5
      DEF SessionInv, OneItemPerRule, RefusedForConflict, CollectInv, Reached, Collected, ItemsOf,
          Declared, MayRegister, Uses, Imports, OwnRules, Statements, OwnFunction
  <2>11. CASE UNCHANGED vars
    <3>1. TypeOK'
      BY <2>1, <2>11 DEF TypeOK, vars
    <3> QED
      BY <1>2, <2>11, <3>1
      DEF vars, SessionInv, OneItemPerRule, RefusedForConflict, CollectInv, Reached, Collected,
          ItemsOf, Declared, MayRegister, Uses, Imports, OwnRules, Statements, OwnFunction
  <2> QED
    BY <1>2, <2>2, <2>4, <2>5, <2>6, <2>7, <2>8, <2>9, <2>10, <2>11 DEF Next
<1> QED
  BY <1>1, <1>2, PTL DEF Spec

(* Every variable keeps its type, at every bound.                          *)
THEOREM TypeCorrect == Spec => []TypeOK
<1>1. SessionInv => TypeOK
  BY DEF SessionInv
<1> QED
  BY <1>1, SessionInvariant, PTL

(* Whatever files were collected before it, a file yields an item for each *)
(* rule it declares (pytest_plugin.py:28-60, rule.py:335-343).             *)
THEOREM YieldsOneItemPerRule == Spec => []OneItemPerRule
<1>1. SessionInv => OneItemPerRule
  BY DEF SessionInv
<1> QED
  BY <1>1, SessionInvariant, PTL

(* The registry refuses different rules of one name, and no others         *)
(* (rule.py:71-82).                                                        *)
THEOREM RefusesConflicts == Spec => []RefusedForConflict
<1>1. SessionInv => RefusedForConflict
  BY DEF SessionInv
<1> QED
  BY <1>1, SessionInvariant, PTL
=============================================================================
