--------------------------- MODULE CheckRunProofs ---------------------------
(***************************************************************************)
(* Proofs about CheckRun, for any rules, results, violations and keys, any *)
(* number of checks that share a baseline file, and any faults: what a     *)
(* check makes of the results of its rules, and of the file.               *)
(***************************************************************************)
EXTENDS CheckRun, FiniteSetTheorems, TLAPS

-----------------------------------------------------------------------------
(* Counting violations of a key in a set and in a part of it.              *)
LEMMA OccurrencesOfPart ==
  ASSUME NEW ws \in SUBSET Violations, NEW vs \in SUBSET ws, NEW k
  PROVE  /\ Occurrences(vs, k) \in Nat
         /\ Occurrences(vs, k) <= Occurrences(ws, k)
         /\ Occurrences(ws, k) <= Cardinality(Violations)
         /\ Occurrences(vs, k) = Occurrences(ws, k) =>
              {v \in vs : KeyOf[v] = k} = {v \in ws : KeyOf[v] = k}
<1> DEFINE V == {v \in vs : KeyOf[v] = k}
           W == {v \in ws : KeyOf[v] = k}
<1>1. IsFiniteSet(Violations) /\ W \in SUBSET Violations /\ V \in SUBSET W
  BY EvaluationAssumption
<1>2. IsFiniteSet(W) /\ Cardinality(W) <= Cardinality(Violations)
  BY <1>1, FS_Subset
<1>3. IsFiniteSet(V) /\ Cardinality(V) <= Cardinality(W) /\ (Cardinality(W) = Cardinality(V) => W = V)
  BY <1>1, <1>2, FS_Subset
<1>4. Cardinality(V) \in Nat
  BY <1>3, FS_CardinalityType
<1> QED
  BY <1>2, <1>3, <1>4 DEF Occurrences

(* A key has occurrences if and only if some violation has it.             *)
LEMMA OccurrencesOfKey ==
  ASSUME NEW vs \in SUBSET Violations, NEW k
  PROVE  Occurrences(vs, k) = 0 <=> \A v \in vs : KeyOf[v] # k
<1> DEFINE V == {v \in vs : KeyOf[v] = k}
<1>1. V \in SUBSET Violations /\ IsFiniteSet(Violations)
  BY EvaluationAssumption
<1>2. IsFiniteSet(V)
  BY <1>1, FS_Subset
<1>3. Cardinality(V) = 0 <=> V = {}
  BY <1>2, FS_EmptySet
<1> QED
  BY <1>3 DEF Occurrences

(* A part that has all occurrences of every key is the whole.              *)
LEMMA AllOccurrences ==
  ASSUME NEW ws \in SUBSET Violations, NEW vs \in SUBSET ws,
         \A k \in Keys : Occurrences(vs, k) = Occurrences(ws, k)
  PROVE  vs = ws
<1> SUFFICES ASSUME NEW w \in ws PROVE w \in vs
  OBVIOUS
<1>1. KeyOf[w] \in Keys
  BY EvaluationAssumption
<1>2. {v \in vs : KeyOf[v] = KeyOf[w]} = {v \in ws : KeyOf[v] = KeyOf[w]}
  BY <1>1, OccurrencesOfPart
<1> QED
  BY <1>2

(* A baseline counts no key more often than there are violations           *)
(* (baseline.py:88-130).                                                   *)
LEMMA BaselineIsBag ==
  ASSUME NEW rs \in [Rules -> Outcome]
  PROVE  BaselineOf(rs) \in Bags
<1> DEFINE vs == UNION {rs[r].found : r \in {s \in Rules : Counts(rs[s])}}
<1>1. vs \in SUBSET Violations
  BY DEF Outcome
<1>2. ASSUME NEW k \in Keys PROVE Occurrences(vs, k) \in 0 .. Cardinality(Violations)
  <2>1. /\ Occurrences(vs, k) \in Nat /\ Cardinality(Violations) \in Nat
        /\ Occurrences(vs, k) <= Cardinality(Violations)
    BY <1>1, OccurrencesOfPart, EvaluationAssumption, FS_CardinalityType
  <2> QED
    BY <2>1
<1> QED
  BY <1>2 DEF BaselineOf, Bags

(* The results of the rules, as run_all returns them.                      *)
LEMMA EvaluationType ==
  /\ AnEvaluation \in Evaluations
  /\ \A e \in Evaluations : e \in [Rules -> Outcome]
  /\ EmptyBag \in Bags
<1>1. Cardinality(Violations) \in Nat
  BY EvaluationAssumption, FS_CardinalityType
<1> QED
  BY <1>1, EvaluationAssumption DEF AnEvaluation, EmptyBag, Bags

-----------------------------------------------------------------------------
(* Taking violations off a result gives a result.                          *)
LEMMA WithViolationsType ==
  ASSUME NEW r \in Outcome, NEW found \in SUBSET Violations, NEW hidden \in SUBSET Violations
  PROVE  LET q == WithViolations(r, found, hidden) IN
         /\ q \in Outcome /\ q.found = found /\ q.hidden = hidden
         /\ q.skipped = r.skipped /\ q.timedOut = r.timedOut /\ q.errored = r.errored
         /\ IF found = {} THEN q.passed /\ ~q.warned ELSE q.passed = r.passed /\ q.warned = r.warned
  BY DEF WithViolations, Outcome

LEMMA BaselinedType ==
  ASSUME NEW r \in Outcome, NEW bag \in Bags, NEW q \in Baselined(r, bag)
  PROVE  q \in Outcome
<1>1. r.found \in SUBSET Violations /\ r.hidden \in SUBSET Violations
  BY DEF Outcome
<1>2. CASE Counts(r) /\ r.found # {}
  <2>1. PICK h \in Suppressed(r, bag) : q = WithViolations(r, r.found \ h, r.hidden \cup h)
    BY <1>2 DEF Baselined
  <2>2. h \in SUBSET Violations
    BY <1>1 DEF Suppressed
  <2> QED
    BY <2>1, <2>2, <1>1, WithViolationsType
<1> QED
  BY <1>2 DEF Baselined

LEMMA ScopedType ==
  ASSUME NEW r \in Outcome, NEW files
  PROVE  Scoped(r, files) \in Outcome
<1>1. r.found \cap files \in SUBSET Violations /\ r.hidden \cap files \in SUBSET Violations
  BY DEF Outcome
<1> QED
  BY <1>1, WithViolationsType DEF Scoped

(* Every variable keeps its type: a baseline is a bag of keys with no more *)
(* entries than violations, and results stay results through baseline and  *)
(* scope (baseline.py:85-186, check.py:138-172).                           *)
THEOREM TypeCorrect == Spec => []TypeOK
<1>1. Init => TypeOK
  BY EvaluationType, EvaluationAssumption DEF Init, TypeOK, NoOptions, Options
<1>2. ASSUME TypeOK, [Next]_vars PROVE TypeOK'
  <2> USE <1>2 DEF TypeOK
  <2>1. /\ NoOptions \in Options /\ AnEvaluation \in Evaluations
        /\ AnEvaluation \in [Rules -> Outcome] /\ EmptyBag \in Bags
        /\ Violations \in SUBSET Violations
    BY EvaluationType DEF NoOptions, Options
  <2>2. ASSUME NEW p \in Procs, Ended(p), UNCHANGED file, faults' \in 0 .. MaxFaults PROVE TypeOK'
    <3>1. /\ pc' \in [Procs -> Steps \cup {"idle", "done", "quit"}]
          /\ options' \in [Procs -> Options] /\ evaluated' \in [Procs -> Evaluations]
      BY <2>1, <2>2 DEF Ended, Goto
    <3>2. /\ results' \in [Procs -> [Rules -> Outcome]] /\ loaded' \in [Procs -> Bags]
      BY <2>1, <2>2 DEF Ended
    <3>3. /\ changed' \in [Procs -> SUBSET Violations] /\ exit' \in [Procs -> {0, 1, 3}]
      BY <2>1, <2>2 DEF Ended
    <3> QED
      BY <2>2, <3>1, <3>2, <3>3 DEF file
  <2>3. ASSUME NEW p \in Procs, NEW step \in {"done", "quit"}, NEW status \in {0, 1, 3},
               ExitFrom(p, step, status), UNCHANGED <<file, locals>>, faults' \in 0 .. MaxFaults
        PROVE  TypeOK'
    BY <2>3 DEF ExitFrom, Goto, file, locals
  <2>4. ASSUME NEW o \in Options
        PROVE  AfterLoad(o) \in Steps /\ AfterWrite(o) \in Steps /\ AfterRules(o) \in Steps
    BY DEF AfterLoad, AfterWrite, AfterRules, Steps
  <2>5. ASSUME NEW p \in Procs, NEW e \in Evaluations, RulesRan(p, e)
        PROVE  evaluated' \in [Procs -> Evaluations] /\ results' \in [Procs -> [Rules -> Outcome]]
    <3>1. e \in [Rules -> Outcome]
      BY EvaluationType
    <3> QED
      BY <2>5, <3>1 DEF RulesRan
  <2>6. ASSUME NEW p \in Procs, RunRules(p) PROVE TypeOK'
    <3>1. PICK e \in Evaluations : RulesRan(p, e)
      BY <2>6 DEF RunRules
    <3>2. PICK o \in Options : options' = [options EXCEPT ![p] = o] /\ Goto(p, AfterRules(o))
      BY <2>6 DEF RunRules
    <3> QED
      BY <2>6, <3>1, <3>2, <2>4, <2>5 DEF RunRules, RulesRan, Goto, file
  <2>7. ASSUME NEW p \in Procs, RuleExits(p) PROVE TypeOK'
    <3>1. PICK e \in Evaluations : RulesRan(p, e)
      BY <2>7 DEF RuleExits
    <3>2. PICK status \in Exiting : ExitFrom(p, "quit", status)
      BY <2>7 DEF RuleExits
    <3>3. status \in {0, 1, 3}
      BY EvaluationAssumption
    <3> QED
      BY <2>7, <3>1, <3>2, <3>3, <2>5 DEF RuleExits, RulesRan, ExitFrom, Goto, file
  <2>8. ASSUME NEW p \in Procs, OpenBaseline(p) PROVE TypeOK'
    BY <2>8, <2>1 DEF OpenBaseline, Goto, locals, Steps
  <2>9. ASSUME NEW p \in Procs, FillBaseline(p) PROVE TypeOK'
    <3>1. BaselineOf(results[p]) \in Bags
      BY BaselineIsBag
    <3>2. counts' \in Bags /\ baseline' \in {"missing", "torn", "whole"}
      BY <2>9, <3>1, <2>1 DEF FillBaseline
    <3>3. pc' \in [Procs -> Steps \cup {"idle", "done", "quit"}]
      BY <2>9, <2>4 DEF FillBaseline, Goto
    <3> QED
      BY <2>9, <3>2, <3>3 DEF FillBaseline, locals
  <2>10. ASSUME NEW p \in Procs, WriteFails(p) \/ GitFails(p) PROVE TypeOK'
    <3>1. faults' \in 0 .. MaxFaults
      BY <2>10, EvaluationAssumption DEF WriteFails, GitFails
    <3> HIDE DEF TypeOK
    <3> QED
      BY <2>10, <3>1, <2>3 DEF WriteFails, GitFails
  <2>11. ASSUME NEW p \in Procs, LoadBaseline(p) PROVE TypeOK'
    <3>1. PICK rs \in [Rules -> UNION {Baselined(results[p][r], counts) : r \in Rules}] :
            /\ \A r \in Rules : rs[r] \in Baselined(results[p][r], counts)
            /\ results' = [results EXCEPT ![p] = rs]
      BY <2>11 DEF LoadBaseline
    <3>2. \A r \in Rules : rs[r] \in Outcome
      BY <3>1, BaselinedType
    <3>3. rs \in [Rules -> Outcome]
      BY <3>2
    <3>4. results' \in [Procs -> [Rules -> Outcome]]
      BY <3>1, <3>3
    <3>5. pc' \in [Procs -> Steps \cup {"idle", "done", "quit"}] /\ loaded' \in [Procs -> Bags]
      BY <2>11, <2>4 DEF LoadBaseline, Goto
    <3> QED
      BY <2>11, <3>4, <3>5 DEF LoadBaseline, file
  <2>12. ASSUME NEW p \in Procs, LoadFails(p) PROVE TypeOK'
    BY <2>12, <2>3 DEF LoadFails, file
  <2>13. ASSUME NEW p \in Procs, ScopeToChanged(p) PROVE TypeOK'
    <3>1. PICK differing \in Diffs :
            /\ changed' = [changed EXCEPT ![p] = differing]
            /\ results' = [results EXCEPT ![p] =
                             [r \in Rules |-> Scoped(results[p][r], ChangedFrom(differing))]]
      BY <2>13 DEF ScopeToChanged
    <3>2. [r \in Rules |-> Scoped(results[p][r], ChangedFrom(differing))] \in [Rules -> Outcome]
      BY ScopedType
    <3>3. results' \in [Procs -> [Rules -> Outcome]] /\ changed' \in [Procs -> SUBSET Violations]
      BY <3>1, <3>2, EvaluationAssumption
    <3>4. pc' \in [Procs -> Steps \cup {"idle", "done", "quit"}]
      BY <2>13 DEF ScopeToChanged, Goto, Steps
    <3> QED
      BY <2>13, <3>3, <3>4 DEF ScopeToChanged, file
  <2>14. ASSUME NEW p \in Procs, ReportAndExit(p) PROVE TypeOK'
    BY <2>14, <2>3 DEF ReportAndExit, Exit, file
  <2>15. ASSUME NEW p \in Procs, Finish(p) \/ Crash(p) PROVE TypeOK'
    <3>1. faults' \in 0 .. MaxFaults
      BY <2>15, EvaluationAssumption DEF Finish, Crash
    <3> HIDE DEF TypeOK
    <3> QED
      BY <2>15, <3>1, <2>2 DEF Finish, Crash
  <2>16. ASSUME RemoveBaseline PROVE TypeOK'
    BY <2>16, <2>1, EvaluationAssumption DEF RemoveBaseline, locals
  <2>17. CASE UNCHANGED vars
    BY <2>17 DEF vars, file, locals
  <2> HIDE DEF TypeOK
  <2> QED
    BY <2>6, <2>7, <2>8, <2>9, <2>10, <2>11, <2>12, <2>13, <2>14, <2>15, <2>16, <2>17 DEF Next
<1> QED
  BY <1>1, <1>2, PTL DEF Spec

-----------------------------------------------------------------------------
(* The steps of a check, result by result.                                 *)
LEMMA RawKept ==
  ASSUME NEW e \in Evaluations, NEW r \in Rules, NEW o \in Options, NEW bag \in Bags, NEW files
  PROVE  Kept(e[r], e[r], o, bag, files)
<1>1. e[r] \in Outcome /\ e[r].hidden = {}
  BY EvaluationType, EvaluationAssumption DEF IsVerdict
<1>2. \A k \in Keys : Occurrences({}, k) = 0
  BY OccurrencesOfKey
<1>3. \A k \in Keys : bag[k] \in Nat
  BY EvaluationAssumption, FS_CardinalityType DEF Bags
<1> QED
  BY <1>1, <1>2, <1>3 DEF Kept

LEMMA BaselinedKept ==
  ASSUME NEW e \in Evaluations, NEW r \in Rules, NEW bag \in Bags, NEW q \in Baselined(e[r], bag),
         NEW o \in Options, NEW files
  PROVE  /\ o.baseline => Kept(e[r], q, o, bag, files)
         /\ e[r].found = q.found \cup q.hidden
         /\ bag = BaselineOf(e) /\ Counts(q) => q.found = {}
<1>1. /\ e[r] \in Outcome /\ e[r].hidden = {}
      /\ e[r].found # {} => Counts(e[r])
      /\ e[r].found \in SUBSET Violations
  BY EvaluationType, EvaluationAssumption DEF IsVerdict, Consistent, Counts, Outcome
<1>2. CASE e[r].found = {}
  <2>1. q = e[r]
    BY <1>2 DEF Baselined
  <2> QED
    BY <2>1, <1>1, <1>2, RawKept
<1>3. CASE e[r].found # {}
  <2>1. PICK h \in Suppressed(e[r], bag) : q = WithViolations(e[r], e[r].found \ h, h)
    BY <1>1, <1>3 DEF Baselined
  <2>2. /\ h \in SUBSET e[r].found
        /\ \A k \in Keys : Occurrences(h, k) = IF Occurrences(e[r].found, k) <= bag[k]
                                               THEN Occurrences(e[r].found, k) ELSE bag[k]
    BY DEF Suppressed
  <2>3. \A k \in Keys : /\ bag[k] \in Nat /\ Occurrences(e[r].found, k) \in Nat
                        /\ Occurrences(h, k) <= bag[k]
    <3>1. Cardinality(Violations) \in Nat
      BY EvaluationAssumption, FS_CardinalityType
    <3>2. \A k \in Keys : bag[k] \in Nat
      BY <3>1 DEF Bags
    <3>3. \A k \in Keys : Occurrences(e[r].found, k) \in Nat
      BY <1>1, OccurrencesOfPart
    <3> QED
      BY <2>2, <3>2, <3>3
  <2>4. /\ q.found = e[r].found \ h /\ q.hidden = h
        /\ q.skipped = e[r].skipped /\ q.timedOut = e[r].timedOut /\ q.errored = e[r].errored
        /\ IF q.found = {} THEN q.passed /\ ~q.warned
           ELSE q.passed = e[r].passed /\ q.warned = e[r].warned
    BY <1>1, <2>1, <2>2, WithViolationsType
  <2>5. ASSUME o.baseline PROVE Kept(e[r], q, o, bag, files)
    BY <1>3, <2>2, <2>3, <2>4, <2>5 DEF Kept
  <2>6. ASSUME bag = BaselineOf(e) PROVE q.found = {}
    <3> DEFINE vs == UNION {e[s].found : s \in {t \in Rules : Counts(e[t])}}
    <3>1. vs \in SUBSET Violations /\ e[r].found \in SUBSET vs
      BY <1>1, <1>3, EvaluationType DEF Outcome
    <3>2. \A k \in Keys : Occurrences(h, k) = Occurrences(e[r].found, k)
      BY <2>2, <2>6, <3>1, OccurrencesOfPart DEF BaselineOf
    <3>3. h = e[r].found
      BY <1>1, <2>2, <3>2, AllOccurrences
    <3> QED
      BY <2>4, <3>3
  <2> QED
    BY <2>2, <2>4, <2>5, <2>6
<1> QED
  BY <1>2, <1>3

LEMMA ScopedKept ==
  ASSUME NEW e \in Evaluations, NEW r \in Rules, NEW q \in Outcome,
         NEW o \in Options, NEW bag \in Bags, NEW files, NEW before,
         Kept(e[r], q, o, bag, before), e[r].found = q.found \cup q.hidden, o.changed
  PROVE  /\ Kept(e[r], Scoped(q, files), o, bag, files)
         /\ q.found = {} => Scoped(q, files).found = {}
         /\ Counts(Scoped(q, files)) <=> Counts(q)
<1>1. e[r] \in Outcome /\ (e[r].found # {} => Counts(e[r]))
  BY EvaluationType, EvaluationAssumption DEF IsVerdict, Consistent, Counts
<1>2. Counts(e[r]) <=> Counts(q)
  BY DEF Kept, Counts
<1>3. CASE q.found = {} /\ q.hidden = {}
  <2>1. Scoped(q, files) = q /\ e[r].found = {}
    BY <1>3 DEF Scoped
  <2> QED
    BY <2>1, <1>3 DEF Kept
<1>4. CASE ~(q.found = {} /\ q.hidden = {})
  <2> DEFINE s == Scoped(q, files)
  <2>1. s = WithViolations(q, q.found \cap files, q.hidden \cap files) /\ e[r].found # {}
    BY <1>1, <1>2, <1>4 DEF Scoped
  <2>2. q.found \in SUBSET Violations /\ q.hidden \in SUBSET Violations
    BY DEF Outcome
  <2>3. /\ s.found = q.found \cap files /\ s.hidden = q.hidden \cap files
        /\ s.skipped = q.skipped /\ s.timedOut = q.timedOut /\ s.errored = q.errored
        /\ IF s.found = {} THEN s.passed /\ ~s.warned ELSE s.passed = q.passed /\ s.warned = q.warned
    BY <2>1, <2>2, WithViolationsType
  <2>4. ASSUME NEW k \in Keys PROVE Occurrences(s.hidden, k) <= bag[k]
    <3>1. /\ Occurrences(s.hidden, k) \in Nat /\ Occurrences(q.hidden, k) \in Nat
          /\ Occurrences(s.hidden, k) <= Occurrences(q.hidden, k)
      BY <2>2, <2>3, OccurrencesOfPart
    <3>2. bag[k] \in Nat /\ Occurrences(q.hidden, k) <= bag[k]
      BY EvaluationAssumption, FS_CardinalityType DEF Kept, Bags
    <3> QED
      BY <3>1, <3>2
  <2>5. Kept(e[r], s, o, bag, files)
    BY <2>1, <2>3, <2>4 DEF Kept
  <2> QED
    BY <2>3, <2>5 DEF Counts
<1> QED
  BY <1>3, <1>4

-----------------------------------------------------------------------------
(* What the invariant says of one process depends on its own state only.   *)
LEMMA OthersUndisturbed ==
  ASSUME NEW p \in Procs, ResultsKept(p), pc'[p] = pc[p], exit'[p] = exit[p],
         options'[p] = options[p], evaluated'[p] = evaluated[p], results'[p] = results[p],
         loaded'[p] = loaded[p], changed'[p] = changed[p]
  PROVE  ResultsKept(p)'
  BY DEF ResultsKept, ResultKept

(* Every process has made of its results what its options, the baseline    *)
(* it has loaded and the diff it has seen allow, and every whole baseline  *)
(* holds the violations of one set of results as run_all returned them     *)
(* (baseline.py:85-186, check.py:138-172, 458-512).                        *)
THEOREM CheckInvariant == Spec => []CheckInv
<1>1. Init => CheckInv
  <2> SUFFICES ASSUME Init PROVE CheckInv
    OBVIOUS
  <2>1. TypeOK
    BY EvaluationType, EvaluationAssumption DEF Init, TypeOK, NoOptions, Options
  <2>2. ASSUME NEW p \in Procs PROVE ResultsKept(p)
    <3>1. \A r \in Rules : ResultKept(p, r)
      BY EvaluationType, RawKept DEF Init, NoOptions, Options, ResultKept
    <3> QED
      BY <3>1 DEF Init, ResultsKept
  <2> QED
    BY <2>1, <2>2 DEF CheckInv, Init, Written
<1>2. ASSUME TypeOK, TypeOK', CheckInv, [Next]_vars PROVE CheckInv'
  <2>1. /\ AnEvaluation \in Evaluations /\ NoOptions \in Options /\ EmptyBag \in Bags
        /\ Written(counts) /\ \A p \in Procs : ResultsKept(p) /\ Written(loaded[p])
    BY <1>2, EvaluationType DEF CheckInv, NoOptions, Options
  <2>2. ASSUME NEW p \in Procs, ResultsKept(p)', Written(loaded[p])', Written(counts)',
               \A q \in Procs \ {p} :
                 /\ pc'[q] = pc[q] /\ exit'[q] = exit[q] /\ options'[q] = options[q]
                 /\ evaluated'[q] = evaluated[q] /\ results'[q] = results[q]
                 /\ loaded'[q] = loaded[q] /\ changed'[q] = changed[q]
        PROVE  CheckInv'
    <3>1. ASSUME NEW q \in Procs \ {p} PROVE ResultsKept(q)' /\ Written(loaded[q])'
      BY <2>1, <2>2, OthersUndisturbed DEF Written
    <3> QED
      BY <1>2, <2>2, <3>1 DEF CheckInv
  <2>3. ASSUME NEW p \in Procs, evaluated'[p] \in Evaluations, results'[p] = evaluated'[p]
        PROVE  \A r \in Rules : ResultKept(p, r)'
    <3>1. options'[p] \in Options /\ loaded'[p] \in Bags
      BY <1>2 DEF TypeOK
    <3> QED
      BY <2>3, <3>1, RawKept DEF ResultKept
  <2>4. ASSUME NEW p \in Procs, \A r \in Rules : ResultKept(p, r),
               UNCHANGED <<options[p], evaluated[p], results[p], loaded[p], changed[p]>>
        PROVE  \A r \in Rules : ResultKept(p, r)'
    BY <2>4 DEF ResultKept
  <2>5. ASSUME NEW p \in Procs, Ended(p), UNCHANGED counts PROVE CheckInv'
    <3>1. /\ pc'[p] = "idle" /\ evaluated'[p] = AnEvaluation /\ results'[p] = AnEvaluation
          /\ loaded'[p] = EmptyBag
      BY <1>2, <2>5 DEF Ended, Goto, TypeOK
    <3>2. ResultsKept(p)'
      BY <2>1, <2>3, <3>1 DEF ResultsKept
    <3>3. Written(loaded[p])' /\ Written(counts)'
      BY <2>1, <2>5, <3>1 DEF Written
    <3> QED
      BY <1>2, <2>2, <2>5, <3>2, <3>3 DEF Ended, Goto, TypeOK
  <2>6. ASSUME NEW p \in Procs, NEW status, ExitFrom(p, "quit", status), UNCHANGED <<file, locals>>
        PROVE  CheckInv'
    <3>1. pc'[p] = "quit" /\ \A r \in Rules : ResultKept(p, r)'
      BY <1>2, <2>1, <2>4, <2>6 DEF ExitFrom, Goto, TypeOK, locals, ResultsKept
    <3>2. ResultsKept(p)'
      BY <3>1 DEF ResultsKept
    <3> QED
      BY <1>2, <2>1, <2>2, <2>6, <3>2 DEF ExitFrom, Goto, TypeOK, locals, file, Written
  <2>7. ASSUME NEW p \in Procs, RunRules(p) PROVE CheckInv'
    <3>1. PICK e \in Evaluations : RulesRan(p, e)
      BY <2>7 DEF RunRules
    <3>2. PICK o \in Options : options' = [options EXCEPT ![p] = o] /\ Goto(p, AfterRules(o))
      BY <2>7 DEF RunRules
    <3>3. /\ evaluated'[p] = e /\ results'[p] = e /\ options'[p] = o /\ pc'[p] = AfterRules(o)
          /\ \A r \in Rules : e[r].hidden = {}
      BY <1>2, <3>1, <3>2, EvaluationAssumption DEF RulesRan, Goto, TypeOK, IsVerdict
    <3>4. /\ pc'[p] \in Steps /\ (pc'[p] = "load" => o.baseline) /\ (pc'[p] = "scope" => o.changed)
          /\ pc'[p] \in {"scope", "exit"} => ~o.baseline
      BY <3>3 DEF AfterRules, AfterWrite, AfterLoad, Steps
    <3>5. ResultsKept(p)'
      BY <2>3, <3>3, <3>4 DEF ResultsKept, Steps
    <3> QED
      BY <1>2, <2>1, <2>2, <2>7, <3>1, <3>2, <3>5 DEF RunRules, RulesRan, Goto, TypeOK, file, Written
  <2>8. ASSUME NEW p \in Procs, RuleExits(p) PROVE CheckInv'
    <3>1. PICK e \in Evaluations : RulesRan(p, e)
      BY <2>8 DEF RuleExits
    <3>2. PICK status \in Exiting : ExitFrom(p, "quit", status)
      BY <2>8 DEF RuleExits
    <3>3. evaluated'[p] = e /\ results'[p] = e /\ pc'[p] = "quit"
      BY <1>2, <3>1, <3>2 DEF RulesRan, ExitFrom, Goto, TypeOK
    <3>4. ResultsKept(p)'
      BY <2>3, <3>3 DEF ResultsKept
    <3> QED
      BY <1>2, <2>1, <2>2, <2>8, <3>1, <3>2, <3>4
      DEF RuleExits, RulesRan, ExitFrom, Goto, TypeOK, file, Written
  <2>9. ASSUME NEW p \in Procs, OpenBaseline(p) PROVE CheckInv'
    <3>1. pc'[p] = "fill" /\ results[p] = evaluated[p] /\ \A r \in Rules : ResultKept(p, r)'
      BY <1>2, <2>1, <2>4, <2>9 DEF OpenBaseline, Goto, TypeOK, locals, ResultsKept
    <3>2. ResultsKept(p)'
      BY <2>9, <3>1 DEF OpenBaseline, locals, ResultsKept
    <3> QED
      BY <1>2, <2>1, <2>2, <2>9, <3>2 DEF OpenBaseline, Goto, TypeOK, locals, Written
  <2>10. ASSUME NEW p \in Procs, FillBaseline(p) PROVE CheckInv'
    <3>1. /\ pc'[p] = AfterWrite(options[p]) /\ options[p] \in Options
          /\ results[p] = evaluated[p] /\ evaluated[p] \in Evaluations
          /\ \A r \in Rules : ResultKept(p, r)'
      BY <1>2, <2>1, <2>4, <2>10 DEF FillBaseline, Goto, TypeOK, locals, ResultsKept
    <3>2. /\ pc'[p] = "load" => options[p].baseline
          /\ pc'[p] = "scope" => options[p].changed
          /\ pc'[p] \in {"scope", "exit"} => ~options[p].baseline
          /\ pc'[p] \in {"load", "scope", "exit"}
      BY <3>1 DEF AfterWrite, AfterLoad
    <3>3. \A r \in Rules : results[p][r].hidden = {}
      BY <3>1, EvaluationAssumption DEF IsVerdict
    <3>4. UNCHANGED <<options[p], evaluated[p], results[p], loaded[p], changed[p]>>
      BY <2>10 DEF FillBaseline, locals
    <3>5. ResultsKept(p)'
      BY <3>1, <3>2, <3>3, <3>4 DEF ResultsKept
    <3>6. Written(counts)'
      BY <2>10, <3>1 DEF FillBaseline, Written
    <3> QED
      BY <1>2, <2>1, <2>2, <2>10, <3>5, <3>6 DEF FillBaseline, Goto, TypeOK, locals, Written
  <2>11. ASSUME NEW p \in Procs, LoadBaseline(p) PROVE CheckInv'
    <3>1. PICK rs \in [Rules -> UNION {Baselined(results[p][r], counts) : r \in Rules}] :
            /\ \A r \in Rules : rs[r] \in Baselined(results[p][r], counts)
            /\ results' = [results EXCEPT ![p] = rs]
      BY <2>11 DEF LoadBaseline
    <3>2. /\ results[p] = evaluated[p] /\ evaluated[p] \in Evaluations /\ options[p].baseline
          /\ counts \in Bags /\ options[p] \in Options
          /\ results'[p] = rs /\ evaluated' = evaluated /\ loaded'[p] = counts
          /\ pc'[p] = AfterLoad(options[p]) /\ options' = options /\ changed' = changed
      BY <1>2, <2>1, <2>11, <3>1 DEF LoadBaseline, Goto, TypeOK, ResultsKept
    <3>3. \A r \in Rules : rs[r] \in Baselined(evaluated[p][r], counts)
      BY <3>1, <3>2
    <3>4. ASSUME NEW r \in Rules
          PROVE  /\ Kept(evaluated[p][r], rs[r], options[p], counts, ChangedFrom(changed[p]))
                 /\ evaluated[p][r].found = rs[r].found \cup rs[r].hidden
                 /\ counts = BaselineOf(evaluated[p]) /\ Counts(rs[r]) => rs[r].found = {}
      <4> DEFINE files == ChangedFrom(changed[p])
                 e == evaluated[p]
                 q == rs[r]
                 o == options[p]
      <4>1. q \in Baselined(e[r], counts)
        BY <3>3
      <4>2. e \in Evaluations /\ counts \in Bags /\ o \in Options /\ o.baseline
        BY <3>2
      <4> HIDE DEF files, e, q, o
      <4>3. /\ o.baseline => Kept(e[r], q, o, counts, files)
            /\ e[r].found = q.found \cup q.hidden
            /\ counts = BaselineOf(e) /\ Counts(q) => q.found = {}
        BY <4>1, <4>2, BaselinedKept, Z3
      <4> QED
        BY <4>2, <4>3 DEF files, e, q, o
    <3>5. \A r \in Rules : ResultKept(p, r)'
      BY <3>2, <3>4 DEF ResultKept
    <3>6. pc'[p] \in {"scope", "exit"} /\ (pc'[p] = "scope" => options[p].changed)
      BY <3>2 DEF AfterLoad
    <3>7. ResultsKept(p)'
      BY <3>2, <3>4, <3>5, <3>6 DEF ResultsKept
    <3> QED
      BY <1>2, <2>1, <2>2, <2>11, <3>1, <3>2, <3>7 DEF LoadBaseline, Goto, TypeOK, file, Written
  <2>12. ASSUME NEW p \in Procs, ScopeToChanged(p) PROVE CheckInv'
    <3>1. PICK differing \in Diffs :
            /\ changed' = [changed EXCEPT ![p] = differing]
            /\ results' = [results EXCEPT ![p] =
                             [r \in Rules |-> Scoped(results[p][r], ChangedFrom(differing))]]
      BY <2>12 DEF ScopeToChanged
    <3>2. /\ results'[p] = [r \in Rules |-> Scoped(results[p][r], ChangedFrom(changed'[p]))]
          /\ evaluated' = evaluated /\ loaded' = loaded /\ options' = options /\ pc'[p] = "exit"
          /\ options[p].changed /\ options[p] \in Options /\ loaded[p] \in Bags
          /\ evaluated[p] \in Evaluations
      BY <1>2, <2>1, <2>12, <3>1 DEF ScopeToChanged, Goto, TypeOK, ResultsKept
    <3>3. ASSUME NEW r \in Rules
          PROVE  /\ ResultKept(p, r)'
                 /\ results[p][r].found = {} => results'[p][r].found = {}
                 /\ Counts(results'[p][r]) <=> Counts(results[p][r])
      <4>1. /\ results[p][r] \in Outcome
            /\ Kept(evaluated[p][r], results[p][r], options[p], loaded[p], ChangedFrom(changed[p]))
            /\ evaluated[p][r].found = results[p][r].found \cup results[p][r].hidden
        BY <1>2, <2>1, <2>12 DEF TypeOK, ResultsKept, ResultKept, ScopeToChanged
      <4> DEFINE files == ChangedFrom(changed'[p])
      <4>2. /\ Kept(evaluated[p][r], Scoped(results[p][r], files), options[p], loaded[p], files)
            /\ results[p][r].found = {} => Scoped(results[p][r], files).found = {}
            /\ Counts(Scoped(results[p][r], files)) <=> Counts(results[p][r])
        <5> HIDE DEF files
        <5> QED
          BY <3>2, <4>1, ScopedKept
      <4>3. results'[p][r] = Scoped(results[p][r], files)
        BY <3>2
      <4> HIDE DEF files
      <4>4. ResultKept(p, r)'
        BY <3>2, <4>2, <4>3 DEF ResultKept, files
      <4> QED
        BY <4>2, <4>3, <4>4
    <3>4. ResultsKept(p)'
      BY <2>1, <2>12, <3>2, <3>3 DEF ResultsKept, ScopeToChanged
    <3> QED
      BY <1>2, <2>1, <2>2, <2>12, <3>1, <3>4 DEF ScopeToChanged, Goto, TypeOK, file, Written
  <2>13. ASSUME NEW p \in Procs, ReportAndExit(p) PROVE CheckInv'
    <3>1. /\ pc'[p] = "done" /\ results' = results
          /\ exit'[p] = IF \E r \in Rules : Fails(results[p][r]) THEN 1 ELSE 0
          /\ \A r \in Rules : ResultKept(p, r)'
      BY <1>2, <2>1, <2>4, <2>13
      DEF ReportAndExit, Exit, ExitFrom, Goto, TypeOK, locals, ResultsKept
    <3>2. ResultsKept(p)'
      BY <3>1 DEF ResultsKept
    <3> QED
      BY <1>2, <2>1, <2>2, <2>13, <3>2
      DEF ReportAndExit, Exit, ExitFrom, Goto, TypeOK, locals, file, Written
  <2>14. ASSUME NEW p \in Procs, WriteFails(p) \/ LoadFails(p) \/ GitFails(p) PROVE CheckInv'
    BY <2>6, <2>14 DEF WriteFails, LoadFails, GitFails
  <2>15. ASSUME NEW p \in Procs, Finish(p) \/ Crash(p) PROVE CheckInv'
    BY <2>5, <2>15 DEF Finish, Crash, file
  <2>16. ASSUME UNCHANGED <<pc, locals, exit>>, Written(counts)' PROVE CheckInv'
    <3>1. \A p \in Procs : ResultsKept(p)' /\ Written(loaded[p])'
      BY <2>1, <2>16, OthersUndisturbed DEF locals, Written
    <3> QED
      BY <1>2, <2>16, <3>1 DEF CheckInv
  <2>17. ASSUME RemoveBaseline PROVE CheckInv'
    BY <2>16, <2>17 DEF RemoveBaseline, Written
  <2>18. CASE UNCHANGED vars
    BY <2>1, <2>16, <2>18 DEF vars, file, Written
  <2> QED
    BY <1>2, <2>7, <2>8, <2>9, <2>10, <2>11, <2>12, <2>13, <2>14, <2>15, <2>17, <2>18 DEF Next
<1> QED
  BY <1>1, <1>2, TypeCorrect, PTL DEF Spec

-----------------------------------------------------------------------------
(* Whatever other checks do to the file, a check loads all of a baseline   *)
(* that some check wrote, or fails (baseline.py:85-147).                   *)
THEOREM LoadsWholeBaselines == Spec => []WholeBaselinesOnly
<1>1. CheckInv => WholeBaselinesOnly
  BY DEF CheckInv, Written, WholeBaselinesOnly
<1> QED
  BY <1>1, CheckInvariant, PTL

(* Against a baseline written from the same results no violation is new,   *)
(* duplicates and warnings included (usage.md:214, baseline.py:150-186).   *)
THEOREM AdoptsCleanly == Spec => []AdoptionIsClean
<1>1. CheckInv => AdoptionIsClean
  BY DEF CheckInv, ResultsKept, AdoptionIsClean, Concluded
<1> QED
  BY <1>1, CheckInvariant, PTL

(* A check exits 0 only over failures whose violations are all in its      *)
(* baseline or in unchanged files (check.py:458-512).                      *)
THEOREM ExcusesOnlyViolations == Spec => []ExitZeroJustified
<1>1. ASSUME CheckInv PROVE ExitZeroJustified
  <2> SUFFICES ASSUME NEW p \in Procs, pc[p] = "done", exit[p] = 0,
                      NEW r \in Rules, Fails(evaluated[p][r])
               PROVE  ExcusedBy(p, evaluated[p][r])
    BY DEF ExitZeroJustified
  <2> DEFINE e == evaluated[p][r]
             q == results[p][r]
             files == ChangedFrom(changed[p])
  <2>1. /\ Kept(e, q, options[p], loaded[p], files) /\ IsVerdict(e, PolicyOf[r])
        /\ loaded[p] \in Bags /\ q \in Outcome /\ ~Fails(q)
    <3>1. evaluated[p] \in Evaluations /\ loaded[p] \in Bags /\ results[p] \in [Rules -> Outcome]
      BY <1>1 DEF CheckInv, TypeOK
    <3>2. ResultKept(p, r) /\ exit[p] = (IF \E s \in Rules : Fails(results[p][s]) THEN 1 ELSE 0)
      BY <1>1 DEF CheckInv, ResultsKept
    <3> QED
      BY <3>1, <3>2, EvaluationAssumption DEF ResultKept
  <2> HIDE DEF e, q, files
  <2>2. q.found = {} /\ e.found # {} /\ ~e.timedOut
    BY <2>1 DEF Kept, Fails, e
  <2>3. Counts(e)
    BY <2>1, <2>2 DEF IsVerdict, Consistent, Counts
  <2>4. ASSUME NEW v \in e.found
        PROVE  \/ options[p].baseline /\ loaded[p][KeyOf[v]] > 0
               \/ options[p].changed /\ v \notin files
    <3>1. CASE v \in q.hidden
      <4>1. q.hidden \in SUBSET Violations /\ KeyOf[v] \in Keys
        BY <2>1, <3>1, EvaluationAssumption DEF Outcome
      <4>2. Occurrences(q.hidden, KeyOf[v]) \in Nat /\ Occurrences(q.hidden, KeyOf[v]) # 0
        BY <3>1, <4>1, OccurrencesOfPart, OccurrencesOfKey
      <4>3. loaded[p][KeyOf[v]] \in Nat
        BY <2>1, <4>1, EvaluationAssumption, FS_CardinalityType DEF Bags
      <4> QED
        BY <2>1, <3>1, <4>1, <4>2, <4>3 DEF Kept
    <3>2. CASE v \notin q.hidden
      BY <2>1, <2>2, <3>2 DEF Kept
    <3> QED
      BY <3>1, <3>2
  <2> QED
    BY <2>2, <2>3, <2>4 DEF ExcusedBy, e, files
<1> QED
  BY <1>1, CheckInvariant, PTL

(* No violation is lost, and what is suppressed the baseline pays for, one *)
(* entry for one violation of its key, over all rules                      *)
(* (baseline.py:150-186, check.py:138-172).                                *)
THEOREM AccountsForViolations == Spec => []ViolationsAccounted
<1>1. ASSUME CheckInv PROVE ViolationsAccounted
  <2> SUFFICES ASSUME NEW p \in Procs
               PROVE  /\ \A r \in Rules : \A v \in evaluated[p][r].found :
                           \/ v \in results[p][r].found \cup results[p][r].hidden
                           \/ v \notin ChangedFrom(changed[p])
                      /\ \A k \in Keys : Occurrences(Hidden(p), k) <= loaded[p][k]
    BY DEF ViolationsAccounted
  <2>1. /\ evaluated[p] \in Evaluations /\ results[p] \in [Rules -> Outcome] /\ loaded[p] \in Bags
        /\ \A r \in Rules : Kept(evaluated[p][r], results[p][r], options[p], loaded[p],
                                ChangedFrom(changed[p]))
    BY <1>1 DEF CheckInv, ResultsKept, ResultKept, TypeOK
  <2>2. ASSUME NEW k \in Keys PROVE Occurrences(Hidden(p), k) <= loaded[p][k]
    <3>1. Hidden(p) \in SUBSET Violations
      BY <2>1 DEF Hidden, Outcome
    <3>2. CASE \A v \in Hidden(p) : KeyOf[v] # k
      <4>1. loaded[p][k] \in Nat
        BY <2>1, EvaluationAssumption, FS_CardinalityType DEF Bags
      <4> QED
        BY <3>1, <3>2, <4>1, OccurrencesOfKey
    <3>3. CASE \E v \in Hidden(p) : KeyOf[v] = k
      <4>1. PICK r \in Rules : \E v \in results[p][r].hidden : KeyOf[v] = k
        BY <3>3 DEF Hidden
      <4>2. ASSUME NEW s \in Rules \ {r}, NEW v \in results[p][s].hidden PROVE KeyOf[v] # k
        <5>1. /\ results[p][r].hidden \subseteq evaluated[p][r].found
              /\ v \in evaluated[p][s].found
          BY <2>1 DEF Kept
        <5>2. {KeyOf[w] : w \in evaluated[p][r].found}
              \cap {KeyOf[w] : w \in evaluated[p][s].found} = {}
          BY <2>1, EvaluationAssumption
        <5> QED
          BY <4>1, <5>1, <5>2
      <4>3. {v \in Hidden(p) : KeyOf[v] = k} = {v \in results[p][r].hidden : KeyOf[v] = k}
        BY <4>2 DEF Hidden
      <4>4. Occurrences(Hidden(p), k) = Occurrences(results[p][r].hidden, k)
        BY <4>3 DEF Occurrences
      <4> QED
        BY <2>1, <4>4 DEF Kept
    <3> QED
      BY <3>2, <3>3
  <2> QED
    BY <2>1, <2>2 DEF Kept
<1> QED
  BY <1>1, CheckInvariant, PTL

-----------------------------------------------------------------------------
(* Baseline and scope leave a result with flags that go together.          *)
LEMMA KeptConsistent ==
  ASSUME NEW e \in Outcome, NEW q \in Outcome, NEW o, NEW bag, NEW files, NEW policy \in Policies,
         IsVerdict(e, policy), Kept(e, q, o, bag, files)
  PROVE  Consistent(q, policy) /\ q.found \cap q.hidden = {}
  BY DEF Kept, IsVerdict, Consistent, Outcome

LEMMA SameElements ==
  ASSUME NEW S, NEW T, \A x \in S : x \in T, \A x \in T : x \in S
  PROVE  S = T
  OBVIOUS

(* What a report has of violations, rule by rule.                          *)
LEMMA ReportedPairs ==
  ASSUME NEW S, NEW f \in [S -> SUBSET Violations], NEW T \in SUBSET S
  PROVE  \A x : x \in UNION {{n} \X f[n] : n \in T} <=> \E n \in T : \E v \in f[n] : x = <<n, v>>
  OBVIOUS

LEMMA ReportedLevels ==
  ASSUME NEW S, NEW f \in [S -> SUBSET Violations], NEW T \in SUBSET S, NEW level
  PROVE  \A x : x \in UNION {{n} \X f[n] \X {level[n]} : n \in T}
                 <=> \E n \in T : \E v \in f[n] : x = <<n, v, level[n]>>
  OBVIOUS

(* The size of a set without a part, and of sets that are apart.           *)
LEMMA Outside ==
  ASSUME NEW S, IsFiniteSet(S), NEW T \in SUBSET S
  PROVE  /\ Cardinality(S \ T) = Cardinality(S) - Cardinality(T)
         /\ Cardinality(T) \in Nat /\ Cardinality(S) \in Nat /\ Cardinality(T) <= Cardinality(S)
<1>1. S \cap T = T
  OBVIOUS
<1>2. Cardinality(S \ T) = Cardinality(S) - Cardinality(S \cap T)
  BY FS_Difference
<1> QED
  BY <1>1, <1>2, FS_Subset, FS_CardinalityType

LEMMA Apart ==
  ASSUME NEW S, NEW T, IsFiniteSet(S), IsFiniteSet(T), S \cap T = {}
  PROVE  /\ IsFiniteSet(S \cup T) /\ Cardinality(S) \in Nat /\ Cardinality(T) \in Nat
         /\ Cardinality(S \cup T) = Cardinality(S) + Cardinality(T)
<1>1. /\ IsFiniteSet(S \cup T)
      /\ Cardinality(S \cup T) = Cardinality(S) + Cardinality(T) - Cardinality(S \cap T)
  BY FS_Union
<1>2. Cardinality(S \cap T) = 0
  BY FS_EmptySet
<1>3. Cardinality(S) \in Nat /\ Cardinality(T) \in Nat
  BY FS_CardinalityType
<1> QED
  BY <1>1, <1>2, <1>3

(* Of results whose flags go together, the classes of the summary leave    *)
(* out as many as have the status "failed".                                *)
LEMMA SummaryPartition ==
  ASSUME NEW rs \in [Rules -> Outcome], \A r \in Rules : Consistent(rs[r], PolicyOf[r])
  PROVE  LET summary == Summary(rs) IN
         /\ summary.others <= summary.total
         /\ Failed(summary) = Cardinality({r \in Rules : Status(rs[r], PolicyOf[r]) = "failed"})
<1> DEFINE P == {r \in Rules : rs[r].passed /\ ~rs[r].skipped}
           W == {r \in Rules : rs[r].warned}
           S == {r \in Rules : rs[r].skipped}
           T == {r \in Rules : rs[r].timedOut}
           PW == P \cup W
           PWS == PW \cup S
           All == PWS \cup T
           F == {r \in Rules : Status(rs[r], PolicyOf[r]) = "failed"}
<1>1. DOMAIN rs = Rules /\ IsFiniteSet(Rules)
  BY EvaluationAssumption
<1>2. P \cap W = {} /\ PW \cap S = {} /\ PWS \cap T = {}
  BY DEF Consistent
<1>3. F = Rules \ All
  BY EvaluationAssumption DEF Consistent, Status, Outcome, Policies
<1>4. /\ Summary(rs).total = Cardinality(Rules)
      /\ Summary(rs).others = Cardinality(P) + Cardinality(W) + Cardinality(S) + Cardinality(T)
  BY <1>1 DEF Summary, NumberOf
<1>5. /\ P \in SUBSET Rules /\ W \in SUBSET Rules /\ S \in SUBSET Rules /\ T \in SUBSET Rules
      /\ All \in SUBSET Rules
  OBVIOUS
<1>6. IsFiniteSet(P) /\ IsFiniteSet(W) /\ IsFiniteSet(S) /\ IsFiniteSet(T)
  <2> HIDE DEF P, W, S, T
  <2> QED
    BY <1>1, <1>5, FS_Subset
<1>7. /\ Cardinality(All) = Cardinality(P) + Cardinality(W) + Cardinality(S) + Cardinality(T)
      /\ Cardinality(P) \in Nat /\ Cardinality(W) \in Nat /\ Cardinality(S) \in Nat
      /\ Cardinality(T) \in Nat
  <2>1. /\ IsFiniteSet(PW) /\ Cardinality(P) \in Nat /\ Cardinality(W) \in Nat
        /\ Cardinality(PW) = Cardinality(P) + Cardinality(W)
    <3> HIDE DEF P, W
    <3> QED
      BY <1>2, <1>6, Apart
  <2>2. /\ IsFiniteSet(PWS) /\ Cardinality(S) \in Nat
        /\ Cardinality(PWS) = Cardinality(PW) + Cardinality(S)
    <3> HIDE DEF PW, S
    <3> QED
      BY <1>2, <1>6, <2>1, Apart
  <2>3. Cardinality(T) \in Nat /\ Cardinality(All) = Cardinality(PWS) + Cardinality(T)
    <3> HIDE DEF PWS, T
    <3> QED
      BY <1>2, <1>6, <2>2, Apart
  <2> HIDE DEF P, W, S, T, PW, PWS, All
  <2> QED
    BY <2>1, <2>2, <2>3
<1> HIDE DEF P, W, S, T, PW, PWS, All
<1>8. /\ Cardinality(F) = Cardinality(Rules) - Cardinality(All)
      /\ Cardinality(Rules) \in Nat /\ Cardinality(All) <= Cardinality(Rules)
  BY <1>1, <1>3, <1>5, Outside
<1> QED
  BY <1>4, <1>7, <1>8 DEF Failed

(* Of such results every format has the new violations, at one level.      *)
LEMMA FormatsAgree ==
  ASSUME NEW rs \in [Rules -> Outcome],
         \A r \in Rules : Consistent(rs[r], PolicyOf[r]) /\ rs[r].found \cap rs[r].hidden = {}
  PROVE  /\ JsonViolations(rs) = NewViolations(rs)
         /\ \A quiet \in BOOLEAN : TextViolations(rs, quiet) = NewViolations(rs)
         /\ NewViolations(rs) \cap HiddenViolations(rs) = {}
         /\ SarifResults(rs, PolicyOf) = Annotations(rs)
         /\ {<<a[1], a[2]>> : a \in Annotations(rs)} = NewViolations(rs)
<1> DEFINE found == [r \in Rules |-> rs[r].found]
           hidden == [r \in Rules |-> rs[r].hidden]
           counting == {r \in Rules : Counts(rs[r])}
<1>1. /\ found \in [Rules -> SUBSET Violations] /\ hidden \in [Rules -> SUBSET Violations]
      /\ DOMAIN rs = Rules
  BY DEF Outcome
<1>2. \A r \in Rules : found[r] # {} => /\ Counts(rs[r]) /\ ~rs[r].passed /\ ~rs[r].skipped
                                       /\ ~rs[r].errored /\ ~rs[r].timedOut
  BY DEF Consistent, Counts
<1>3. \A x : x \in NewViolations(rs) <=> \E n \in Rules : \E v \in found[n] : x = <<n, v>>
  <2>1. NewViolations(rs) = UNION {{n} \X found[n] : n \in counting}
    BY <1>1 DEF NewViolations
  <2>2. counting \in SUBSET Rules
    OBVIOUS
  <2>3. \A x : x \in NewViolations(rs) <=> \E n \in counting : \E v \in found[n] : x = <<n, v>>
    <3> HIDE DEF found, counting
    <3> QED
      BY <1>1, <2>1, <2>2, ReportedPairs
  <2> QED
    BY <1>2, <2>3
<1>4. JsonViolations(rs) = NewViolations(rs)
  <2>1. JsonViolations(rs) = UNION {{n} \X found[n] : n \in Rules}
    BY <1>1 DEF JsonViolations
  <2>2. \A x : x \in JsonViolations(rs) <=> \E n \in Rules : \E v \in found[n] : x = <<n, v>>
    <3> HIDE DEF found
    <3> QED
      BY <1>1, <2>1, ReportedPairs
  <2> QED
    BY <1>3, <2>2
<1>5. ASSUME NEW quiet \in BOOLEAN PROVE TextViolations(rs, quiet) = NewViolations(rs)
  <2> DEFINE listing == {m \in DOMAIN rs :
                           /\ InText(rs[m], quiet)
                           /\ ~rs[m].skipped /\ ~rs[m].timedOut
                           /\ rs[m].warned \/ ~rs[m].passed}
  <2>1. TextViolations(rs, quiet) = UNION {{n} \X found[n] : n \in listing} /\ listing \in SUBSET Rules
    <3>1. TextViolations(rs, quiet) = UNION {{n} \X rs[n].found : n \in listing}
      BY DEF TextViolations
    <3>2. listing \in SUBSET Rules
      BY <1>1
    <3> HIDE DEF listing
    <3> QED
      BY <3>1, <3>2
  <2>2. \A r \in Rules : found[r] # {} => r \in listing
    BY <1>2 DEF InText
  <2>3. \A x : x \in TextViolations(rs, quiet) <=> \E n \in listing : \E v \in found[n] : x = <<n, v>>
    <3> HIDE DEF found, listing
    <3> QED
      BY <1>1, <2>1, ReportedPairs
  <2> HIDE DEF found, listing
  <2>4. \A x : x \in TextViolations(rs, quiet) <=> x \in NewViolations(rs)
    BY <1>3, <2>1, <2>2, <2>3
  <2>5. /\ \A x \in TextViolations(rs, quiet) : x \in NewViolations(rs)
        /\ \A x \in NewViolations(rs) : x \in TextViolations(rs, quiet)
    BY <2>4
  <2> QED
    BY <2>5, SameElements
<1>6. NewViolations(rs) \cap HiddenViolations(rs) = {}
  <2>1. HiddenViolations(rs) = UNION {{n} \X hidden[n] : n \in counting}
    BY <1>1 DEF HiddenViolations
  <2>2. \A x : x \in HiddenViolations(rs) <=> \E n \in counting : \E v \in hidden[n] : x = <<n, v>>
    <3>1. counting \in SUBSET Rules
      OBVIOUS
    <3> HIDE DEF hidden, counting
    <3> QED
      BY <1>1, <2>1, <3>1, ReportedPairs
  <2> QED
    BY <1>3, <2>2
<1> DEFINE sarif == [r \in Rules |-> SarifLevel(rs[r], PolicyOf[r])]
           annotation == [r \in Rules |-> AnnotationLevel(rs[r])]
           open == {r \in Rules : ~rs[r].skipped /\ ~rs[r].passed}
<1>7. open \in SUBSET Rules /\ (\A r \in Rules : found[r] # {} => r \in open)
  BY <1>2
<1>8. \A x : x \in Annotations(rs)
            <=> \E n \in open : \E v \in found[n] : x = <<n, v, annotation[n]>>
  <2>1. Annotations(rs) = UNION {{n} \X found[n] \X {annotation[n]} : n \in open}
    BY <1>1 DEF Annotations, Unfinished
  <2> HIDE DEF found, annotation, open
  <2> QED
    BY <1>1, <1>7, <2>1, ReportedLevels
<1>9. \A x : x \in SarifResults(rs, PolicyOf)
            <=> \E n \in open : \E v \in found[n] : x = <<n, v, sarif[n]>>
  <2>1. SarifResults(rs, PolicyOf) = UNION {{n} \X found[n] \X {sarif[n]} : n \in open}
    BY <1>1 DEF SarifResults, Unfinished
  <2> HIDE DEF found, sarif, open
  <2> QED
    BY <1>1, <1>7, <2>1, ReportedLevels
<1>10. SarifResults(rs, PolicyOf) = Annotations(rs)
  <2>1. \A r \in open : found[r] # {} => sarif[r] = annotation[r]
    BY <1>2, EvaluationAssumption DEF Consistent, SarifLevel, AnnotationLevel
  <2> HIDE DEF found, sarif, annotation, open
  <2>2. \A x : x \in SarifResults(rs, PolicyOf) <=> x \in Annotations(rs)
    BY <1>8, <1>9, <2>1
  <2>3. /\ \A x \in SarifResults(rs, PolicyOf) : x \in Annotations(rs)
        /\ \A x \in Annotations(rs) : x \in SarifResults(rs, PolicyOf)
    BY <2>2
  <2> QED
    BY <2>3, SameElements
<1>11. {<<a[1], a[2]>> : a \in Annotations(rs)} = NewViolations(rs)
  <2> HIDE DEF found, annotation, open
  <2>1. ASSUME NEW x \in {<<a[1], a[2]>> : a \in Annotations(rs)} PROVE x \in NewViolations(rs)
    <3>1. PICK n \in open : \E v \in found[n] : x = <<n, v>>
      BY <1>8
    <3> QED
      BY <1>3, <1>7, <3>1
  <2>2. ASSUME NEW x \in NewViolations(rs) PROVE x \in {<<a[1], a[2]>> : a \in Annotations(rs)}
    <3>1. PICK n \in Rules : \E v \in found[n] : x = <<n, v>>
      BY <1>3
    <3>2. PICK v \in found[n] : x = <<n, v>>
      BY <3>1
    <3>3. <<n, v, annotation[n]>> \in Annotations(rs)
      BY <1>7, <1>8, <3>2
    <3> QED
      BY <3>2, <3>3
  <2> QED
    BY <2>1, <2>2, SameElements
<1> QED
  BY <1>4, <1>5, <1>6, <1>10, <1>11

(* The reports agree with one another and with the exit code, after any    *)
(* baseline and any scope (reporter.py:175-204, 268-318, 471-492, 533-566; *)
(* check.py:175-183, 458-512).                                             *)
THEOREM ReportsOneOutcome == Spec => []ReportsAgree
<1>1. ASSUME CheckInv PROVE ReportsAgree
  <2> SUFFICES ASSUME NEW p \in Procs, pc[p] = "done"
               PROVE  LET rs == results[p]
                          status(r) == Status(rs[r], PolicyOf[r])
                          summary == Summary(rs)
                      IN  /\ JsonViolations(rs) = NewViolations(rs)
                          /\ \A quiet \in BOOLEAN : TextViolations(rs, quiet) = NewViolations(rs)
                          /\ NewViolations(rs) \cap HiddenViolations(rs) = {}
                          /\ SarifResults(rs, PolicyOf) = Annotations(rs)
                          /\ {<<a[1], a[2]>> : a \in Annotations(rs)} = NewViolations(rs)
                          /\ summary.others <= summary.total
                          /\ Failed(summary) = Cardinality({r \in Rules : status(r) = "failed"})
                          /\ exit[p] = 1 <=> \E r \in Rules : status(r) \in {"failed", "timeout"}
                          /\ \/ \E a \in Annotations(rs) : a[3] = "error"
                             \/ \E a \in RuleErrors(rs) : a[2] = "error"
                             => exit[p] = 1
    BY DEF ReportsAgree
  <2> DEFINE rs == results[p]
  <2>1. /\ rs \in [Rules -> Outcome] /\ PolicyOf \in [Rules -> Policies]
        /\ exit[p] = IF \E r \in Rules : Fails(rs[r]) THEN 1 ELSE 0
    BY <1>1, EvaluationAssumption DEF CheckInv, ResultsKept, TypeOK
  <2>2. ASSUME NEW r \in Rules
        PROVE  Consistent(rs[r], PolicyOf[r]) /\ rs[r].found \cap rs[r].hidden = {}
    <3>1. /\ evaluated[p][r] \in Outcome /\ IsVerdict(evaluated[p][r], PolicyOf[r])
          /\ Kept(evaluated[p][r], rs[r], options[p], loaded[p], ChangedFrom(changed[p]))
      BY <1>1, EvaluationAssumption DEF CheckInv, ResultsKept, ResultKept, TypeOK
    <3> HIDE DEF rs
    <3> QED
      BY <2>1, <3>1, KeptConsistent
  <2> HIDE DEF rs
  <2>3. exit[p] = 1 <=> \E r \in Rules : Status(rs[r], PolicyOf[r]) \in {"failed", "timeout"}
    <3>1. \A r \in Rules : Fails(rs[r]) <=> Status(rs[r], PolicyOf[r]) \in {"failed", "timeout"}
      BY <2>1, <2>2 DEF Consistent, Fails, Status, Policies, Outcome
    <3> QED
      BY <2>1, <3>1
  <2>4. /\ \A a \in Annotations(rs) : a[3] = "error" => \E r \in Rules : Fails(rs[r])
        /\ \A a \in RuleErrors(rs) : a[2] = "error" => \E r \in Rules : Fails(rs[r])
    BY <2>1 DEF Annotations, RuleErrors, Unfinished, AnnotationLevel, Fails
  <2>5. exit[p] = 1 <=> \E r \in Rules : Fails(rs[r])
    BY <2>1
  <2> QED
    BY <2>1, <2>2, <2>3, <2>4, <2>5, FormatsAgree, SummaryPartition DEF rs
<1> QED
  BY <1>1, CheckInvariant, PTL
=============================================================================
