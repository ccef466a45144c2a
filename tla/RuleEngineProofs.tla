-------------------------- MODULE RuleEngineProofs --------------------------
(***************************************************************************)
(* Proofs about RuleEngine, for any rules, pools and threads: its types,   *)
(* that no rule is run twice or reported with another rule's diagnostics,  *)
(* and that run_all implements RuleRun.                                    *)
(***************************************************************************)
EXTENDS RuleEngine, TLAPS

-----------------------------------------------------------------------------
(* The result of a rule that is not called.                                *)
LEMMA SkippedIsOutcome == SkippedResult \in Outcome
  BY DEF SkippedResult, PassedResult, ReturnedNone, Outcome

(* What _run_entry makes of a call is a result, with the diagnostics of    *)
(* the call and what the rule itself put in its context (rule.py:193-245). *)
LEMMA EntryContext ==
  ASSUME NEW o \in Outcome, NEW notes \in SUBSET Notes, NEW policy \in Policies
  PROVE  LET r == RunEntry(o, notes, FALSE, policy) IN
         /\ r \in Outcome
         /\ policy # "off" => notes \subseteq r.context /\ r.context \subseteq notes \cup o.context
<1> DEFINE r == CallResult(o, notes)
<1>1. r \in Outcome /\ notes \subseteq r.context /\ r.context \subseteq notes \cup o.context
  <2>1. o.how \in {"none", "result", "assert", "error"} /\ o.context \in SUBSET Notes
    BY DEF Outcome
  <2>2. PassedResult \in Outcome /\ FailedResult \in Outcome /\ PassedResult.context = {}
    BY DEF PassedResult, FailedResult, ReturnedNone, Outcome
  <2>3. ASSUME NEW q \in Outcome
        PROVE  /\ WithPatternDiagnostics(q, notes) \in Outcome
               /\ WithPatternDiagnostics(q, notes).context = q.context \cup notes
    BY DEF WithPatternDiagnostics, Outcome
  <2>4. CASE o.how = "none"
    <3>1. r = WithPatternDiagnostics(PassedResult, notes)
      BY <2>4 DEF CallResult
    <3> QED
      BY <3>1, <2>2, <2>3
  <2>5. CASE o.how = "result"
    <3>1. r = WithPatternDiagnostics(o, notes)
      BY <2>5 DEF CallResult
    <3> QED
      BY <3>1, <2>3
  <2>6. CASE o.how = "assert"
    <3>1. r = [FailedResult EXCEPT !.found = o.found, !.filtered = o.filtered,
                                   !.context = notes \cup o.context]
      BY <2>6 DEF CallResult
    <3> QED
      BY <3>1, <2>1, <2>2, ZenonT(20) DEF Outcome
  <2>7. CASE o.how = "error"
    <3>1. r = [FailedResult EXCEPT !.errored = TRUE, !.context = notes]
      BY <2>7 DEF CallResult
    <3> QED
      BY <3>1, <2>2 DEF Outcome
  <2> QED
    BY <2>1, <2>4, <2>5, <2>6, <2>7
<1>2. ApplyPolicy(r, policy) \in Outcome /\ ApplyPolicy(r, policy).context = r.context
  BY <1>1 DEF ApplyPolicy, Outcome
<1> QED
  BY <1>1, <1>2, SkippedIsOutcome DEF RunEntry

(* A timeout is reported as one, with the diagnostics seen by then         *)
(* (rule.py:177-186).                                                      *)
LEMMA TimeoutContext ==
  ASSUME NEW notes \in SUBSET Notes, NEW policy \in Policies
  PROVE  LET r == ApplyPolicy(WithPatternDiagnostics(TimedOutResult, notes), policy) IN
         r \in Outcome /\ r.context = notes /\ r.timedOut
<1>1. /\ TimedOutResult \in Outcome /\ TimedOutResult.context = {}
      /\ TimedOutResult.timedOut /\ ~TimedOutResult.passed
  BY DEF TimedOutResult, FailedResult, PassedResult, ReturnedNone, Outcome
<1> DEFINE r == WithPatternDiagnostics(TimedOutResult, notes)
<1>2. r \in Outcome /\ r.context = notes /\ r.timedOut
  BY <1>1 DEF WithPatternDiagnostics, Outcome
<1> QED
  BY <1>2 DEF ApplyPolicy

-----------------------------------------------------------------------------
(* Every variable keeps its type, every result is a RuleResult.            *)
THEOREM TypeCorrect == Spec => []TypeOK
<1>1. Init => TypeOK
  BY RuleAssumption, WorkerAssumption DEF Init, TypeOK, Threads
<1>2. ASSUME TypeOK, [Next]_vars PROVE TypeOK'
  <2> USE <1>2 DEF TypeOK, Goto
  <2>1. ASSUME NEW w \in Workers, Take(w) PROVE TypeOK'
    <3>1. next \in Ids /\ next' = next + 1 /\ next' \in 1 .. Len(Rules) + 1
      BY <2>1, RuleAssumption DEF Take
    <3>2. /\ pc' \in [Workers -> {"idle", "call", "body", "join", "late"}]
          /\ task' \in [Workers -> Ids \cup {0}]
          /\ \A v \in Workers : pc'[v] # "idle" => task'[v] \in Ids
      BY <2>1, <3>1 DEF Take
    <3> QED
      BY <2>1, <3>1, <3>2 DEF Take
  <2>2. ASSUME NEW w \in Workers, pc[w] # "idle", NEW r \in Outcome, Report(w, r) PROVE TypeOK'
    BY <2>2 DEF Report
  <2>3. ASSUME NEW w \in Workers, pc[w] # "idle", Escape(w) PROVE TypeOK'
    <3>1. task[w] \in Ids /\ exited' \in SUBSET Ids
      BY <2>3 DEF Escape
    <3>2. pc' \in [Workers -> {"idle", "call", "body", "join", "late"}]
      BY <2>3 DEF Escape
    <3>3. \A v \in Workers : pc'[v] # "idle" => task'[v] \in Ids
      BY <2>3 DEF Escape
    <3> QED
      BY <2>3, <3>1, <3>2, <3>3 DEF Escape
  <2>4. ASSUME NEW w \in Workers, NotCalled(w) PROVE TypeOK'
    BY <2>4, <2>2, SkippedIsOutcome DEF NotCalled
  <2>5. ASSUME NEW w \in Workers, Call(w) PROVE TypeOK'
    BY <2>5 DEF Call, Threads
  <2>6. ASSUME NEW t \in Threads, NEW i \in Ids, NEW n \in Notes, Query(t, i, n) PROVE TypeOK'
    BY <2>6 DEF Query
  <2>7. ASSUME NEW w \in Workers, pc[w] # "idle", NEW notes \in SUBSET Notes, Conclude(w, notes)
        PROVE  TypeOK'
    <3> DEFINE rule == Rules[task[w]]
    <3>1. rule.outcome \in Outcome /\ rule.policy \in Policies
      BY <2>7, RuleAssumption
    <3>2. RunEntry(rule.outcome, notes, FALSE, rule.policy) \in Outcome
      BY <3>1, <2>7, EntryContext
    <3> HIDE DEF TypeOK
    <3> QED
      BY <2>7, <2>2, <2>3, <3>2 DEF Conclude
  <2>8. ASSUME NEW w \in Workers, NEW n \in Notes, BodyQueries(w, n) PROVE TypeOK'
    BY <2>8, <2>6 DEF BodyQueries, Threads
  <2>9. ASSUME NEW w \in Workers, BodyEnds(w) PROVE TypeOK'
    <3>1. local[w] \in SUBSET Notes
      BY DEF Threads
    <3> QED
      BY <2>9, <3>1, <2>7 DEF BodyEnds
  <2>10. ASSUME NEW w \in Workers, pc[w] # "idle" PROVE Collected(w) \in SUBSET Notes
    BY <2>10 DEF Collected, Threads
  <2>11. ASSUME NEW w \in Workers, JoinReturns(w) PROVE TypeOK'
    BY <2>11, <2>7, <2>10 DEF JoinReturns
  <2>12. ASSUME NEW w \in Workers, JoinTimesOut(w) PROVE TypeOK'
    BY <2>12 DEF JoinTimesOut
  <2>13. ASSUME NEW w \in Workers, ReportTimeout(w) PROVE TypeOK'
    <3>1. pc[w] # "idle" /\ Rules[task[w]].policy \in Policies
      BY <2>13, RuleAssumption DEF ReportTimeout
    <3>2. ApplyPolicy(WithPatternDiagnostics(TimedOutResult, Collected(w)), Rules[task[w]].policy)
            \in Outcome
      BY <3>1, <2>10, TimeoutContext
    <3> QED
      BY <2>13, <3>1, <3>2, <2>2 DEF ReportTimeout
  <2>14. ASSUME NEW i \in Ids, Daemon(i) PROVE TypeOK'
    <3>1. ASSUME DaemonStarts(i) PROVE TypeOK'
      BY <3>1 DEF DaemonStarts, DaemonGoto, Threads
    <3>2. ASSUME NEW n \in Notes, DaemonQueries(i, n) PROVE TypeOK'
      BY <3>2, <2>6 DEF DaemonQueries, Threads
    <3>3. ASSUME DaemonBodyEnds(i) PROVE TypeOK'
      BY <3>3 DEF DaemonBodyEnds, DaemonGoto
    <3>4. ASSUME DaemonCaptures(i) PROVE TypeOK'
      BY <3>4 DEF DaemonCaptures, DaemonGoto, Threads
    <3>5. ASSUME DaemonEnds(i) PROVE TypeOK'
      BY <3>5 DEF DaemonEnds, DaemonGoto
    <3> HIDE DEF TypeOK
    <3> QED
      BY <2>14, <3>1, <3>2, <3>3, <3>4, <3>5 DEF Daemon
  <2>15. ASSUME Main PROVE TypeOK'
    <3>1. ASSUME Collect PROVE TypeOK'
      BY <3>1, RuleAssumption DEF Collect
    <3>2. ASSUME CollectRaises PROVE TypeOK'
      BY <3>2, RuleAssumption DEF CollectRaises
    <3>3. ASSUME Shutdown PROVE TypeOK'
      BY <3>3 DEF Shutdown
    <3>4. ASSUME Return PROVE TypeOK'
      BY <3>4 DEF Return
    <3> HIDE DEF TypeOK
    <3> QED
      BY <2>15, <3>1, <3>2, <3>3, <3>4 DEF Main
  <2>16. CASE UNCHANGED vars
    BY <2>16 DEF vars
  <2> HIDE DEF TypeOK
  <2> QED
    BY <2>1, <2>4, <2>5, <2>8, <2>9, <2>11, <2>12, <2>13, <2>14, <2>15, <2>16
       DEF Next, Work, Over
<1> QED
  BY <1>1, <1>2, PTL DEF Spec

-----------------------------------------------------------------------------
(* Threads of the pool take different rules, each once.                    *)
LEMMA QueueKept ==
  ASSUME TypeOK, WorkerInv, QueueInv, [Next]_vars
  PROVE  WorkerInv' /\ QueueInv'
<1> USE DEF TypeOK, WorkerInv, QueueInv, Goto
<1>1. ASSUME NEW w \in Workers, Take(w) PROVE WorkerInv' /\ QueueInv'
  <2>1. /\ next \in Ids /\ next' = next + 1 /\ task' = [task EXCEPT ![w] = next]
        /\ pc[w] = "idle" /\ pc' = [pc EXCEPT ![w] = "call"]
        /\ UNCHANGED <<daemon, results, exited>>
    BY <1>1, RuleAssumption DEF Take
  <2>2. WorkerInv'
    BY <2>1, RuleAssumption
  <2>3. QueueInv'
    BY <2>1, RuleAssumption
  <2> QED
    BY <2>2, <2>3
<1>2. ASSUME NEW w \in Workers, pc[w] # "idle", NEW r, Report(w, r) PROVE WorkerInv' /\ QueueInv'
  BY <1>2, RuleAssumption DEF Report
<1>3. ASSUME NEW w \in Workers, pc[w] # "idle", Escape(w) PROVE WorkerInv' /\ QueueInv'
  BY <1>3, RuleAssumption DEF Escape
<1>4. ASSUME NEW w \in Workers, NEW notes, pc[w] # "idle", Conclude(w, notes)
      PROVE  WorkerInv' /\ QueueInv'
  <2> HIDE DEF WorkerInv, QueueInv
  <2> QED
    BY <1>2, <1>3, <1>4 DEF Conclude
<1>5. ASSUME NEW w \in Workers, Call(w) PROVE WorkerInv' /\ QueueInv'
  BY <1>5 DEF Call
<1>6. ASSUME NEW w \in Workers, JoinTimesOut(w) PROVE WorkerInv' /\ QueueInv'
  BY <1>6 DEF JoinTimesOut
<1>7. ASSUME UNCHANGED <<next, pc, task, results, exited>> PROVE WorkerInv' /\ QueueInv'
  BY <1>7
<1>8. ASSUME CollectRaises PROVE WorkerInv' /\ QueueInv'
  BY <1>8, RuleAssumption DEF CollectRaises
<1>9. ASSUME NEW w \in Workers, Work(w) PROVE WorkerInv' /\ QueueInv'
  <2> HIDE DEF WorkerInv, QueueInv
  <2>1. CASE NotCalled(w) \/ BodyEnds(w) \/ JoinReturns(w) \/ ReportTimeout(w)
    BY <2>1, <1>2, <1>4 DEF NotCalled, BodyEnds, JoinReturns, ReportTimeout
  <2>2. CASE \E n \in Notes : BodyQueries(w, n)
    BY <2>2, <1>7 DEF BodyQueries, Query
  <2> QED
    BY <1>9, <1>1, <1>5, <1>6, <2>1, <2>2 DEF Work
<1>10. ASSUME NEW i \in Ids, Daemon(i) PROVE WorkerInv' /\ QueueInv'
  BY <1>10, <1>7 DEF Daemon, DaemonStarts, DaemonQueries, Query, DaemonBodyEnds,
                     DaemonCaptures, DaemonEnds, DaemonGoto
<1>11. ASSUME Collect \/ Shutdown \/ Return \/ UNCHANGED vars PROVE WorkerInv' /\ QueueInv'
  BY <1>11, <1>7 DEF Collect, Shutdown, Return, vars
<1> HIDE DEF WorkerInv, QueueInv
<1> QED
  BY <1>8, <1>9, <1>10, <1>11 DEF Next, Main, Over

(* No thread has diagnostics of a rule other than its own.                 *)
LEMMA StorageKept ==
  ASSUME TypeOK, QueueInv, StorageInv, [Next]_vars
  PROVE  StorageInv'
<1> USE DEF TypeOK, StorageInv, Goto
<1>1. \A w \in Workers : w \notin Ids
  BY WorkerAssumption, RuleAssumption
<1>2. ASSUME NEW w \in Workers, pc' = [pc EXCEPT ![w] = "idle"],
             UNCHANGED <<task, local, daemon, captured>>
      PROVE  StorageInv'
  BY <1>2
<1>3. ASSUME NEW w \in Workers, Take(w) PROVE StorageInv'
  BY <1>3 DEF Take
<1>4. ASSUME NEW w \in Workers, Call(w) PROVE StorageInv'
  <2>1. /\ pc[w] = "call" /\ task[w] \in Ids
        /\ local' = [local EXCEPT ![w] = {}]
        /\ UNCHANGED <<task, captured>>
    BY <1>4 DEF Call
  <2>2. /\ \A v \in Workers : v # w => pc'[v] = pc[v] /\ local'[v] = local[v]
        /\ local'[w] = {}
    BY <1>4, <2>1 DEF Call, Threads
  <2>3. \A i \in Ids : local'[i] = local[i]
    BY <2>1, <1>1 DEF Threads
  <2>4. \A i \in Ids : daemon'[i] = daemon[i] \/ daemon'[i] = "start"
    BY <1>4 DEF Call
  <2>5. \A v \in Workers : /\ pc'[v] = "body" => local'[v] \subseteq Rules[task'[v]].notes
                           /\ pc'[v] \in {"join", "late"} => local'[v] = {}
    BY <2>1, <2>2
  <2> QED
    BY <2>1, <2>3, <2>4, <2>5
<1>5. ASSUME NEW w \in Workers, NEW n \in Notes, BodyQueries(w, n) PROVE StorageInv'
  <2>1. /\ pc[w] = "body" /\ n \in Rules[task[w]].notes
        /\ local' = [local EXCEPT ![w] = @ \cup {n}]
        /\ UNCHANGED <<pc, task, daemon, captured>>
    BY <1>5 DEF BodyQueries, Query
  <2> QED
    BY <2>1, <1>1 DEF Threads
<1>6. ASSUME NEW w \in Workers, JoinTimesOut(w) PROVE StorageInv'
  BY <1>6 DEF JoinTimesOut
<1>7. ASSUME UNCHANGED <<pc, task, local, daemon, captured>> PROVE StorageInv'
  BY <1>7
<1>8. ASSUME NEW i \in Ids, Daemon(i) PROVE StorageInv'
  <2>1. UNCHANGED <<pc, task>> /\ \A w \in Workers : local'[w] = local[w]
    BY <1>8, <1>1 DEF Daemon, DaemonStarts, DaemonQueries, Query, DaemonBodyEnds,
                      DaemonCaptures, DaemonEnds, DaemonGoto, Threads
  <2>2. \A j \in Ids : j # i => /\ local'[j] = local[j] /\ daemon'[j] = daemon[j]
                                /\ captured'[j] = captured[j]
    BY <1>8 DEF Daemon, DaemonStarts, DaemonQueries, Query, DaemonBodyEnds,
                DaemonCaptures, DaemonEnds, DaemonGoto, Threads
  <2>3. /\ daemon'[i] = "body" => local'[i] \subseteq Rules[i].notes
        /\ daemon'[i] = "finally" => local'[i] = Rules[i].notes
        /\ daemon'[i] \in {"ending", "dead"} => captured'[i] = Rules[i].notes
        /\ captured'[i] \in {Pending, Rules[i].notes}
    <3>1. i \in Threads
      BY DEF Threads
    <3>2. CASE DaemonStarts(i)
      BY <3>1, <3>2 DEF DaemonStarts, DaemonGoto
    <3>3. CASE \E n \in Notes : DaemonQueries(i, n)
      BY <3>1, <3>3 DEF DaemonQueries, Query
    <3>4. CASE DaemonBodyEnds(i)
      BY <3>4 DEF DaemonBodyEnds, DaemonGoto
    <3>5. CASE DaemonCaptures(i)
      BY <3>5 DEF DaemonCaptures, DaemonGoto
    <3>6. CASE DaemonEnds(i)
      BY <3>6 DEF DaemonEnds, DaemonGoto
    <3> QED
      BY <1>8, <3>2, <3>3, <3>4, <3>5, <3>6 DEF Daemon
  <2> QED
    BY <2>1, <2>2, <2>3
<1>9. ASSUME NEW w \in Workers, Work(w) PROVE StorageInv'
  <2> HIDE DEF StorageInv
  <2>1. CASE NotCalled(w) \/ BodyEnds(w) \/ JoinReturns(w) \/ ReportTimeout(w)
    BY <2>1, <1>2 DEF NotCalled, BodyEnds, JoinReturns, ReportTimeout, Conclude, Report, Escape
  <2> QED
    BY <1>9, <1>3, <1>4, <1>5, <1>6, <2>1 DEF Work
<1>10. ASSUME Main \/ UNCHANGED vars PROVE StorageInv'
  BY <1>10, <1>7 DEF Main, Collect, CollectRaises, Shutdown, Return, vars
<1> HIDE DEF StorageInv
<1> QED
  BY <1>8, <1>9, <1>10 DEF Next, Over

(* The results are collected in order, and a future that raises has none.  *)
LEMMA FuturesKept ==
  ASSUME TypeOK, EngineInv, [Next]_vars
  PROVE  FutureInv'
<1> USE DEF TypeOK, EngineInv, FutureInv, Goto
<1>1. ASSUME NEW w \in Workers, Take(w) PROVE FutureInv'
  <2>1. /\ next \in Ids /\ run \notin {"raising", "raised"}
        /\ UNCHANGED <<results, exited, collected, run>>
    BY <1>1, RuleAssumption DEF Take
  <2>2. run # "returned"
    BY <2>1, RuleAssumption DEF QueueInv
  <2> QED
    BY <2>1, <2>2
<1>2. ASSUME NEW w \in Workers, pc[w] # "idle", NEW r \in Outcome, Report(w, r) PROVE FutureInv'
  <2>1. /\ task[w] \in Ids /\ task[w] \notin exited /\ r # Pending
        /\ results' = [results EXCEPT ![task[w]] = r]
        /\ UNCHANGED <<next, exited, collected, run>>
        /\ \A v \in Workers : pc[v] = "idle" => pc'[v] = "idle"
    BY <1>2, RuleAssumption DEF Report, WorkerInv
  <2> QED
    BY <2>1
<1>3. ASSUME NEW w \in Workers, pc[w] # "idle", Rules[task[w]].called, Rules[task[w]].exits,
             Escape(w)
      PROVE  FutureInv'
  <2>1. /\ task[w] \in Ids /\ results[task[w]] = Pending
        /\ exited' = exited \cup {task[w]}
        /\ UNCHANGED <<next, results, collected, run>>
        /\ \A v \in Workers : pc[v] = "idle" => pc'[v] = "idle"
    BY <1>3 DEF Escape, WorkerInv
  <2> QED
    BY <2>1, <1>3 DEF Raising
<1>4. ASSUME NEW w \in Workers, pc[w] # "idle", Rules[task[w]].called, NEW notes \in SUBSET Notes,
             Conclude(w, notes)
      PROVE  FutureInv'
  <2>1. task[w] \in Ids
    BY <1>4
  <2>2. RunEntry(Rules[task[w]].outcome, notes, FALSE, Rules[task[w]].policy) \in Outcome
    BY <2>1, RuleAssumption, EntryContext
  <2> HIDE DEF FutureInv
  <2> QED
    BY <1>2, <1>3, <1>4, <2>2 DEF Conclude
<1>5. ASSUME NEW w \in Workers, pc[w] # "idle", \E step : pc' = [pc EXCEPT ![w] = step],
             UNCHANGED <<next, results, exited, collected, run>>
      PROVE  FutureInv'
  BY <1>5
<1>6. ASSUME UNCHANGED <<next, pc, results, exited, collected, run>> PROVE FutureInv'
  BY <1>6
<1>7. ASSUME NEW w \in Workers, pc[w] # "idle" PROVE Collected(w) \in SUBSET Notes
  BY <1>7 DEF Collected, Threads
<1>8. ASSUME NEW w \in Workers, Work(w) PROVE FutureInv'
  <2> HIDE DEF FutureInv
  <2>1. CASE NotCalled(w)
    BY <2>1, <1>2, SkippedIsOutcome DEF NotCalled
  <2>2. CASE Call(w)
    BY <2>2, <1>5 DEF Call
  <2>3. CASE \E n \in Notes : BodyQueries(w, n)
    BY <2>3, <1>6 DEF BodyQueries, Query
  <2>4. CASE BodyEnds(w)
    <3>1. pc[w] = "body" /\ local[w] \in SUBSET Notes /\ Rules[task[w]].called
      BY <2>4 DEF BodyEnds, QueueInv, Threads
    <3> QED
      BY <2>4, <3>1, <1>4 DEF BodyEnds
  <2>5. CASE JoinReturns(w)
    <3>1. pc[w] = "join" /\ Rules[task[w]].called
      BY <2>5 DEF JoinReturns, QueueInv
    <3> QED
      BY <2>5, <3>1, <1>4, <1>7 DEF JoinReturns
  <2>6. CASE JoinTimesOut(w)
    BY <2>6, <1>5 DEF JoinTimesOut
  <2>7. CASE ReportTimeout(w)
    <3>1. pc[w] # "idle" /\ Rules[task[w]].policy \in Policies
      BY <2>7, RuleAssumption DEF ReportTimeout
    <3> QED
      BY <2>7, <3>1, <1>2, <1>7, TimeoutContext DEF ReportTimeout
  <2> QED
    BY <1>8, <1>1, <2>1, <2>2, <2>3, <2>4, <2>5, <2>6, <2>7 DEF Work
<1>9. ASSUME NEW i \in Ids, Daemon(i) PROVE FutureInv'
  BY <1>9, <1>6 DEF Daemon, DaemonStarts, DaemonQueries, Query, DaemonBodyEnds,
                    DaemonCaptures, DaemonEnds, DaemonGoto
<1>10. ASSUME Main PROVE FutureInv'
  <2>1. ASSUME Collect PROVE FutureInv'
    <3>1. /\ run = "running" /\ collected + 1 \in Ids /\ results[collected + 1] # Pending
          /\ collected' = collected + 1
          /\ UNCHANGED <<next, pc, results, exited, run>>
      BY <2>1, RuleAssumption DEF Collect
    <3> QED
      BY <3>1, RuleAssumption
  <2>2. ASSUME CollectRaises PROVE FutureInv'
    BY <2>2 DEF CollectRaises
  <2>3. ASSUME Shutdown PROVE FutureInv'
    BY <2>3 DEF Shutdown
  <2>4. ASSUME Return PROVE FutureInv'
    BY <2>4 DEF Return
  <2> HIDE DEF FutureInv
  <2> QED
    BY <1>10, <2>1, <2>2, <2>3, <2>4 DEF Main
<1>11. CASE UNCHANGED vars
  BY <1>11, <1>6 DEF vars
<1> HIDE DEF FutureInv
<1> QED
  BY <1>8, <1>9, <1>10, <1>11 DEF Next, Over

(* What a run relies on holds in every state of it (rule.py:134-186,       *)
(* 247-272).                                                               *)
THEOREM EngineInvariant == Spec => []EngineInv
<1>1. Init => EngineInv
  <2> SUFFICES ASSUME Init PROVE EngineInv
    OBVIOUS
  <2>1. WorkerInv /\ QueueInv
    BY RuleAssumption DEF Init, WorkerInv, QueueInv
  <2>2. StorageInv
    BY DEF Init, StorageInv
  <2>3. FutureInv
    BY RuleAssumption DEF Init, FutureInv
  <2> QED
    BY <2>1, <2>2, <2>3 DEF EngineInv
<1>2. TypeOK /\ EngineInv /\ [Next]_vars => EngineInv'
  BY QueueKept, StorageKept, FuturesKept DEF EngineInv
<1> QED
  BY <1>1, <1>2, TypeCorrect, PTL DEF Spec

-----------------------------------------------------------------------------
(* What a worker sees when it reports: all the diagnostics of its rule if  *)
(* the rule has ended, all or none if it has timed out.                    *)
LEMMA SeenAtReport ==
  ASSUME TypeOK, EngineInv, NEW w \in Workers
  PROVE  /\ BodyEnds(w) => local[w] = Rules[task[w]].notes
         /\ JoinReturns(w) => Collected(w) = Rules[task[w]].notes
         /\ ReportTimeout(w) => Collected(w) \in {{}, Rules[task[w]].notes}
<1>1. ASSUME pc[w] # "idle" PROVE task[w] \in Ids /\ Rules[task[w]].notes # Pending
  BY <1>1, RuleAssumption DEF TypeOK
<1> QED
  BY <1>1 DEF BodyEnds, JoinReturns, ReportTimeout, Collected, EngineInv, StorageInv

(* A step that reports a result reports one that the rule may get.         *)
LEMMA ReportsVerdict ==
  ASSUME TypeOK, EngineInv, NEW w \in Workers, Work(w)
  PROVE  \/ UNCHANGED <<results, run>>
         \/ /\ pc[w] # "idle" /\ UNCHANGED run
            /\ \E r \in Verdicts[task[w]] : results' = [results EXCEPT ![task[w]] = r]
<1> DEFINE i == task[w]
           rule == Rules[task[w]]
           late(notes) == ApplyPolicy(WithPatternDiagnostics(TimedOutResult, notes), rule.policy)
<1>1. ASSUME pc[w] # "idle"
      PROVE  /\ RunEntry(rule.outcome, rule.notes, ~rule.called, rule.policy) \in Verdicts[i]
             /\ rule.called /\ rule.timed =>
                  late({}) \in Verdicts[i] /\ late(rule.notes) \in Verdicts[i]
             /\ rule.called \in BOOLEAN
  BY <1>1, RuleAssumption DEF Verdicts, TypeOK
<1>2. CASE Take(w)
  BY <1>2 DEF Take
<1>3. CASE NotCalled(w)
  BY <1>3, <1>1 DEF NotCalled, Report, RunEntry
<1>4. CASE Call(w) \/ (\E n \in Notes : BodyQueries(w, n)) \/ JoinTimesOut(w)
  BY <1>4 DEF Call, BodyQueries, Query, JoinTimesOut
<1>5. CASE BodyEnds(w) \/ JoinReturns(w)
  <2>1. pc[w] # "idle" /\ ~rule.called = FALSE
    BY <1>5, <1>1 DEF BodyEnds, JoinReturns, EngineInv, QueueInv
  <2>2. Conclude(w, rule.notes)
    BY <1>5, SeenAtReport DEF BodyEnds, JoinReturns
  <2>3. CASE Report(w, RunEntry(rule.outcome, rule.notes, FALSE, rule.policy))
    BY <2>1, <2>3, <1>1 DEF Report
  <2>4. CASE Escape(w)
    BY <2>4 DEF Escape
  <2> QED
    BY <2>2, <2>3, <2>4 DEF Conclude
<1>6. CASE ReportTimeout(w)
  <2>1. pc[w] = "late" /\ rule.called /\ rule.timed
    BY <1>6 DEF ReportTimeout, EngineInv, QueueInv
  <2>2. Report(w, late(Collected(w))) /\ Collected(w) \in {{}, rule.notes}
    BY <1>6, SeenAtReport DEF ReportTimeout
  <2> QED
    BY <2>1, <2>2, <1>1 DEF Report
<1> QED
  BY <1>2, <1>3, <1>4, <1>5, <1>6 DEF Work

(* Steps of the daemons and of the main thread report nothing.             *)
LEMMA OthersReportNothing ==
  ASSUME Main \/ UNCHANGED vars \/ \E i \in Ids : Daemon(i)
  PROVE  UNCHANGED results
BY DEF Main, Collect, CollectRaises, Shutdown, Return, vars, Daemon, DaemonStarts,
       DaemonQueries, Query, DaemonBodyEnds, DaemonCaptures, DaemonEnds, DaemonGoto

(* A result that the rule may get has the diagnostics of its own queries,  *)
(* and all of them if the rule has ended (rule.py:136-145, 193-245).       *)
LEMMA VerdictContext ==
  ASSUME NEW i \in Ids, Rules[i].called, NEW r \in Verdicts[i]
  PROVE  /\ r.context \subseteq Rules[i].notes \cup Rules[i].outcome.context
         /\ ~r.timedOut => Rules[i].notes \subseteq r.context
<1> DEFINE rule == Rules[i]
           late(notes) == ApplyPolicy(WithPatternDiagnostics(TimedOutResult, notes), rule.policy)
<1>1. /\ rule.notes \in SUBSET Notes /\ {} \in SUBSET Notes /\ rule.outcome \in Outcome
      /\ rule.policy \in Policies /\ rule.policy # "off"
  BY RuleAssumption
<1>2. r = RunEntry(rule.outcome, rule.notes, FALSE, rule.policy) \/ r \in {late({}), late(rule.notes)}
  BY DEF Verdicts
<1>3. CASE r = RunEntry(rule.outcome, rule.notes, FALSE, rule.policy)
  BY <1>1, <1>3, EntryContext
<1>4. CASE r \in {late({}), late(rule.notes)}
  BY <1>1, <1>4, TimeoutContext
<1> QED
  BY <1>2, <1>3, <1>4

(* No rule is reported with the diagnostics of another, and one that ran   *)
(* to its end is reported with all of its own, whatever threads it shared  *)
(* with other rules and whenever its timeout struck (rule.py:134-176).     *)
THEOREM DiagnosticsAreOwn == Spec => []OwnDiagnostics
<1> DEFINE Allowed == \A i \in Ids : results[i] \in {Pending} \cup Verdicts[i]
<1>1. Init => Allowed
  BY DEF Init
<1>2. TypeOK /\ EngineInv /\ Allowed /\ [Next]_vars => Allowed'
  <2> SUFFICES ASSUME TypeOK, EngineInv, Allowed, [Next]_vars PROVE Allowed'
    OBVIOUS
  <2>1. CASE UNCHANGED results
    BY <2>1
  <2>2. ASSUME NEW w \in Workers, NEW r \in Verdicts[task[w]],
               results' = [results EXCEPT ![task[w]] = r]
        PROVE  Allowed'
    BY <2>2 DEF TypeOK
  <2>3. CASE \E w \in Workers : Work(w)
    <3> HIDE DEF Allowed
    <3> QED
      BY <2>3, <2>1, <2>2, ReportsVerdict
  <2> QED
    BY <2>1, <2>3, OthersReportNothing DEF Next, Over
<1>3. Allowed => OwnDiagnostics
  BY VerdictContext DEF OwnDiagnostics
<1> HIDE DEF Allowed
<1> QED
  BY <1>1, <1>2, <1>3, TypeCorrect, EngineInvariant, PTL DEF Spec

-----------------------------------------------------------------------------
(* run_all implements RuleRun: its threads, its queue and its timeouts     *)
(* cannot be told from running the rules one by one (rule.py:247-272).     *)
THEOREM RunAllKeepsPromise == Spec => KeepsPromise
<1>1. Init => Promise!Init
  BY DEF Init, Promise!Init
<1>2. TypeOK /\ EngineInv /\ EngineInv' /\ [Next]_vars
        => [Promise!Next]_<<results, IF run = "raising" THEN "running" ELSE run>>
  <2> SUFFICES ASSUME TypeOK, EngineInv, EngineInv', [Next]_vars
               PROVE  [Promise!Next]_<<results, IF run = "raising" THEN "running" ELSE run>>
    OBVIOUS
  <2>1. CASE UNCHANGED <<results, run>>
    BY <2>1
  <2>2. ASSUME NEW w \in Workers, pc[w] # "idle", UNCHANGED run,
               NEW r \in Verdicts[task[w]], results' = [results EXCEPT ![task[w]] = r]
        PROVE  Promise!Next
    <3>1. task[w] \in Ids /\ results[task[w]] = Pending
      BY <2>2 DEF TypeOK, EngineInv, WorkerInv
    <3>2. run \in {"running", "raising"}
      BY <2>2, <3>1 DEF TypeOK, EngineInv, FutureInv, Ids
    <3>3. Promise!Report(task[w])
      BY <2>2, <3>1, <3>2 DEF Promise!Report
    <3> QED
      BY <3>1, <3>3 DEF Promise!Next
  <2>3. CASE \E w \in Workers : Work(w)
    BY <2>3, <2>1, <2>2, ReportsVerdict
  <2>4. CASE \E i \in Ids : Daemon(i)
    BY <2>4, <2>1 DEF Daemon, DaemonStarts, DaemonQueries, Query, DaemonBodyEnds,
                      DaemonCaptures, DaemonEnds, DaemonGoto
  <2>5. CASE Collect \/ UNCHANGED vars
    BY <2>5, <2>1 DEF Collect, vars
  <2>6. CASE CollectRaises
    BY <2>6 DEF CollectRaises
  <2>7. CASE Shutdown
    <3>1. \E i \in Raising : results[i] = Pending
      BY <2>7 DEF Shutdown, EngineInv, FutureInv
    <3>2. Promise!Raise
      BY <2>7, <3>1 DEF Shutdown, Promise!Raise
    <3> QED
      BY <3>2 DEF Promise!Next
  <2>8. CASE Return
    <3>1. \A i \in Ids : results[i] # Pending
      BY <2>8, RuleAssumption DEF Return, EngineInv, FutureInv
    <3>2. Promise!Return
      BY <2>8, <3>1 DEF Return, Promise!Return
    <3> QED
      BY <3>2 DEF Promise!Next
  <2> QED
    BY <2>3, <2>4, <2>5, <2>6, <2>7, <2>8 DEF Next, Main, Over
<1> QED
  BY <1>1, <1>2, TypeCorrect, EngineInvariant, PTL DEF Spec, KeepsPromise, Promise!Spec
=============================================================================
