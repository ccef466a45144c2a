----------------------------- MODULE RuleEngine -----------------------------
(***************************************************************************)
(* RuleRegistry.run_all and _run_entry (archetype/rule.py) with the        *)
(* thread-local pattern diagnostics of archetype/dsl/query.py: a pool of   *)
(* worker threads takes the rules in registration order, a rule with a     *)
(* timeout runs in a daemon thread of its own that outlives its timeout,   *)
(* and the main thread collects the results in order.  With one worker     *)
(* the main thread runs the rules itself.                                  *)
(*                                                                         *)
(* A rule records its unmatched patterns one query at a time and then      *)
(* returns or raises.  Time is not measured: a join may time out whenever  *)
(* the daemon is still alive.                                              *)
(***************************************************************************)
EXTENDS RuleResult, Naturals, Sequences, FiniteSets

CONSTANTS
  Workers,   \* threads that may run rules
  Pools,     \* the sets of them that --workers gives; one is the main thread alone
  Rules,     \* the registered rules, in order, each a record of
             \*   timed:   it has a timeout
             \*   called:  neither its policy is "off" nor has it a @skip
             \*   policy:  its policy
             \*   notes:   the diagnostics its queries record
             \*   outcome: what calling it returns or raises
             \*   exits:   it may raise SystemExit or KeyboardInterrupt instead
  Pending    \* stands for a result not there yet

Ids == DOMAIN Rules

ASSUME WorkerAssumption == Workers \cap Nat = {} /\ Pools \subseteq SUBSET Workers

ASSUME RuleAssumption ==
  /\ Len(Rules) \in Nat /\ Ids = 1 .. Len(Rules)
  /\ \A i \in Ids :
       /\ Rules[i].timed \in BOOLEAN /\ Rules[i].called \in BOOLEAN
       /\ Rules[i].exits \in BOOLEAN
       /\ Rules[i].policy \in Policies
       /\ Rules[i].called => Rules[i].policy # "off"
       /\ Rules[i].notes \in SUBSET Notes
       /\ Rules[i].outcome \in Outcome
  /\ Pending \notin Outcome /\ \A notes \in SUBSET Notes : notes # Pending

VARIABLES
  pool,       \* the threads that take rules: run_all's argument workers
  next,       \* the next rule in the executor's queue
  pc,         \* where each worker is in _run_entry
  task,       \* the rule each worker is running
  local,      \* local[t]: thread t's diagnostics; rule i's daemon is thread i
  daemon,     \* the daemon thread of each rule with a timeout
  captured,   \* captured_diagnostics of each rule; Pending for None
  results,    \* what each rule's future holds
  exited,     \* rules whose future holds a BaseException
  collected,  \* how many results the main thread has taken
  run         \* where the main thread is

vars == <<pool, next, pc, task, local, daemon, captured, results, exited, collected, run>>

Threads == Workers \cup Ids
Sequential == Cardinality(pool) = 1

TypeOK ==
  /\ pool \in Pools
  /\ next \in 1 .. Len(Rules) + 1
  /\ pc \in [Workers -> {"idle", "call", "body", "join", "late"}]
  /\ task \in [Workers -> Ids \cup {0}]
  /\ \A w \in Workers : pc[w] # "idle" => task[w] \in Ids
  /\ local \in [Threads -> SUBSET Notes]
  /\ daemon \in [Ids -> {"none", "start", "body", "finally", "ending", "dead"}]
  /\ captured \in [Ids -> {Pending} \cup SUBSET Notes]
  /\ results \in [Ids -> Outcome \cup {Pending}]
  /\ exited \in SUBSET Ids
  /\ collected \in 0 .. Len(Rules)
  /\ run \in {"running", "raising", "raised", "returned"}

(* The threads of a pool are new; the main thread may have the diagnostics *)
(* of a run before this one in its storage.                                *)
Init ==
  /\ pool \in Pools
  /\ next = 1
  /\ pc = [w \in Workers |-> "idle"]
  /\ task = [w \in Workers |-> 0]
  /\ \E old \in SUBSET Notes :
       local = [t \in Threads |-> IF Sequential /\ t \in pool THEN old ELSE {}]
  /\ daemon = [i \in Ids |-> "none"]
  /\ captured = [i \in Ids |-> Pending]
  /\ results = [i \in Ids |-> Pending]
  /\ exited = {}
  /\ collected = 0
  /\ run = "running"

Goto(w, step) == pc' = [pc EXCEPT ![w] = step]

(* Faulty: one rule too many.                                              *)
TakePastEnd(w) ==
  /\ w \in pool /\ pc[w] = "idle" /\ next <= Len(Rules) + 1
  /\ Sequential => collected = next - 1
  /\ task' = [task EXCEPT ![w] = next]
  /\ next' = next + 1
  /\ Goto(w, "call")
  /\ UNCHANGED <<pool, local, daemon, captured, results, exited, collected, run>>

(* A worker takes the next rule.  Without a pool the main thread has to    *)
(* have the previous result first.                                         *)
Take(w) ==
  /\ w \in pool /\ pc[w] = "idle" /\ next <= Len(Rules)
  /\ Sequential => collected = next - 1
  /\ task' = [task EXCEPT ![w] = next]
  /\ next' = next + 1
  /\ Goto(w, "call")
  /\ UNCHANGED <<pool, local, daemon, captured, results, exited, collected, run>>

(* _run_entry has ended with this result.                                  *)
Report(w, result) ==
  /\ results' = [results EXCEPT ![task[w]] = result]
  /\ Goto(w, "idle")
  /\ UNCHANGED <<pool, next, task, local, daemon, captured, exited, collected, run>>

(* _run_entry has let a BaseException through.                             *)
Escape(w) ==
  /\ exited' = exited \cup {task[w]}
  /\ Goto(w, "idle")
  /\ UNCHANGED <<pool, next, task, local, daemon, captured, results, collected, run>>

NotCalled(w) ==
  /\ pc[w] = "call" /\ ~Rules[task[w]].called
  /\ Report(w, SkippedResult)

(* Faulty: the diagnostics of the thread's last rule are still there.      *)
CallUncleared(w) ==
  /\ pc[w] = "call" /\ Rules[task[w]].called
  /\ IF Rules[task[w]].timed
     THEN Goto(w, "join") /\ daemon' = [daemon EXCEPT ![task[w]] = "start"]
     ELSE Goto(w, "body") /\ UNCHANGED daemon
  /\ UNCHANGED <<pool, next, task, local, captured, results, exited, collected, run>>

(* The worker clears its diagnostics and calls the rule, or starts the     *)
(* daemon thread that does.                                                *)
Call(w) ==
  /\ pc[w] = "call" /\ Rules[task[w]].called
  /\ local' = [local EXCEPT ![w] = {}]
  /\ IF Rules[task[w]].timed
     THEN Goto(w, "join") /\ daemon' = [daemon EXCEPT ![task[w]] = "start"]
     ELSE Goto(w, "body") /\ UNCHANGED daemon
  /\ UNCHANGED <<pool, next, task, captured, results, exited, collected, run>>

(* Thread t, running rule i, passes a pattern to a query that no module    *)
(* matches: _record_unmatched_pattern.                                     *)
Query(t, i, n) ==
  /\ n \in Rules[i].notes \ local[t]
  /\ local' = [local EXCEPT ![t] = @ \cup {n}]
  /\ UNCHANGED <<pool, next, pc, task, daemon, captured, results, exited, collected, run>>

(* What is left of _run_entry once the call has ended: notes is            *)
(* collected_pattern_diagnostics().                                        *)
Conclude(w, notes) ==
  LET rule == Rules[task[w]] IN
    \/ Report(w, RunEntry(rule.outcome, notes, FALSE, rule.policy))
    \/ rule.exits /\ Escape(w)

BodyQueries(w, n) == pc[w] = "body" /\ Query(w, task[w], n)

BodyEnds(w) ==
  /\ pc[w] = "body" /\ Rules[task[w]].notes \subseteq local[w]
  /\ Conclude(w, local[w])

(* The daemon of rule i, run_rule: it clears its own diagnostics, calls    *)
(* the rule, captures the diagnostics in its finally block and ends.       *)
DaemonGoto(i, step) ==
  /\ daemon' = [daemon EXCEPT ![i] = step]
  /\ UNCHANGED <<pool, next, pc, task, results, exited, collected, run>>

DaemonStarts(i) ==
  /\ daemon[i] = "start"
  /\ local' = [local EXCEPT ![i] = {}]
  /\ DaemonGoto(i, "body")
  /\ UNCHANGED captured

DaemonQueries(i, n) == daemon[i] = "body" /\ Query(i, i, n)

(* Faulty: the diagnostics of a rule that raises are not captured.         *)
DaemonBodyEndsUncaptured(i) ==
  /\ daemon[i] = "body" /\ Rules[i].notes \subseteq local[i]
  /\ DaemonGoto(i, IF Rules[i].outcome.how = "assert" THEN "ending" ELSE "finally")
  /\ UNCHANGED <<local, captured>>

DaemonBodyEnds(i) ==
  /\ daemon[i] = "body" /\ Rules[i].notes \subseteq local[i]
  /\ DaemonGoto(i, "finally")
  /\ UNCHANGED <<local, captured>>

DaemonCaptures(i) ==
  /\ daemon[i] = "finally"
  /\ captured' = [captured EXCEPT ![i] = local[i]]
  /\ DaemonGoto(i, "ending")
  /\ UNCHANGED local

DaemonEnds(i) ==
  /\ daemon[i] = "ending"
  /\ DaemonGoto(i, "dead")
  /\ UNCHANGED <<local, captured>>

(* The diagnostics a worker sees: those its daemon captured, if it has,    *)
(* else the worker's own, which no query of this rule adds to.             *)
Collected(w) ==
  IF captured[task[w]] # Pending THEN captured[task[w]] ELSE local[w]

JoinReturns(w) ==
  /\ pc[w] = "join" /\ daemon[task[w]] = "dead"
  /\ Conclude(w, Collected(w))

(* Faulty: the join waits for the diagnostics of the daemon.               *)
JoinWaits(w) ==
  /\ pc[w] = "join" /\ daemon[task[w]] # "dead"
  /\ captured[task[w]] # Pending
  /\ Goto(w, "late")
  /\ UNCHANGED <<pool, next, task, local, daemon, captured, results, exited, collected, run>>

(* thread.join has timed out and thread.is_alive() has said so.            *)
JoinTimesOut(w) ==
  /\ pc[w] = "join" /\ daemon[task[w]] # "dead"
  /\ Goto(w, "late")
  /\ UNCHANGED <<pool, next, task, local, daemon, captured, results, exited, collected, run>>

(* The diagnostics are read after is_alive(), while the daemon goes on.    *)
ReportTimeout(w) ==
  /\ pc[w] = "late"
  /\ Report(w, ApplyPolicy(WithPatternDiagnostics(TimedOutResult, Collected(w)),
                           Rules[task[w]].policy))

(* The main thread goes through the futures in order.                      *)
Collect ==
  /\ run = "running" /\ collected < Len(Rules)
  /\ results[collected + 1] # Pending
  /\ collected' = collected + 1
  /\ UNCHANGED <<pool, next, pc, task, local, daemon, captured, results, exited, run>>

(* The next future raises: the rules not yet taken are cancelled ...       *)
CollectRaises ==
  /\ run = "running" /\ collected < Len(Rules)
  /\ collected + 1 \in exited
  /\ next' = Len(Rules) + 1
  /\ run' = "raising"
  /\ UNCHANGED <<pool, pc, task, local, daemon, captured, results, exited, collected>>

(* ... and the executor waits for those its threads are running.           *)
Shutdown ==
  /\ run = "raising" /\ \A w \in Workers : pc[w] = "idle"
  /\ run' = "raised"
  /\ UNCHANGED <<pool, next, pc, task, local, daemon, captured, results, exited, collected>>

(* Faulty: every rule has been taken, not every result.                    *)
ReturnEarly ==
  /\ run = "running" /\ next = Len(Rules) + 1
  /\ run' = "returned"
  /\ UNCHANGED <<pool, next, pc, task, local, daemon, captured, results, exited, collected>>

Return ==
  /\ run = "running" /\ collected = Len(Rules)
  /\ run' = "returned"
  /\ UNCHANGED <<pool, next, pc, task, local, daemon, captured, results, exited, collected>>

(* run_all is over; daemons that missed their timeout may still run.       *)
Over == run \in {"returned", "raised"} /\ UNCHANGED vars

Work(w) ==
  \/ Take(w) \/ NotCalled(w) \/ Call(w)
  \/ \E n \in Notes : BodyQueries(w, n)
  \/ BodyEnds(w)
  \/ JoinReturns(w) \/ JoinTimesOut(w) \/ ReportTimeout(w)

Daemon(i) ==
  \/ DaemonStarts(i)
  \/ \E n \in Notes : DaemonQueries(i, n)
  \/ DaemonBodyEnds(i) \/ DaemonCaptures(i) \/ DaemonEnds(i)

Main == Collect \/ CollectRaises \/ Shutdown \/ Return

Next ==
  \/ \E w \in Workers : Work(w)
  \/ \E i \in Ids : Daemon(i)
  \/ Main
  \/ Over

Spec == Init /\ [][Next]_vars

(***************************************************************************)
(* Every thread of the pool and the main thread are scheduled; a rule      *)
(* without a timeout ends by itself, nothing makes it; a join with a       *)
(* timeout ends either way.  Of the daemons nothing is assumed: a rule     *)
(* with a timeout may run forever.                                         *)
(***************************************************************************)
FairSpec == Spec /\ WF_vars(Main) /\ \A w \in Workers : WF_vars(Work(w))

-----------------------------------------------------------------------------
(* The results the code of rule i, its policy and its timeout allow: the   *)
(* one it gets when it runs alone, and if it has a timeout, a timeout with *)
(* its own diagnostics or none, by how far its daemon came.                *)
Verdicts ==
  [i \in Ids |->
     LET rule == Rules[i]
         late(notes) == ApplyPolicy(WithPatternDiagnostics(TimedOutResult, notes), rule.policy)
     IN  {RunEntry(rule.outcome, rule.notes, ~rule.called, rule.policy)}
         \cup (IF rule.called /\ rule.timed THEN {late({}), late(rule.notes)} ELSE {})]

Raising == {i \in Ids : Rules[i].called /\ Rules[i].exits}

Promise == INSTANCE RuleRun WITH run <- IF run = "raising" THEN "running" ELSE run

(* The pool, its threads and the daemons cannot be told from running the   *)
(* rules one by one: run_all implements RuleRun (rule.py:247-272).         *)
KeepsPromise == Promise!Spec

(* No rule is reported with the diagnostics of another one, and a rule     *)
(* that ran to its end is reported with all of its own (rule.py:134-176).  *)
OwnDiagnostics ==
  \A i \in Ids : results[i] # Pending /\ Rules[i].called =>
    LET own == Rules[i].notes \cup Rules[i].outcome.context IN
      /\ results[i].context \subseteq own
      /\ ~results[i].timedOut => Rules[i].notes \subseteq results[i].context

(***************************************************************************)
(* The inductive invariant of the proofs in RuleEngineProofs.              *)
(***************************************************************************)
(* The workers: no two have one rule, and none has one that has ended, as  *)
(* the executor hands each rule to one thread.                             *)
WorkerInv ==
  \A w \in Workers : pc[w] # "idle" =>
    /\ results[task[w]] = Pending /\ task[w] \notin exited
    /\ \A v \in Workers : pc[v] # "idle" /\ task[v] = task[w] => v = w

(* The queue: rules that are still in it have not been touched, those      *)
(* being run have left it.                                                 *)
QueueInv ==
  /\ \A i \in Ids : i >= next => results[i] = Pending /\ i \notin exited
  /\ \A w \in Workers : pc[w] # "idle" => task[w] < next
  /\ \A w \in Workers : pc[w] \in {"body", "join", "late"} =>
       Rules[task[w]].called /\ (Rules[task[w]].timed <=> pc[w] # "body")

(* Diagnostics in the storage of a thread, or captured from it, are those  *)
(* of the rule it runs; a worker that waits for a daemon has none.         *)
StorageInv ==
  /\ \A w \in Workers : /\ pc[w] = "body" => local[w] \subseteq Rules[task[w]].notes
                        /\ pc[w] \in {"join", "late"} => local[w] = {}
  /\ \A i \in Ids :
       /\ daemon[i] = "body" => local[i] \subseteq Rules[i].notes
       /\ daemon[i] = "finally" => local[i] = Rules[i].notes
       /\ daemon[i] \in {"ending", "dead"} => captured[i] = Rules[i].notes
       /\ captured[i] \in {Pending, Rules[i].notes}

(* The futures: one that raises has no result, the first ones are          *)
(* collected, and nothing runs when run_all has ended.                     *)
FutureInv ==
  /\ \A i \in exited : i \in Raising /\ results[i] = Pending
  /\ \A i \in Ids : i <= collected => results[i] # Pending
  /\ run \in {"raising", "raised"} => next = Len(Rules) + 1 /\ exited # {}
  /\ run = "raised" => \A w \in Workers : pc[w] = "idle"
  /\ run = "returned" => collected = Len(Rules)

(* What a run relies on, whatever the number of threads and wherever they  *)
(* are: a rule has one thread, no storage holds what another rule left in  *)
(* it, and run_all does not end under a thread (rule.py:134-186, 247-272). *)
EngineInv == WorkerInv /\ QueueInv /\ StorageInv /\ FutureInv

(* A run ends: a rule that never returns holds it up only if it has no     *)
(* timeout (rule.py:173-186).                                              *)
RunEnds == <>(run \in {"returned", "raised"})
=============================================================================
