--------------------------- MODULE RuleDecorators ---------------------------
(***************************************************************************)
(* The decorators @warn, @skip, @escalate and @since of archetype/rule.py, *)
(* as a call of a decorated rule unwinds through them.  A rule is a body   *)
(* and the stack of decorators between it and @rule, innermost first; one  *)
(* action is the part of one decorator's wrapped() that runs once the      *)
(* function under it has ended.  A rule is checked again and again while   *)
(* days pass and files are committed; its body and stack stay the same.    *)
(***************************************************************************)
EXTENDS RuleResult, Naturals, Sequences

CONSTANTS
  Decorators,   \* the decorators in use: records [kind, ...]
  MaxDepth,     \* bound on the number of decorators on a rule
  LastDay       \* bound on the days that pass

(* An escalate decorator has its deadline; a since decorator the           *)
(* violations whose file was modified after its date, in git as it was on  *)
(* the first day.                                                          *)
ASSUME DecoratorAssumption ==
  \A d \in Decorators :
    /\ d.kind \in {"warn", "skip", "escalate", "since"}
    /\ d.kind = "escalate" => d.until \in Nat
    /\ d.kind = "since" => d.recent \in SUBSET Violations

ASSUME BoundAssumption == MaxDepth \in Nat /\ LastDay \in Nat

VARIABLES
  body,       \* what calling the undecorated function does
  notes,      \* the unmatched patterns it records
  stack,      \* its decorators, innermost first
  policy,     \* archetype.toml's policy for it
  today,      \* date.today()
  committed,  \* violations whose file was committed since the first day
  frame,      \* the decorator the call has unwound to; 0 when it is not running
  outcome,    \* what the function below has returned or raised
  results     \* the RuleResult of each day's last check, by day

vars == <<body, notes, stack, policy, today, committed, frame, outcome, results>>
rule == <<body, notes, stack, policy>>

Days == 0 .. LastDay
Stacks == UNION {[1 .. n -> Decorators] : n \in 0 .. MaxDepth}
Unchecked == [SkippedResult EXCEPT !.how = "none"]

Has(kind) == \E i \in DOMAIN stack : stack[i].kind = kind

(* The attribute _skipped, which functools.wraps copies up the stack.      *)
SkippedAttr == Has("skip")

TypeOK ==
  /\ body \in Outcome
  /\ notes \in SUBSET Notes
  /\ stack \in Stacks
  /\ policy \in Policies
  /\ today \in Days
  /\ committed \in SUBSET Violations
  /\ frame \in 0 .. Len(stack) + 1
  /\ outcome \in Outcome
  /\ results \in [Days -> Outcome]

(***************************************************************************)
(* A rule as the tests write it: it passes, fails with violations, fails   *)
(* on a plain assert, or errors, and may have used a pattern that matches  *)
(* nothing.  A body that errors has no violations.                         *)
(***************************************************************************)
Bodies == {ReturnedNone, RaisedError} \cup {RaisedAssertion(vs) : vs \in SUBSET Violations}

Init ==
  /\ body \in Bodies
  /\ notes \in SUBSET Notes
  /\ stack \in Stacks
  /\ policy \in Policies
  /\ today = 0
  /\ committed = {}
  /\ frame = 0
  /\ outcome = ReturnedNone
  /\ results = [d \in Days |-> Unchecked]

(* A policy of "off" and a @skip anywhere on the stack end the check       *)
(* before the function is called.                                          *)
NotCalled ==
  /\ frame = 0
  /\ policy = "off" \/ SkippedAttr
  /\ results' = [results EXCEPT ![today] = SkippedResult]
  /\ UNCHANGED <<rule, today, committed, frame, outcome>>

(* The call has gone down the stack and run the body.                      *)
CallBody ==
  /\ frame = 0
  /\ ~(policy = "off" \/ SkippedAttr)
  /\ frame' = 1
  /\ outcome' = body
  /\ UNCHANGED <<rule, today, committed, results>>

(* The call returns through a decorator of this kind.                      *)
UnwindTo(kind) ==
  /\ frame \in DOMAIN stack
  /\ stack[frame].kind = kind
  /\ frame' = frame + 1
  /\ UNCHANGED <<rule, today, committed, results>>

(* Faulty: the violations of the exception are not taken over.             *)
WarnedResultEmpty(o) == [FailedResult EXCEPT !.warned = TRUE, !.context = o.context]

(* A RuleResult for violations that do not fail the run.                   *)
WarnedResult(o) ==
  [FailedResult EXCEPT !.warned = TRUE, !.found = o.found, !.context = o.context]

(* @warn: a call that returns, returns "passed", whatever it returned.     *)
Warn ==
  /\ UnwindTo("warn")
  /\ outcome' = CASE outcome.how \in {"none", "result"} -> PassedResult
                  [] outcome.how = "assert" -> WarnedResult(outcome)
                  [] outcome.how = "error" -> outcome

(* Faulty: the deadline itself no longer counts as grace.                  *)
EscalateEarly ==
  /\ UnwindTo("escalate")
  /\ outcome' = CASE outcome.how = "assert" /\ today < stack[frame].until -> WarnedResult(outcome)
                  [] outcome.how = "none" -> PassedResult
                  [] OTHER -> outcome

(* Faulty: the comparison is the wrong way round.                          *)
EscalateReversed ==
  /\ UnwindTo("escalate")
  /\ outcome' = CASE outcome.how = "assert" /\ today >= stack[frame].until -> WarnedResult(outcome)
                  [] outcome.how = "none" -> PassedResult
                  [] OTHER -> outcome

(* @escalate: as @warn through the deadline, transparent after it.         *)
Escalate ==
  /\ UnwindTo("escalate")
  /\ outcome' = CASE outcome.how = "assert" /\ today <= stack[frame].until -> WarnedResult(outcome)
                  [] outcome.how = "none" -> PassedResult
                  [] OTHER -> outcome

(* get_files_modified_after: git log since the date, in the working tree.  *)
Recent(d) == d.recent \cup committed

(* @since: drops the violations of files older than its date, and passes   *)
(* when none is left.                                                      *)
Since ==
  /\ UnwindTo("since")
  /\ LET scoped == outcome.found \cap Recent(stack[frame])
         dropped == outcome.found \ Recent(stack[frame])
     IN  outcome' =
           CASE outcome.how = "assert" /\ scoped = {} ->
                  [PassedResult EXCEPT !.filtered = dropped]
             [] outcome.how = "assert" /\ scoped # {} ->
                  [outcome EXCEPT !.found = scoped, !.filtered = dropped]
             [] outcome.how = "none" -> PassedResult
             [] OTHER -> outcome

(* The call is back in _run_entry.                                         *)
RunEntryEnds ==
  /\ frame = Len(stack) + 1
  /\ results' = [results EXCEPT ![today] = RunEntry(outcome, notes, SkippedAttr, policy)]
  /\ frame' = 0
  /\ outcome' = ReturnedNone
  /\ UNCHANGED <<rule, today, committed>>

(* Between two checks the date changes or files are committed.             *)
NextDay ==
  /\ frame = 0
  /\ today < LastDay
  /\ today' = today + 1
  /\ UNCHANGED <<rule, committed, frame, outcome, results>>

Commit(v) ==
  /\ frame = 0
  /\ committed' = committed \cup {v}
  /\ UNCHANGED <<rule, today, frame, outcome, results>>

Next ==
  \/ NotCalled \/ CallBody
  \/ Warn \/ Escalate \/ Since
  \/ RunEntryEnds
  \/ NextDay
  \/ \E v \in Violations : Commit(v)

Spec == Init /\ [][Next]_vars

-----------------------------------------------------------------------------
(* The moment a call is back in _run_entry, and the result it will get.    *)
AtEnd == frame = Len(stack) + 1
Verdict == RunEntry(outcome, notes, SkippedAttr, policy)

(* v is in a file some @since on the stack takes for an old one.           *)
OutOfScope(v) ==
  \E i \in DOMAIN stack : stack[i].kind = "since" /\ v \notin Recent(stack[i])

(* A @warn over a decorator that catches assertions returns a passed       *)
(* result for theirs.  Stacks that have none of that are disciplined.      *)
Disciplined ==
  \A i, j \in DOMAIN stack :
    i < j /\ stack[j].kind = "warn" => stack[i].kind \notin {"warn", "escalate"}

(* A violation the body raised reaches the report, however many decorators *)
(* it passes, unless a @since takes its file for old (rule.py:355-565).    *)
ViolationsAccounted ==
  AtEnd /\ Disciplined =>
    \A v \in body.found :
      OutOfScope(v) \/ (v \in Verdict.found /\ Reported(Verdict))

Escalations == {i \in DOMAIN stack : stack[i].kind = "escalate"}

InGrace == \E i \in Escalations : today <= stack[i].until

Enforced ==
  /\ policy = "error" /\ ~Has("warn") /\ ~InGrace
  /\ \E v \in body.found : ~OutOfScope(v)

(***************************************************************************)
(* @escalate keeps its schedule on every stack: up to and on the deadline  *)
(* of any of its decorators a violation does not fail the run, and after   *)
(* the last deadline one that is in scope does (rule.py:460-477).          *)
(***************************************************************************)
EscalationOnSchedule ==
  AtEnd /\ Escalations # {} =>
    /\ InGrace /\ body.how # "error" => ~Fails(Verdict)
    /\ Enforced => Fails(Verdict)

(* No date and no commit makes a failing rule pass while its code stays as *)
(* it is: neither @since nor @escalate ever loosens with time.             *)
OnceFailingStaysFailing ==
  \A d, e \in Days :
    d < e /\ results[e] # Unchecked /\ Fails(results[d]) => Fails(results[e])

(* A pattern that matched nothing is reported whatever the rule's outcome. *)
UnmatchedPatternsShown ==
  AtEnd => notes \subseteq Verdict.context /\ (notes # {} => Reported(Verdict))

(* The pytest plugin, which judges the same call by code of its own, fails *)
(* the rules that check fails and no others (pytest_plugin.py:75-137).     *)
InPytest == PytestOutcome(outcome, SkippedAttr, policy)

PytestAgrees == AtEnd => (InPytest = "failed" <=> Fails(Verdict))

-----------------------------------------------------------------------------
(* The inductive invariant.  Of a call that has unwound to frame n of a    *)
(* body that raises an assertion: whether a decorator below n turns that   *)
(* into a warning, and which violations those below n leave in it.         *)
Softens(d, day) == d.kind = "warn" \/ (d.kind = "escalate" /\ day <= d.until)

Left(n) ==
  {v \in body.found :
     \A i \in DOMAIN stack : i < n /\ stack[i].kind = "since" => v \in Recent(stack[i])}

(* The assertion comes through to n.  The last violation that a @since     *)
(* drops takes the assertion with it, and so a plain assert is dropped.    *)
Uncaught(n, day) ==
  /\ body.how = "assert"
  /\ \A i \in DOMAIN stack : i < n => ~Softens(stack[i], day)
  /\ (\E i \in DOMAIN stack : i < n /\ stack[i].kind = "since") => Left(n) # {}

(* What a call that has run its body has come to so far: a result that no  *)
(* longer fails, an error as it was raised, or an assertion.               *)
Softened(o) ==
  /\ o.how = "result" /\ (o.passed <=> ~o.warned) /\ (o.passed => o.found = {})
  /\ ~o.skipped /\ ~o.timedOut /\ ~o.errored /\ o.hidden = {}

CallInv ==
  frame # 0 =>
    /\ policy # "off" /\ ~SkippedAttr
    /\ body.how = "none" => outcome \in {ReturnedNone, PassedResult}
    /\ body.how = "error" => outcome.how = "error"
    /\ body.how = "assert" =>
         IF Uncaught(frame, today)
         THEN outcome.how = "assert" /\ outcome.found = Left(frame)
         ELSE Softened(outcome) /\ (Disciplined => Left(frame) \subseteq outcome.found)

(* The rule as it is fails on this day.                                    *)
FailsOn(day) ==
  /\ policy = "error" /\ ~SkippedAttr
  /\ body.how = "error" \/ Uncaught(Len(stack) + 1, day)

RuleInv ==
  /\ TypeOK /\ body \in Bodies
  /\ CallInv
  /\ \A d \in Days : results[d] # Unchecked => d <= today
  /\ \A d \in Days : Fails(results[d]) => FailsOn(d)
  /\ OnceFailingStaysFailing
=============================================================================
