------------------------ MODULE RuleDecoratorsProofs ------------------------
(***************************************************************************)
(* Proofs about RuleDecorators, for any rules, any stacks of decorators of *)
(* any depth, any dates and any commits: what becomes of an assertion that *)
(* unwinds through the decorators, today and on later days.                *)
(***************************************************************************)
EXTENDS RuleDecorators, Reports, SequenceTheorems, TLAPS

-----------------------------------------------------------------------------
LEMMA StackIsSequence ==
  ASSUME NEW s \in Stacks
  PROVE  /\ s \in Seq(Decorators) /\ Len(s) \in Nat /\ DOMAIN s = 1 .. Len(s)
         /\ \A i \in 1 .. Len(s) : s[i] \in Decorators
<1>1. PICK n \in 0 .. MaxDepth : s \in [1 .. n -> Decorators]
  BY DEF Stacks
<1>2. n \in Nat
  BY BoundAssumption
<1>3. s \in Seq(Decorators)
  BY <1>1, <1>2, SeqDef
<1> QED
  BY <1>3

(* The outcomes that code can have of itself, field by field.              *)
Plain(o) ==
  /\ o \in Outcome /\ ~o.warned /\ ~o.skipped /\ ~o.timedOut /\ ~o.errored
  /\ o.filtered = {} /\ o.hidden = {} /\ o.context = {}

LEMMA Constants ==
  /\ Plain(ReturnedNone) /\ ReturnedNone.how = "none" /\ ReturnedNone.passed /\ ReturnedNone.found = {}
  /\ Plain(PassedResult) /\ PassedResult.how = "result" /\ PassedResult.passed
  /\ PassedResult.found = {}
  /\ Plain(FailedResult) /\ FailedResult.how = "result" /\ ~FailedResult.passed
  /\ FailedResult.found = {}
  /\ Plain(RaisedError) /\ RaisedError.how = "error" /\ ~RaisedError.passed /\ RaisedError.found = {}
<1>1. Plain(ReturnedNone) /\ ReturnedNone.how = "none" /\ ReturnedNone.passed /\ ReturnedNone.found = {}
  BY DEF Plain, Outcome, ReturnedNone
<1>2. Plain(PassedResult) /\ PassedResult.how = "result" /\ PassedResult.passed
      /\ PassedResult.found = {}
  BY <1>1 DEF Plain, Outcome, PassedResult
<1>3. Plain(FailedResult) /\ FailedResult.how = "result" /\ ~FailedResult.passed
      /\ FailedResult.found = {}
  BY <1>2 DEF Plain, Outcome, FailedResult
<1>4. Plain(RaisedError) /\ RaisedError.how = "error" /\ ~RaisedError.passed /\ RaisedError.found = {}
  BY <1>1 DEF Plain, Outcome, RaisedError
<1> QED
  BY <1>1, <1>2, <1>3, <1>4

LEMMA Skips ==
  /\ SkippedResult \in Outcome /\ SkippedResult.passed /\ SkippedResult.skipped
  /\ ~SkippedResult.warned /\ ~SkippedResult.timedOut /\ ~SkippedResult.errored
  /\ SkippedResult.found = {} /\ SkippedResult.hidden = {} /\ SkippedResult.how = "result"
  /\ Unchecked \in Outcome /\ Unchecked.passed /\ Unchecked.skipped
  /\ ~Unchecked.warned /\ ~Unchecked.timedOut /\ ~Unchecked.errored
  /\ Unchecked.found = {} /\ Unchecked.hidden = {} /\ Unchecked.how = "none"
<1>1. /\ SkippedResult \in Outcome /\ SkippedResult.passed /\ SkippedResult.skipped
      /\ ~SkippedResult.warned /\ ~SkippedResult.timedOut /\ ~SkippedResult.errored
      /\ SkippedResult.found = {} /\ SkippedResult.hidden = {} /\ SkippedResult.how = "result"
  BY Constants DEF Plain, Outcome, SkippedResult
<1> QED
  BY <1>1 DEF Outcome, Unchecked

LEMMA Raises ==
  ASSUME NEW vs \in SUBSET Violations
  PROVE  LET o == RaisedAssertion(vs)
         IN  Plain(o) /\ o.how = "assert" /\ ~o.passed /\ o.found = vs
  BY Constants DEF Plain, Outcome, RaisedAssertion

LEMMA Warnings ==
  ASSUME NEW o \in Outcome
  PROVE  LET w == WarnedResult(o)
         IN  /\ w \in Outcome /\ w.how = "result" /\ w.warned /\ ~w.passed /\ ~w.skipped
             /\ ~w.timedOut /\ ~w.errored /\ w.hidden = {}
             /\ w.found = o.found /\ w.context = o.context
  BY Constants DEF Plain, Outcome, WarnedResult

LEMMA BodiesType == Bodies \subseteq Outcome
  BY Constants, Raises DEF Plain, Bodies

(* _run_entry: the result of a call, diagnostics and policy included.      *)
LEMMA Diagnosed ==
  ASSUME NEW o \in Outcome, NEW ns \in SUBSET Notes
  PROVE  LET r == WithPatternDiagnostics(o, ns)
         IN  /\ r \in Outcome /\ r.how = o.how /\ r.skipped = o.skipped /\ r.timedOut = o.timedOut
             /\ r.errored = o.errored /\ r.found = o.found /\ r.hidden = o.hidden
             /\ r.filtered = o.filtered /\ r.context = o.context \cup ns
             /\ IF ns # {} /\ o.passed /\ ~o.warned THEN ~r.passed /\ r.warned
                ELSE r.passed = o.passed /\ r.warned = o.warned
<1>1. CASE ns = {}
  BY <1>1 DEF WithPatternDiagnostics, Outcome
<1>2. CASE ns # {} /\ o.passed /\ ~o.warned
  BY <1>2 DEF WithPatternDiagnostics, Outcome
<1>3. CASE ns # {} /\ ~(o.passed /\ ~o.warned)
  BY <1>3 DEF WithPatternDiagnostics, Outcome
<1> QED
  BY <1>1, <1>2, <1>3

LEMMA CallResultOf ==
  ASSUME NEW o \in Outcome, NEW ns \in SUBSET Notes
  PROVE  LET r == CallResult(o, ns)
         IN  /\ r \in Outcome
             /\ o.how = "result" => r = WithPatternDiagnostics(o, ns)
             /\ o.how = "none" => r = WithPatternDiagnostics(PassedResult, ns)
             /\ o.how \in {"assert", "error"} =>
                  /\ ~r.passed /\ ~r.warned /\ ~r.skipped /\ ~r.timedOut /\ r.hidden = {}
                  /\ ns \subseteq r.context
                  /\ IF o.how = "assert" THEN r.found = o.found /\ ~r.errored
                     ELSE r.found = {} /\ r.errored
<1>1. CASE o.how = "result"
  BY <1>1, Diagnosed DEF CallResult
<1>2. CASE o.how = "none"
  BY <1>2, Diagnosed, Constants DEF CallResult, Plain
<1>3. CASE o.how = "assert"
  <2>1. CallResult(o, ns) = [FailedResult EXCEPT !.found = o.found, !.filtered = o.filtered,
                                                 !.context = ns \cup o.context]
    BY <1>3 DEF CallResult
  <2>2. FailedResult \in Outcome /\ ns \cup o.context \in SUBSET Notes
    BY Constants DEF Plain, Outcome
  <2>3. /\ CallResult(o, ns) \in Outcome
        /\ LET r == CallResult(o, ns)
           IN  /\ r.passed = FailedResult.passed /\ r.warned = FailedResult.warned
               /\ r.skipped = FailedResult.skipped /\ r.timedOut = FailedResult.timedOut
               /\ r.errored = FailedResult.errored /\ r.hidden = FailedResult.hidden
               /\ r.found = o.found /\ r.context = ns \cup o.context
    BY <2>1, <2>2 DEF Outcome
  <2> QED
    BY <1>3, <2>3, Constants DEF Plain
<1>4. CASE o.how = "error"
  <2>1. CallResult(o, ns) = [FailedResult EXCEPT !.errored = TRUE, !.context = ns]
    BY <1>4 DEF CallResult
  <2> QED
    BY <1>4, <2>1, Constants DEF Plain, Outcome
<1> QED
  BY <1>1, <1>2, <1>3, <1>4 DEF Outcome

LEMMA Softening ==
  ASSUME NEW o \in Outcome, NEW p \in Policies
  PROVE  LET r == ApplyPolicy(o, p)
         IN  /\ r \in Outcome /\ r.passed = o.passed /\ r.skipped = o.skipped
             /\ r.timedOut = o.timedOut /\ r.errored = o.errored /\ r.found = o.found
             /\ r.hidden = o.hidden /\ r.context = o.context
             /\ IF p = "warning" /\ ~o.skipped /\ ~o.passed /\ ~o.timedOut THEN r.warned
                ELSE r.warned = o.warned
  BY DEF ApplyPolicy, Outcome

LEMMA RunEntryType ==
  ASSUME NEW o \in Outcome, NEW ns \in SUBSET Notes, NEW skippedAttr \in BOOLEAN,
         NEW p \in Policies
  PROVE  RunEntry(o, ns, skippedAttr, p) \in Outcome
  BY CallResultOf, Softening, Skips DEF RunEntry

LEMMA TypeInit == Init => TypeOK /\ body \in Bodies
<1> SUFFICES ASSUME Init PROVE TypeOK /\ body \in Bodies
  OBVIOUS
<1>1. Len(stack) \in Nat
  BY StackIsSequence DEF Init
<1> QED
  BY <1>1, BodiesType, Constants, Skips, BoundAssumption DEF Init, TypeOK, Days, Plain

(* Every variable keeps its type.                                          *)
THEOREM TypeCorrect == Spec => [](TypeOK /\ body \in Bodies)
<1>1. Init => TypeOK /\ body \in Bodies
  BY TypeInit
<1>2. ASSUME TypeOK, body \in Bodies, [Next]_vars PROVE (TypeOK /\ body \in Bodies)'
  <2> USE <1>2 DEF TypeOK
  <2>1. Len(stack) \in Nat /\ DOMAIN stack = 1 .. Len(stack)
    BY StackIsSequence
  <2>2. SkippedAttr \in BOOLEAN
    BY DEF SkippedAttr, Has
  <2>3. CASE NotCalled
    BY <2>3, Skips DEF NotCalled, rule
  <2>4. CASE CallBody
    BY <2>1, <2>4 DEF CallBody, rule
  <2>5. ASSUME NEW kind, UnwindTo(kind), outcome' \in Outcome PROVE TypeOK' /\ body' \in Bodies
    BY <2>1, <2>5 DEF UnwindTo, rule
  <2>6. WarnedResult(outcome) \in Outcome /\ PassedResult \in Outcome /\ ReturnedNone \in Outcome
    BY Warnings, Constants DEF Plain
  <2> HIDE DEF TypeOK
  <2>7. CASE Warn
    BY <2>5, <2>6, <2>7 DEF Warn, TypeOK, Outcome
  <2>8. CASE Escalate
    BY <2>5, <2>6, <2>8 DEF Escalate, TypeOK
  <2>9. CASE Since
    <3>1. outcome' \in Outcome
      BY <2>6, <2>9 DEF Since, TypeOK, Outcome
    <3> QED
      BY <2>5, <2>9, <3>1 DEF Since
  <2>10. CASE RunEntryEnds
    <3>1. RunEntry(outcome, notes, SkippedAttr, policy) \in Outcome
      BY <2>2, RunEntryType DEF TypeOK
    <3> QED
      BY <2>1, <2>6, <2>10, <3>1 DEF RunEntryEnds, rule, TypeOK
  <2>11. CASE NextDay
    BY <2>1, <2>11, BoundAssumption DEF NextDay, rule, TypeOK, Days
  <2>12. ASSUME NEW v \in Violations, Commit(v) PROVE TypeOK' /\ body' \in Bodies
    BY <2>12 DEF Commit, rule, TypeOK
  <2>13. CASE UNCHANGED vars
    BY <2>13 DEF vars, TypeOK
  <2> QED
    BY <2>3, <2>4, <2>7, <2>8, <2>9, <2>10, <2>11, <2>12, <2>13 DEF Next
<1> QED
  BY <1>1, <1>2, PTL DEF Spec

-----------------------------------------------------------------------------
(* What one more decorator does to the violations of an assertion, and to  *)
(* the assertion.                                                          *)
LEMMA OneMore ==
  ASSUME TypeOK, NEW f \in DOMAIN stack, NEW day
  PROVE  /\ Left(f + 1) = IF stack[f].kind = "since" THEN Left(f) \cap Recent(stack[f]) ELSE Left(f)
         /\ Uncaught(f + 1, day) <=>
              /\ Uncaught(f, day) /\ ~Softens(stack[f], day)
              /\ stack[f].kind = "since" => Left(f + 1) # {}
<1>1. \A i \in DOMAIN stack : i < f + 1 <=> i < f \/ i = f
  BY StackIsSequence DEF TypeOK
<1>2. Left(f + 1) = IF stack[f].kind = "since" THEN Left(f) \cap Recent(stack[f]) ELSE Left(f)
  BY <1>1 DEF Left
<1>3. (\A i \in DOMAIN stack : i < f + 1 => ~Softens(stack[i], day))
      <=> (\A i \in DOMAIN stack : i < f => ~Softens(stack[i], day)) /\ ~Softens(stack[f], day)
  BY <1>1
<1>4. (\E i \in DOMAIN stack : i < f + 1 /\ stack[i].kind = "since")
      <=> (\E i \in DOMAIN stack : i < f /\ stack[i].kind = "since") \/ stack[f].kind = "since"
  BY <1>1
<1> QED
  BY <1>2, <1>3, <1>4 DEF Uncaught

(* Before any decorator.                                                   *)
LEMMA NoneYet ==
  ASSUME TypeOK, NEW day
  PROVE  Left(1) = body.found /\ (Uncaught(1, day) <=> body.how = "assert")
<1>1. \A i \in DOMAIN stack : ~(i < 1)
  BY StackIsSequence DEF TypeOK
<1> QED
  BY <1>1 DEF Left, Uncaught

(* After all of them.                                                      *)
LEMMA AllOfThem ==
  ASSUME TypeOK, NEW day
  PROVE  LET n == Len(stack) + 1
         IN  /\ Left(n) = {v \in body.found : ~OutOfScope(v)}
             /\ Uncaught(n, day) <=>
                  /\ body.how = "assert"
                  /\ \A i \in DOMAIN stack : ~Softens(stack[i], day)
                  /\ Has("since") => Left(n) # {}
<1>1. \A i \in DOMAIN stack : i < Len(stack) + 1
  BY StackIsSequence DEF TypeOK
<1> QED
  BY <1>1 DEF Left, Uncaught, OutOfScope, Has

(* The call unwinds as CallInv says.                                       *)
LEMMA CallUnwinds ==
  ASSUME TypeOK, CallInv, NEW kind, UnwindTo(kind), Warn \/ Escalate \/ Since
  PROVE  CallInv'
<1> DEFINE f == frame
           d == stack[f]
<1>1. /\ f \in DOMAIN stack /\ f \in Nat /\ f # 0 /\ f + 1 # 0 /\ frame' = f + 1
      /\ UNCHANGED <<rule, today, committed>> /\ outcome \in Outcome
  BY StackIsSequence DEF UnwindTo, TypeOK
<1>2. /\ body' = body /\ policy' = policy /\ SkippedAttr' = SkippedAttr
      /\ Disciplined' = Disciplined
      /\ Left(frame)' = Left(f + 1) /\ Uncaught(frame, today)' = Uncaught(f + 1, today)
  BY <1>1 DEF Left, Recent, SkippedAttr, Has, Disciplined, Uncaught, rule
<1>3. /\ Left(f + 1) = IF d.kind = "since" THEN Left(f) \cap Recent(d) ELSE Left(f)
      /\ Uncaught(f + 1, today) <=>
           /\ Uncaught(f, today) /\ ~Softens(d, today)
           /\ d.kind = "since" => Left(f + 1) # {}
  BY <1>1, OneMore
<1>4. /\ policy # "off" /\ ~SkippedAttr
      /\ body.how = "none" => outcome \in {ReturnedNone, PassedResult}
      /\ body.how = "error" => outcome.how = "error"
      /\ body.how = "assert" =>
           IF Uncaught(f, today)
           THEN outcome.how = "assert" /\ outcome.found = Left(f)
           ELSE Softened(outcome) /\ (Disciplined => Left(f) \subseteq outcome.found)
  BY <1>1 DEF CallInv
<1>5. body.how \in {"none", "result", "assert", "error"}
  BY DEF TypeOK, Outcome
<1>6. /\ ReturnedNone.how = "none" /\ PassedResult.how = "result" /\ Softened(PassedResult)
      /\ WarnedResult(outcome).how = "result" /\ Softened(WarnedResult(outcome))
      /\ WarnedResult(outcome).found = outcome.found
  BY <1>1, Constants, Warnings DEF Plain, Softened
<1>7. ASSUME body.how = "none" PROVE outcome' \in {ReturnedNone, PassedResult}
  BY <1>4, <1>6, <1>7 DEF Warn, Escalate, Since
<1>8. ASSUME body.how = "error" PROVE outcome'.how = "error"
  BY <1>4, <1>8 DEF Warn, Escalate, Since
<1>9. ASSUME body.how = "assert"
      PROVE  IF Uncaught(f + 1, today)
             THEN outcome'.how = "assert" /\ outcome'.found = Left(f + 1)
             ELSE Softened(outcome') /\ (Disciplined => Left(f + 1) \subseteq outcome'.found)
  <2> HIDE DEF f, d
  <2>1. CASE Warn
    <3>1. d.kind = "warn"
      BY <2>1 DEF Warn, UnwindTo, f, d
    <3>2. ~Uncaught(f + 1, today) /\ Left(f + 1) = Left(f)
      BY <1>3, <3>1 DEF Softens
    <3>3. CASE Uncaught(f, today)
      <4>1. outcome' = WarnedResult(outcome)
        BY <1>4, <1>9, <2>1, <3>3 DEF Warn
      <4> QED
        BY <1>4, <1>6, <1>9, <3>2, <3>3, <4>1
    <3>4. CASE ~Uncaught(f, today)
      <4>1. outcome' = PassedResult
        BY <1>4, <1>9, <2>1, <3>4 DEF Warn, Softened
      <4>2. ASSUME Disciplined PROVE Left(f) = {}
        <5>1. ASSUME NEW i \in DOMAIN stack, i < f PROVE ~Softens(stack[i], today)
          BY <1>1, <3>1, <4>2, <5>1 DEF Disciplined, Softens, d
        <5> QED
          BY <1>9, <3>4, <5>1 DEF Uncaught
      <4> QED
        BY <1>6, <3>2, <4>1, <4>2
    <3> QED
      BY <3>3, <3>4
  <2>2. CASE Escalate
    <3>1. d.kind = "escalate"
      BY <2>2 DEF Escalate, UnwindTo, f, d
    <3>2. Left(f + 1) = Left(f) /\ (Uncaught(f + 1, today) <=> Uncaught(f, today) /\ ~(today <= d.until))
      BY <1>3, <3>1 DEF Softens
    <3>3. CASE Uncaught(f, today) /\ today <= d.until
      <4>1. outcome' = WarnedResult(outcome)
        BY <1>4, <1>9, <2>2, <3>3 DEF Escalate, f, d
      <4> QED
        BY <1>4, <1>6, <1>9, <3>2, <3>3, <4>1
    <3>4. CASE ~(Uncaught(f, today) /\ today <= d.until)
      <4>1. outcome' = outcome
        BY <1>4, <1>9, <2>2, <3>4 DEF Escalate, Softened, f, d
      <4> QED
        BY <1>4, <1>9, <3>2, <3>4, <4>1
    <3> QED
      BY <3>3, <3>4
  <2>3. CASE Since
    <3>1. d.kind = "since"
      BY <2>3 DEF Since, UnwindTo, f, d
    <3>2. /\ Left(f + 1) = Left(f) \cap Recent(d)
          /\ Uncaught(f + 1, today) <=> Uncaught(f, today) /\ Left(f + 1) # {}
      BY <1>3, <3>1 DEF Softens
    <3> DEFINE dropped == outcome.found \ Recent(d)
    <3>3. CASE Uncaught(f, today) /\ Left(f + 1) = {}
      <4>1. outcome' = [PassedResult EXCEPT !.filtered = dropped]
        BY <1>4, <1>9, <2>3, <3>2, <3>3 DEF Since, f, d
      <4>2. Softened(outcome')
        BY <1>6, <4>1, Constants DEF Softened, Plain, Outcome
      <4> QED
        BY <3>2, <3>3, <4>2
    <3>4. CASE Uncaught(f, today) /\ Left(f + 1) # {}
      <4>1. outcome' = [outcome EXCEPT !.found = Left(f + 1), !.filtered = dropped]
        BY <1>4, <1>9, <2>3, <3>2, <3>4 DEF Since, f, d
      <4> QED
        BY <1>1, <1>4, <1>9, <3>2, <3>4, <4>1 DEF Outcome
    <3>5. CASE ~Uncaught(f, today)
      <4>1. outcome' = outcome
        BY <1>4, <1>9, <2>3, <3>5 DEF Since, Softened
      <4> QED
        BY <1>4, <1>9, <3>2, <3>5, <4>1
    <3> QED
      BY <3>3, <3>4, <3>5
  <2> QED
    BY <2>1, <2>2, <2>3
<1> HIDE DEF f, d
<1> QED
  BY <1>1, <1>2, <1>4, <1>7, <1>8, <1>9 DEF CallInv

-----------------------------------------------------------------------------
(* Back in _run_entry: what the outcome of the call makes of the rule.     *)
LEMMA Verdicts ==
  ASSUME TypeOK, body \in Bodies, CallInv, AtEnd
  PROVE  /\ Verdict \in Outcome
         /\ Fails(Verdict) <=> FailsOn(today)
         /\ InPytest = "failed" <=> Fails(Verdict)
         /\ notes \subseteq Verdict.context /\ (notes # {} => Reported(Verdict))
         /\ IsVerdict(Verdict, policy)
         /\ body.how = "assert" =>
              /\ Softened(outcome) \/ outcome.how = "assert"
              /\ Verdict.found = outcome.found
              /\ Verdict.found # {} => Reported(Verdict)
<1> DEFINE r == CallResult(outcome, notes)
           n == Len(stack) + 1
<1>1. /\ Len(stack) \in Nat /\ frame = n /\ frame # 0 /\ outcome \in Outcome
      /\ notes \in SUBSET Notes /\ policy \in {"error", "warning"} /\ policy \in Policies
      /\ ~SkippedAttr
  BY StackIsSequence DEF TypeOK, AtEnd, CallInv, Policies
<1>2. Verdict = ApplyPolicy(r, policy)
  BY <1>1 DEF Verdict, RunEntry
<1>3. body.how \in {"none", "error", "assert"}
  BY Constants, Raises DEF Bodies
<1>4. /\ body.how = "none" => outcome \in {ReturnedNone, PassedResult}
      /\ body.how = "error" => outcome.how = "error"
      /\ body.how = "assert" =>
           IF Uncaught(n, today)
           THEN outcome.how = "assert" /\ outcome.found = Left(n)
           ELSE Softened(outcome) /\ (Disciplined => Left(n) \subseteq outcome.found)
  BY <1>1 DEF CallInv
<1>5. FailsOn(today) <=> policy = "error" /\ (body.how = "error" \/ Uncaught(n, today))
  BY <1>1 DEF FailsOn
<1> HIDE DEF n
<1>6. /\ r \in Outcome
      /\ Verdict \in Outcome /\ Verdict.passed = r.passed /\ Verdict.skipped = r.skipped
      /\ Verdict.timedOut = r.timedOut /\ Verdict.errored = r.errored /\ Verdict.found = r.found
      /\ Verdict.hidden = r.hidden /\ Verdict.context = r.context
      /\ IF policy = "warning" /\ ~r.skipped /\ ~r.passed /\ ~r.timedOut THEN Verdict.warned
         ELSE Verdict.warned = r.warned
  BY <1>1, <1>2, CallResultOf, Softening
<1>7. /\ outcome.how \in {"assert", "error"} =>
           /\ ~r.passed /\ ~r.warned /\ ~r.skipped /\ ~r.timedOut /\ r.hidden = {}
           /\ notes \subseteq r.context
           /\ IF outcome.how = "assert" THEN r.found = outcome.found /\ ~r.errored
              ELSE r.found = {} /\ r.errored
      /\ outcome.how = "result" => r = WithPatternDiagnostics(outcome, notes)
      /\ outcome.how = "none" => r = WithPatternDiagnostics(PassedResult, notes)
  BY <1>1, CallResultOf
<1>8. InPytest = CASE outcome.how \in {"assert", "error"} ->
                        IF policy = "warning" THEN "xfailed" ELSE "failed"
                   [] outcome.how = "none" -> "passed"
                   [] outcome.how = "result" ->
                        IF outcome.skipped THEN "skipped"
                        ELSE IF outcome.timedOut THEN "failed"
                        ELSE IF \/ outcome.warned /\ outcome.found # {}
                                \/ policy = "warning" /\ ~outcome.passed
                             THEN "xfailed"
                        ELSE "passed"
  BY <1>1 DEF InPytest, PytestOutcome
<1>9. CASE outcome.how \in {"assert", "error"}
  <2>1. body.how \in {"error", "assert"} /\ (body.how = "error" \/ Uncaught(n, today))
    BY <1>3, <1>4, <1>9, Constants DEF Softened
  <2>2. Fails(Verdict) <=> policy = "error"
    BY <1>1, <1>6, <1>7, <1>9 DEF Fails
  <2>3. InPytest = IF policy = "warning" THEN "xfailed" ELSE "failed"
    BY <1>8, <1>9
  <2>4. IsVerdict(Verdict, policy)
    BY <1>1, <1>6, <1>7, <1>9 DEF IsVerdict, Consistent
  <2>5. Reported(Verdict) /\ (outcome.how = "assert" => Verdict.found = outcome.found)
    BY <1>6, <1>7, <1>9 DEF Reported
  <2>6. body.how = "assert" => outcome.how = "assert"
    BY <1>4, <2>1, <1>9 DEF Softened
  <2> HIDE DEF r
  <2> QED
    BY <1>1, <1>5, <1>6, <1>7, <1>9, <2>1, <2>2, <2>3, <2>4, <2>5, <2>6
<1>10. CASE outcome.how \in {"none", "result"}
  <2> DEFINE o == IF outcome.how = "none" THEN PassedResult ELSE outcome
  <2>1. body.how \in {"none", "assert"} /\ ~Uncaught(n, today)
    BY <1>3, <1>4, <1>10 DEF Uncaught
  <2>2. o \in Outcome /\ Softened(o) /\ r = WithPatternDiagnostics(o, notes)
    BY <1>1, <1>4, <1>7, <1>10, <2>1, Constants DEF Softened, Plain
  <2>3. body.how = "assert" => o = outcome
    BY <1>4, <1>10, <2>1 DEF Softened
  <2>4. o.found = {} \/ o.warned
    BY <2>2 DEF Softened
  <2>5. InPytest # "failed"
    BY <1>1, <1>8, <1>10, <2>2 DEF Softened
  <2> HIDE DEF o
  <2>6. /\ r.skipped = o.skipped /\ r.timedOut = o.timedOut /\ r.errored = o.errored
        /\ r.found = o.found /\ r.hidden = o.hidden /\ r.context = o.context \cup notes
        /\ IF notes # {} /\ o.passed /\ ~o.warned THEN ~r.passed /\ r.warned
           ELSE r.passed = o.passed /\ r.warned = o.warned
    BY <1>1, <2>2, Diagnosed
  <2> HIDE DEF r
  <2>7. /\ ~r.skipped /\ ~r.timedOut /\ ~r.errored /\ r.hidden = {} /\ (r.passed <=> ~r.warned)
        /\ r.found # {} => r.warned
        /\ notes # {} => r.warned
    BY <2>2, <2>4, <2>6 DEF Softened, Outcome
  <2>8. ~Fails(Verdict)
    BY <1>6, <2>7 DEF Fails
  <2>9. IsVerdict(Verdict, policy)
    BY <1>1, <1>6, <2>7 DEF IsVerdict, Consistent
  <2>10. /\ notes \subseteq Verdict.context /\ (notes # {} => Reported(Verdict))
         /\ Verdict.found # {} => Reported(Verdict)
    BY <1>6, <2>6, <2>7 DEF Reported
  <2>11. body.how = "assert" => Softened(outcome) /\ Verdict.found = outcome.found
    BY <1>6, <2>2, <2>3, <2>6
  <2> QED
    BY <1>5, <1>6, <2>1, <2>5, <2>8, <2>9, <2>10, <2>11
<1> QED
  BY <1>1, <1>9, <1>10 DEF Outcome

(* What makes a rule fail goes on doing so, on later days and after        *)
(* commits.                                                                *)
LEMMA NeverLoosens ==
  ASSUME TypeOK, NEW d \in Days, NEW e \in Days, d <= e, FailsOn(d)
  PROVE  FailsOn(e)
<1>1. ASSUME NEW i \in DOMAIN stack, Softens(stack[i], e) PROVE Softens(stack[i], d)
  <2>1. stack[i] \in Decorators
    BY StackIsSequence DEF TypeOK
  <2>2. d \in Nat /\ e \in Nat /\ (stack[i].kind = "escalate" => stack[i].until \in Nat)
    BY <2>1, DecoratorAssumption, BoundAssumption DEF Days
  <2> QED
    BY <1>1, <2>2 DEF Softens
<1> QED
  BY <1>1, AllOfThem DEF FailsOn

(* A commit brings violations into scope and takes none out.               *)
LEMMA CommitsWiden ==
  ASSUME TypeOK, NEW d \in Days, FailsOn(d), UNCHANGED rule,
         committed' \in SUBSET Violations, committed \subseteq committed'
  PROVE  FailsOn(d)'
<1>1. Left(Len(stack) + 1) \subseteq Left(Len(stack) + 1)'
  BY DEF Left, Recent, rule
<1>2. Uncaught(Len(stack) + 1, d) => Uncaught(Len(stack) + 1, d)'
  BY <1>1 DEF Uncaught, rule
<1> QED
  BY <1>2 DEF FailsOn, SkippedAttr, Has, rule

LEMMA CallInvKept ==
  ASSUME TypeOK, body \in Bodies, CallInv, [Next]_vars
  PROVE  CallInv'
<1>1. CASE NotCalled \/ RunEntryEnds \/ NextDay \/ \E v \in Violations : Commit(v)
  <2>1. frame' = 0
    BY <1>1 DEF NotCalled, RunEntryEnds, NextDay, Commit
  <2> QED
    BY <2>1 DEF CallInv
<1>2. CASE CallBody
  <2>1. /\ frame' = 1 /\ outcome' = body /\ UNCHANGED <<rule, today, committed>>
        /\ policy # "off" /\ ~SkippedAttr
    BY <1>2 DEF CallBody
  <2>2. /\ SkippedAttr' = SkippedAttr /\ policy' = policy /\ body' = body
        /\ Left(frame)' = Left(1) /\ Uncaught(frame, today)' = Uncaught(1, today)
    BY <2>1 DEF SkippedAttr, Has, Left, Recent, Uncaught, rule
  <2>3. /\ body.how = "none" => body = ReturnedNone
        /\ body.how = "assert" => Uncaught(1, today) /\ body.found = Left(1)
    BY NoneYet, Constants, Raises DEF Bodies
  <2> QED
    BY <2>1, <2>2, <2>3 DEF CallInv
<1>3. CASE Warn \/ Escalate \/ Since
  <2>1. \E kind \in {"warn", "escalate", "since"} : UnwindTo(kind)
    BY <1>3 DEF Warn, Escalate, Since
  <2> QED
    BY <1>3, <2>1, CallUnwinds
<1>4. CASE UNCHANGED vars
  BY <1>4 DEF vars, CallInv, SkippedAttr, Has, Left, Recent, Uncaught, Disciplined
<1> QED
  BY <1>1, <1>2, <1>3, <1>4 DEF Next

(* The inductive invariant: what a call has come to at each decorator is   *)
(* a matter of the body, the decorators below and the date (rule.py:355-   *)
(* 565), and each day's result is one that FailsOn accounts for.           *)
THEOREM RuleInvariant == Spec => []RuleInv
<1>1. Init => RuleInv
  <2> SUFFICES ASSUME Init, TypeOK, body \in Bodies PROVE RuleInv
    BY TypeInit
  <2>1. CallInv /\ \A d \in Days : results[d] = Unchecked
    BY DEF Init, CallInv
  <2>2. ~Fails(Unchecked)
    BY Skips DEF Fails
  <2> QED
    BY <2>1, <2>2 DEF RuleInv, OnceFailingStaysFailing
<1>2. ASSUME RuleInv, [Next]_vars, TypeOK', (body \in Bodies)' PROVE RuleInv'
  <2>1. /\ TypeOK /\ body \in Bodies /\ CallInv /\ OnceFailingStaysFailing
        /\ \A d \in Days : results[d] # Unchecked => d <= today
        /\ \A d \in Days : Fails(results[d]) => FailsOn(d)
    BY <1>2 DEF RuleInv
  <2>2. CallInv'
    BY <1>2, <2>1, CallInvKept
  <2>3. /\ today \in Days /\ Days \subseteq Nat /\ results \in [Days -> Outcome]
        /\ ~Fails(Unchecked) /\ ~Fails(SkippedResult)
    BY <2>1, Skips, BoundAssumption DEF TypeOK, Days, Fails
  <2>4. ASSUME UNCHANGED <<rule, results>>, today <= today', today' \in Nat,
               committed' \in SUBSET Violations, committed \subseteq committed'
        PROVE  RuleInv'
    <3>1. \A d \in Days : Fails(results[d]) => FailsOn(d)'
      BY <2>1, <2>4, CommitsWiden
    <3>2. \A d \in Days : results[d] # Unchecked => d <= today'
      BY <2>1, <2>3, <2>4
    <3> QED
      BY <1>2, <2>1, <2>2, <2>4, <3>1, <3>2 DEF RuleInv, OnceFailingStaysFailing
  <2>5. ASSUME NEW r, UNCHANGED <<rule, today, committed>>, results' = [results EXCEPT ![today] = r],
               Fails(r) <=> FailsOn(today)
        PROVE  RuleInv'
    <3>1. ASSUME NEW d \in Days PROVE FailsOn(d)' <=> FailsOn(d)
      BY <2>5 DEF FailsOn, Uncaught, Left, Recent, SkippedAttr, Has, rule
    <3>2. \A d \in Days : results'[d] = IF d = today THEN r ELSE results[d]
      BY <2>3, <2>5
    <3>3. ASSUME NEW d \in Days, Fails(results'[d]) PROVE FailsOn(d)'
      BY <2>1, <2>5, <3>1, <3>2, <3>3
    <3>4. ASSUME NEW d \in Days, NEW e \in Days, d < e, results'[e] # Unchecked, Fails(results'[d])
          PROVE  Fails(results'[e])
      <4>1. CASE e = today
        <5>1. FailsOn(d) /\ d <= e
          BY <2>1, <2>3, <3>2, <3>4, <4>1
        <5>2. FailsOn(today)
          BY <2>1, <4>1, <5>1, NeverLoosens
        <5> QED
          BY <2>5, <3>2, <4>1, <5>2
      <4>2. CASE e # today
        <5>1. results[e] # Unchecked /\ e <= today
          BY <2>1, <3>2, <3>4, <4>2
        <5>2. d # today
          BY <2>3, <3>4, <5>1
        <5> QED
          BY <2>1, <3>2, <3>4, <4>2, <5>1, <5>2 DEF OnceFailingStaysFailing
      <4> QED
        BY <4>1, <4>2
    <3>5. \A d \in Days : results'[d] # Unchecked => d <= today'
      BY <2>1, <2>3, <2>5, <3>2
    <3> QED
      BY <1>2, <2>2, <3>3, <3>4, <3>5 DEF RuleInv, OnceFailingStaysFailing
  <2>6. CASE NotCalled
    <3>1. ~FailsOn(today)
      BY <2>6 DEF NotCalled, FailsOn
    <3> QED
      BY <2>3, <2>5, <2>6, <3>1 DEF NotCalled
  <2>7. CASE RunEntryEnds
    <3>1. Fails(Verdict) <=> FailsOn(today)
      BY <2>1, <2>7, Verdicts DEF RunEntryEnds, AtEnd
    <3> QED
      BY <2>5, <2>7, <3>1 DEF RunEntryEnds, Verdict
  <2>8. CASE NextDay
    BY <2>1, <2>3, <2>4, <2>8 DEF NextDay, TypeOK
  <2>9. ASSUME NEW v \in Violations, Commit(v) PROVE RuleInv'
    BY <2>1, <2>3, <2>4, <2>9 DEF Commit, TypeOK
  <2>10. CASE CallBody \/ Warn \/ Escalate \/ Since
    <3>1. UNCHANGED <<rule, today, committed, results>>
      BY <2>10 DEF CallBody, Warn, Escalate, Since, UnwindTo
    <3> QED
      BY <2>1, <2>3, <2>4, <3>1 DEF TypeOK
  <2>11. CASE UNCHANGED vars
    BY <2>1, <2>3, <2>4, <2>11 DEF vars, rule, TypeOK
  <2> QED
    BY <1>2, <2>6, <2>7, <2>8, <2>9, <2>10, <2>11 DEF Next
<1>3. TypeOK' /\ (body \in Bodies)' <=> (TypeOK /\ body \in Bodies)'
  OBVIOUS
<1> QED
  BY <1>1, <1>2, TypeCorrect, PTL DEF Spec

-----------------------------------------------------------------------------
(* No date and no commit makes a failing rule pass (rule.py:460-565).      *)
THEOREM StaysFailing == Spec => []OnceFailingStaysFailing
<1>1. RuleInv => OnceFailingStaysFailing
  BY DEF RuleInv
<1> QED
  BY <1>1, RuleInvariant, PTL

(* Patterns that match nothing are reported whatever the rule does         *)
(* (rule.py:84-116, 608-660).                                              *)
THEOREM ShowsUnmatchedPatterns == Spec => []UnmatchedPatternsShown
<1>1. RuleInv => UnmatchedPatternsShown
  BY Verdicts DEF RuleInv, UnmatchedPatternsShown
<1> QED
  BY <1>1, RuleInvariant, PTL

(* The pytest plugin fails the rules that check fails                      *)
(* (pytest_plugin.py:75-137).                                              *)
THEOREM PytestFailsTheSame == Spec => []PytestAgrees
<1>1. RuleInv => PytestAgrees
  BY Verdicts DEF RuleInv, PytestAgrees
<1> QED
  BY <1>1, RuleInvariant, PTL

(* Decorators lose no violation but those in old files (rule.py:355-565).  *)
THEOREM LosesNoViolation == Spec => []ViolationsAccounted
<1>1. ASSUME RuleInv PROVE ViolationsAccounted
  <2> SUFFICES ASSUME AtEnd, Disciplined, NEW v \in body.found, ~OutOfScope(v)
               PROVE  v \in Verdict.found /\ Reported(Verdict)
    BY DEF ViolationsAccounted
  <2>1. TypeOK /\ body \in Bodies /\ CallInv /\ frame # 0 /\ frame = Len(stack) + 1
    BY <1>1, StackIsSequence DEF RuleInv, TypeOK, AtEnd
  <2>2. body.how = "assert"
    BY <2>1, Constants, Raises DEF Bodies
  <2>3. v \in Left(frame)
    BY <2>1, AllOfThem
  <2>4. v \in outcome.found
    BY <2>1, <2>2, <2>3 DEF CallInv
  <2> QED
    BY <2>1, <2>2, <2>4, Verdicts
<1> QED
  BY <1>1, RuleInvariant, PTL

(* @escalate keeps its schedule on every stack (rule.py:460-477).          *)
THEOREM EscalatesOnSchedule == Spec => []EscalationOnSchedule
<1>1. ASSUME RuleInv PROVE EscalationOnSchedule
  <2> SUFFICES ASSUME AtEnd, Escalations # {}
               PROVE  /\ InGrace /\ body.how # "error" => ~Fails(Verdict)
                      /\ Enforced => Fails(Verdict)
    BY DEF EscalationOnSchedule
  <2>1. /\ TypeOK /\ body \in Bodies /\ CallInv /\ policy # "off" /\ ~SkippedAttr
        /\ Fails(Verdict) <=> FailsOn(today)
        /\ \A i \in DOMAIN stack : stack[i] \in Decorators
    <3>1. TypeOK /\ body \in Bodies /\ CallInv /\ frame # 0
      BY <1>1, StackIsSequence DEF RuleInv, TypeOK, AtEnd
    <3> QED
      BY <3>1, Verdicts, StackIsSequence DEF CallInv, TypeOK
  <2>2. /\ Left(Len(stack) + 1) = {v \in body.found : ~OutOfScope(v)}
        /\ Uncaught(Len(stack) + 1, today) <=>
             /\ body.how = "assert"
             /\ \A i \in DOMAIN stack : ~Softens(stack[i], today)
             /\ Has("since") => Left(Len(stack) + 1) # {}
    BY <2>1, AllOfThem
  <2>3. ASSUME InGrace, body.how # "error" PROVE ~Fails(Verdict)
    <3>1. \E i \in DOMAIN stack : Softens(stack[i], today)
      BY <2>3 DEF InGrace, Escalations, Softens
    <3> QED
      BY <2>1, <2>2, <2>3, <3>1 DEF FailsOn
  <2>4. ASSUME Enforced PROVE Fails(Verdict)
    <3>1. PICK v \in body.found : ~OutOfScope(v)
      BY <2>4 DEF Enforced
    <3>2. body.how = "assert"
      BY <2>1, Constants, Raises DEF Bodies
    <3>3. \A i \in DOMAIN stack : ~Softens(stack[i], today)
      BY <2>4 DEF Enforced, InGrace, Escalations, Softens, Has
    <3> QED
      BY <2>1, <2>2, <2>4, <3>1, <3>2, <3>3 DEF FailsOn, Enforced
  <2> QED
    BY <2>3, <2>4
<1> QED
  BY <1>1, RuleInvariant, PTL


(* Of decorated rules, results have the flags together that CheckRun       *)
(* assumes of the results it is given (rule.py:608-680).                   *)
ResultsConsistent == \A d \in Days : IsVerdict(results[d], policy)

(* Every result of every day, whatever stack made it, is such a verdict    *)
(* (rule.py:608-680).                                                      *)
THEOREM ResultsAreVerdicts == Spec => []ResultsConsistent
<1>1. Init => ResultsConsistent
  BY Skips DEF Init, ResultsConsistent, IsVerdict, Consistent
<1>2. ASSUME RuleInv, ResultsConsistent, [Next]_vars PROVE ResultsConsistent'
  <2>1. TypeOK /\ body \in Bodies /\ CallInv /\ today \in Days /\ results \in [Days -> Outcome]
    BY <1>2 DEF RuleInv, TypeOK
  <2>2. ASSUME NEW r, UNCHANGED rule, results' = [results EXCEPT ![today] = r], IsVerdict(r, policy)
        PROVE  ResultsConsistent'
    BY <1>2, <2>1, <2>2 DEF ResultsConsistent, rule
  <2>3. CASE NotCalled
    <3>1. IsVerdict(SkippedResult, policy)
      BY Skips DEF IsVerdict, Consistent
    <3> QED
      BY <2>2, <2>3, <3>1 DEF NotCalled
  <2>4. CASE RunEntryEnds
    <3>1. IsVerdict(Verdict, policy)
      BY <2>1, <2>4, Verdicts DEF RunEntryEnds, AtEnd
    <3> QED
      BY <2>2, <2>4, <3>1 DEF RunEntryEnds, Verdict
  <2>5. CASE UNCHANGED <<policy, results>>
    BY <1>2, <2>5 DEF ResultsConsistent
  <2> QED
    BY <1>2, <2>3, <2>4, <2>5
    DEF Next, CallBody, Warn, Escalate, Since, UnwindTo, NextDay, Commit, rule, vars
<1> QED
  BY <1>1, <1>2, RuleInvariant, PTL DEF Spec
=============================================================================
