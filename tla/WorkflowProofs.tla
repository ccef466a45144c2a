--------------------------- MODULE WorkflowProofs ---------------------------
(***************************************************************************)
(* Proofs about Workflow, for any number of saves, records and faults and  *)
(* any hooks written by hand: init and the developer's architecture.py,    *)
(* the history of the records, and what an installed hook guards.          *)
(***************************************************************************)
EXTENDS Workflow, Integers, SequenceTheorems, FiniteSetTheorems, FunctionTheorems,
        WellFoundedInduction, TLAPS

-----------------------------------------------------------------------------
(* Widening a sequence, and appending to one.                              *)
LEMMA Widened ==
  ASSUME NEW S, NEW T, S \subseteq T, NEW s \in Seq(S)
  PROVE  s \in Seq(T)
  OBVIOUS

LEMMA Extended ==
  ASSUME NEW S, NEW T, S \subseteq T, NEW s \in Seq(S), NEW x \in T
  PROVE  /\ Append(s, x) \in Seq(T) /\ Len(Append(s, x)) = Len(s) + 1 /\ Len(s) \in Nat
         /\ Append(s, x)[Len(s) + 1] = x
         /\ \A i \in 1 .. Len(s) : Append(s, x)[i] = s[i]
         /\ Len(s) = 0 => Append(s, x) = <<x>>
<1>1. s \in Seq(T) /\ Len(s) \in Nat
  OBVIOUS
<1>2. ASSUME Len(s) = 0 PROVE Append(s, x) = <<x>>
  <2>1. s = <<>>
    BY <1>2, EmptySeq
  <2> QED
    BY <2>1
<1> QED
  BY <1>1, <1>2

(* A set of natural numbers has a least one.                               *)
LEMMA LeastNatural ==
  ASSUME NEW T, T \subseteq Nat, T # {}
  PROVE  \E m \in T : \A k \in T : m <= k
<1>1. PICK m \in T : \A k \in T : <<k, m>> \notin OpToRel(<, Nat)
  BY WFMin, NatLessThanWellFounded
<1>2. \A k \in T : ~ (k < m)
  BY <1>1 DEF OpToRel
<1> QED
  BY <1>2

(* Induction up to n: what 0 is in, and each number whose predecessor is,  *)
(* every number is in.                                                     *)
LEMMA FiniteInduction ==
  ASSUME NEW n \in Nat, NEW T, 0 \in T, \A k \in 1 .. n : k - 1 \in T => k \in T
  PROVE  \A k \in 0 .. n : k \in T
<1> DEFINE Out == {k \in 0 .. n : k \notin T}
<1>1. ASSUME Out # {} PROVE FALSE
  <2>1. PICK m \in Out : \A k \in Out : m <= k
    <3>1. Out \subseteq Nat
      OBVIOUS
    <3> HIDE DEF Out
    <3> QED
      BY <1>1, <3>1, LeastNatural
  <2>2. m \in 1 .. n
    BY <2>1
  <2>3. m - 1 \in T
    BY <2>1, <2>2
  <2> QED
    BY <2>1, <2>2, <2>3
<1> QED
  BY <1>1

(* What each step makes of its number and of the value before it, and the  *)
(* values that n steps from v make.                                        *)
IsStep(step, n, V) == step \in [(1 .. n) \X V -> V]

Recursions(step, n, V, v) ==
  {f \in [0 .. n -> V] : f[0] = v /\ \A k \in 1 .. n : f[k] = step[<<k, f[k - 1]>>]}

(* Recursion up to n has a solution.                                       *)
LEMMA FiniteRecursion ==
  ASSUME NEW n \in Nat, NEW V, NEW v \in V, NEW step, IsStep(step, n, V)
  PROVE  Recursions(step, n, V, v) # {}
<1> DEFINE Solves(f, m) == f[0] = v /\ \A k \in 1 .. m : f[k] = step[<<k, f[k - 1]>>]
           Solved == {m \in 0 .. n : \E f \in [0 .. m -> V] : Solves(f, m)}
<1> step \in [(1 .. n) \X V -> V]
  BY DEF IsStep
<1>1. 0 \in Solved
  <2> DEFINE f == [k \in 0 .. 0 |-> v]
  <2>1. f \in [0 .. 0 -> V] /\ f[0] = v
    OBVIOUS
  <2> HIDE DEF f
  <2>2. \E h \in [0 .. 0 -> V] : Solves(h, 0)
    BY <2>1
  <2> QED
    BY <2>2
<1>2. ASSUME NEW m \in 1 .. n, m - 1 \in Solved PROVE m \in Solved
  <2>1. PICK f \in [0 .. m - 1 -> V] : Solves(f, m - 1)
    BY <1>2
  <2> DEFINE g == [k \in 0 .. m |-> IF k = m THEN step[<<m, f[m - 1]>>] ELSE f[k]]
  <2>2. step[<<m, f[m - 1]>>] \in V
    OBVIOUS
  <2>3. g \in [0 .. m -> V]
    BY <2>2
  <2>4. g[0] = v
    BY <2>1
  <2>5. ASSUME NEW k \in 1 .. m PROVE g[k] = step[<<k, g[k - 1]>>]
    <3>1. g[k - 1] = f[k - 1]
      OBVIOUS
    <3>2. CASE k = m
      <4>1. g[m] = step[<<m, f[m - 1]>>]
        OBVIOUS
      <4> QED
        BY <3>1, <3>2, <4>1
    <3>3. CASE k \in 1 .. m - 1
      <4>1. g[k] = f[k]
        BY <3>3
      <4> QED
        BY <2>1, <3>1, <3>3, <4>1
    <3> QED
      BY <3>2, <3>3
  <2> HIDE DEF g
  <2>6. \E h \in [0 .. m -> V] : Solves(h, m)
    BY <2>3, <2>4, <2>5
  <2> QED
    BY <2>6
<1> HIDE DEF Solved
<1>3. n \in Solved
  BY <1>1, <1>2, FiniteInduction
<1> QED
  BY <1>3 DEF Solved, Recursions

-----------------------------------------------------------------------------
(* Steps of the other programs leave architecture.py and init alone.       *)
LEMMA OnlyFileSteps ==
  ASSUME [Next]_vars
  PROVE  FileNext \/ UNCHANGED fileVars
  BY DEF Next, vars, InitCommand, HookCommand, RecordingCheck, GitCommit

(* The inductive invariant of the developer's saves: where init is about   *)
(* to destroy what is there, its developer has agreed, or has saved it     *)
(* since init looked.                                                      *)
FileGuarded ==
  /\ UserFileKept
  /\ initPc \in {"unlink", "open", "fill"} => fate # "own"

(* What the developer saved last is there, or they have let it go, or it   *)
(* came between a test and what follows it (init.py:235-241,               *)
(* check.py:888-894).                                                      *)
THEOREM KeepsUserFile == Spec => []UserFileKept
<1>1. Init => FileGuarded
  BY DEF Init, FileInit, FileGuarded, UserFileKept
<1>2. ASSUME FileGuarded, [Next]_vars PROVE FileGuarded'
  <2> USE <1>2 DEF FileGuarded, UserFileKept, Ends, GoesTo
  <2>1. CASE StartInit
    BY <2>1 DEF StartInit
  <2>2. CASE Build \/ FindExisting \/ Decline \/ Generate
    BY <2>2 DEF Build, FindExisting, Decline, Generate, AfterFind
  <2>3. CASE Confirm
    BY <2>3 DEF Confirm
  <2>4. CASE Unlink
    BY <2>4 DEF Unlink, AfterFind
  <2>5. CASE RefuseExisting
    BY <2>5 DEF RefuseExisting
  <2>6. CASE OpenArchitecture \/ FillArchitecture
    BY <2>6 DEF OpenArchitecture, FillArchitecture
  <2>7. CASE InitFails \/ InitCrashes
    BY <2>7 DEF InitFails, InitCrashes
  <2>8. CASE SaveArchitecture \/ RemoveArchitecture
    BY <2>8 DEF SaveArchitecture, RemoveArchitecture
  <2>9. CASE UNCHANGED fileVars
    BY <2>9 DEF fileVars
  <2> QED
    BY <2>1, <2>2, <2>3, <2>4, <2>5, <2>6, <2>7, <2>8, <2>9, OnlyFileSteps DEF FileNext
<1>3. FileGuarded => UserFileKept
  BY DEF FileGuarded
<1> QED
  BY <1>1, <1>2, <1>3, PTL DEF Spec

(* The inductive invariant of overwriting: init that goes to the file is   *)
(* no dry run, and a file that is absent but was not removed is one that   *)
(* init is about to write.                                                 *)
Overwriting ==
  /\ fileFaults \in Nat /\ initOptions \in InitOptions
  /\ initPc \in {"find", "prompt", "unlink", "write", "open"} => ~initOptions.dryRun
  /\ arch = "absent" /\ fileFaults = 0 =>
       fate = "none" \/ (initPc \in {"generate", "write", "open"} /\ ~initOptions.dryRun)

(* Every reachable state satisfies it, edits and crashes included          *)
(* (check.py:839-894).                                                     *)
THEOREM OverwritingInvariant == Spec => []Overwriting
<1>1. Init => Overwriting
  BY DEF Init, FileInit, Overwriting, NoInitOptions, InitOptions
<1>2. ASSUME Overwriting, [Next]_vars PROVE Overwriting'
  <2>1. /\ fileFaults \in Nat /\ initOptions \in InitOptions /\ NoInitOptions \in InitOptions
        /\ initPc \in {"find", "prompt", "unlink", "write", "open"} => ~initOptions.dryRun
        /\ arch = "absent" /\ fileFaults = 0 =>
             fate = "none" \/ (initPc \in {"generate", "write", "open"} /\ ~initOptions.dryRun)
    BY <1>2 DEF Overwriting, NoInitOptions, InitOptions
  <2>2. ASSUME Ends, fileFaults' \in Nat, arch' = "absent" /\ fileFaults' = 0 => fate' = "none"
        PROVE  Overwriting'
    BY <2>1, <2>2 DEF Overwriting, Ends
  <2>3. ASSUME NEW step, GoesTo(step), UNCHANGED fileFaults,
               step \in {"find", "prompt", "unlink", "write", "open"} => ~initOptions.dryRun,
               arch' = "absent" /\ fileFaults = 0 =>
                 fate' = "none" \/ (step \in {"generate", "write", "open"} /\ ~initOptions.dryRun)
        PROVE  Overwriting'
    BY <2>1, <2>3 DEF Overwriting, GoesTo
  <2>4. CASE StartInit
    <3>1. PICK o \in InitOptions :
            /\ initOptions' = o
            /\ initPc' = IF o.infer THEN "build" ELSE IF o.dryRun THEN "generate" ELSE "find"
      BY <2>4 DEF StartInit
    <3>2. initPc' \in {"find", "prompt", "unlink", "write", "open"} => ~o.dryRun
      BY <3>1
    <3>3. arch = "absent" /\ fileFaults = 0 => fate = "none"
      BY <2>1, <2>4 DEF StartInit
    <3> QED
      BY <2>1, <2>4, <3>1, <3>2, <3>3 DEF Overwriting, StartInit
  <2>5. CASE Build
    BY <2>1, <2>2, <2>3, <2>5 DEF Build
  <2>6. CASE FindExisting
    <3>1. /\ ~initOptions.dryRun /\ UNCHANGED <<arch, fate, fileFaults>>
          /\ arch = "absent" /\ fileFaults = 0 => fate = "none"
      BY <2>1, <2>6 DEF FindExisting
    <3>2. GoesTo("prompt") \/ GoesTo("write") \/ GoesTo("generate")
      BY <2>6 DEF FindExisting, AfterFind
    <3> QED
      BY <2>3, <3>1, <3>2
  <2>7. CASE Decline
    BY <2>1, <2>2, <2>7 DEF Decline
  <2>8. CASE Confirm
    <3>1. /\ ~initOptions.dryRun /\ UNCHANGED <<arch, fileFaults>> /\ GoesTo("unlink")
          /\ arch = "absent" /\ fileFaults = 0 => fate' = "none"
      BY <2>1, <2>8 DEF Confirm
    <3> QED
      BY <2>3, <3>1
  <2>9. CASE Unlink
    <3>1. ~initOptions.dryRun /\ UNCHANGED <<fate, fileFaults>>
      BY <2>1, <2>9 DEF Unlink
    <3>2. CASE arch = "absent"
      BY <2>1, <2>2, <2>9, <3>1, <3>2 DEF Unlink
    <3>3. CASE arch # "absent"
      <4>1. GoesTo("write") \/ GoesTo("generate")
        BY <2>9, <3>3 DEF Unlink, AfterFind
      <4> QED
        BY <2>3, <3>1, <4>1
    <3> QED
      BY <3>2, <3>3
  <2>10. CASE Generate
    <3>1. CASE initOptions.dryRun
      BY <2>1, <2>2, <2>10, <3>1 DEF Generate
    <3>2. CASE ~initOptions.dryRun
      BY <2>1, <2>3, <2>10, <3>2 DEF Generate
    <3> QED
      BY <3>1, <3>2
  <2>11. CASE RefuseExisting
    <3>1. CASE arch = "absent"
      BY <2>1, <2>3, <2>11, <3>1 DEF RefuseExisting
    <3>2. CASE arch # "absent"
      BY <2>1, <2>2, <2>11, <3>2 DEF RefuseExisting
    <3> QED
      BY <3>1, <3>2
  <2>12. CASE OpenArchitecture
    BY <2>3, <2>12 DEF OpenArchitecture
  <2>13. CASE FillArchitecture
    BY <2>1, <2>2, <2>13 DEF FillArchitecture, Generated
  <2>14. CASE InitFails \/ InitCrashes
    BY <2>1, <2>2, <2>14 DEF InitFails, InitCrashes, FileFault
  <2>15. CASE SaveArchitecture
    BY <2>1, <2>15 DEF SaveArchitecture, Overwriting
  <2>16. CASE RemoveArchitecture
    BY <2>1, <2>16 DEF RemoveArchitecture, Overwriting
  <2>17. CASE UNCHANGED fileVars
    BY <2>1, <2>17 DEF fileVars, Overwriting
  <2> QED
    BY <1>2, <2>4, <2>5, <2>6, <2>7, <2>8, <2>9, <2>10, <2>11, <2>12, <2>13, <2>14, <2>15, <2>16,
       <2>17, OnlyFileSteps
    DEF FileNext
<1> QED
  BY <1>1, <1>2, PTL DEF Spec

(* No init leaves a project without its architecture.py, but by an I/O     *)
(* error or a crash (check.py:839-867).                                    *)
THEOREM ReplacesOnOverwrite == Spec => []OverwriteReplaces
<1>1. Overwriting => OverwriteReplaces
  BY DEF Overwriting, OverwriteReplaces
<1> QED
  BY <1>1, OverwritingInvariant, PTL

-----------------------------------------------------------------------------
(* The inductive invariant of the history: as many lines as acknowledged   *)
(* records, each that one or no record, and a tail that is the last        *)
(* record or none.                                                         *)
History ==
  /\ TrendTypeOK
  /\ Len(trendLines) = Len(acknowledged)
  /\ \A i \in 1 .. Len(trendLines) : IsRecord(trendLines[i]) => trendLines[i] = <<acknowledged[i]>>
  /\ IsRecord(trendTail) => trendTail = <<records>>
  /\ trendFaults = 0 => trendTail = <<>> /\ \A i \in 1 .. Len(trendLines) : IsRecord(trendLines[i])

(* Every reachable state satisfies it: what is appended comes after all    *)
(* that was acknowledged (trend.py:66-78).                                 *)
THEOREM HistoryInvariant == Spec => []History
<1>1. Init => History
  BY TrendLogAssumption DEF Init, TrendInit, History, TrendTypeOK, IsRecord
<1>2. ASSUME History, [Next]_vars PROVE History'
  <2>1. /\ TrendTypeOK /\ Len(trendLines) = Len(acknowledged)
        /\ \A i \in 1 .. Len(trendLines) :
             IsRecord(trendLines[i]) => trendLines[i] = <<acknowledged[i]>>
        /\ IsRecord(trendTail) => trendTail = <<records>>
        /\ trendFaults = 0 =>
             trendTail = <<>> /\ \A i \in 1 .. Len(trendLines) : IsRecord(trendLines[i])
        /\ MaxRecords \in Nat /\ MaxTrendFaults \in Nat
    BY <1>2, TrendLogAssumption DEF History
  <2>2. CASE AppendEntry
    <3> DEFINE n == records + 1
               line == Append(trendTail, n)
    <3>1. /\ trendLines' = Append(trendLines, line) /\ trendTail' = <<>> /\ records' = n
          /\ acknowledged' = Append(acknowledged, n) /\ trendFaults' = trendFaults
          /\ n \in 1 .. MaxRecords
      BY <2>1, <2>2 DEF AppendEntry, TrendTypeOK
    <3>2. /\ line \in Seq(0 .. MaxRecords) /\ Len(line) = Len(trendTail) + 1 /\ Len(trendTail) \in Nat
          /\ Len(trendTail) = 0 => line = <<n>>
      BY <2>1, <3>1, Extended DEF TrendTypeOK
    <3>3. IsRecord(line) => line = <<n>>
      BY <3>2 DEF IsRecord
    <3>4. trendFaults = 0 => IsRecord(line)
      BY <2>1, <3>1, <3>2 DEF IsRecord, Piece
    <3> HIDE DEF line, n
    <3>5. /\ trendLines' \in Seq(Seq(0 .. MaxRecords)) /\ Len(trendLines') = Len(trendLines) + 1
          /\ Len(trendLines) \in Nat /\ trendLines'[Len(trendLines) + 1] = line
          /\ \A i \in 1 .. Len(trendLines) : trendLines'[i] = trendLines[i]
      BY <2>1, <3>1, <3>2, Extended DEF TrendTypeOK
    <3>6. /\ acknowledged' \in Seq(1 .. MaxRecords) /\ Len(acknowledged') = Len(acknowledged) + 1
          /\ acknowledged'[Len(acknowledged) + 1] = n
          /\ \A i \in 1 .. Len(acknowledged) : acknowledged'[i] = acknowledged[i]
      BY <2>1, <3>1, Extended DEF TrendTypeOK
    <3>7. TrendTypeOK'
      BY <2>1, <3>1, <3>5, <3>6 DEF TrendTypeOK
    <3>8. ASSUME NEW i \in 1 .. Len(trendLines')
          PROVE  /\ IsRecord(trendLines'[i]) => trendLines'[i] = <<acknowledged'[i]>>
                 /\ trendFaults = 0 => IsRecord(trendLines'[i])
      <4>1. CASE i = Len(trendLines) + 1
        BY <2>1, <3>3, <3>4, <3>5, <3>6, <4>1
      <4>2. CASE i \in 1 .. Len(trendLines)
        BY <2>1, <3>5, <3>6, <4>2
      <4> QED
        BY <3>5, <4>1, <4>2
    <3> QED
      BY <2>1, <3>1, <3>5, <3>6, <3>7, <3>8, SMTT(20) DEF History, IsRecord
  <2>3. CASE AppendFails
    <3>1. PICK piece \in {Piece, records'} : trendTail' = Append(trendTail, piece)
      BY <2>3 DEF AppendFails
    <3>2. /\ records' = records + 1 /\ records' \in 1 .. MaxRecords /\ piece \in 0 .. MaxRecords
          /\ trendFaults' = trendFaults + 1 /\ trendFaults' \in 1 .. MaxTrendFaults
          /\ UNCHANGED <<trendLines, acknowledged>>
      BY <2>1, <2>3, <3>1 DEF AppendFails, TrendTypeOK, Piece
    <3>3. /\ trendTail' \in Seq(0 .. MaxRecords) /\ Len(trendTail') = Len(trendTail) + 1
          /\ Len(trendTail) \in Nat /\ (Len(trendTail) = 0 => trendTail' = <<piece>>)
      BY <2>1, <3>1, <3>2, Extended DEF TrendTypeOK
    <3>4. IsRecord(trendTail') => trendTail' = <<records'>>
      BY <3>1, <3>2, <3>3 DEF IsRecord
    <3>5. TrendTypeOK'
      BY <2>1, <3>2, <3>3 DEF TrendTypeOK
    <3> QED
      BY <2>1, <3>2, <3>4, <3>5 DEF History
  <2>4. CASE UNCHANGED trendVars
    BY <2>1, <2>4 DEF History, TrendTypeOK, trendVars
  <2> QED
    BY <1>2, <2>2, <2>3, <2>4
    DEF Next, vars, InitCommand, HookCommand, RecordingCheck, GitCommit, TrendNext
<1> QED
  BY <1>1, <1>2, PTL DEF Spec

(* The reader shows no history with a hole (trend.py:66-98).               *)
THEOREM HasNoHoles == Spec => []HistoryHasNoHoles
<1>1. ASSUME History PROVE HistoryHasNoHoles
  <2> DEFINE entries == [i \in DOMAIN FileLines |-> FileLines[i][1]]
             n == Len(trendLines)
  <2>1. /\ trendLines \in Seq(Seq(0 .. MaxRecords)) /\ trendTail \in Seq(0 .. MaxRecords)
        /\ acknowledged \in Seq(1 .. MaxRecords) /\ n = Len(acknowledged) /\ n \in Nat
        /\ records \in Nat
        /\ \A i \in 1 .. n : IsRecord(trendLines[i]) => trendLines[i] = <<acknowledged[i]>>
        /\ IsRecord(trendTail) => trendTail = <<records>>
        /\ trendFaults = 0 => trendTail = <<>> /\ \A i \in 1 .. n : IsRecord(trendLines[i])
    BY <1>1 DEF History, TrendTypeOK
  <2>2. Loaded = IF \A i \in DOMAIN FileLines : IsRecord(FileLines[i])
                 THEN [valid |-> TRUE, entries |-> entries]
                 ELSE [valid |-> FALSE, entries |-> <<>>]
    BY DEF Loaded
  <2> HIDE DEF n
  <2>3. CASE trendTail = <<>>
    <3>1. FileLines = trendLines /\ DOMAIN FileLines = 1 .. n
      BY <2>1, <2>3 DEF FileLines, n
    <3>2. ASSUME \A i \in 1 .. n : IsRecord(trendLines[i])
          PROVE  entries = acknowledged
      <4>1. \A i \in 1 .. n : trendLines[i][1] = acknowledged[i]
        BY <2>1, <3>2
      <4>2. entries = [i \in 1 .. n |-> acknowledged[i]]
        BY <3>1, <4>1
      <4> QED
        BY <2>1, <4>2
    <3> QED
      BY <2>1, <2>2, <3>1, <3>2 DEF HistoryHasNoHoles
  <2>4. CASE trendTail # <<>>
    <3> DEFINE shown == Append(acknowledged, records)
    <3>1. FileLines = Append(trendLines, trendTail)
      BY <2>4 DEF FileLines
    <3>2. /\ DOMAIN FileLines = 1 .. n + 1 /\ FileLines[n + 1] = trendTail
          /\ \A i \in 1 .. n : FileLines[i] = trendLines[i]
      BY <2>1, <3>1 DEF n
    <3>3. /\ shown \in Seq(Nat) /\ Len(shown) = n + 1 /\ shown[n + 1] = records
          /\ \A i \in 1 .. n : shown[i] = acknowledged[i]
      <4>1. 1 .. MaxRecords \subseteq Nat
        OBVIOUS
      <4>2. /\ shown \in Seq(Nat) /\ Len(shown) = Len(acknowledged) + 1
            /\ shown[Len(acknowledged) + 1] = records
            /\ \A i \in 1 .. Len(acknowledged) : shown[i] = acknowledged[i]
        <5>1. acknowledged \in Seq(Nat) /\ records \in Nat
          <6>1. acknowledged \in Seq(1 .. MaxRecords) /\ records \in Nat
            BY <2>1
          <6> QED
            BY <4>1, <6>1, Widened
        <5> QED
          BY <5>1, Extended
      <4> QED
        BY <2>1, <4>2
    <3> HIDE DEF shown
    <3>4. ASSUME \A i \in DOMAIN FileLines : IsRecord(FileLines[i])
          PROVE  entries = shown
      <4>1. \A i \in 1 .. n + 1 : FileLines[i][1] = shown[i]
        <5>1. ASSUME NEW i \in 1 .. n PROVE FileLines[i][1] = shown[i]
          <6>1. IsRecord(trendLines[i])
            BY <2>1, <3>2, <3>4
          <6>2. trendLines[i] = <<acknowledged[i]>>
            BY <2>1, <6>1
          <6> QED
            BY <3>2, <3>3, <6>2
        <5>2. FileLines[n + 1][1] = shown[n + 1]
          <6>1. IsRecord(trendTail)
            BY <2>1, <3>2, <3>4
          <6> QED
            BY <2>1, <3>2, <3>3, <6>1
        <5>3. \A i \in 1 .. n + 1 : i \in 1 .. n \/ i = n + 1
          <6>1. n \in Nat
            BY <2>1 DEF n
          <6> HIDE DEF n
          <6> QED
            BY <6>1
        <5> QED
          BY <5>1, <5>2, <5>3, Zenon
      <4>2. entries = [i \in 1 .. n + 1 |-> shown[i]]
        BY <3>2, <4>1
      <4> QED
        BY <3>3, <4>2
    <3>5. trendFaults # 0
      BY <2>1, <2>4
    <3> QED
      BY <2>2, <2>4, <3>4, <3>5 DEF HistoryHasNoHoles, shown
  <2> QED
    BY <2>3, <2>4
<1> QED
  BY <1>1, HistoryInvariant, PTL

-----------------------------------------------------------------------------
(* A hook that has no markers and no exit.                                 *)
Plain(h) == \A i \in 1 .. Len(h) : h[i] \notin {"begin", "end", "exit"}

(* The hook that install-hook makes of one without a block                 *)
(* (check.py:120-135) ...                                                  *)
Whole(h) == (IF h = <<>> THEN <<"sh">> ELSE h) \o Block

(* ... and of one that has blocks.                                         *)
Renewed(h) ==
  [i \in 1 .. Len(h) |-> IF i > 1 /\ h[i - 1] = "begin" THEN "current" ELSE h[i]]

Made(h) == IF Contains(h, "begin") THEN Renewed(h) ELSE Whole(h)

(* A hook whose begin markers are those of whole blocks, of any version.   *)
Blocked(h) ==
  /\ h \in Seq(Lines)
  /\ \A i \in 1 .. Len(h) : h[i] = "begin" =>
       i + 2 <= Len(h) /\ h[i + 1] \in {"outdated", "current"} /\ h[i + 2] = "end"

(* A hook that is installed: plain lines, and the block after them.        *)
IsWhole(w) ==
  /\ w \in Seq(Lines)
  /\ Len(w) > 3
  /\ w[Len(w) - 2] = "begin" /\ w[Len(w) - 1] = "current" /\ w[Len(w)] = "end"
  /\ \A i \in 1 .. Len(w) - 3 : w[i] \notin {"begin", "end", "exit"}

-----------------------------------------------------------------------------
(* What is rendered of a plain hook is whole.                              *)
LEMMA WholeIsWhole ==
  ASSUME NEW h \in Seq(Lines), Plain(h)
  PROVE  IsWhole(Whole(h))
<1> DEFINE own == IF h = <<>> THEN <<"sh">> ELSE h
           n == Len(own)
<1>1. own \in Seq(Lines) /\ n \in Nat /\ n > 0
  <2>1. "sh" \in Lines
    BY DEF Lines
  <2> QED
    BY <2>1
<1>2. \A i \in 1 .. n : own[i] \notin {"begin", "end", "exit"}
  BY DEF Plain
<1> HIDE DEF own
<1> DEFINE whole == own \o Block
<1>3. Block \in Seq(Lines) /\ Len(Block) = 3
      /\ Block[1] = "begin" /\ Block[2] = "current" /\ Block[3] = "end"
  BY DEF Block, Lines
<1>4. /\ whole \in Seq(Lines) /\ Len(whole) = n + 3
      /\ \A i \in 1 .. n : whole[i] = own[i]
      /\ \A i \in n + 1 .. n + 3 : whole[i] = Block[i - n]
  <2> HIDE DEF n
  <2>1. n = Len(own)
    BY DEF n
  <2>2. /\ whole \in Seq(Lines) /\ Len(whole) = n + 3
        /\ \A i \in 1 .. n + 3 : whole[i] = IF i <= n THEN own[i] ELSE Block[i - n]
    <3>1. /\ whole \in Seq(Lines) /\ Len(whole) = Len(own) + Len(Block)
          /\ \A i \in 1 .. Len(own) + Len(Block) :
               whole[i] = IF i <= Len(own) THEN own[i] ELSE Block[i - Len(own)]
      BY <1>1, <1>3, ConcatProperties
    <3> HIDE DEF whole
    <3> QED
      BY <1>3, <2>1, <3>1
  <2> HIDE DEF whole
  <2> QED
    BY <1>1, <2>2
<1>5. Whole(h) = whole
  BY DEF Whole, own
<1> HIDE DEF whole, n
<1>6. whole[n + 1] = "begin" /\ whole[n + 2] = "current" /\ whole[n + 3] = "end"
  BY <1>1, <1>3, <1>4
<1>7. IsWhole(whole)
  BY <1>1, <1>2, <1>4, <1>6 DEF IsWhole
<1> QED
  BY <1>5, <1>7

(* Each block ends two lines below its begin marker.                       *)
LEMMA EndOfEachBlock ==
  ASSUME NEW h, Blocked(h), NEW i \in 1 .. Len(h), h[i] = "begin"
  PROVE  EndOfBlock(h, i) = i + 2 /\ i + 2 \in 1 .. Len(h)
<1> DEFINE Closing == {j \in i .. Len(h) : h[j] = "end"}
<1>1. /\ Len(h) \in Nat /\ i + 2 <= Len(h) /\ h[i] = "begin"
      /\ h[i + 1] \in {"outdated", "current"} /\ h[i + 2] = "end"
  BY DEF Blocked
<1>2. i + 2 \in Closing /\ \A j \in Closing : j \in Int /\ j >= i + 2
  <2>1. ASSUME NEW j \in i .. Len(h), j < i + 2 PROVE h[j] # "end"
    <3>1. j = i \/ j = i + 1
      BY <1>1, <2>1
    <3> QED
      BY <1>1, <3>1
  <2> QED
    BY <1>1, <2>1
<1>3. Min(Closing) = i + 2
  <2> HIDE DEF Closing
  <2> QED
    BY <1>2 DEF Min
<1>4. EndOfBlock(h, i) = IF Closing # {} THEN Min(Closing) ELSE 0
  BY DEF EndOfBlock, SelectInSubSeq
<1> HIDE DEF Closing
<1> QED
  BY <1>1, <1>2, <1>3, <1>4

LEMMA BlockFirst ==
  ASSUME NEW s \in Seq(Lines)
  PROVE  Block \o s = <<"begin">> \o (<<"current">> \o (<<"end">> \o s))
<1>1. <<"begin">> \in Seq(Lines) /\ <<"current">> \in Seq(Lines) /\ <<"end">> \in Seq(Lines)
  BY DEF Lines
<1>2. Block = <<"begin">> \o (<<"current">> \o <<"end">>)
  BY DEF Block
<1>3. \A t, u \in Seq(Lines) : t \o u \in Seq(Lines)
  BY ConcatProperties
<1> QED
  BY <1>1, <1>2, <1>3, ConcatAssociative

(* The regular expression makes each block current and leaves all other    *)
(* lines as they are.                                                      *)
LEMMA UpdatedIsRenewed ==
  ASSUME NEW h, Blocked(h)
  PROVE  Updated(h) = Renewed(h)
<1> DEFINE n == Len(h)
           R == Renewed(h)
           from[i \in 1 .. Len(h) + 1] ==
             IF i > Len(h) THEN <<>>
             ELSE IF h[i] = "begin" /\ EndOfBlock(h, i) > 0
             THEN Block \o from[EndOfBlock(h, i) + 1]
             ELSE <<h[i]>> \o from[i + 1]
           Step(f, i) ==
             IF i > n THEN <<>>
             ELSE IF h[i] = "begin" THEN Block \o f[i + 3]
             ELSE <<h[i]>> \o f[i + 1]
           Rest(i) == SubSeq(R, i, n)
           Want(i) == IF i > n THEN <<>> ELSE <<h[i]>> \o Rest(i + 1)
<1>1. Updated(h) = from[1]
  BY DEF Updated
<1>2. n \in Nat /\ h \in Seq(Lines) /\ \A i \in 1 .. n : h[i] \in Lines
  BY DEF Blocked
<1>3. \A i \in 1 .. n : h[i] = "begin" => EndOfBlock(h, i) = i + 2 /\ i + 2 \in 1 .. n
  BY EndOfEachBlock
<1>4. \A f : [i \in 1 .. Len(h) + 1 |->
                IF i > Len(h) THEN <<>>
                ELSE IF h[i] = "begin" /\ EndOfBlock(h, i) > 0
                THEN Block \o f[EndOfBlock(h, i) + 1]
                ELSE <<h[i]>> \o f[i + 1]] = [i \in 1 .. n + 1 |-> Step(f, i)]
  <2> TAKE f
  <2>1. ASSUME NEW i \in 1 .. n + 1
        PROVE  (IF i > Len(h) THEN <<>>
                ELSE IF h[i] = "begin" /\ EndOfBlock(h, i) > 0
                THEN Block \o f[EndOfBlock(h, i) + 1]
                ELSE <<h[i]>> \o f[i + 1]) = Step(f, i)
    <3>1. CASE i > n
      BY <3>1
    <3>2. CASE i \in 1 .. n /\ h[i] = "begin"
      <4>1. EndOfBlock(h, i) = i + 2 /\ EndOfBlock(h, i) > 0 /\ EndOfBlock(h, i) + 1 = i + 3
        BY <1>2, <1>3, <3>2
      <4> QED
        BY <1>2, <3>2, <4>1
    <3>3. CASE i \in 1 .. n /\ h[i] # "begin"
      BY <1>2, <3>3
    <3> QED
      BY <1>2, <3>1, <3>2, <3>3
  <2> QED
    BY <2>1
<1>5. /\ R \in Seq(Lines) /\ Len(R) = n
      /\ \A i \in 1 .. n : R[i] = IF i > 1 /\ h[i - 1] = "begin" THEN "current" ELSE h[i]
  <2>1. "current" \in Lines
    BY DEF Lines
  <2> QED
    BY <1>2, <2>1 DEF Renewed
<1> HIDE DEF R
<1>6. /\ Rest(n + 1) = <<>> /\ Rest(1) = R
      /\ \A i \in 1 .. n : Rest(i) = <<R[i]>> \o Rest(i + 1)
  BY <1>2, <1>5, SubSeqEmpty, SubSeqFull, SubSeqRecursiveFirst
<1>7. \A i \in 1 .. n + 1 : Rest(i) \in Seq(Lines)
  <2> TAKE i \in 1 .. n + 1
  <2>1. \A j \in i .. n : R[j] \in Lines
    BY <1>2, <1>5
  <2> QED
    BY <1>2, <2>1, SubSeqProperties
<1> HIDE DEF Rest
<1>8. ASSUME NEW i \in 1 .. n + 1, i = 1 \/ h[i - 1] # "begin" PROVE Want(i) = Rest(i)
  <2>1. CASE i = n + 1
    BY <1>2, <1>6, <2>1
  <2>2. CASE i \in 1 .. n
    <3>1. R[i] = h[i]
      BY <1>5, <1>8, <2>2
    <3> QED
      BY <1>2, <1>6, <2>2, <3>1
  <2> QED
    BY <1>2, <2>1, <2>2
<1>9. ASSUME NEW i \in 1 .. n, h[i] = "begin"
      PROVE  /\ i + 3 \in 1 .. n + 1 /\ Want(i + 3) = Rest(i + 3)
             /\ <<h[i]>> \o Rest(i + 1) = Block \o Rest(i + 3)
  <2>1. /\ i + 1 \in 1 .. n /\ i + 2 \in 1 .. n /\ i + 3 \in 1 .. n + 1
        /\ h[i + 1] \in {"outdated", "current"} /\ h[i + 2] = "end" /\ (i + 3) - 1 = i + 2
    BY <1>2, <1>9 DEF Blocked
  <2>2. R[i + 1] = "current" /\ R[i + 2] = "end"
    BY <1>5, <1>9, <2>1
  <2>3. (i + 1) + 1 = i + 2 /\ (i + 2) + 1 = i + 3
    BY <1>2
  <2>4. Rest(i + 1) = <<"current">> \o Rest(i + 2)
    BY <1>6, <2>1, <2>2, <2>3
  <2>5. Rest(i + 2) = <<"end">> \o Rest(i + 3)
    BY <1>6, <2>1, <2>2, <2>3
  <2>6. Block \o Rest(i + 3) = <<"begin">> \o (<<"current">> \o (<<"end">> \o Rest(i + 3)))
    BY <1>7, <2>1, BlockFirst
  <2>7. Want(i + 3) = Rest(i + 3)
    <3> HIDE DEF Want
    <3> QED
      BY <1>8, <2>1
  <2> QED
    BY <1>9, <2>1, <2>4, <2>5, <2>6, <2>7
<1> DEFINE want == [j \in 1 .. n + 1 |-> Want(j)]
<1>10. ASSUME NEW i \in 1 .. n + 1 PROVE want[i] = Step(want, i)
  <2>1. CASE i = n + 1
    BY <1>2, <2>1
  <2>2. CASE i \in 1 .. n /\ h[i] = "begin"
    <3>1. Step(want, i) = Block \o want[i + 3]
      BY <1>2, <2>2
    <3>2. want[i + 3] = Rest(i + 3)
      <4> HIDE DEF Want
      <4> QED
        BY <1>9, <2>2
    <3>3. want[i] = <<h[i]>> \o Rest(i + 1)
      BY <1>2, <2>2
    <3> HIDE DEF want
    <3> QED
      BY <1>9, <2>2, <3>1, <3>2, <3>3
  <2>3. CASE i \in 1 .. n /\ h[i] # "begin"
    <3>1. Step(want, i) = <<h[i]>> \o want[i + 1]
      BY <1>2, <2>3
    <3>2. want[i + 1] = Rest(i + 1)
      <4>1. i + 1 \in 1 .. n + 1 /\ (i + 1) - 1 = i
        BY <1>2, <2>3
      <4> HIDE DEF Want
      <4> QED
        BY <1>8, <2>3, <4>1
    <3>3. want[i] = <<h[i]>> \o Rest(i + 1)
      BY <1>2, <2>3
    <3> HIDE DEF want
    <3> QED
      BY <3>1, <3>2, <3>3
  <2> QED
    BY <1>2, <2>1, <2>2, <2>3
<1>11. \A i \in 1 .. n + 1 : from[i] = Step(from, i)
  <2>1. want = [i \in 1 .. n + 1 |-> Step(want, i)]
    <3>1. want = [i \in 1 .. n + 1 |-> want[i]]
      OBVIOUS
    <3> HIDE DEF want, Step
    <3> QED
      BY <1>10, <3>1
  <2> HIDE DEF want, Step
  <2>2. from = [i \in 1 .. n + 1 |-> Step(from, i)]
    BY <1>4, <2>1
  <2> HIDE DEF from
  <2> QED
    BY <2>2
<1>12. ASSUME NEW f, \A i \in 1 .. n + 1 : f[i] = Step(f, i)
      PROVE  /\ f[n + 1] = <<>>
             /\ \A i \in 1 .. n : h[i] = "begin" => f[i] = Block \o f[i + 3]
             /\ \A i \in 1 .. n : h[i] # "begin" => f[i] = <<h[i]>> \o f[i + 1]
  <2>1. Step(f, n + 1) = <<>>
    BY <1>2
  <2>2. ASSUME NEW i \in 1 .. n
        PROVE  /\ h[i] = "begin" => Step(f, i) = Block \o f[i + 3]
               /\ h[i] # "begin" => Step(f, i) = <<h[i]>> \o f[i + 1]
    BY <1>2
  <2>3. n + 1 \in 1 .. n + 1 /\ \A i \in 1 .. n : i \in 1 .. n + 1
    BY <1>2
  <2> HIDE DEF Step, n
  <2> QED
    BY <1>12, <2>1, <2>2, <2>3
<1> HIDE DEF from, want, Step, n, Want
<1>13. /\ from[n + 1] = <<>>
       /\ \A i \in 1 .. n : h[i] = "begin" => from[i] = Block \o from[i + 3]
       /\ \A i \in 1 .. n : h[i] # "begin" => from[i] = <<h[i]>> \o from[i + 1]
  BY <1>11, <1>12
<1>14. /\ want[n + 1] = <<>>
       /\ \A i \in 1 .. n : h[i] = "begin" => want[i] = Block \o want[i + 3]
       /\ \A i \in 1 .. n : h[i] # "begin" => want[i] = <<h[i]>> \o want[i + 1]
  BY <1>10, <1>12
<1> DEFINE Agree == {k \in 0 .. n : \A j \in n + 1 - k .. n + 1 : from[j] = want[j]}
<1>15. 0 \in Agree
  <2>1. from[n + 1] = <<>> /\ want[n + 1] = <<>>
    BY <1>13, <1>14
  <2> QED
    BY <1>2, <2>1
<1>16. ASSUME NEW k \in 1 .. n, k - 1 \in Agree PROVE k \in Agree
  <2>1. PICK i \in 1 .. n : i = n + 1 - k /\ i + 1 \in 1 .. n + 1
    <3>1. n + 1 - k \in 1 .. n /\ (n + 1 - k) + 1 \in 1 .. n + 1
      BY <1>2
    <3> QED
      BY <3>1
  <2>2. \A j \in i + 1 .. n + 1 : from[j] = want[j]
    <3>1. n + 1 - (k - 1) = i + 1
      BY <1>2, <2>1
    <3> QED
      BY <1>16, <3>1
  <2>3. from[i] = want[i]
    <3>1. CASE h[i] = "begin"
      <4>1. i + 3 \in i + 1 .. n + 1
        BY <1>2, <1>3, <3>1
      <4>2. from[i + 3] = want[i + 3]
        BY <2>2, <4>1
      <4>3. from[i] = Block \o from[i + 3] /\ want[i] = Block \o want[i + 3]
        BY <1>13, <1>14, <2>1, <3>1
      <4> QED
        BY <4>2, <4>3
    <3>2. CASE h[i] # "begin"
      <4>1. from[i + 1] = want[i + 1]
        BY <1>2, <2>1, <2>2
      <4>2. from[i] = <<h[i]>> \o from[i + 1] /\ want[i] = <<h[i]>> \o want[i + 1]
        BY <1>13, <1>14, <2>1, <3>2
      <4> QED
        BY <4>1, <4>2
    <3> QED
      BY <3>1, <3>2
  <2>4. \A j \in i .. n + 1 : from[j] = want[j]
    BY <1>2, <2>1, <2>2, <2>3
  <2> QED
    BY <2>1, <2>4
<1> HIDE DEF Agree
<1>17. n \in Agree
  <2>1. \A k \in 0 .. n : k \in Agree
    BY <1>2, <1>15, <1>16, FiniteInduction
  <2> QED
    BY <1>2, <2>1
<1>18. from[1] = want[1]
  BY <1>2, <1>17 DEF Agree
<1>19. want[1] = Want(1)
  BY <1>2 DEF want
<1>20. Want(1) = Rest(1)
  <2> HIDE DEF Want
  <2> QED
    BY <1>2, <1>8
<1> QED
  BY <1>1, <1>6, <1>18, <1>19, <1>20 DEF R

(* The check is the last command of a whole hook, and nothing exits before *)
(* it: its status is the hook's.                                           *)
LEMMA StatusOfWhole ==
  ASSUME NEW w, IsWhole(w), NEW command, NEW check
  PROVE  HookStatus(w, command, check) = check
<1> DEFINE Commands == {i \in 1 .. Len(w) : w[i] \in {"run", "current", "outdated"}}
           n == Len(w)
<1>1. /\ n \in Nat /\ n > 3 /\ w[n - 2] = "begin" /\ w[n - 1] = "current" /\ w[n] = "end"
      /\ \A i \in 1 .. n - 3 : w[i] \notin {"begin", "end", "exit"}
  BY DEF IsWhole
<1>2. n - 1 \in Commands /\ \A i \in Commands : i \in 1 .. n - 1
  BY <1>1
<1>3. Max(Commands) = n - 1
  <2> HIDE DEF Commands, n
  <2> QED
    BY <1>1, <1>2 DEF Max
<1>4. ~Contains(w, "exit")
  BY <1>1 DEF Contains
<1>5. HookStatus(w, command, check) =
        LET last == IF Commands # {} THEN Max(Commands) ELSE 0
        IN  IF Contains(w, "exit") \/ last = 0 THEN 0
            ELSE IF w[last] = "run" THEN command ELSE check
  BY DEF HookStatus, SelectLastInSeq
<1> HIDE DEF Commands, n
<1> QED
  BY <1>1, <1>2, <1>3, <1>4, <1>5

(* Whole h of a hook without begin markers, line by line.                  *)
LEMMA WholeLines ==
  ASSUME NEW h \in Seq(Lines), ~Contains(h, "begin")
  PROVE  \E n \in Nat :
           /\ n = (IF h = <<>> THEN 1 ELSE Len(h))
           /\ Whole(h) \in Seq(Lines) /\ Len(Whole(h)) = n + 3
           /\ Whole(h)[n + 1] = "begin" /\ Whole(h)[n + 2] = "current" /\ Whole(h)[n + 3] = "end"
           /\ \A i \in 1 .. n : Whole(h)[i] = IF h = <<>> THEN "sh" ELSE h[i]
           /\ \A i \in 1 .. n : Whole(h)[i] # "begin"
<1> DEFINE own == IF h = <<>> THEN <<"sh">> ELSE h
           n == Len(own)
           whole == own \o Block
<1>1. /\ own \in Seq(Lines) /\ n \in Nat /\ n = (IF h = <<>> THEN 1 ELSE Len(h))
      /\ \A i \in 1 .. n : own[i] = IF h = <<>> THEN "sh" ELSE h[i]
  <2>1. "sh" \in Lines
    BY DEF Lines
  <2> QED
    BY <2>1
<1>2. \A i \in 1 .. n : own[i] # "begin"
  BY DEF Contains
<1>3. n = Len(own)
  OBVIOUS
<1> HIDE DEF own, n, whole
<1>4. Block \in Seq(Lines) /\ Len(Block) = 3
      /\ Block[1] = "begin" /\ Block[2] = "current" /\ Block[3] = "end"
  BY DEF Block, Lines
<1>5. /\ whole \in Seq(Lines) /\ Len(whole) = Len(own) + Len(Block)
      /\ \A i \in 1 .. Len(own) + Len(Block) :
           whole[i] = IF i <= Len(own) THEN own[i] ELSE Block[i - Len(own)]
  BY <1>1, <1>4, ConcatProperties DEF whole
<1>6. Whole(h) = whole
  BY DEF Whole, own, whole
<1>7. /\ whole \in Seq(Lines) /\ Len(whole) = n + 3
      /\ \A i \in 1 .. n : whole[i] = own[i]
      /\ \A i \in n + 1 .. n + 3 : whole[i] = Block[i - n]
  <2>1. \A i \in 1 .. n + 3 : whole[i] = IF i <= n THEN own[i] ELSE Block[i - n]
    BY <1>3, <1>4, <1>5
  <2> QED
    BY <1>1, <1>3, <1>4, <1>5, <2>1
<1>8. whole[n + 1] = "begin" /\ whole[n + 2] = "current" /\ whole[n + 3] = "end"
  <2>1. /\ n + 1 \in n + 1 .. n + 3 /\ n + 2 \in n + 1 .. n + 3 /\ n + 3 \in n + 1 .. n + 3
        /\ (n + 1) - n = 1 /\ (n + 2) - n = 2 /\ (n + 3) - n = 3
    BY <1>1
  <2> QED
    BY <1>4, <1>7, <2>1
<1>9. \A i \in 1 .. n : whole[i] # "begin" /\ whole[i] = IF h = <<>> THEN "sh" ELSE h[i]
  BY <1>1, <1>2, <1>7
<1> QED
  BY <1>1, <1>6, <1>7, <1>8, <1>9

LEMMA RenewedLines ==
  ASSUME NEW h, Blocked(h)
  PROVE  /\ h \in Seq(Lines) /\ Len(h) \in Nat
         /\ Renewed(h) \in Seq(Lines) /\ Len(Renewed(h)) = Len(h)
         /\ \A i \in 1 .. Len(h) : i > 1 /\ h[i - 1] = "begin" => Renewed(h)[i] = "current"
         /\ \A i \in 1 .. Len(h) : ~(i > 1 /\ h[i - 1] = "begin") => Renewed(h)[i] = h[i]
<1>1. h \in Seq(Lines) /\ Len(h) \in Nat /\ "current" \in Lines
  BY DEF Blocked, Lines
<1> QED
  BY <1>1 DEF Renewed

(* What install-hook makes has blocks, begins with no others, and stays.   *)
LEMMA MadeStays ==
  ASSUME NEW h, Blocked(h)
  PROVE  Blocked(Made(h)) /\ Renewed(Made(h)) = Made(h) /\ Contains(Made(h), "begin")
<1>1. CASE Contains(h, "begin")
  <2> DEFINE R == Renewed(h)
  <2>1. /\ h \in Seq(Lines) /\ Len(h) \in Nat /\ R \in Seq(Lines) /\ Len(R) = Len(h)
        /\ \A i \in 1 .. Len(h) : i > 1 /\ h[i - 1] = "begin" => R[i] = "current"
        /\ \A i \in 1 .. Len(h) : ~(i > 1 /\ h[i - 1] = "begin") => R[i] = h[i]
    BY RenewedLines
  <2>2. Made(h) = R
    BY <1>1 DEF Made
  <2> HIDE DEF R
  <2>3. ASSUME NEW i \in 1 .. Len(h)
        PROVE  /\ R[i] = "begin" => h[i] = "begin"
               /\ h[i] = "begin" => R[i] = "begin" /\ i + 2 <= Len(h)
                                    /\ R[i + 1] = "current" /\ R[i + 2] = "end"
    <3>1. R[i] = "begin" => h[i] = "begin"
      BY <2>1
    <3>2. ASSUME h[i] = "begin"
          PROVE  R[i] = "begin" /\ i + 2 <= Len(h) /\ R[i + 1] = "current" /\ R[i + 2] = "end"
      <4>1. i + 2 <= Len(h) /\ h[i + 1] \in {"outdated", "current"} /\ h[i + 2] = "end"
        BY <3>2 DEF Blocked
      <4>2. ~(i > 1 /\ h[i - 1] = "begin")
        <5>1. ASSUME i > 1, h[i - 1] = "begin" PROVE FALSE
          <6>1. i - 1 \in 1 .. Len(h) /\ (i - 1) + 1 = i
            BY <2>1, <5>1
          <6>2. h[i] \in {"outdated", "current"}
            BY <5>1, <6>1 DEF Blocked
          <6> QED
            BY <3>2, <6>2
        <5> QED
          BY <5>1
      <4>3. R[i] = "begin"
        BY <2>1, <3>2, <4>2
      <4>4. i + 1 \in 1 .. Len(h) /\ i + 1 > 1 /\ (i + 1) - 1 = i
            /\ i + 2 \in 1 .. Len(h) /\ (i + 2) - 1 = i + 1
        BY <2>1, <4>1
      <4>5. R[i + 1] = "current"
        BY <2>1, <3>2, <4>4
      <4>6. R[i + 2] = "end"
        BY <2>1, <4>1, <4>4
      <4> QED
        BY <4>1, <4>3, <4>5, <4>6
    <3> QED
      BY <3>1, <3>2
  <2>4. Blocked(R)
    BY <2>1, <2>3 DEF Blocked
  <2>5. Renewed(R) = R
    <3>1. /\ Renewed(R) \in Seq(Lines) /\ Len(Renewed(R)) = Len(R)
          /\ \A i \in 1 .. Len(R) : i > 1 /\ R[i - 1] = "begin" => Renewed(R)[i] = "current"
          /\ \A i \in 1 .. Len(R) : ~(i > 1 /\ R[i - 1] = "begin") => Renewed(R)[i] = R[i]
      BY <2>4, RenewedLines
    <3>2. ASSUME NEW i \in 1 .. Len(R), i > 1, R[i - 1] = "begin" PROVE R[i] = "current"
      <4>1. i - 1 \in 1 .. Len(h) /\ i \in 1 .. Len(h)
        BY <2>1, <3>2
      <4>2. h[i - 1] = "begin"
        BY <2>3, <3>2, <4>1
      <4> QED
        BY <2>1, <3>2, <4>1, <4>2
    <3>3. \A i \in 1 .. Len(R) : Renewed(R)[i] = R[i]
      BY <3>1, <3>2
    <3> QED
      BY <2>1, <3>1, <3>3, SeqEqual
  <2>6. Contains(R, "begin")
    <3>1. PICK i \in 1 .. Len(h) : h[i] = "begin"
      BY <1>1 DEF Contains
    <3> QED
      BY <2>1, <2>3, <3>1 DEF Contains
  <2> QED
    BY <2>2, <2>4, <2>5, <2>6
<1>2. CASE ~Contains(h, "begin")
  <2> DEFINE w == Whole(h)
  <2>1. h \in Seq(Lines)
    BY DEF Blocked
  <2>2. PICK n \in Nat :
          /\ w \in Seq(Lines) /\ Len(w) = n + 3
          /\ w[n + 1] = "begin" /\ w[n + 2] = "current" /\ w[n + 3] = "end"
          /\ \A i \in 1 .. n : w[i] # "begin"
    BY <1>2, <2>1, WholeLines
  <2>3. Made(h) = w
    BY <1>2 DEF Made
  <2> HIDE DEF w
  <2>4. ASSUME NEW i \in 1 .. Len(w) PROVE w[i] = "begin" <=> i = n + 1
    <3>1. i \in 1 .. n \/ i = n + 1 \/ i = n + 2 \/ i = n + 3
      BY <2>2
    <3> QED
      BY <2>2, <3>1
  <2>5. Blocked(w)
    <3>1. ASSUME NEW i \in 1 .. Len(w), w[i] = "begin"
          PROVE  i + 2 <= Len(w) /\ w[i + 1] \in {"outdated", "current"} /\ w[i + 2] = "end"
      <4>1. i = n + 1 /\ i + 1 = n + 2 /\ i + 2 = n + 3
        BY <2>2, <2>4, <3>1
      <4> QED
        BY <2>2, <4>1
    <3> QED
      BY <2>2, <3>1 DEF Blocked
  <2>6. Renewed(w) = w
    <3>1. /\ Renewed(w) \in Seq(Lines) /\ Len(Renewed(w)) = Len(w)
          /\ \A i \in 1 .. Len(w) : i > 1 /\ w[i - 1] = "begin" => Renewed(w)[i] = "current"
          /\ \A i \in 1 .. Len(w) : ~(i > 1 /\ w[i - 1] = "begin") => Renewed(w)[i] = w[i]
      BY <2>5, RenewedLines
    <3>2. ASSUME NEW i \in 1 .. Len(w), i > 1, w[i - 1] = "begin" PROVE w[i] = "current"
      <4>1. i - 1 \in 1 .. Len(w)
        BY <2>2, <3>2
      <4>2. i - 1 = n + 1
        BY <2>4, <3>2, <4>1
      <4>3. i = n + 2
        BY <2>2, <4>2
      <4> QED
        BY <2>2, <4>3
    <3>3. \A i \in 1 .. Len(w) : Renewed(w)[i] = w[i]
      BY <3>1, <3>2
    <3> QED
      BY <2>2, <3>1, <3>3, SeqEqual
  <2>7. Contains(w, "begin")
    <3>1. n + 1 \in 1 .. Len(w)
      BY <2>2
    <3> QED
      BY <2>2, <3>1 DEF Contains
  <2> QED
    BY <2>3, <2>5, <2>6, <2>7
<1> QED
  BY <1>1, <1>2

(* What is rendered: the hook as install-hook makes it, however often.     *)
LEMMA RenderedMade ==
  ASSUME NEW h, Blocked(h)
  PROVE  /\ Rendered(h) = Made(h)
         /\ Rendered(Made(h)) = Made(h)
         /\ Made(h) # <<>>
<1>1. ASSUME NEW g, Blocked(g), Contains(g, "begin") PROVE Rendered(g) = Renewed(g) /\ g # <<>>
  <2>1. PICK i \in 1 .. Len(g) : g[i] = "begin"
    BY <1>1 DEF Contains
  <2>2. i + 2 \in 1 .. Len(g) /\ g[i + 2] = "end"
    <3>1. Len(g) \in Nat /\ i + 2 <= Len(g) /\ g[i + 2] = "end"
      BY <1>1, <2>1 DEF Blocked
    <3> QED
      BY <3>1
  <2>3. Contains(g, "end") /\ g # <<>>
    BY <2>2 DEF Contains
  <2> QED
    BY <1>1, <2>3, UpdatedIsRenewed DEF Rendered
<1>2. ASSUME ~Contains(h, "begin") PROVE Rendered(h) = Whole(h)
  BY <1>2 DEF Rendered, Whole
<1>3. Rendered(h) = Made(h)
  BY <1>1, <1>2 DEF Made
<1> QED
  BY <1>1, <1>3, MadeStays

-----------------------------------------------------------------------------
(* The commands of a hook, prefix by prefix.                               *)
LEMMA OwnLinesByPrefix ==
  ASSUME NEW h \in Seq(Lines)
  PROVE  \E own \in [0 .. Len(h) -> Seq(Lines)] :
           /\ own[0] = <<>> /\ OwnLines(h) = own[Len(h)]
           /\ \A k \in 1 .. Len(h) :
                /\ h[k] \in {"run", "exit"} => own[k] = Append(own[k - 1], h[k])
                /\ h[k] \notin {"run", "exit"} => own[k] = own[k - 1]
<1> DEFINE n == Len(h)
           own[k \in 0 .. Len(h)] ==
             IF k = 0 THEN <<>>
             ELSE IF h[k] \in {"run", "exit"} THEN Append(own[k - 1], h[k]) ELSE own[k - 1]
           Of(f, k) ==
             IF k = 0 THEN <<>>
             ELSE IF h[k] \in {"run", "exit"} THEN Append(f[k - 1], h[k]) ELSE f[k - 1]
           step == [p \in (1 .. n) \X Seq(Lines) |->
                      IF h[p[1]] \in {"run", "exit"} THEN Append(p[2], h[p[1]]) ELSE p[2]]
<1>1. OwnLines(h) = own[n]
  BY DEF OwnLines
<1>2. n \in Nat /\ \A k \in 1 .. n : h[k] \in Lines
  OBVIOUS
<1>3. ASSUME NEW k \in 1 .. n, NEW s \in Seq(Lines)
      PROVE  /\ step[<<k, s>>] \in Seq(Lines)
             /\ h[k] \in {"run", "exit"} => step[<<k, s>>] = Append(s, h[k])
             /\ h[k] \notin {"run", "exit"} => step[<<k, s>>] = s
  <2>1. step[<<k, s>>] = IF h[k] \in {"run", "exit"} THEN Append(s, h[k]) ELSE s
    OBVIOUS
  <2>2. Append(s, h[k]) \in Seq(Lines)
    BY <1>2
  <2> QED
    BY <2>1, <2>2
<1>4. step \in [(1 .. n) \X Seq(Lines) -> Seq(Lines)]
  <2>1. \A p \in (1 .. n) \X Seq(Lines) :
          (IF h[p[1]] \in {"run", "exit"} THEN Append(p[2], h[p[1]]) ELSE p[2]) \in Seq(Lines)
    BY <1>2
  <2> QED
    BY <2>1
<1> HIDE DEF step, n
<1>5. PICK f \in [0 .. n -> Seq(Lines)] :
        f[0] = <<>> /\ \A k \in 1 .. n : f[k] = step[<<k, f[k - 1]>>]
  <2>1. PICK none \in Seq(Lines) : none = <<>>
    <3>1. <<>> \in Seq(Lines)
      OBVIOUS
    <3> QED
      BY <3>1, Zenon
  <2> HIDE DEF own, Of
  <2>2. \E f \in [0 .. n -> Seq(Lines)] :
          f[0] = none /\ \A k \in 1 .. n : f[k] = step[<<k, f[k - 1]>>]
    <3>1. IsStep(step, n, Seq(Lines)) /\ n \in Nat
      BY <1>2, <1>4 DEF IsStep
    <3>2. Recursions(step, n, Seq(Lines), none) # {}
      BY <3>1, FiniteRecursion
    <3> QED
      BY <3>2 DEF Recursions
  <2> QED
    BY <2>1, <2>2
<1>6. ASSUME NEW k \in 0 .. n PROVE f[k] = Of(f, k)
  <2>1. CASE k = 0
    <3>1. f[0] = <<>> /\ Of(f, 0) = <<>>
      BY <1>5
    <3> HIDE DEF Of
    <3> QED
      BY <2>1, <3>1
  <2>2. CASE k \in 1 .. n
    <3>1. f[k - 1] \in Seq(Lines)
      BY <1>2, <2>2
    <3> QED
      BY <1>2, <1>3, <1>5, <2>2, <3>1
  <2> QED
    <3> HIDE DEF Of
    <3> QED
      BY <1>2, <2>1, <2>2
<1>7. own = [k \in 0 .. n |-> Of(own, k)]
  <2>1. f = [k \in 0 .. n |-> Of(f, k)]
    <3>1. f = [k \in 0 .. n |-> f[k]]
      OBVIOUS
    <3> HIDE DEF Of
    <3> QED
      BY <1>6, <3>1
  <2> QED
    BY <2>1 DEF n
<1>8. \A k \in 0 .. n : own[k] = Of(own, k)
  <2> HIDE DEF own, Of
  <2> QED
    BY <1>7
<1> HIDE DEF own
<1>9. own[0] = <<>>
  <2>1. own[0] = Of(own, 0)
    <3> HIDE DEF Of
    <3> QED
      BY <1>2, <1>8
  <2> QED
    BY <2>1
<1>10. ASSUME NEW k \in 1 .. n
       PROVE  /\ h[k] \in {"run", "exit"} => own[k] = Append(own[k - 1], h[k])
              /\ h[k] \notin {"run", "exit"} => own[k] = own[k - 1]
  <2>1. k # 0 /\ own[k] = Of(own, k)
    <3> HIDE DEF Of
    <3> QED
      BY <1>2, <1>8
  <2> QED
    BY <2>1
<1>11. own \in [0 .. n -> Seq(Lines)]
  <2> DEFINE T == {k \in 0 .. n : own[k] \in Seq(Lines)}
  <2>1. 0 \in T
    <3>1. <<>> \in Seq(Lines)
      OBVIOUS
    <3>2. own[0] \in Seq(Lines)
      BY <1>9, <3>1, Zenon
    <3> QED
      BY <1>2, <3>2
  <2>2. ASSUME NEW k \in 1 .. n, k - 1 \in T PROVE k \in T
    <3>1. own[k - 1] \in Seq(Lines) /\ h[k] \in Lines
      BY <1>2, <2>2
    <3>2. PICK longer \in Seq(Lines) : longer = Append(own[k - 1], h[k])
      <4>1. \A t \in Seq(Lines), x \in Lines : \E u \in Seq(Lines) : u = Append(t, x)
        <5>1. \A t \in Seq(Lines), x \in Lines : Append(t, x) \in Seq(Lines)
          OBVIOUS
        <5> QED
          BY <5>1, Zenon
      <4> HIDE DEF T
      <4> QED
        BY <3>1, <4>1, Zenon
    <3>3. own[k] = longer \/ own[k] = own[k - 1]
      BY <1>10, <3>2
    <3>4. own[k] \in Seq(Lines)
      BY <3>1, <3>3
    <3> HIDE DEF own
    <3> QED
      BY <1>2, <3>4
  <2> HIDE DEF T
  <2>3. \A k \in 0 .. n : k \in T
    BY <1>2, <2>1, <2>2, FiniteInduction
  <2>4. DOMAIN own = 0 .. n /\ own = [k \in 0 .. n |-> own[k]]
    <3> HIDE DEF Of
    <3> QED
      BY <1>7
  <2>5. \A k \in 0 .. n : own[k] \in Seq(Lines)
    BY <2>3 DEF T
  <2> QED
    BY <2>4, <2>5
<1> QED
  BY <1>1, <1>9, <1>10, <1>11 DEF n

(* Two hooks that differ in lines that are no commands have the same ones. *)
LEMMA OwnLinesAgree ==
  ASSUME NEW s \in Seq(Lines), NEW t \in Seq(Lines), Len(s) <= Len(t),
         \A i \in 1 .. Len(s) : s[i] = t[i] \/ {s[i], t[i]} \cap {"run", "exit"} = {},
         \A i \in Len(s) + 1 .. Len(t) : t[i] \notin {"run", "exit"}
  PROVE  OwnLines(s) = OwnLines(t)
<1>1. PICK m \in Nat : m = Len(s)
  OBVIOUS
<1>2. PICK n \in Nat : n = Len(t)
  OBVIOUS
<1>3. /\ m <= n
      /\ \A i \in 1 .. m : s[i] = t[i] \/ {s[i], t[i]} \cap {"run", "exit"} = {}
      /\ \A i \in m + 1 .. n : t[i] \notin {"run", "exit"}
  BY <1>1, <1>2
<1>4. PICK p \in [0 .. m -> Seq(Lines)] :
        /\ p[0] = <<>> /\ OwnLines(s) = p[m]
        /\ \A k \in 1 .. m :
             /\ s[k] \in {"run", "exit"} => p[k] = Append(p[k - 1], s[k])
             /\ s[k] \notin {"run", "exit"} => p[k] = p[k - 1]
  BY <1>1, OwnLinesByPrefix
<1>5. PICK q \in [0 .. n -> Seq(Lines)] :
        /\ q[0] = <<>> /\ OwnLines(t) = q[n]
        /\ \A k \in 1 .. n :
             /\ t[k] \in {"run", "exit"} => q[k] = Append(q[k - 1], t[k])
             /\ t[k] \notin {"run", "exit"} => q[k] = q[k - 1]
  BY <1>2, OwnLinesByPrefix
<1> DEFINE T == {k \in 0 .. n : k <= m => q[k] = p[k]}
           U == {k \in 0 .. n : k >= m => q[k] = p[m]}
<1>6. \A k \in 0 .. n : k \in T
  <2>1. 0 \in T
    BY <1>4, <1>5
  <2>2. ASSUME NEW k \in 1 .. n, k - 1 \in T PROVE k \in T
    <3>1. ASSUME k <= m PROVE q[k] = p[k]
      <4>1. k \in 1 .. m /\ q[k - 1] = p[k - 1]
        BY <2>2, <3>1
      <4>2. CASE s[k] = t[k]
        BY <1>4, <1>5, <4>1, <4>2
      <4>3. CASE {s[k], t[k]} \cap {"run", "exit"} = {}
        BY <1>4, <1>5, <4>1, <4>3
      <4> QED
        BY <1>3, <4>1, <4>2, <4>3
    <3> QED
      BY <3>1
  <2> HIDE DEF T
  <2> QED
    BY <2>1, <2>2, FiniteInduction
<1>7. \A k \in 0 .. n : k \in U
  <2>1. m \in 0 .. n /\ q[m] = p[m]
    BY <1>3, <1>6
  <2>2. 0 \in U
    BY <2>1
  <2>3. ASSUME NEW k \in 1 .. n, k - 1 \in U PROVE k \in U
    <3>1. CASE k <= m
      BY <2>1, <3>1
    <3>2. CASE k \in m + 1 .. n
      <4>1. q[k - 1] = p[m]
        BY <2>3, <3>2
      <4> QED
        BY <1>3, <1>5, <3>2, <4>1
    <3> QED
      BY <3>1, <3>2
  <2> HIDE DEF U
  <2> QED
    BY <2>2, <2>3, FiniteInduction
<1> QED
  BY <1>3, <1>4, <1>5, <1>7

(* The developer's commands are in what install-hook makes, in order.      *)
LEMMA MadeKeepsCommands ==
  ASSUME NEW h, Blocked(h)
  PROVE  OwnLines(Made(h)) = OwnLines(h)
<1>1. h \in Seq(Lines) /\ Len(h) \in Nat
  BY DEF Blocked
<1>2. CASE Contains(h, "begin")
  <2> DEFINE R == Renewed(h)
  <2>1. /\ R \in Seq(Lines) /\ Len(R) = Len(h)
        /\ \A i \in 1 .. Len(h) : i > 1 /\ h[i - 1] = "begin" => R[i] = "current"
        /\ \A i \in 1 .. Len(h) : ~(i > 1 /\ h[i - 1] = "begin") => R[i] = h[i]
    BY RenewedLines
  <2> HIDE DEF R
  <2>2. ASSUME NEW i \in 1 .. Len(h)
        PROVE  h[i] = R[i] \/ {h[i], R[i]} \cap {"run", "exit"} = {}
    <3>1. ASSUME i > 1, h[i - 1] = "begin" PROVE h[i] \in {"outdated", "current"}
      <4>1. i - 1 \in 1 .. Len(h) /\ (i - 1) + 1 = i
        BY <1>1, <3>1
      <4> QED
        BY <3>1, <4>1 DEF Blocked
    <3> QED
      BY <2>1, <3>1
  <2>3. \A i \in Len(h) + 1 .. Len(R) : R[i] \notin {"run", "exit"}
    BY <1>1, <2>1
  <2>4. OwnLines(h) = OwnLines(R)
    BY <1>1, <2>1, <2>2, <2>3, OwnLinesAgree
  <2> QED
    BY <1>2, <2>4 DEF Made, R
<1>3. CASE ~Contains(h, "begin")
  <2> DEFINE w == Whole(h)
  <2>1. PICK n \in Nat :
          /\ n = (IF h = <<>> THEN 1 ELSE Len(h))
          /\ w \in Seq(Lines) /\ Len(w) = n + 3
          /\ w[n + 1] = "begin" /\ w[n + 2] = "current" /\ w[n + 3] = "end"
          /\ \A i \in 1 .. n : w[i] = IF h = <<>> THEN "sh" ELSE h[i]
    BY <1>1, <1>3, WholeLines
  <2>2. /\ Len(h) <= n
        /\ h = <<>> => Len(h) = 0 /\ n = 1 /\ w[1] = "sh"
        /\ h # <<>> => Len(h) = n /\ \A i \in 1 .. n : w[i] = h[i]
    BY <1>1, <2>1
  <2> HIDE DEF w
  <2>3. \A i \in 1 .. Len(h) : h[i] = w[i]
    BY <1>1, <2>2
  <2>4. ASSUME NEW i \in Len(h) + 1 .. Len(w) PROVE w[i] \notin {"run", "exit"}
    <3>1. i = n + 1 \/ i = n + 2 \/ i = n + 3 \/ (h = <<>> /\ i = 1)
      BY <1>1, <2>1, <2>2
    <3> QED
      BY <2>1, <2>2, <3>1
  <2>5. OwnLines(h) = OwnLines(w)
    <3>1. Len(h) <= Len(w)
      BY <1>1, <2>1, <2>2
    <3> QED
      BY <1>1, <2>1, <2>3, <2>4, <3>1, OwnLinesAgree
  <2> QED
    BY <1>3, <2>5 DEF Made, w
<1> QED
  BY <1>2, <1>3

LEMMA WellFormedIsBlocked ==
  ASSUME NEW h \in Seq(Lines), WellFormed(h)
  PROVE  Blocked(h)
<1>1. Len(h) \in Nat /\ DOMAIN h = 1 .. Len(h)
  OBVIOUS
<1>2. \A i \in 1 .. Len(h) : h[i] = "begin" =>
         i + 2 <= Len(h) /\ h[i + 1] = "outdated" /\ h[i + 2] = "end"
  BY <1>1 DEF WellFormed
<1> QED
  BY <1>2 DEF Blocked

(* It has as many current blocks as there were blocks, or one, and none    *)
(* that is outdated.                                                       *)
LEMMA MadeHasBlocks ==
  ASSUME NEW h \in Seq(Lines \ {"sh", "current"}), WellFormed(h)
  PROVE  /\ Count(Made(h), "current") = IF Contains(h, "begin") THEN Count(h, "begin") ELSE 1
         /\ ~Contains(Made(h), "outdated")
<1>1. /\ h \in Seq(Lines) /\ Len(h) \in Nat /\ DOMAIN h = 1 .. Len(h)
      /\ \A i \in 1 .. Len(h) : h[i] \in Lines /\ h[i] # "current" /\ h[i] # "sh"
  OBVIOUS
<1>2. Blocked(h)
  BY <1>1, WellFormedIsBlocked
<1>3. \A i \in 1 .. Len(h) :
        /\ h[i] = "begin" => i + 2 <= Len(h) /\ h[i + 1] = "outdated" /\ h[i + 2] = "end"
        /\ h[i] = "outdated" => i > 1 /\ h[i - 1] = "begin"
  BY <1>1 DEF WellFormed
<1>4. CASE Contains(h, "begin")
  <2> DEFINE R == Renewed(h)
             Begins == {i \in DOMAIN h : h[i] = "begin"}
             Currents == {i \in DOMAIN R : R[i] = "current"}
             next == [i \in Begins |-> i + 1]
  <2>1. /\ R \in Seq(Lines) /\ Len(R) = Len(h) /\ DOMAIN R = 1 .. Len(h)
        /\ \A i \in 1 .. Len(h) : i > 1 /\ h[i - 1] = "begin" => R[i] = "current"
        /\ \A i \in 1 .. Len(h) : ~(i > 1 /\ h[i - 1] = "begin") => R[i] = h[i]
    <3>1. /\ R \in Seq(Lines) /\ Len(R) = Len(h)
          /\ \A i \in 1 .. Len(h) : i > 1 /\ h[i - 1] = "begin" => R[i] = "current"
          /\ \A i \in 1 .. Len(h) : ~(i > 1 /\ h[i - 1] = "begin") => R[i] = h[i]
      BY <1>2, RenewedLines
    <3> HIDE DEF R
    <3> QED
      BY <3>1
  <2>2. Made(h) = R
    BY <1>4 DEF Made
  <2> HIDE DEF R
  <2>3. ~Contains(R, "outdated")
    <3>1. ASSUME NEW i \in 1 .. Len(R), R[i] = "outdated" PROVE FALSE
      BY <1>1, <1>3, <2>1, <3>1
    <3> QED
      BY <3>1 DEF Contains
  <2>4. next \in [Begins -> Currents]
    <3>1. ASSUME NEW i \in Begins PROVE i + 1 \in Currents
      <4>1. i \in 1 .. Len(h) /\ i + 2 <= Len(h) /\ h[i] = "begin"
        BY <1>1, <1>3
      <4>2. i + 1 \in 1 .. Len(h) /\ i + 1 > 1 /\ (i + 1) - 1 = i
        BY <1>1, <4>1
      <4> QED
        BY <2>1, <4>1, <4>2
    <3> HIDE DEF Begins, Currents
    <3> QED
      BY <3>1
  <2>5. \A i, j \in Begins : next[i] = next[j] => i = j
    BY <1>1
  <2>6. ASSUME NEW k \in Currents PROVE \E i \in Begins : next[i] = k
    <3>1. k \in 1 .. Len(h) /\ R[k] = "current"
      BY <2>1
    <3>2. k > 1 /\ h[k - 1] = "begin"
      BY <1>1, <2>1, <3>1
    <3>3. k - 1 \in Begins /\ (k - 1) + 1 = k
      BY <1>1, <3>1, <3>2
    <3>4. next[k - 1] = k
      BY <3>3
    <3> HIDE DEF next
    <3> QED
      BY <3>3, <3>4
  <2> HIDE DEF next
  <2>7. IsFiniteSet(Begins)
    <3>1. IsFiniteSet(1 .. Len(h))
      BY <1>1, FS_Interval
    <3>2. Begins \in SUBSET (1 .. Len(h))
      BY <1>1
    <3> QED
      BY <3>1, <3>2, FS_Subset
  <2> HIDE DEF Begins, Currents
  <2>8. next \in Bijection(Begins, Currents)
    BY <2>4, <2>5, <2>6, Fun_IsBij
  <2>9. Cardinality(Currents) = Cardinality(Begins)
    <3>1. ExistsBijection(Begins, Currents)
      BY <2>8 DEF ExistsBijection
    <3> QED
      BY <2>7, <3>1, FS_Bijection
  <2>10. Count(R, "current") = Count(h, "begin")
    BY <2>9 DEF Count, Begins, Currents
  <2> QED
    BY <1>4, <2>2, <2>3, <2>10
<1>5. CASE ~Contains(h, "begin")
  <2> DEFINE w == Whole(h)
  <2>1. PICK n \in Nat :
          /\ n = (IF h = <<>> THEN 1 ELSE Len(h))
          /\ w \in Seq(Lines) /\ Len(w) = n + 3
          /\ w[n + 1] = "begin" /\ w[n + 2] = "current" /\ w[n + 3] = "end"
          /\ \A i \in 1 .. n : w[i] = IF h = <<>> THEN "sh" ELSE h[i]
    BY <1>1, <1>5, WholeLines
  <2>2. Made(h) = w
    BY <1>5 DEF Made
  <2> HIDE DEF w
  <2>3. \A i \in 1 .. Len(h) : h[i] \notin {"begin", "outdated", "current"}
    BY <1>1, <1>3, <1>5 DEF Contains
  <2>4. ASSUME NEW i \in 1 .. n PROVE w[i] \notin {"outdated", "current"}
    <3>1. h = <<>> \/ (i \in 1 .. Len(h) /\ w[i] = h[i])
      BY <2>1
    <3>2. h = <<>> => w[i] = "sh"
      BY <2>1
    <3> QED
      BY <2>3, <3>1, <3>2
  <2>5. ASSUME NEW i \in 1 .. n + 3
        PROVE  w[i] # "outdated" /\ (w[i] = "current" <=> i = n + 2)
    <3>1. i \in 1 .. n \/ i = n + 1 \/ i = n + 2 \/ i = n + 3
      OBVIOUS
    <3> QED
      BY <2>1, <2>4, <3>1
  <2>6. DOMAIN w = 1 .. n + 3 /\ n + 2 \in 1 .. n + 3
    <3>1. \A s \in Seq(Lines) : DOMAIN s = 1 .. Len(s)
      OBVIOUS
    <3>2. w \in Seq(Lines) /\ Len(w) = n + 3
      BY <2>1
    <3> QED
      BY <3>1, <3>2
  <2>7. {i \in DOMAIN w : w[i] = "current"} = {n + 2}
    BY <2>5, <2>6
  <2>8. Count(w, "current") = 1
    BY <2>7, FS_Singleton DEF Count
  <2>9. ~Contains(w, "outdated")
    BY <2>1, <2>5 DEF Contains
  <2> QED
    BY <1>5, <2>2, <2>8, <2>9
<1> QED
  BY <1>4, <1>5

-----------------------------------------------------------------------------
(* The inductive invariant of the hook: as long as no write of it has      *)
(* failed, a hook whose markers are those of whole blocks is as the        *)
(* developer wrote it, or what install-hook makes of that, which it is     *)
(* from the write of an installation on; and what is installed runs.       *)
Hooked ==
  /\ installPc \in {"idle", "chmod"}
  /\ hand \in Seq(Lines \ {"sh", "current"})
  /\ Blocked(hand) /\ ~cut =>
       /\ hook \in {hand, Made(hand)}
       /\ installed \/ installPc = "chmod" => hook = Made(hand)
       /\ installed => executable

LEMMA HandIsLines == Hooked => hand \in Seq(Lines)
<1>1. Lines \ {"sh", "current"} \subseteq Lines
  OBVIOUS
<1> QED
  BY <1>1, Widened DEF Hooked

(* Every reachable state satisfies it: rendering is idempotent, so that an *)
(* installation on one's own hook changes nothing (check.py:112-137).      *)
THEOREM HookedInvariant == Spec => []Hooked
<1>1. Init => Hooked
  BY DEF Init, HookInit, Hooked
<1>2. ASSUME Hooked, [Next]_vars PROVE Hooked'
  <2>1. /\ installPc \in {"idle", "chmod"} /\ hand \in Seq(Lines \ {"sh", "current"})
        /\ Blocked(hand) /\ ~cut =>
             /\ hook \in {hand, Made(hand)}
             /\ installed \/ installPc = "chmod" => hook = Made(hand)
             /\ installed => executable
    BY <1>2 DEF Hooked
  <2>2. ASSUME hand' = hand
        PROVE  (Blocked(hand))' = Blocked(hand) /\ (Made(hand))' = Made(hand)
    BY <2>2 DEF Blocked, Made, Renewed, Whole, Block, Lines
  <2>3. CASE WriteHook
    <3>1. ASSUME Blocked(hand), ~cut
          PROVE  hook' = Made(hand) /\ ~installed
      <4>1. Rendered(hand) = Made(hand) /\ Rendered(Made(hand)) = Made(hand)
        BY <3>1, RenderedMade
      <4> QED
        BY <2>1, <2>3, <3>1, <4>1 DEF WriteHook
    <3>2. UNCHANGED <<hand, installed, cut, executable>> /\ installPc' = "chmod"
      BY <2>3 DEF WriteHook
    <3> QED
      BY <2>1, <2>2, <3>1, <3>2 DEF Hooked
  <2>4. CASE WriteHookFails
    BY <2>1, <2>4 DEF WriteHookFails, Hooked
  <2>5. CASE Chmod
    BY <2>1, <2>2, <2>5 DEF Chmod, Hooked
  <2>6. CASE InstallCrashes
    BY <2>1, <2>2, <2>6 DEF InstallCrashes, Hooked
  <2>7. CASE EditHook
    <3>1. PICK h \in HandHooks \cup {<<>>} : hook' = h /\ hand' = h
      BY <2>7 DEF EditHook
    <3>2. h \in Seq(Lines \ {"sh", "current"})
      BY <3>1, InstallHookAssumption, EmptySeq
    <3> QED
      BY <2>1, <2>7, <3>1, <3>2 DEF EditHook, Hooked
  <2>8. CASE UNCHANGED hookVars
    BY <2>1, <2>2, <2>8 DEF hookVars, Hooked
  <2> QED
    BY <1>2, <2>3, <2>4, <2>5, <2>6, <2>7, <2>8
    DEF Next, vars, InitCommand, HookCommand, RecordingCheck, GitCommit, HookNext, HookUnchanged
<1> QED
  BY <1>1, <1>2, PTL DEF Spec

(* However often, and between what crashes, the hook is installed, the     *)
(* developer's lines stay, and every block is made current                 *)
(* (check.py:120-135; integrations.md:212).                                *)
THEOREM ChangesOnlyBlocks == Spec => []OnlyBlockChanges
<1>1. ASSUME Hooked PROVE OnlyBlockChanges
  <2> SUFFICES ASSUME WellFormed(hand), ~cut
               PROVE  /\ OwnLines(hook) = OwnLines(hand)
                      /\ installed =>
                           /\ Count(hook, "current") =
                                IF Contains(hand, "begin") THEN Count(hand, "begin") ELSE 1
                           /\ ~Contains(hook, "outdated")
    BY DEF OnlyBlockChanges
  <2>1. hand \in Seq(Lines \ {"sh", "current"}) /\ hand \in Seq(Lines)
    BY <1>1, HandIsLines DEF Hooked
  <2>2. Blocked(hand)
    BY <2>1, WellFormedIsBlocked
  <2>3. hook \in {hand, Made(hand)} /\ (installed => hook = Made(hand))
    BY <1>1, <2>2 DEF Hooked
  <2>4. OwnLines(Made(hand)) = OwnLines(hand)
    BY <2>2, MadeKeepsCommands
  <2> QED
    BY <2>1, <2>3, <2>4, MadeHasBlocks
<1> QED
  BY <1>1, HookedInvariant, PTL

(* No commit that an installed hook guards goes by a check that fails      *)
(* (check.py:98-117, 971-978).                                             *)
THEOREM GuardsCommits == Spec => []GuardedCommitsPass
<1>1. Init => GuardedCommitsPass
  BY DEF Init, GuardedCommitsPass
<1>2. ASSUME GuardedCommitsPass, Hooked, [Next]_vars PROVE GuardedCommitsPass'
  <2>1. CASE GitCommit
    <3>1. PICK command \in {0, 1}, check \in CheckExits :
            /\ executable /\ hook # <<>> => HookStatus(hook, command, check) = 0
            /\ lastCommit' = [guarded |-> Guarding, passed |-> check = 0]
      BY <2>1 DEF GitCommit
    <3>2. ASSUME Guarding PROVE check = 0
      <4>1. hand \in Seq(Lines) /\ Plain(hand) /\ ~Contains(hand, "begin") /\ ~cut /\ installed
        BY <1>2, <3>2, HandIsLines DEF Guarding, Plain, Contains
      <4>2. Blocked(hand)
        BY <4>1 DEF Blocked, Plain
      <4>3. hook = Made(hand) /\ executable
        BY <1>2, <4>1, <4>2 DEF Hooked
      <4>4. IsWhole(hook) /\ hook # <<>>
        BY <4>1, <4>2, <4>3, WholeIsWhole, RenderedMade DEF Made
      <4>5. HookStatus(hook, command, check) = check
        BY <4>4, StatusOfWhole
      <4> QED
        BY <3>1, <4>3, <4>4, <4>5
    <3> QED
      BY <3>1, <3>2 DEF GuardedCommitsPass
  <2>2. CASE UNCHANGED lastCommit
    BY <1>2, <2>2 DEF GuardedCommitsPass
  <2> QED
    BY <1>2, <2>1, <2>2 DEF Next, vars, InitCommand, HookCommand, RecordingCheck
<1> QED
  BY <1>1, <1>2, HookedInvariant, PTL DEF Spec

-----------------------------------------------------------------------------
(* Updated gives a hook of lines for every hook, however its markers are   *)
(* put: each place of the recursion looks at places below it only.         *)
LEMMA UpdatedInLines ==
  ASSUME NEW h \in Seq(Lines)
  PROVE  Updated(h) \in Seq(Lines)
<1> DEFINE n == Len(h)
           from[i \in 1 .. Len(h) + 1] ==
             IF i > Len(h) THEN <<>>
             ELSE IF h[i] = "begin" /\ EndOfBlock(h, i) > 0
             THEN Block \o from[EndOfBlock(h, i) + 1]
             ELSE <<h[i]>> \o from[i + 1]
           Of(f, i) ==
             IF i > Len(h) THEN <<>>
             ELSE IF h[i] = "begin" /\ EndOfBlock(h, i) > 0
             THEN Block \o f[EndOfBlock(h, i) + 1]
             ELSE <<h[i]>> \o f[i + 1]
           Rest(k) == (n + 1) - k .. n + 1
           Solved == {k \in 0 .. n : \E g \in [Rest(k) -> Seq(Lines)] :
                                       \A i \in Rest(k) : g[i] = Of(g, i)}
<1>1. n \in Nat /\ \A i \in 1 .. n : <<h[i]>> \in Seq(Lines)
  OBVIOUS
<1>2. ASSUME NEW i \in 1 .. n, EndOfBlock(h, i) > 0
      PROVE  EndOfBlock(h, i) + 1 \in i + 1 .. n + 1
  <2> DEFINE Closing == {j \in i .. n : h[j] = "end"}
  <2>1. EndOfBlock(h, i) = IF Closing # {} THEN Min(Closing) ELSE 0
    BY DEF EndOfBlock, SelectInSubSeq
  <2>2. Closing \subseteq Nat /\ Closing \subseteq i .. n
    BY <1>1
  <2> HIDE DEF Closing
  <2>3. Closing # {}
    BY <1>2, <2>1
  <2>4. \E m \in Closing : \A j \in Closing : m <= j
    BY <2>2, <2>3, LeastNatural
  <2>5. Min(Closing) \in Closing
    BY <2>4 DEF Min
  <2>6. EndOfBlock(h, i) \in i .. n
    BY <2>1, <2>2, <2>3, <2>5
  <2> HIDE DEF n
  <2> QED
    BY <1>1, <2>6
<1>3. Block \in Seq(Lines) /\ <<>> \in Seq(Lines)
  BY DEF Block, Lines
<1>4. ASSUME NEW f, NEW i \in 1 .. n, \A j \in i + 1 .. n + 1 : f[j] \in Seq(Lines)
      PROVE  Of(f, i) \in Seq(Lines)
  <2>1. i + 1 \in i + 1 .. n + 1 /\ ~ (i > n)
    BY <1>1
  <2>2. CASE h[i] = "begin" /\ EndOfBlock(h, i) > 0
    BY <1>2, <1>3, <1>4, <2>1, <2>2, ConcatProperties
  <2>3. CASE ~ (h[i] = "begin" /\ EndOfBlock(h, i) > 0)
    BY <1>1, <1>4, <2>1, <2>3, ConcatProperties
  <2> QED
    BY <2>2, <2>3
<1>5. ASSUME NEW f, NEW g, NEW i \in 1 .. n, \A j \in i + 1 .. n + 1 : f[j] = g[j]
      PROVE  Of(f, i) = Of(g, i)
  <2>1. f[i + 1] = g[i + 1]
    BY <1>1, <1>5
  <2>2. EndOfBlock(h, i) > 0 => f[EndOfBlock(h, i) + 1] = g[EndOfBlock(h, i) + 1]
    BY <1>2, <1>5
  <2> QED
    BY <2>1, <2>2
<1>6. \A f : Of(f, n + 1) = <<>>
  BY <1>1
<1> HIDE DEF Of
<1>7. 0 \in Solved
  <2> DEFINE g == [i \in Rest(0) |-> <<>>]
  <2>1. g \in [Rest(0) -> Seq(Lines)] /\ \A i \in Rest(0) : i = n + 1 /\ g[i] = <<>>
    BY <1>1, <1>3
  <2> HIDE DEF g
  <2>2. \A i \in Rest(0) : g[i] = Of(g, i)
    BY <1>6, <2>1
  <2> QED
    BY <1>1, <2>1, <2>2
<1>8. ASSUME NEW k \in 1 .. n, k - 1 \in Solved PROVE k \in Solved
  <2>1. PICK f \in [Rest(k - 1) -> Seq(Lines)] : \A i \in Rest(k - 1) : f[i] = Of(f, i)
    BY <1>8
  <2> DEFINE first == (n + 1) - k
             g == [i \in Rest(k) |-> IF i = first THEN Of(f, first) ELSE f[i]]
  <2>2. /\ first \in 1 .. n /\ first \in Rest(k) /\ Rest(k - 1) = first + 1 .. n + 1
        /\ \A i \in Rest(k) : i = first \/ i \in Rest(k - 1)
        /\ \A i \in Rest(k - 1) : i \in Rest(k) /\ i # first
        /\ \A i \in Rest(k - 1) : i = n + 1 \/ (i \in 1 .. n /\ i + 1 .. n + 1 \subseteq Rest(k - 1))
    <3> HIDE DEF n
    <3>1. first \in 1 .. n /\ (n + 1) - (k - 1) = first + 1 /\ first + 1 \in Int
      BY <1>1, <1>8
    <3>2. Rest(k - 1) = first + 1 .. n + 1
      BY <3>1
    <3> QED
      BY <1>1, <3>1, <3>2
  <2> HIDE DEF first, Rest
  <2>3. Of(f, first) \in Seq(Lines)
    BY <1>4, <2>1, <2>2
  <2>4. g \in [Rest(k) -> Seq(Lines)]
    BY <2>1, <2>2, <2>3
  <2>5. g[first] = Of(f, first) /\ \A i \in Rest(k - 1) : g[i] = f[i]
    BY <2>2
  <2> HIDE DEF g
  <2>6. Of(g, first) = Of(f, first)
    <3>1. \A j \in first + 1 .. n + 1 : g[j] = f[j]
      BY <2>2, <2>5
    <3> QED
      BY <1>5, <2>2, <3>1
  <2>7. ASSUME NEW i \in Rest(k - 1) PROVE g[i] = Of(g, i)
    <3>1. Of(g, i) = Of(f, i)
      <4>1. CASE i = n + 1
        BY <1>6, <4>1
      <4>2. CASE i \in 1 .. n /\ i + 1 .. n + 1 \subseteq Rest(k - 1)
        <5>1. \A j \in i + 1 .. n + 1 : g[j] = f[j]
          BY <2>5, <4>2
        <5> QED
          BY <1>5, <4>2, <5>1
      <4> QED
        BY <2>2, <2>7, <4>1, <4>2
    <3> QED
      BY <2>1, <2>5, <2>7, <3>1
  <2>8. \A i \in Rest(k) : g[i] = Of(g, i)
    BY <2>2, <2>5, <2>6, <2>7
  <2> QED
    BY <1>8, <2>4, <2>8
<1>9. PICK g \in [1 .. n + 1 -> Seq(Lines)] : \A i \in 1 .. n + 1 : g[i] = Of(g, i)
  <2>1. n \in Solved
    <3> HIDE DEF Solved, n
    <3>1. \A k \in 1 .. n : k - 1 \in Solved => k \in Solved
      BY <1>8
    <3>2. \A k \in 0 .. n : k \in Solved
      BY <1>1, <1>7, <3>1, FiniteInduction
    <3> QED
      BY <1>1, <3>2
  <2>2. Rest(n) = 1 .. n + 1
    BY <1>1
  <2> QED
    BY <2>1, <2>2
<1>10. \A i \in 1 .. n + 1 : from[i] = Of(from, i)
  <2>1. g = [i \in 1 .. n + 1 |-> Of(g, i)]
    BY <1>9
  <2>2. from = [i \in 1 .. n + 1 |-> Of(from, i)]
    BY <2>1 DEF Of
  <2> HIDE DEF from
  <2> QED
    BY <2>2
<1>11. Updated(h) = from[1]
  BY DEF Updated
<1> HIDE DEF from
<1> DEFINE Typed == {k \in 0 .. n : \A i \in Rest(k) : from[i] \in Seq(Lines)}
<1>12. 0 \in Typed
  <2>1. \A i \in Rest(0) : i = n + 1 /\ i \in 1 .. n + 1
    BY <1>1
  <2> HIDE DEF n, Rest
  <2>2. \A i \in Rest(0) : from[i] \in Seq(Lines)
    BY <1>3, <1>6, <1>10, <2>1
  <2>3. 0 \in 0 .. n
    BY <1>1
  <2> QED
    BY <2>2, <2>3
<1>13. ASSUME NEW k \in 1 .. n, k - 1 \in Typed PROVE k \in Typed
  <2> DEFINE first == (n + 1) - k
  <2>1. /\ first \in 1 .. n /\ first \in 1 .. n + 1
        /\ Rest(k - 1) = first + 1 .. n + 1 /\ Rest(k) = {first} \cup Rest(k - 1)
    BY <1>1, <1>13
  <2> HIDE DEF first, Rest
  <2>2. \A i \in Rest(k - 1) : from[i] \in Seq(Lines)
    BY <1>13
  <2>3. from[first] \in Seq(Lines)
    BY <1>4, <1>10, <2>1, <2>2
  <2> QED
    BY <1>13, <2>1, <2>2, <2>3
<1>14. n \in Typed
  <2> HIDE DEF Typed, n
  <2>1. \A k \in 1 .. n : k - 1 \in Typed => k \in Typed
    BY <1>13
  <2>2. \A k \in 0 .. n : k \in Typed
    BY <1>1, <1>12, <2>1, FiniteInduction
  <2> QED
    BY <1>1, <2>2
<1>15. 1 \in Rest(n)
  BY <1>1
<1> QED
  BY <1>11, <1>14, <1>15

LEMMA RenderedInLines ==
  ASSUME NEW h \in Seq(Lines)
  PROVE  Rendered(h) \in Seq(Lines)
<1>1. Block \in Seq(Lines) /\ <<"sh">> \in Seq(Lines)
  BY DEF Block, Lines
<1>2. <<"sh">> \o Block \in Seq(Lines) /\ h \o Block \in Seq(Lines)
  BY <1>1, ConcatProperties
<1> QED
  BY <1>2, UpdatedInLines DEF Rendered

-----------------------------------------------------------------------------
(* The variables of the three commands and of commits are of their types,  *)
(* for any hooks and bounds: what install-hook makes of any hook is a hook *)
(* of lines (check.py:120-135).                                            *)
THEOREM TypeCorrect == Spec => []TypeOK
<1>1. Init => TypeOK
  <2>1. Init => FileTypeOK
    BY InitFileAssumption DEF Init, FileInit, FileTypeOK, NoInitOptions, InitOptions
  <2>2. Init => HookTypeOK
    <3> SUFFICES ASSUME HookInit PROVE HookTypeOK
      BY DEF Init
    <3>1. {executable, installed, cut} \subseteq BOOLEAN
      BY Zenon DEF HookInit
    <3>2. hook \in Seq(Lines)
      BY EmptySeq DEF HookInit
    <3>3. hand \in HandHooks \cup {<<>>} /\ installPc \in {"idle", "chmod"}
      BY DEF HookInit
    <3>4. hookFaults \in 0 .. MaxHookFaults
      BY InstallHookAssumption DEF HookInit
    <3> QED
      BY <3>1, <3>2, <3>3, <3>4, Zenon DEF HookTypeOK
  <2>3. Init => TrendTypeOK
    BY TrendLogAssumption DEF Init, TrendInit, TrendTypeOK
  <2> QED
    BY <2>1, <2>2, <2>3 DEF Init, TypeOK
<1>2. ASSUME TypeOK, History', [Next]_vars PROVE TypeOK'
  <2>1. FileTypeOK'
    <3> USE <1>2, InitFileAssumption DEF TypeOK, FileTypeOK
    <3>1. CASE StartInit
      BY <3>1 DEF StartInit
    <3>2. NoInitOptions \in InitOptions
      BY DEF NoInitOptions, InitOptions
    <3>3. CASE Build \/ FindExisting \/ Decline
      BY <3>2, <3>3 DEF Build, FindExisting, Decline, AfterFind, Ends, GoesTo
    <3>4. CASE Confirm \/ Unlink
      BY <3>2, <3>4 DEF Confirm, Unlink, AfterFind, Ends, GoesTo
    <3>5. CASE Generate \/ RefuseExisting
      BY <3>2, <3>5 DEF Generate, RefuseExisting, Ends, GoesTo
    <3>10. CASE OpenArchitecture \/ FillArchitecture
      BY <3>2, <3>10 DEF OpenArchitecture, FillArchitecture, Generated, Ends, GoesTo
    <3>6. CASE InitFails \/ InitCrashes
      BY <3>2, <3>6 DEF InitFails, InitCrashes, Ends, FileFault
    <3>7. CASE SaveArchitecture
      BY <3>7 DEF SaveArchitecture
    <3>8. CASE RemoveArchitecture
      BY <3>8 DEF RemoveArchitecture
    <3>9. CASE UNCHANGED fileVars
      BY <3>9 DEF fileVars
    <3> QED
      BY <3>1, <3>3, <3>4, <3>5, <3>6, <3>7, <3>8, <3>9, <3>10, OnlyFileSteps DEF FileNext
  <2>2. HookTypeOK'
    <3> USE <1>2, InstallHookAssumption DEF TypeOK, HookTypeOK
    <3>1. CASE WriteHook
      <4>1. hook' \in Seq(Lines)
        BY <3>1, RenderedInLines DEF WriteHook
      <4> QED
        BY <3>1, <4>1 DEF WriteHook
    <3>2. CASE WriteHookFails
      <4>1. hook' \in Seq(Lines)
        BY <3>2, EmptySeq DEF WriteHookFails
      <4>2. {executable', installed', cut'} \subseteq BOOLEAN
        <5>1. executable' = executable /\ installed' = installed /\ cut' = TRUE
          BY <3>2, Zenon DEF WriteHookFails
        <5> QED
          BY <5>1, Zenon
      <4>3. hookFaults' \in 0 .. MaxHookFaults
        BY <3>2 DEF WriteHookFails, HookFault
      <4> QED
        BY <3>2, <4>1, <4>2, <4>3 DEF WriteHookFails
    <3>3. CASE Chmod
      <4>1. {executable', installed', cut'} \subseteq BOOLEAN
        <5>1. executable' = TRUE /\ installed' = TRUE /\ cut' = cut
          BY <3>3, Zenon DEF Chmod
        <5> QED
          BY <5>1, Zenon
      <4> QED
        BY <3>3, <4>1 DEF Chmod
    <3>4. CASE InstallCrashes
      BY <3>4 DEF InstallCrashes, HookFault
    <3>5. CASE EditHook
      <4>1. PICK h \in HandHooks \cup {<<>>} : hook' = h /\ hand' = h
        BY <3>5 DEF EditHook
      <4>2. h \in Seq(Lines \ {"sh", "current"}) /\ Lines \ {"sh", "current"} \subseteq Lines
        BY <4>1, EmptySeq
      <4>3. h \in Seq(Lines)
        BY <4>2, Widened
      <4>4. {executable', installed', cut'} \subseteq BOOLEAN
        <5>1. executable' \in BOOLEAN
          BY <3>5, Zenon DEF EditHook
        <5>2. installed' = FALSE /\ cut' = FALSE
          BY <3>5, Zenon DEF EditHook
        <5> QED
          BY <5>1, <5>2, Zenon
      <4>5. installPc' \in {"idle", "chmod"} /\ hookFaults' \in 0 .. MaxHookFaults
        BY <3>5 DEF EditHook
      <4>6. hook' \in Seq(Lines) /\ hand' \in HandHooks \cup {<<>>}
        BY <4>1, <4>3
      <4> QED
        BY <4>4, <4>5, <4>6, Zenon
    <3>6. CASE UNCHANGED hookVars
      BY <3>6 DEF hookVars
    <3> QED
      BY <3>1, <3>2, <3>3, <3>4, <3>5, <3>6
      DEF Next, vars, InitCommand, HookCommand, RecordingCheck, GitCommit, HookNext, HookUnchanged
  <2>3. TrendTypeOK'
    BY <1>2 DEF History
  <2>4. lastCommit' \in [guarded : BOOLEAN, passed : BOOLEAN]
    <3>1. CASE GitCommit
      <4>1. Guarding \in BOOLEAN
        BY <1>2 DEF Guarding, TypeOK, HookTypeOK
      <4> QED
        BY <3>1, <4>1 DEF GitCommit
    <3>2. CASE UNCHANGED lastCommit
      BY <1>2, <3>2 DEF TypeOK
    <3> QED
      BY <1>2, <3>1, <3>2 DEF Next, vars, InitCommand, HookCommand, RecordingCheck
  <2> QED
    BY <2>1, <2>2, <2>3, <2>4 DEF TypeOK
<1> QED
  BY <1>1, <1>2, HistoryInvariant, PTL DEF Spec
=============================================================================
