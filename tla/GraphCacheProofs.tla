-------------------------- MODULE GraphCacheProofs --------------------------
(***************************************************************************)
(* Proofs about GraphCache, for any files, processes, configurations and   *)
(* bounds: its type invariant, and that a finished load is fresh.          *)
(***************************************************************************)
EXTENDS GraphCache, TLAPS

(* Every variable keeps its type, and a build lists only files of the      *)
(* configuration it runs under (imports.py:178-184).                       *)
THEOREM TypeCorrect == Spec => []TypeOK
<1> USE ConfigAssumption, BoundAssumption DEF TypeOK, Entry, Versions, Loading
<1>1. Init => TypeOK
  <2> SUFFICES ASSUME Init PROVE TypeOK
    OBVIOUS
  <2>1. 1 \in Versions /\ 0 \in Versions /\ Nothing \in [Files -> Versions]
    BY DEF Nothing
  <2>2. PICK c \in Configs :
          /\ entry = [graph |-> Nothing, sigs |-> Nothing, by |-> c]
          /\ config = [p \in Procs |-> c]
          /\ origin = [p \in Procs |-> c]
    BY DEF Init
  <2>3. entry \in Entry /\ config \in [Procs -> Configs] /\ origin \in [Procs -> Configs]
    BY <2>1, <2>2
  <2>4. disk \in [Files -> Versions] /\ \A f \in Files : disk[f] <= clock
    BY <2>1 DEF Init
  <2>5. clock \in Versions /\ faults \in 0 .. MaxFaults
    BY <2>1 DEF Init
  <2>9. cacheFile \in {"missing", "torn", "whole"} /\ gitignored \in BOOLEAN
    BY DEF Init
  <2>6. /\ pc \in [Procs -> Loading \cup {"idle", "done"}]
        /\ seen \in [Procs -> SUBSET Files] /\ listed \in [Procs -> SUBSET Files]
        /\ during \in [Procs -> [Files -> SUBSET Versions]]
    BY DEF Init
  <2>7. sigs \in [Procs -> [Files -> Versions]] /\ graph \in [Procs -> [Files -> Versions]]
    BY <2>1 DEF Init
  <2>8. \A p \in Procs : listed[p] = {}
    BY DEF Init
  <2> QED
    BY <2>3, <2>4, <2>5, <2>6, <2>7, <2>8, <2>9
<1>2. TypeOK /\ [Next]_vars => TypeOK'
  <2> SUFFICES ASSUME TypeOK, [Next]_vars PROVE TypeOK'
    OBVIOUS
  <2> USE DEF Goto, Ended, Nothing
  <2>1. ASSUME NEW p \in Procs, Start(p) PROVE TypeOK'
    <3>1. PICK c \in Configs :
            /\ config' = [config EXCEPT ![p] = c]
            /\ origin' = [origin EXCEPT ![p] = c]
            /\ pc' = [pc EXCEPT ![p] = IF c.cache THEN "sign" ELSE "list"]
      BY <2>1 DEF Start
    <3>2. pc[p] = "idle" /\ listed' = listed /\ UNCHANGED <<diskVars, cacheVars, seen, sigs, graph>>
      BY <2>1 DEF Start
    <3>3. during' \in [Procs -> [Files -> SUBSET Versions]]
      BY <2>1 DEF Start
    <3>4. \A q \in Procs : /\ listed'[q] \subseteq InGraph[config'[q]]
                           /\ pc'[q] \in {"idle", "sign"} => listed'[q] = {}
      BY <3>1, <3>2
    <3> QED
      BY <3>1, <3>2, <3>3, <3>4 DEF diskVars, cacheVars
  <2>2. ASSUME NEW p \in Procs, NEW f \in Files, SignFile(p, f) PROVE TypeOK'
    BY <2>2 DEF SignFile, diskVars, cacheVars
  <2>3. ASSUME NEW p \in Procs, CacheHit(p) PROVE TypeOK'
    BY <2>3 DEF CacheHit, diskVars, cacheVars
  <2>4. ASSUME NEW p \in Procs, CacheMiss(p) PROVE TypeOK'
    BY <2>4 DEF CacheMiss, diskVars, cacheVars
  <2>5. ASSUME NEW p \in Procs, NEW f \in Files, ListFile(p, f) PROVE TypeOK'
    BY <2>5 DEF ListFile, diskVars, cacheVars
  <2>6. ASSUME NEW p \in Procs, NEW f \in Files, ReadFile(p, f) PROVE TypeOK'
    BY <2>6 DEF ReadFile, diskVars, cacheVars
  <2>7. ASSUME NEW p \in Procs, NEW f \in Files, ReadVanished(p, f) PROVE TypeOK'
    BY <2>7 DEF ReadVanished, diskVars, cacheVars
  <2>8. ASSUME NEW p \in Procs, EndBuild(p) PROVE TypeOK'
    BY <2>8 DEF EndBuild, diskVars, cacheVars
  <2>9. ASSUME NEW p \in Procs, OpenCache(p) PROVE TypeOK'
    BY <2>9 DEF OpenCache, NoEntry, diskVars
  <2>10. ASSUME NEW p \in Procs, WriteCache(p) PROVE TypeOK'
    BY <2>10 DEF WriteCache, diskVars
  <2>11. ASSUME NEW p \in Procs, SaveFails(p) PROVE TypeOK'
    BY <2>11 DEF SaveFails, cacheVars
  <2>12. ASSUME NEW p \in Procs, EnsureGitignore(p) PROVE TypeOK'
    BY <2>12 DEF EnsureGitignore, diskVars
  <2>13. ASSUME NEW p \in Procs, Finish(p) PROVE TypeOK'
    BY <2>13 DEF Finish, diskVars, cacheVars
  <2>14. ASSUME NEW p \in Procs, Crash(p) PROVE TypeOK'
    BY <2>14 DEF Crash, cacheVars
  <2>15. ASSUME NEW f \in Files, WriteFile(f) PROVE TypeOK'
    BY <2>15 DEF WriteFile, Observe, cacheVars
  <2>16. ASSUME NEW f \in Files, DeleteFile(f) PROVE TypeOK'
    BY <2>16 DEF DeleteFile, Observe, cacheVars
  <2>17. ASSUME RemoveCache PROVE TypeOK'
    BY <2>17 DEF RemoveCache, NoEntry, procVars
  <2>18. CASE UNCHANGED vars
    BY <2>18 DEF vars, diskVars, cacheVars, procVars
  <2> QED
    BY <2>1, <2>2, <2>3, <2>4, <2>5, <2>6, <2>7, <2>8, <2>9, <2>10, <2>11, <2>12,
       <2>13, <2>14, <2>15, <2>16, <2>17, <2>18 DEF Next, Load, Environment
<1> QED
  BY <1>1, <1>2, PTL DEF Spec

-----------------------------------------------------------------------------
(* Sound in the next state, of a signature and a version of this one.      *)
SoundNext(f, c, s, v) ==
  f \in Signed[c.excl] \cap InGraph[c] /\ Tracked(f, s) =>
    /\ s = disk'[f] => v = disk'[f]
    /\ \A p \in Procs :
         pc'[p] = "sign" /\ f \in seen'[p] /\ config'[p].excl = c.excl /\ sigs'[p][f] = s
           => v \in during'[p][f]

(* A step that leaves the disk alone, signs nothing and starts a process,  *)
(* if any, with nothing signed.                                            *)
NoSigning ==
  /\ disk' = disk
  /\ \A q \in Procs : pc'[q] = "sign" =>
       \/ seen'[q] = {}
       \/ /\ pc[q] = "sign" /\ seen'[q] = seen[q] /\ config'[q] = config[q]
          /\ sigs'[q] = sigs[q] /\ during'[q] = during[q]

(* Every step keeps a sound pair of a signature and a version sound        *)
(* (the argument for computing signatures first, query.py:87-96).          *)
LEMMA SoundKept ==
  ASSUME TypeOK, LoadsObserve, LocalsInOrder, [Next]_vars,
         NEW f \in Files, NEW c \in Configs, NEW s \in Nat, s <= clock, NEW v,
         Sound(f, c, s, v)
  PROVE  SoundNext(f, c, s, v)
<1>1. ASSUME NoSigning PROVE SoundNext(f, c, s, v)
  BY <1>1 DEF NoSigning, Sound, SoundNext
<1>2. ASSUME NEW p \in Procs, NEW g \in Files, SignFile(p, g) PROVE SoundNext(f, c, s, v)
  <2> SUFFICES ASSUME f \in Signed[c.excl] \cap InGraph[c], Tracked(f, s),
                      NEW q \in Procs, pc'[q] = "sign", f \in seen'[q],
                      config'[q].excl = c.excl, sigs'[q][f] = s
               PROVE  v \in during'[q][f]
    BY <1>2 DEF SignFile, diskVars, Sound, SoundNext
  <2>1. during' = during /\ pc' = pc /\ config' = config
    BY <1>2 DEF SignFile
  <2>2. CASE q = p /\ f = g
    <3>1. sigs'[q][f] = disk[f]
      BY <1>2, <2>1, <2>2 DEF SignFile, TypeOK
    <3>2. v = disk[f]
      BY <3>1 DEF Sound
    <3> QED
      BY <2>1, <3>2 DEF LoadsObserve, Loading
  <2>3. CASE ~(q = p /\ f = g)
    <3>1. sigs'[q][f] = sigs[q][f] /\ f \in seen[q]
      BY <1>2, <2>3 DEF SignFile, TypeOK
    <3> QED
      BY <2>1, <3>1 DEF Sound
  <2> QED
    BY <2>2, <2>3
<1>3. ASSUME NEW g \in Files, WriteFile(g) PROVE SoundNext(f, c, s, v)
  <2>1. UNCHANGED <<pc, seen, config, sigs>> /\ (disk'[f] = disk[f] \/ disk'[f] = clock + 1)
    BY <1>3 DEF WriteFile, TypeOK
  <2>2. \A q \in Procs : during[q][f] \subseteq during'[q][f]
    BY <1>3 DEF WriteFile, Observe, TypeOK
  <2> QED
    BY <2>1, <2>2 DEF Sound, SoundNext, TypeOK, Versions
<1>4. ASSUME NEW g \in Files, DeleteFile(g) PROVE SoundNext(f, c, s, v)
  <2>1. /\ UNCHANGED <<pc, seen, config, sigs>>
        /\ disk'[f] = disk[f] \/ (disk'[f] = 0 /\ f \in Deletable)
    BY <1>4 DEF DeleteFile, TypeOK
  <2>2. \A q \in Procs : during[q][f] \subseteq during'[q][f]
    BY <1>4 DEF DeleteFile, Observe, TypeOK
  <2> QED
    BY <2>1, <2>2 DEF Sound, SoundNext, Tracked
<1>5. ASSUME NEW p \in Procs, Start(p) PROVE NoSigning
  BY <1>5 DEF Start, Goto, NoSigning, LocalsInOrder, TypeOK, diskVars
<1>6. ASSUME NEW p \in Procs, CacheHit(p) \/ CacheMiss(p) \/ EndBuild(p) PROVE NoSigning
  BY <1>6 DEF CacheHit, CacheMiss, EndBuild, Goto, NoSigning, TypeOK, diskVars
<1>7. ASSUME NEW p \in Procs, NEW g \in Files,
             ListFile(p, g) \/ ReadFile(p, g) \/ ReadVanished(p, g)
      PROVE  NoSigning
  BY <1>7 DEF ListFile, ReadFile, ReadVanished, Ended, Goto, NoSigning, TypeOK, diskVars
<1>8. ASSUME NEW p \in Procs,
             OpenCache(p) \/ WriteCache(p) \/ SaveFails(p) \/ EnsureGitignore(p)
      PROVE  NoSigning
  BY <1>8 DEF OpenCache, WriteCache, SaveFails, EnsureGitignore, Goto, NoSigning, TypeOK,
              diskVars
<1>9. ASSUME NEW p \in Procs, Finish(p) \/ Crash(p) PROVE NoSigning
  BY <1>9 DEF Finish, Crash, Ended, Goto, NoSigning, TypeOK, diskVars
<1>10. ASSUME RemoveCache \/ UNCHANGED vars PROVE NoSigning
  BY <1>10 DEF RemoveCache, NoSigning, vars, diskVars, procVars
<1> QED
  BY <1>1, <1>2, <1>3, <1>4, <1>5, <1>6, <1>7, <1>8, <1>9, <1>10 DEF Next, Load, Environment

(* The pair a build settles on in this step is sound: it parsed f, or      *)
(* passed f by, as f is now (imports.py:178-184, 228).                     *)
LEMMA SettledSound ==
  ASSUME TypeOK, CacheInv, [Next]_vars, NEW p \in Procs, NEW f \in Files, Settled(p, f)'
  PROVE  SoundNext(f, config'[p], sigs'[p][f], graph'[p][f])
<1> USE DEF CacheInv
<1>1. ASSUME Settled(p, f), UNCHANGED <<config[p], sigs[p][f], graph[p][f]>>
      PROVE  SoundNext(f, config'[p], sigs'[p][f], graph'[p][f])
  <2>1. Sound(f, config[p], sigs[p][f], graph[p][f])
    BY <1>1 DEF BuildsSound
  <2>2. config[p] \in Configs /\ sigs[p][f] \in Nat /\ sigs[p][f] <= clock
    BY DEF TypeOK, Versions, LocalsInOrder
  <2>3. SoundNext(f, config[p], sigs[p][f], graph[p][f])
    BY <2>1, <2>2, SoundKept
  <2> QED
    BY <1>1, <2>3
<1>2. ASSUME NEW g \in Files, ReadFile(p, g)
      PROVE  SoundNext(f, config'[p], sigs'[p][f], graph'[p][f])
  <2>1. CASE f = g
    BY <1>2, <2>1 DEF ReadFile, TypeOK, SoundNext, LoadsObserve, Loading, diskVars
  <2>2. CASE f # g
    BY <1>1, <1>2, <2>2 DEF ReadFile, Settled, TypeOK
  <2> QED
    BY <2>1, <2>2
<1>3. ASSUME NEW g \in Files, ListFile(p, g)
      PROVE  SoundNext(f, config'[p], sigs'[p][f], graph'[p][f])
  <2>1. CASE f = g /\ f \in InGraph[config[p]]
    <3>1. graph[p][f] = 0
      BY <1>3, <2>1 DEF ListFile, LocalsInOrder, TypeOK, Settled
    <3> QED
      BY <1>3, <2>1, <3>1
      DEF ListFile, TypeOK, SoundNext, LoadsObserve, Loading, diskVars, Settled
  <2>2. CASE f \notin InGraph[config[p]]
    BY <1>3, <2>2 DEF ListFile, SoundNext
  <2>3. CASE f # g
    BY <1>1, <1>3, <2>3 DEF ListFile, Settled, TypeOK
  <2> QED
    BY <2>1, <2>2, <2>3
<1>4. ASSUME EndBuild(p)
      PROVE  SoundNext(f, config'[p], sigs'[p][f], graph'[p][f])
  BY <1>1, <1>4 DEF EndBuild, Settled
<1>5. ASSUME NEW q \in Procs, Start(q)
      PROVE  SoundNext(f, config'[p], sigs'[p][f], graph'[p][f])
  <2>1. CASE q = p
    BY <1>5, <2>1 DEF Start, Goto, Settled, LocalsInOrder, TypeOK, Nothing
  <2>2. CASE q # p
    BY <1>1, <1>5, <2>2 DEF Start, Goto, Settled, TypeOK
  <2> QED
    BY <2>1, <2>2
<1>6. ASSUME NEW q \in Procs, NEW g \in Files, SignFile(q, g)
      PROVE  SoundNext(f, config'[p], sigs'[p][f], graph'[p][f])
  <2>1. CASE q = p
    BY <1>6, <2>1 DEF SignFile, Settled, TypeOK
  <2>2. CASE q # p
    BY <1>1, <1>6, <2>2 DEF SignFile, Settled, TypeOK
  <2> QED
    BY <2>1, <2>2
<1>7. ASSUME NEW q \in Procs, CacheHit(q) \/ CacheMiss(q) \/ Finish(q) \/ Crash(q)
      PROVE  SoundNext(f, config'[p], sigs'[p][f], graph'[p][f])
  <2>1. CASE q = p
    BY <1>7, <2>1 DEF CacheHit, CacheMiss, Finish, Crash, Ended, Goto, Settled, TypeOK,
                      LocalsInOrder, Nothing
  <2>2. CASE q # p
    BY <1>1, <1>7, <2>2 DEF CacheHit, CacheMiss, Finish, Crash, Ended, Goto, Settled, TypeOK
  <2> QED
    BY <2>1, <2>2
<1>8. ASSUME NEW q \in Procs, q # p, NEW g \in Files,
             ListFile(q, g) \/ ReadFile(q, g) \/ EndBuild(q)
      PROVE  SoundNext(f, config'[p], sigs'[p][f], graph'[p][f])
  BY <1>1, <1>8 DEF ListFile, ReadFile, EndBuild, Goto, Settled, TypeOK
<1>9. ASSUME NEW q \in Procs, NEW g \in Files, ReadVanished(q, g)
      PROVE  SoundNext(f, config'[p], sigs'[p][f], graph'[p][f])
  <2>1. CASE q = p
    BY <1>9, <2>1 DEF ReadVanished, Ended, Goto, Settled, TypeOK
  <2>2. CASE q # p
    BY <1>1, <1>9, <2>2 DEF ReadVanished, Ended, Goto, Settled, TypeOK
  <2> QED
    BY <2>1, <2>2
<1>10. ASSUME NEW q \in Procs,
              OpenCache(q) \/ WriteCache(q) \/ SaveFails(q) \/ EnsureGitignore(q)
       PROVE  SoundNext(f, config'[p], sigs'[p][f], graph'[p][f])
  BY <1>1, <1>10 DEF OpenCache, WriteCache, SaveFails, EnsureGitignore, Goto, Settled, TypeOK
<1>11. ASSUME (\E g \in Files : WriteFile(g) \/ DeleteFile(g)) \/ RemoveCache \/ UNCHANGED vars
       PROVE  SoundNext(f, config'[p], sigs'[p][f], graph'[p][f])
  BY <1>1, <1>11 DEF WriteFile, DeleteFile, RemoveCache, Settled, vars, procVars
<1> QED
  BY <1>2, <1>3, <1>4, <1>5, <1>6, <1>7, <1>8, <1>9, <1>10, <1>11
  DEF Next, Load, Environment

(* What a load has read so far, it read while it ran.                      *)
LEMMA LoadsObserveKept ==
  ASSUME TypeOK, CacheInv, [Next]_vars PROVE LoadsObserve'
<1> DEFINE Observed(p, f) ==
      /\ pc[p] \in Loading => disk[f] \in during[p][f]
      /\ pc[p] \in Loading \ {"sign"} /\ f \in InGraph[config[p]] /\ Settled(p, f)
           => Fresh(p, f)
<1> SUFFICES ASSUME NEW p \in Procs, NEW f \in Files PROVE Observed(p, f)'
  BY DEF LoadsObserve
<1>0. Observed(p, f)
  BY DEF CacheInv, LoadsObserve
<1> USE DEF Fresh, Settled, Loading
<1>1. ASSUME Start(p) PROVE Observed(p, f)'
  BY <1>1 DEF Start, Goto, CacheInv, LocalsInOrder, Nothing, TypeOK, diskVars
<1>2. ASSUME NEW g \in Files, SignFile(p, g) PROVE Observed(p, f)'
  BY <1>0, <1>2 DEF SignFile, TypeOK, diskVars
<1>3. ASSUME CacheHit(p) \/ CacheMiss(p) PROVE Observed(p, f)'
  BY <1>0, <1>3 DEF CacheHit, CacheMiss, Goto, CacheInv, LocalsInOrder, Nothing, TypeOK, diskVars
<1>4. ASSUME NEW g \in Files, ListFile(p, g) PROVE Observed(p, f)'
  <2>1. UNCHANGED <<pc, config, graph, during, disk>>
    BY <1>4 DEF ListFile, diskVars
  <2>2. CASE f = g /\ f \in InGraph[config[p]] /\ Settled(p, f)'
    BY <1>0, <1>4, <2>1, <2>2 DEF ListFile, CacheInv, LocalsInOrder, TypeOK
  <2>3. CASE f # g \/ f \notin InGraph[config[p]] \/ ~Settled(p, f)'
    BY <1>0, <1>4, <2>1, <2>3 DEF ListFile, TypeOK
  <2> QED
    BY <2>2, <2>3
<1>5. ASSUME NEW g \in Files, ReadFile(p, g) PROVE Observed(p, f)'
  BY <1>0, <1>5 DEF ReadFile, TypeOK, diskVars
<1>6. ASSUME EndBuild(p) PROVE Observed(p, f)'
  BY <1>0, <1>6 DEF EndBuild, Goto, TypeOK, diskVars
<1>7. ASSUME OpenCache(p) \/ WriteCache(p) \/ SaveFails(p) \/ EnsureGitignore(p)
      PROVE  Observed(p, f)'
  BY <1>0, <1>7 DEF OpenCache, WriteCache, SaveFails, EnsureGitignore, Goto, TypeOK, diskVars
<1>8. ASSUME Finish(p) \/ Crash(p) \/ (\E g \in Files : ReadVanished(p, g))
      PROVE  Observed(p, f)'
  BY <1>8 DEF Finish, Crash, ReadVanished, Ended, Goto, TypeOK
<1>9. ASSUME NEW q \in Procs, q # p, Start(q) \/ Load(q) \/ SaveFails(q) \/ Finish(q) \/ Crash(q)
      PROVE  Observed(p, f)'
  <2>1. ASSUME disk' = disk, config'[p] = config[p], pc'[p] = pc[p], seen'[p] = seen[p],
               listed'[p] = listed[p], graph'[p] = graph[p], during'[p] = during[p]
        PROVE  Observed(p, f)'
    BY <1>0, <2>1
  <2>2. CASE Start(q)
    BY <1>9, <2>1, <2>2 DEF Start, Goto, TypeOK, diskVars
  <2>3. CASE SaveFails(q) \/ Finish(q) \/ Crash(q)
    BY <1>9, <2>1, <2>3 DEF SaveFails, Finish, Crash, Ended, Goto, TypeOK, diskVars
  <2>4. CASE CacheHit(q) \/ CacheMiss(q) \/ EndBuild(q)
    BY <1>9, <2>1, <2>4 DEF CacheHit, CacheMiss, EndBuild, Goto, TypeOK, diskVars
  <2>5. ASSUME NEW g \in Files,
               SignFile(q, g) \/ ListFile(q, g) \/ ReadFile(q, g) \/ ReadVanished(q, g)
        PROVE  Observed(p, f)'
    BY <1>9, <2>1, <2>5
    DEF SignFile, ListFile, ReadFile, ReadVanished, Ended, Goto, TypeOK, diskVars
  <2>6. CASE OpenCache(q) \/ WriteCache(q) \/ EnsureGitignore(q)
    BY <1>9, <2>1, <2>6 DEF OpenCache, WriteCache, EnsureGitignore, Goto, TypeOK, diskVars
  <2> QED
    BY <1>9, <2>2, <2>3, <2>4, <2>5, <2>6 DEF Load
<1>10. ASSUME NEW g \in Files, WriteFile(g) \/ DeleteFile(g) PROVE Observed(p, f)'
  <2>1. UNCHANGED <<pc, config, seen, listed, graph>>
    BY <1>10 DEF WriteFile, DeleteFile
  <2>2. pc[p] \in Loading => during'[p][f] = during[p][f] \cup (IF f = g THEN {disk'[f]} ELSE {})
    BY <1>10 DEF WriteFile, DeleteFile, Observe, TypeOK
  <2>3. f # g => disk'[f] = disk[f]
    BY <1>10 DEF WriteFile, DeleteFile, TypeOK
  <2> QED
    BY <1>0, <2>1, <2>2, <2>3
<1>11. ASSUME RemoveCache \/ UNCHANGED vars PROVE Observed(p, f)'
  BY <1>0, <1>11 DEF RemoveCache, vars, diskVars, procVars
<1> QED
  BY <1>1, <1>2, <1>3, <1>4, <1>5, <1>6, <1>7, <1>8, <1>9, <1>10, <1>11
  DEF Next, Load, Environment

(* The locals of a process are empty until its build fills them.           *)
LEMMA LocalsInOrderKept ==
  ASSUME TypeOK, CacheInv, [Next]_vars PROVE LocalsInOrder'
<1> DEFINE InOrder(p) ==
      /\ pc[p] \in {"idle", "sign"} => graph[p] = Nothing
      /\ pc[p] = "idle" => seen[p] = {} /\ sigs[p] = Nothing
      /\ pc[p] = "sign" => config[p].cache
      /\ origin[p].excl = config[p].excl
      /\ pc[p] = "list" =>
           listed[p] \subseteq seen[p] /\ \A f \in Files : graph[p][f] # 0 => f \in listed[p]
      /\ \A f \in Files : sigs[p][f] <= clock
<1> DEFINE EntryOlder == \A f \in Files : entry.sigs[f] <= clock
<1>0. EntryOlder /\ \A p \in Procs : InOrder(p)
  BY DEF CacheInv, LocalsInOrder
<1>n. /\ clock \in Nat /\ disk \in [Files -> Nat] /\ \A f \in Files : disk[f] <= clock
      /\ \A f \in Files : /\ Nothing[f] = 0 /\ entry.sigs[f] \in Nat
                          /\ \A p \in Procs : sigs[p][f] \in Nat
  BY DEF TypeOK, Nothing, Entry, Versions
<1>1. clock' = clock \/ clock' = clock + 1
  BY DEF Next, Load, Environment, Start, SignFile, CacheHit, CacheMiss, ListFile, ReadFile,
         ReadVanished, EndBuild, OpenCache, WriteCache, SaveFails, EnsureGitignore, Finish,
         Crash, WriteFile, DeleteFile, RemoveCache, vars, diskVars
<1>2. EntryOlder'
  <2>1. CASE entry' = entry
    BY <1>0, <1>n, <1>1, <2>1
  <2>2. CASE entry' = NoEntry
    BY <1>n, <1>1, <2>2 DEF NoEntry
  <2>3. ASSUME NEW p \in Procs, WriteCache(p) PROVE EntryOlder'
    <3>1. entry'.sigs = sigs[p] /\ clock' = clock
      BY <2>3 DEF WriteCache, diskVars
    <3> QED
      BY <1>0, <3>1
  <2>4. entry' = entry \/ entry' = NoEntry \/ \E p \in Procs : WriteCache(p)
    BY DEF Next, Load, Environment, Start, SignFile, CacheHit, CacheMiss, ListFile, ReadFile,
           ReadVanished, EndBuild, OpenCache, SaveFails, EnsureGitignore, Finish,
           Crash, WriteFile, DeleteFile, RemoveCache, vars, cacheVars
  <2> QED
    BY <2>1, <2>2, <2>3, <2>4
<1>3. ASSUME NEW p \in Procs PROVE InOrder(p)'
  <2>1. ASSUME pc'[p] = pc[p], graph'[p] = graph[p], seen'[p] = seen[p],
               listed'[p] = listed[p], sigs'[p] = sigs[p], config'[p] = config[p],
               origin'[p] = origin[p]
        PROVE  InOrder(p)'
    BY <1>0, <1>n, <1>1, <2>1
  <2>2. CASE Start(p)
    <3>1. /\ pc[p] = "idle"
          /\ \/ pc'[p] = "sign" /\ config'[p].cache
             \/ pc'[p] = "list"
      BY <2>2 DEF Start, Goto, TypeOK
    <3>2. UNCHANGED <<clock, seen, sigs, listed, graph>>
      BY <2>2 DEF Start, diskVars
    <3>3. origin'[p].excl = config'[p].excl
      BY <2>2 DEF Start, TypeOK
    <3> QED
      BY <1>0, <3>1, <3>2, <3>3 DEF TypeOK, Nothing
  <2>3. ASSUME NEW f \in Files, SignFile(p, f) PROVE InOrder(p)'
    BY <1>0, <1>n, <2>3 DEF SignFile, TypeOK, diskVars
  <2>4. CASE CacheHit(p)
    BY <1>0, <2>4 DEF CacheHit, CacheValid, Goto, TypeOK, diskVars
  <2>5. CASE CacheMiss(p)
    BY <1>0, <2>5 DEF CacheMiss, Goto, TypeOK, diskVars, Nothing
  <2>6. ASSUME NEW f \in Files, ListFile(p, f) PROVE InOrder(p)'
    BY <1>0, <2>6 DEF ListFile, TypeOK, diskVars
  <2>7. ASSUME NEW f \in Files, ReadFile(p, f) PROVE InOrder(p)'
    BY <1>0, <2>7 DEF ReadFile, TypeOK, diskVars
  <2>8. CASE EndBuild(p)
    BY <1>0, <2>8 DEF EndBuild, Goto, TypeOK, diskVars
  <2>9. CASE OpenCache(p) \/ WriteCache(p) \/ SaveFails(p) \/ EnsureGitignore(p)
    BY <1>0, <2>9 DEF OpenCache, WriteCache, SaveFails, EnsureGitignore, Goto, TypeOK, diskVars
  <2>10. CASE Finish(p) \/ Crash(p) \/ (\E f \in Files : ReadVanished(p, f))
    BY <1>0, <1>n, <2>10 DEF Finish, Crash, ReadVanished, Ended, Goto, TypeOK, diskVars
  <2>11. ASSUME NEW q \in Procs, q # p,
                Start(q) \/ SaveFails(q) \/ Finish(q) \/ Crash(q) \/ CacheHit(q) \/ CacheMiss(q)
         PROVE  InOrder(p)'
    BY <2>1, <2>11 DEF Start, SaveFails, Finish, Crash, CacheHit, CacheMiss, Ended, Goto, TypeOK
  <2>12. ASSUME NEW q \in Procs, q # p, NEW f \in Files,
                SignFile(q, f) \/ ListFile(q, f) \/ ReadFile(q, f) \/ ReadVanished(q, f)
         PROVE  InOrder(p)'
    BY <2>1, <2>12 DEF SignFile, ListFile, ReadFile, ReadVanished, Ended, Goto, TypeOK
  <2>13. ASSUME NEW q \in Procs, q # p,
                EndBuild(q) \/ OpenCache(q) \/ WriteCache(q) \/ EnsureGitignore(q)
         PROVE  InOrder(p)'
    BY <2>1, <2>13 DEF EndBuild, OpenCache, WriteCache, EnsureGitignore, Goto, TypeOK
  <2>14. CASE Environment \/ UNCHANGED vars
    BY <2>1, <2>14 DEF Environment, WriteFile, DeleteFile, RemoveCache, vars, procVars
  <2> QED
    BY <2>2, <2>3, <2>4, <2>5, <2>6, <2>7, <2>8, <2>9, <2>10, <2>11, <2>12, <2>13, <2>14
    DEF Next, Load
<1> QED
  BY <1>2, <1>3 DEF LocalsInOrder

(* A load that ends is fresh: on a hit by the soundness of the entry, after*)
(* a build because its reads were.                                         *)
LEMMA FreshKept ==
  ASSUME TypeOK, TypeOK', CacheInv, [Next]_vars PROVE FreshUnlessGhost'
<1> DEFINE Result(p, f) ==
      pc[p] = "done" /\ f \in Covered(p) => Fresh(p, f) \/ PossibleGhost(p, f)
<1> SUFFICES ASSUME NEW p \in Procs, NEW f \in Files PROVE Result(p, f)'
  <2>1. \A p \in Procs : Covered(p)' \subseteq Files
    BY ConfigAssumption DEF Covered, TypeOK
  <2> QED
    BY <2>1 DEF FreshUnlessGhost
<1>0. Result(p, f)
  BY DEF CacheInv, FreshUnlessGhost
<1>1. CASE CacheHit(p)
  <2> SUFFICES ASSUME f \in Covered(p)', ~PossibleGhost(p, f)' PROVE Fresh(p, f)'
    OBVIOUS
  <2>1. /\ UNCHANGED <<config, sigs, during>> /\ config'[p] = config[p]
        /\ graph'[p] = entry.graph /\ origin'[p] = entry.by
        /\ pc[p] = "sign" /\ f \in seen[p]
        /\ cacheFile = "whole" /\ entry.sigs = sigs[p] /\ entry.by.excl = config[p].excl
    BY <1>1 DEF CacheHit, CacheValid, TypeOK
  <2>2. Sound(f, entry.by, entry.sigs[f], entry.graph[f])
    BY <2>1 DEF CacheInv, EntrySound
  <2>3. f \in Signed[entry.by.excl] \cap InGraph[entry.by]
    BY <2>1 DEF Covered
  <2>4. config[p].cache
    BY <2>1 DEF CacheInv, LocalsInOrder
  <2>5. Tracked(f, entry.sigs[f])
    BY <2>1, <2>4 DEF PossibleGhost, Tracked
  <2> QED
    BY <2>1, <2>2, <2>3, <2>5 DEF Sound, Fresh
<1>2. CASE EndBuild(p) \/ EnsureGitignore(p)
  <2>1. /\ UNCHANGED <<config, sigs, during, graph, origin>>
        /\ pc[p] \in Loading \ {"sign"} /\ Settled(p, f)
    BY <1>2 DEF EndBuild, EnsureGitignore, Settled, Loading
  <2>2. f \in InGraph[config[p]] => Fresh(p, f)
    BY <2>1 DEF CacheInv, LoadsObserve
  <2> QED
    BY <2>1, <2>2 DEF Covered, Fresh
<1>3. CASE pc'[p] # "done"
  BY <1>3
<1>4. CASE pc[p] = "done" /\ UNCHANGED <<config[p], sigs[p], during[p], graph[p], origin[p]>>
  BY <1>0, <1>4 DEF Covered, Fresh, PossibleGhost
<1>5. ASSUME pc'[p] = "done", ~CacheHit(p), ~EndBuild(p), ~EnsureGitignore(p)
      PROVE  pc[p] = "done" /\ UNCHANGED <<config[p], sigs[p], during[p], graph[p], origin[p]>>
  <2>1. ASSUME NEW q \in Procs,
               Start(q) \/ SaveFails(q) \/ Finish(q) \/ Crash(q) \/ CacheMiss(q)
        PROVE  pc[p] = "done" /\ UNCHANGED <<config[p], sigs[p], during[p], graph[p], origin[p]>>
    BY <1>5, <2>1 DEF Start, SaveFails, Finish, Crash, CacheMiss, Ended, Goto, TypeOK
  <2>2. ASSUME NEW q \in Procs, NEW g \in Files,
               SignFile(q, g) \/ ListFile(q, g) \/ ReadFile(q, g) \/ ReadVanished(q, g)
        PROVE  pc[p] = "done" /\ UNCHANGED <<config[p], sigs[p], during[p], graph[p], origin[p]>>
    BY <1>5, <2>2 DEF SignFile, ListFile, ReadFile, ReadVanished, Ended, Goto, TypeOK
  <2>3. ASSUME NEW q \in Procs, OpenCache(q) \/ WriteCache(q)
        PROVE  pc[p] = "done" /\ UNCHANGED <<config[p], sigs[p], during[p], graph[p], origin[p]>>
    BY <1>5, <2>3 DEF OpenCache, WriteCache, Goto, TypeOK
  <2>4. ASSUME NEW q \in Procs, q # p, CacheHit(q) \/ EndBuild(q) \/ EnsureGitignore(q)
        PROVE  pc[p] = "done" /\ UNCHANGED <<config[p], sigs[p], during[p], graph[p], origin[p]>>
    BY <1>5, <2>4 DEF CacheHit, EndBuild, EnsureGitignore, Goto, TypeOK
  <2>5. ASSUME NEW g \in Files, WriteFile(g) \/ DeleteFile(g)
        PROVE  pc[p] = "done" /\ UNCHANGED <<config[p], sigs[p], during[p], graph[p], origin[p]>>
    <3>1. UNCHANGED <<pc, config, sigs, graph, origin>>
      BY <2>5 DEF WriteFile, DeleteFile
    <3>2. pc[p] \notin Loading => during'[p] = during[p]
      BY <2>5 DEF WriteFile, DeleteFile, Observe
    <3> QED
      BY <1>5, <3>1, <3>2 DEF Loading
  <2>6. CASE RemoveCache \/ UNCHANGED vars
    BY <1>5, <2>6 DEF RemoveCache, vars, procVars
  <2> QED
    BY <1>5, <2>1, <2>2, <2>3, <2>4, <2>5, <2>6 DEF Next, Load, Environment
<1> QED
  BY <1>1, <1>2, <1>3, <1>4, <1>5

(* The cache on disk stays sound (cache.py:44-84).                         *)
LEMMA EntrySoundKept ==
  ASSUME TypeOK, CacheInv, [Next]_vars PROVE EntrySound'
<1> SUFFICES ASSUME cacheFile' = "whole", NEW f \in Files
             PROVE  SoundNext(f, entry'.by, entry'.sigs[f], entry'.graph[f])
  BY DEF EntrySound, Sound, SoundNext
<1>1. CASE cacheFile = "whole" /\ entry' = entry
  <2>1. Sound(f, entry.by, entry.sigs[f], entry.graph[f])
    BY <1>1 DEF CacheInv, EntrySound
  <2>2. entry.by \in Configs /\ entry.sigs[f] \in Nat /\ entry.sigs[f] <= clock
    BY DEF TypeOK, Entry, Versions, CacheInv, LocalsInOrder
  <2>3. SoundNext(f, entry.by, entry.sigs[f], entry.graph[f])
    BY <2>1, <2>2, SoundKept DEF CacheInv
  <2> QED
    BY <1>1, <2>3
<1>2. ASSUME NEW p \in Procs, WriteCache(p)
      PROVE  SoundNext(f, entry'.by, entry'.sigs[f], entry'.graph[f])
  <2>1. /\ entry'.by = config[p] /\ entry'.sigs[f] = sigs[p][f]
        /\ entry'.graph[f] = graph[p][f] /\ pc[p] = "write"
    BY <1>2 DEF WriteCache
  <2>2. Sound(f, config[p], sigs[p][f], graph[p][f])
    BY <2>1 DEF CacheInv, BuildsSound, Settled
  <2>3. config[p] \in Configs /\ sigs[p][f] \in Nat /\ sigs[p][f] <= clock
    BY DEF TypeOK, Versions, CacheInv, LocalsInOrder
  <2>4. SoundNext(f, config[p], sigs[p][f], graph[p][f])
    BY <2>2, <2>3, SoundKept DEF CacheInv
  <2> QED
    BY <2>1, <2>4
<1>3. (cacheFile = "whole" /\ entry' = entry) \/ \E p \in Procs : WriteCache(p)
  BY DEF Next, Load, Environment, Start, SignFile, CacheHit, CacheMiss, ListFile, ReadFile,
         ReadVanished, EndBuild, OpenCache, SaveFails, EnsureGitignore, Finish, Crash,
         WriteFile, DeleteFile, RemoveCache, vars, cacheVars
<1> QED
  BY <1>1, <1>2, <1>3

(* Every reachable state satisfies the cache invariant.                    *)
THEOREM CacheInvariant == Spec => []CacheInv
<1>1. Init => CacheInv
  <2> SUFFICES ASSUME Init PROVE CacheInv
    OBVIOUS
  <2>1. cacheFile = "missing" /\ \A p \in Procs : pc[p] = "idle"
    BY DEF Init
  <2>2. LocalsInOrder
    BY <2>1 DEF Init, LocalsInOrder, Nothing
  <2> QED
    BY <2>1, <2>2
    DEF CacheInv, EntrySound, BuildsSound, Settled, LoadsObserve, Loading, FreshUnlessGhost
<1>2. TypeOK /\ TypeOK' /\ CacheInv /\ [Next]_vars => CacheInv'
  <2> SUFFICES ASSUME TypeOK, TypeOK', CacheInv, [Next]_vars PROVE CacheInv'
    OBVIOUS
  <2>1. BuildsSound'
    BY SettledSound DEF BuildsSound, Sound, SoundNext
  <2> QED
    BY <2>1, EntrySoundKept, LoadsObserveKept, LocalsInOrderKept, FreshKept DEF CacheInv
<1> QED
  BY <1>1, <1>2, TypeCorrect, PTL DEF Spec

(* The safety property: a finished load is fresh for every covered file,   *)
(* but for one that was deleted around the signing (query.py:84-97).       *)
THEOREM LoadsAreFresh == Spec => []FreshUnlessGhost
<1>1. CacheInv => FreshUnlessGhost
  BY DEF CacheInv
<1> QED
  BY <1>1, CacheInvariant, PTL
-----------------------------------------------------------------------------
(* A graph, in a process or in the cache, has no file but those that its   *)
(* configuration parses.  It needs CacheBlind: OwnRootOnly, which says the *)
(* same of finished loads, is violated where two roots share a cache.      *)
OwnFiles ==
  /\ \A p \in Procs, f \in Files : graph[p][f] # 0 => f \in InGraph[config[p]]
  /\ \A f \in Files : entry.graph[f] # 0 => f \in InGraph[entry.by]

(* Whatever processes share the cache, where the excludes decide what a    *)
(* graph covers each graph is one of the process's own configuration       *)
(* (query.py:84-102).                                                      *)
THEOREM GraphsAreOwn == ASSUME CacheBlind PROVE Spec => []OwnFiles
<1>1. Init => OwnFiles
  BY DEF Init, OwnFiles, Nothing
<1>2. TypeOK /\ CacheInv /\ OwnFiles /\ [Next]_vars => OwnFiles'
  <2> SUFFICES ASSUME TypeOK, CacheInv, OwnFiles, [Next]_vars PROVE OwnFiles'
    OBVIOUS
  <2> DEFINE Own(p) == \A f \in Files : graph[p][f] # 0 => f \in InGraph[config[p]]
             EntryOwn == \A f \in Files : entry.graph[f] # 0 => f \in InGraph[entry.by]
  <2>0. EntryOwn /\ \A p \in Procs : Own(p)
    BY DEF OwnFiles
  <2>1. EntryOwn'
    <3>1. CASE entry' = entry
      BY <2>0, <3>1
    <3>2. CASE entry' = NoEntry
      BY <3>2 DEF NoEntry, Nothing
    <3>3. ASSUME NEW p \in Procs, WriteCache(p) PROVE EntryOwn'
      BY <2>0, <3>3 DEF WriteCache
    <3>4. entry' = entry \/ entry' = NoEntry \/ \E p \in Procs : WriteCache(p)
      BY DEF Next, Load, Environment, Start, SignFile, CacheHit, CacheMiss, ListFile, ReadFile,
             ReadVanished, EndBuild, OpenCache, SaveFails, EnsureGitignore, Finish,
             Crash, WriteFile, DeleteFile, RemoveCache, vars, cacheVars
    <3> QED
      BY <3>1, <3>2, <3>3, <3>4
  <2>2. ASSUME NEW p \in Procs PROVE Own(p)'
    <3>1. CASE graph'[p] = graph[p] /\ config'[p] = config[p]
      BY <2>0, <3>1
    <3>2. CASE graph'[p] = Nothing
      BY <3>2 DEF Nothing
    <3>3. CASE CacheHit(p)
      <4>1. /\ graph'[p] = entry.graph /\ config' = config
            /\ entry.by.excl = config[p].excl
        BY <3>3 DEF CacheHit, CacheValid, TypeOK
      <4>2. InGraph[entry.by] = InGraph[config[p]]
        BY <4>1 DEF CacheBlind, TypeOK, Entry
      <4> QED
        BY <2>0, <4>1, <4>2
    <3>4. ASSUME NEW g \in Files, ReadFile(p, g) PROVE Own(p)'
      BY <2>0, <3>4 DEF ReadFile, TypeOK
    <3>5. CASE Start(p)
      BY <3>2, <3>5 DEF Start, CacheInv, LocalsInOrder
    <3>6. CASE Finish(p) \/ Crash(p) \/ \E g \in Files : ReadVanished(p, g)
      BY <3>2, <3>6 DEF Finish, Crash, ReadVanished, Ended, TypeOK
    <3>7. ASSUME NEW q \in Procs, q # p,
                 Start(q) \/ CacheHit(q) \/ Finish(q) \/ Crash(q)
                 \/ \E g \in Files : ReadFile(q, g) \/ ReadVanished(q, g)
          PROVE  Own(p)'
      BY <3>1, <3>7 DEF Start, CacheHit, ReadFile, Finish, Crash, ReadVanished, Ended, TypeOK
    <3>8. ASSUME NEW q \in Procs,
                 CacheMiss(q) \/ EndBuild(q) \/ OpenCache(q) \/ WriteCache(q) \/ SaveFails(q)
                 \/ EnsureGitignore(q) \/ \E g \in Files : SignFile(q, g) \/ ListFile(q, g)
          PROVE  Own(p)'
      BY <3>1, <3>8 DEF CacheMiss, EndBuild, OpenCache, WriteCache, SaveFails, EnsureGitignore,
                        SignFile, ListFile
    <3>9. CASE Environment \/ UNCHANGED vars
      BY <3>1, <3>9 DEF Environment, WriteFile, DeleteFile, RemoveCache, vars, procVars
    <3> QED
      BY <3>3, <3>4, <3>5, <3>6, <3>7, <3>8, <3>9 DEF Next, Load
  <2> QED
    BY <2>1, <2>2 DEF OwnFiles
<1> QED
  BY <1>1, <1>2, TypeCorrect, CacheInvariant, PTL DEF Spec

-----------------------------------------------------------------------------
(* A step within the loads that are under way, if any: ProjectLoad does    *)
(* not see it.                                                             *)
Inner ==
  /\ UNCHANGED <<disk, clock, config, during>>
  /\ \A q \in Procs :
       /\ pc'[q] = pc[q] \/ (pc[q] \in Loading /\ pc'[q] \in Loading)
       /\ pc[q] = "done" => graph'[q] = graph[q]

LEMMA InnerStutters == ASSUME Inner PROVE UNCHANGED <<disk, clock, phase, scope, result, during>>
<1>1. phase' = phase
  BY DEF Inner, phase
<1>2. scope' = scope
  BY DEF Inner, scope
<1>3. result' = result
  BY DEF Inner, result, Loading
<1> QED
  BY <1>1, <1>2, <1>3 DEF Inner

(* A load that ends returns its graph, which is one that a load without a  *)
(* cache may return.                                                       *)
LEMMA ReturnsFaithfully ==
  ASSUME CacheBlind, TypeOK, TypeOK', CacheInv', OwnFiles', NEW p \in Procs,
         pc[p] \in Loading, pc' = [pc EXCEPT ![p] = "done"],
         \A q \in Procs \ {p} : graph'[q] = graph[q],
         UNCHANGED <<disk, clock, config, during>>
  PROVE  Uncached!Return(p)
<1> DEFINE g == graph'[p]
<1>1. pc'[p] = "done" /\ \A q \in Procs \ {p} : pc'[q] = pc[q]
  BY DEF TypeOK
<1>2. phase[p] = "loading" /\ phase' = [phase EXCEPT ![p] = "done"]
  BY <1>1 DEF phase, Loading
<1>3. scope' = scope
  BY DEF scope
<1>4. result' = [result EXCEPT ![p] = g]
  BY <1>1 DEF result
<1>5. ASSUME NEW f \in Files, f \in scope[p] PROVE g[f] \in during[p][f]
  <2>1. f \in InGraph[config'[p]] /\ InGraph[origin'[p]] = InGraph[config'[p]]
    <3>1. origin'[p].excl = config'[p].excl
      BY DEF CacheInv, LocalsInOrder
    <3>2. config'[p] \in Configs /\ origin'[p] \in Configs
      BY DEF TypeOK
    <3> QED
      BY <1>5, <3>1, <3>2 DEF scope, CacheBlind
  <2>2. f \in Covered(p)'
    BY <2>1 DEF Covered, CacheBlind, TypeOK
  <2>3. ~PossibleGhost(p, f)'
    BY DEF PossibleGhost, CacheBlind
  <2>4. Fresh(p, f)'
    BY <1>1, <2>2, <2>3 DEF CacheInv, FreshUnlessGhost
  <2> QED
    BY <2>4 DEF Fresh
<1>6. ASSUME NEW f \in Files, f \notin scope[p] PROVE g[f] = 0
  BY <1>6 DEF OwnFiles, scope
<1>7. Uncached!Faithful(p, g)
  BY <1>5, <1>6 DEF Uncached!Faithful
<1>8. g \in [Files -> {0} \cup UNION {during[p][f] : f \in Files}]
  <2>1. g = [f \in Files |-> g[f]]
    BY DEF TypeOK
  <2>2. ASSUME NEW f \in Files PROVE g[f] \in {0} \cup UNION {during[p][h] : h \in Files}
    BY <1>5, <1>6
  <2> QED
    BY <2>1, <2>2
<1> QED
  BY <1>2, <1>3, <1>4, <1>7, <1>8 DEF Uncached!Return

(* Every step is one of ProjectLoad or is not seen there.                  *)
LEMMA StepsAsUncached ==
  ASSUME CacheBlind, TypeOK, TypeOK', CacheInv, CacheInv', OwnFiles', [Next]_vars
  PROVE  [Uncached!Next]_(Uncached!vars)
<1> USE DEF Goto
<1>1. ASSUME NEW p \in Procs, Start(p) PROVE Uncached!Begin(p)
  <2>1. PICK c \in Configs :
          /\ config' = [config EXCEPT ![p] = c]
          /\ pc' = [pc EXCEPT ![p] = IF c.cache THEN "sign" ELSE "list"]
    BY <1>1 DEF Start
  <2>2. pc[p] = "idle" /\ pc'[p] \in {"sign", "list"} /\ \A q \in Procs \ {p} : pc'[q] = pc[q]
    BY <1>1, <2>1 DEF Start, TypeOK
  <2>3. phase[p] = "idle" /\ phase' = [phase EXCEPT ![p] = "loading"]
    BY <2>2 DEF phase, Loading
  <2>4. scope' = [scope EXCEPT ![p] = InGraph[c]] /\ InGraph[c] \in SUBSET Files
    BY <2>1, ConfigAssumption, ZenonT(20) DEF scope, TypeOK
  <2>5. result' = result
    BY <1>1, <2>2 DEF result, Start
  <2> QED
    BY <1>1, <2>3, <2>4, <2>5 DEF Uncached!Begin, Start, diskVars
<1>2. ASSUME NEW p \in Procs,
             CacheHit(p) \/ EnsureGitignore(p) \/ (EndBuild(p) /\ ~config[p].cache)
      PROVE  Uncached!Return(p)
  <2>1. /\ pc[p] \in Loading /\ pc' = [pc EXCEPT ![p] = "done"]
        /\ UNCHANGED <<disk, clock, config, during>>
    BY <1>2 DEF CacheHit, EnsureGitignore, EndBuild, diskVars, Loading
  <2>2. \A q \in Procs \ {p} : graph'[q] = graph[q]
    BY <1>2 DEF CacheHit, EnsureGitignore, EndBuild, TypeOK
  <2> QED
    BY <2>1, <2>2, ReturnsFaithfully
<1>3. ASSUME NEW p \in Procs, Finish(p) \/ Crash(p) \/ \E f \in Files : ReadVanished(p, f)
      PROVE  Uncached!End(p)
  <2>1. pc[p] \in Loading \cup {"done"} /\ Ended(p) /\ UNCHANGED <<disk, clock>>
    BY <1>3 DEF Finish, Crash, ReadVanished, Loading, diskVars
  <2>2. /\ pc'[p] = "idle" /\ \A q \in Procs \ {p} : pc'[q] = pc[q] /\ graph'[q] = graph[q]
        /\ config' = config
    BY <2>1 DEF Ended, TypeOK
  <2>3. phase[p] # "idle" /\ phase' = [phase EXCEPT ![p] = "idle"]
    BY <2>1, <2>2 DEF phase, Loading
  <2>4. result' = [result EXCEPT ![p] = Nothing] /\ Nothing = Uncached!Absent
    BY <2>2 DEF result, Nothing, Uncached!Absent
  <2>5. scope' = scope
    BY <2>2 DEF scope
  <2> QED
    BY <2>1, <2>3, <2>4, <2>5 DEF Uncached!End, Ended
<1>4. ASSUME NEW f \in Files, WriteFile(f) PROVE Uncached!Write(f)
  <2>1. phase' = phase /\ scope' = scope
    BY <1>4 DEF WriteFile, phase, scope
  <2>2. result' = result
    BY <1>4 DEF WriteFile, result
  <2>3. \A q \in Procs : pc[q] \in Loading <=> phase[q] = "loading"
    BY DEF phase, TypeOK, Loading
  <2>4. during' = [q \in Procs |-> IF phase[q] = "loading"
                                   THEN [during[q] EXCEPT ![f] = @ \cup {clock + 1}]
                                   ELSE during[q]]
    BY <1>4, <2>3 DEF WriteFile, Observe
  <2> QED
    BY <1>4, <2>1, <2>2, <2>4 DEF WriteFile, Uncached!Write, Uncached!Change
<1>5. ASSUME NEW f \in Files, DeleteFile(f) PROVE FALSE
  BY <1>5 DEF DeleteFile, CacheBlind
<1>6. ASSUME NEW p \in Procs,
             CacheMiss(p) \/ OpenCache(p) \/ WriteCache(p) \/ SaveFails(p)
             \/ (EndBuild(p) /\ config[p].cache)
      PROVE  Inner
  <2>1. /\ UNCHANGED <<disk, clock, config, during, graph>>
        /\ pc[p] \in Loading /\ \E step \in Loading : pc' = [pc EXCEPT ![p] = step]
    BY <1>6 DEF CacheMiss, OpenCache, WriteCache, SaveFails, EndBuild, Loading, diskVars
  <2>2. pc'[p] \in Loading /\ \A q \in Procs \ {p} : pc'[q] = pc[q]
    BY <2>1 DEF TypeOK
  <2> QED
    BY <2>1, <2>2 DEF Inner
<1>7. ASSUME NEW p \in Procs, NEW f \in Files, SignFile(p, f) \/ ListFile(p, f) \/ ReadFile(p, f)
      PROVE  Inner
  <2>1. UNCHANGED <<disk, clock, config, during, pc>>
    BY <1>7 DEF SignFile, ListFile, ReadFile, diskVars
  <2>2. pc[p] # "done" /\ \A q \in Procs \ {p} : graph'[q] = graph[q]
    BY <1>7 DEF SignFile, ListFile, ReadFile, TypeOK
  <2> QED
    BY <2>1, <2>2 DEF Inner
<1>8. ASSUME RemoveCache \/ UNCHANGED vars PROVE Inner
  <2>1. UNCHANGED <<disk, clock, config, during, pc, graph>>
    BY <1>8 DEF RemoveCache, vars, diskVars, procVars
  <2> QED
    BY <2>1 DEF Inner
<1>9. Inner => UNCHANGED Uncached!vars
  BY InnerStutters DEF Uncached!vars
<1> QED
  BY <1>1, <1>2, <1>3, <1>4, <1>5, <1>6, <1>7, <1>8, <1>9
  DEF Next, Load, Environment, Uncached!Next

(* The refinement: where no file is deleted and the excludes decide what a *)
(* graph covers, loading with the cache is loading without it              *)
(* (query.py:84-102).                                                      *)
THEOREM CacheIsTransparent == ASSUME CacheBlind PROVE Spec => CacheTransparent
<1>1. Init => Uncached!Init
  <2> SUFFICES ASSUME Init PROVE Uncached!Init
    OBVIOUS
  <2>1. phase = [p \in Procs |-> "idle"]
    BY DEF Init, phase, Loading
  <2>2. scope \in [Procs -> SUBSET Files]
    BY ConfigAssumption DEF Init, scope
  <2>3. result = [p \in Procs |-> Uncached!Absent]
    BY DEF Init, result, Nothing, Uncached!Absent
  <2> QED
    BY <2>1, <2>2, <2>3 DEF Init, Uncached!Init
<1>2. /\ TypeOK /\ TypeOK' /\ CacheInv /\ CacheInv' /\ OwnFiles' /\ [Next]_vars
      => [Uncached!Next]_(Uncached!vars)
  BY StepsAsUncached
<1> QED
  BY <1>1, <1>2, TypeCorrect, CacheInvariant, GraphsAreOwn, PTL
  DEF Spec, CacheTransparent, Uncached!Spec
=============================================================================
