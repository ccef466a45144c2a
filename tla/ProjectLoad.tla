---------------------------- MODULE ProjectLoad -----------------------------
(***************************************************************************)
(* What load_project promises to its caller, without a cache: while files  *)
(* change, a process asks for the graph of the files in its scope and gets *)
(* one that describes each of them as it was at some moment of the load,   *)
(* and nothing else.  GraphCache implements this.                          *)
(***************************************************************************)
EXTENDS Naturals

CONSTANTS Files, Procs, Deletable

VARIABLES
  disk,   \* disk[f]: the version of f, 0 when f is absent
  clock,  \* the newest version
  phase,  \* phase[p]: "idle", "loading" or "done"
  scope,  \* scope[p]: the files p asked for
  result, \* result[p]: the graph p got
  during  \* during[p][f]: the versions f had while p was loading

vars == <<disk, clock, phase, scope, result, during>>

Absent == [f \in Files |-> 0]

Init ==
  /\ disk \in [Files -> {0, 1}]
  /\ clock = 1
  /\ phase = [p \in Procs |-> "idle"]
  /\ scope \in [Procs -> SUBSET Files]
  /\ result = [p \in Procs |-> Absent]
  /\ during = [p \in Procs |-> [f \in Files |-> {}]]

Begin(p) ==
  /\ phase[p] = "idle"
  /\ phase' = [phase EXCEPT ![p] = "loading"]
  /\ \E files \in SUBSET Files : scope' = [scope EXCEPT ![p] = files]
  /\ during' = [during EXCEPT ![p] = [f \in Files |-> {disk[f]}]]
  /\ UNCHANGED <<disk, clock, result>>

(* The graph a load of scope[p] may return.                                *)
Faithful(p, g) ==
  \A f \in Files : IF f \in scope[p] THEN g[f] \in during[p][f] ELSE g[f] = 0

Return(p) ==
  /\ phase[p] = "loading"
  /\ phase' = [phase EXCEPT ![p] = "done"]
  /\ \E g \in [Files -> {0} \cup UNION {during[p][f] : f \in Files}] :
       /\ Faithful(p, g)
       /\ result' = [result EXCEPT ![p] = g]
  /\ UNCHANGED <<disk, clock, scope, during>>

(* The process ends: normally, by an error, or killed.                     *)
End(p) ==
  /\ phase[p] # "idle"
  /\ phase' = [phase EXCEPT ![p] = "idle"]
  /\ result' = [result EXCEPT ![p] = Absent]
  /\ during' = [during EXCEPT ![p] = [f \in Files |-> {}]]
  /\ UNCHANGED <<disk, clock, scope>>

Change(f, version) ==
  /\ disk' = [disk EXCEPT ![f] = version]
  /\ during' = [p \in Procs |->
                  IF phase[p] = "loading"
                  THEN [during[p] EXCEPT ![f] = @ \cup {version}]
                  ELSE during[p]]
  /\ UNCHANGED <<phase, scope, result>>

Write(f) == clock' = clock + 1 /\ Change(f, clock + 1)

Delete(f) == f \in Deletable /\ disk[f] # 0 /\ clock' = clock /\ Change(f, 0)

Next ==
  \/ \E p \in Procs : Begin(p) \/ Return(p) \/ End(p)
  \/ \E f \in Files : Write(f) \/ Delete(f)

Spec == Init /\ [][Next]_vars
=============================================================================
