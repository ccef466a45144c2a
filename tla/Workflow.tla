------------------------------ MODULE Workflow ------------------------------
(***************************************************************************)
(* A developer at work on one project: archetype init, archetype           *)
(* install-hook and archetype check --record-trend run one after another   *)
(* in a terminal, git commit runs the hook, the hook runs archetype check, *)
(* and check needs architecture.py.  Files are edited meanwhile.           *)
(***************************************************************************)
EXTENDS InitFile, InstallHook, TrendLog

VARIABLE
  lastCommit  \* of the last commit: whether an installed hook guarded it and
              \* whether a check passed for it

vars == <<fileVars, hookVars, trendVars, lastCommit>>

TypeOK ==
  /\ FileTypeOK /\ HookTypeOK /\ TrendTypeOK
  /\ lastCommit \in [guarded : BOOLEAN, passed : BOOLEAN]

Init ==
  /\ FileInit /\ HookInit /\ TrendInit
  /\ lastCommit = [guarded |-> FALSE, passed |-> FALSE]

TerminalFree == initPc = "idle" /\ installPc = "idle"

(* The exit codes that archetype check may have: it fails without an       *)
(* architecture.py; with one, it depends on the code and on the file.      *)
CheckExits == IF arch = "absent" THEN {1} ELSE {0, 1}

InitCommand ==
  /\ FileNext
  /\ installPc = "idle"
  /\ UNCHANGED <<hookVars, trendVars, lastCommit>>

HookCommand ==
  /\ HookNext
  /\ initPc = "idle"
  /\ UNCHANGED <<fileVars, trendVars, lastCommit>>

(* check records its counts after the rules have run, before it reports.   *)
RecordingCheck ==
  /\ TerminalFree /\ arch # "absent"
  /\ TrendNext
  /\ UNCHANGED <<fileVars, hookVars, lastCommit>>

(* The hook that guards a commit: installed as the only block, with no     *)
(* exit before it.                                                         *)
Guarding == installed /\ ~cut /\ \A line \in {"begin", "end", "exit"} : ~Contains(hand, line)

(* git commits without running a hook that is not executable, and refuses  *)
(* the commit if the hook it runs fails.                                   *)
GitCommit ==
  /\ TerminalFree
  /\ \E command \in {0, 1}, check \in CheckExits :
       /\ executable /\ hook # <<>> => HookStatus(hook, command, check) = 0
       /\ lastCommit' = [guarded |-> Guarding, passed |-> check = 0]
  /\ UNCHANGED <<fileVars, hookVars, trendVars>>

Next == InitCommand \/ HookCommand \/ RecordingCheck \/ GitCommit

Spec == Init /\ [][Next]_vars

-----------------------------------------------------------------------------
(* Once the hook is installed, among whatever commands the developer has   *)
(* before it, no commit is made that archetype check has not passed, and   *)
(* none while there is no architecture.py (check.py:98-117, 971-978;       *)
(* integrations.md:180-190).                                               *)
GuardedCommitsPass == lastCommit.guarded => lastCommit.passed
=============================================================================
