---------------------------- MODULE InstallHook -----------------------------
(***************************************************************************)
(* archetype install-hook (archetype/check.py): the block that Archetype   *)
(* manages in a pre-commit hook that the developer edits by hand, and what *)
(* the hook does when git runs it.  A hook is the sequence of its lines;   *)
(* one that is missing or blank is <<>>.                                   *)
(***************************************************************************)
EXTENDS Naturals, SequencesExt

CONSTANTS
  HandHooks,     \* the hooks that the developer writes by hand
  MaxHookFaults  \* bound on crashes and failed writes of install-hook

(* "run" is a command, "exit" an explicit exit 0; "begin" and "end" are    *)
(* the markers, "current" what install-hook puts between them, "outdated"  *)
(* what an earlier version has put there.                                  *)
Lines == {"sh", "run", "exit", "begin", "current", "outdated", "end"}

ASSUME InstallHookAssumption ==
  /\ HandHooks \subseteq Seq(Lines \ {"sh", "current"})
  /\ MaxHookFaults \in Nat

VARIABLES
  hook,        \* the lines of .git/hooks/pre-commit
  executable,  \* whether its mode lets git run it
  hand,        \* the hook as the developer has last written it
  installPc,   \* where the running install-hook is, "idle" if none runs
  installed,   \* an install has written the hook, and ended, since then
  cut,         \* a write of the hook has failed since then
  hookFaults   \* how many faults have happened

hookVars == <<hook, executable, hand, installPc, installed, cut, hookFaults>>

HookTypeOK ==
  /\ hook \in Seq(Lines) /\ hand \in HandHooks \cup {<<>>}
  /\ {executable, installed, cut} \subseteq BOOLEAN
  /\ installPc \in {"idle", "chmod"}
  /\ hookFaults \in 0 .. MaxHookFaults

HookInit ==
  /\ hook = <<>> /\ hand = <<>>
  /\ executable = FALSE
  /\ installPc = "idle"
  /\ installed = FALSE /\ cut = FALSE
  /\ hookFaults = 0

HookFault == hookFaults < MaxHookFaults /\ hookFaults' = hookFaults + 1

Block == <<"begin", "current", "end">>  \* _managed_pre_commit_block

(* Faulty: the regular expression is greedy.                               *)
EndOfBlockGreedy(h, i) == SelectLastInSubSeq(h, i, Len(h), LAMBDA line : line = "end")

(* The line of the first end marker after the begin marker of line i, 0 if *)
(* there is none.                                                          *)
EndOfBlock(h, i) == SelectInSubSeq(h, i, Len(h), LAMBDA line : line = "end")

(* re.sub of each region between markers by the current block.             *)
Updated(h) ==
  LET from[i \in 1 .. Len(h) + 1] ==
        IF i > Len(h) THEN <<>>
        ELSE IF h[i] = "begin" /\ EndOfBlock(h, i) > 0
        THEN Block \o from[EndOfBlock(h, i) + 1]
        ELSE <<h[i]>> \o from[i + 1]
  IN  from[1]

(* _render_pre_commit_hook.                                                *)
Rendered(h) ==
  IF h = <<>> THEN <<"sh">> \o Block
  ELSE IF Contains(h, "begin") /\ Contains(h, "end") THEN Updated(h)
  ELSE h \o Block

(* The hook is read, rendered and, if that changes it, written.            *)
WriteHook ==
  /\ installPc = "idle" /\ Rendered(hook) # hook
  /\ hook' = Rendered(hook)
  /\ installPc' = "chmod"
  /\ UNCHANGED <<executable, hand, installed, cut, hookFaults>>

(* "already installed": nothing is written, and the mode is not looked at. *)
HookUnchanged ==
  /\ installPc = "idle" /\ Rendered(hook) = hook
  /\ UNCHANGED hookVars

(* write_text has truncated the hook when it fails.                        *)
WriteHookFails ==
  /\ installPc = "idle" /\ Rendered(hook) # hook /\ HookFault
  /\ hook' = <<>> /\ cut' = TRUE
  /\ UNCHANGED <<executable, hand, installPc, installed>>

(* Faulty: the mode is left as it is.                                      *)
NoChmod ==
  /\ installPc = "chmod" /\ installPc' = "idle"
  /\ installed' = TRUE
  /\ UNCHANGED <<hook, executable, hand, cut, hookFaults>>

Chmod ==
  /\ installPc = "chmod" /\ installPc' = "idle"
  /\ executable' = TRUE /\ installed' = TRUE
  /\ UNCHANGED <<hook, hand, cut, hookFaults>>

(* install-hook ends between its write and its chmod.                      *)
InstallCrashes ==
  /\ installPc = "chmod" /\ installPc' = "idle" /\ HookFault
  /\ UNCHANGED <<hook, executable, hand, installed, cut>>

(* The developer writes the hook; one that is removed loses its mode.      *)
EditHook ==
  /\ installPc = "idle"
  /\ \E h \in HandHooks \cup {<<>>} :
       /\ h # hand
       /\ hook' = h /\ hand' = h
       /\ \/ h = <<>> /\ executable' = FALSE
          \/ h # <<>> /\ executable' \in BOOLEAN
  /\ installed' = FALSE /\ cut' = FALSE
  /\ UNCHANGED <<installPc, hookFaults>>

HookNext ==
  \/ WriteHook \/ HookUnchanged \/ WriteHookFails \/ Chmod \/ InstallCrashes
  \/ EditHook

-----------------------------------------------------------------------------
(* sh runs the lines in order, whether or not they fail, until one exits   *)
(* with 0; its status is that of the last.  command is the status of       *)
(* "run", check that of archetype check, the last command of the block.    *)
HookStatus(h, command, check) ==
  LET last == SelectLastInSeq(h, LAMBDA line : line \in {"run", "current", "outdated"})
  IN  IF Contains(h, "exit") \/ last = 0 THEN 0
      ELSE IF h[last] = "run" THEN command ELSE check

-----------------------------------------------------------------------------
(* The commands of a hook outside of the blocks, in order; this is a       *)
(* SelectSeq, written out for the proofs, to which SelectSeq is opaque.    *)
OwnLines(h) ==
  LET own[n \in 0 .. Len(h)] ==
        IF n = 0 THEN <<>>
        ELSE IF h[n] \in {"run", "exit"} THEN Append(own[n - 1], h[n]) ELSE own[n - 1]
  IN  own[Len(h)]

Count(h, line) == Cardinality({i \in DOMAIN h : h[i] = line})

(* The markers and the check of an earlier version are in whole blocks.    *)
WellFormed(h) ==
  \A i \in DOMAIN h :
    /\ h[i] = "begin" => i + 2 <= Len(h) /\ h[i + 1] = "outdated" /\ h[i + 2] = "end"
    /\ h[i] = "outdated" => i > 1 /\ h[i - 1] = "begin"
    /\ h[i] = "end" => i > 2 /\ h[i - 2] = "begin"

(* "Archetype only owns the region between its markers, so an existing     *)
(* hook is preserved" (integrations.md:212): however often, and between    *)
(* what crashes, it is installed, the developer's lines stay, in order;    *)
(* and once installed the hook has the current block once for each block   *)
(* it had, at least once, and no outdated one (check.py:120-135).          *)
OnlyBlockChanges ==
  WellFormed(hand) /\ ~cut =>
    /\ OwnLines(hook) = OwnLines(hand)
    /\ installed =>
         /\ Count(hook, "current") = IF Contains(hand, "begin") THEN Count(hand, "begin") ELSE 1
         /\ ~Contains(hook, "outdated")
=============================================================================
