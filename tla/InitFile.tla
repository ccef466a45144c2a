------------------------------ MODULE InitFile ------------------------------
(***************************************************************************)
(* archetype init (archetype/check.py, archetype/init.py): how the file    *)
(* architecture.py is found, replaced and written, while the developer     *)
(* goes on editing it.  What is detected or inferred is not modelled here. *)
(***************************************************************************)
EXTENDS Naturals

CONSTANTS
  MaxSaves,      \* how often the developer saves architecture.py
  MaxFileFaults  \* bound on crashes and I/O errors of init

ASSUME InitFileAssumption == MaxSaves \in Nat /\ MaxFileFaults \in Nat

VARIABLES
  arch,        \* what architecture.py is
  saves,       \* how often the developer has saved it
  fate,        \* what became of what was in it last
  initPc,      \* where the running init is, "idle" if none runs
  initOptions, \* its --infer and --dry-run
  fileFaults   \* how many faults have happened

fileVars == <<arch, saves, fate, initPc, initOptions, fileFaults>>

InitOptions == [infer : BOOLEAN, dryRun : BOOLEAN]

Generated(o) == IF o.infer THEN "inferred" ELSE "starter"

(* The file is absent, the developer's own, generated or torn.  Its        *)
(* content is the developer's to keep ("own"), came while init was about   *)
(* to unlink or to write ("raced"), may be overwritten, for the developer  *)
(* has agreed ("approved"), or was generated; "none" if there was no file  *)
(* or the developer has removed it.                                        *)
FileTypeOK ==
  /\ arch \in {"absent", "own", "inferred", "starter", "torn"}
  /\ saves \in 0 .. MaxSaves
  /\ fate \in {"none", "own", "raced", "approved", "generated"}
  /\ initPc \in {"idle", "build", "find", "prompt", "unlink", "generate", "write", "open", "fill"}
  /\ initOptions \in InitOptions
  /\ fileFaults \in 0 .. MaxFileFaults

NoInitOptions == [infer |-> FALSE, dryRun |-> FALSE]

FileInit ==
  /\ arch = "absent"
  /\ saves = 0
  /\ fate = "none"
  /\ initPc = "idle"
  /\ initOptions = NoInitOptions
  /\ fileFaults = 0

Ends == initPc' = "idle" /\ initOptions' = NoInitOptions

GoesTo(step) == initPc' = step /\ UNCHANGED initOptions

FileFault == fileFaults < MaxFileFaults /\ fileFaults' = fileFaults + 1

(* init generates from what it has inferred, before it touches any file,   *)
(* or from what it detects, after it has removed the old one.              *)
StartInit ==
  /\ initPc = "idle"
  /\ \E o \in InitOptions :
       /\ initOptions' = o
       /\ initPc' = IF o.infer THEN "build" ELSE IF o.dryRun THEN "generate" ELSE "find"
  /\ UNCHANGED <<arch, saves, fate, fileFaults>>

(* build_inferred_architecture: it fails on code that cannot be inferred   *)
(* from, or that has no modules.                                           *)
Build ==
  /\ initPc = "build"
  /\ \/ Ends
     \/ ~initOptions.dryRun /\ GoesTo("find")
  /\ UNCHANGED <<arch, saves, fate, fileFaults>>

(* Faulty: inferred rules too are made when the old file has gone.         *)
AfterFindInferring == GoesTo(IF initOptions.infer THEN "build" ELSE "generate")

AfterFind == GoesTo(IF initOptions.infer THEN "write" ELSE "generate")

(* find_existing_architecture_py.                                          *)
FindExisting ==
  /\ initPc = "find"
  /\ \/ arch # "absent" /\ GoesTo("prompt")
     \/ arch = "absent" /\ AfterFind
  /\ UNCHANGED <<arch, saves, fate, fileFaults>>

Decline ==
  /\ initPc = "prompt"
  /\ Ends
  /\ UNCHANGED <<arch, saves, fate, fileFaults>>

(* Overwrite?  The developer agrees for what is there by now.              *)
Confirm ==
  /\ initPc = "prompt"
  /\ fate' = IF arch = "absent" THEN fate ELSE "approved"
  /\ GoesTo("unlink")
  /\ UNCHANGED <<arch, saves, fileFaults>>

(* existing_file.unlink() removes whatever is there, and raises if nothing *)
(* is.                                                                     *)
Unlink ==
  /\ initPc = "unlink"
  /\ arch' = "absent"
  /\ IF arch = "absent" THEN Ends ELSE AfterFind
  /\ UNCHANGED <<saves, fate, fileFaults>>

(* detect_project_structure and generate_architecture_py.                  *)
Generate ==
  /\ initPc = "generate"
  /\ IF initOptions.dryRun THEN Ends ELSE GoesTo("write")
  /\ UNCHANGED <<arch, saves, fate, fileFaults>>

(* Faulty: the file is written whether or not there is one by now.         *)
RefuseNothing ==
  /\ initPc = "write"
  /\ GoesTo("open")
  /\ UNCHANGED <<arch, saves, fate, fileFaults>>

(* write_architecture_py raises if a file has come since ...               *)
RefuseExisting ==
  /\ initPc = "write"
  /\ IF arch = "absent" THEN GoesTo("open") ELSE Ends
  /\ UNCHANGED <<arch, saves, fate, fileFaults>>

(* ... and else calls write_text, which creates or truncates the file,     *)
OpenArchitecture ==
  /\ initPc = "open"
  /\ arch' = "torn"
  /\ GoesTo("fill")
  /\ UNCHANGED <<saves, fate, fileFaults>>

(* and writes to it.  A file removed in between stays removed; a save in   *)
(* between has replaced it, or is written over, if only in part.           *)
FillArchitecture ==
  /\ initPc = "fill"
  /\ \/ /\ arch # "absent"
        /\ arch' = Generated(initOptions) /\ fate' = "generated"
     \/ arch = "own" /\ arch' \in {"own", "torn"} /\ UNCHANGED fate
     \/ arch = "absent" /\ UNCHANGED <<arch, fate>>
  /\ Ends
  /\ UNCHANGED <<saves, fileFaults>>

(* The directories cannot be read, or the file not be removed, opened or   *)
(* written as a whole.                                                     *)
InitFails ==
  /\ initPc \in {"unlink", "generate", "open", "fill"} /\ FileFault
  /\ \/ UNCHANGED arch
     \/ initPc = "fill" /\ arch # "absent" /\ arch' = "torn"
  /\ Ends
  /\ UNCHANGED <<saves, fate>>

InitCrashes ==
  /\ initPc # "idle" /\ FileFault
  /\ Ends
  /\ UNCHANGED <<arch, saves, fate>>

(* The developer's editor, in another window.                              *)
SaveArchitecture ==
  /\ saves < MaxSaves
  /\ saves' = saves + 1
  /\ arch' = "own"
  /\ fate' = IF initPc \in {"unlink", "open", "fill"} THEN "raced" ELSE "own"
  /\ UNCHANGED <<initPc, initOptions, fileFaults>>

RemoveArchitecture ==
  /\ arch # "absent"
  /\ arch' = "absent"
  /\ fate' = "none"
  /\ UNCHANGED <<saves, initPc, initOptions, fileFaults>>

FileNext ==
  \/ StartInit \/ Build \/ FindExisting \/ Decline \/ Confirm \/ Unlink
  \/ Generate \/ RefuseExisting \/ OpenArchitecture \/ FillArchitecture
  \/ InitFails \/ InitCrashes
  \/ SaveArchitecture \/ RemoveArchitecture

-----------------------------------------------------------------------------
(* What the developer has saved last is in architecture.py, unless they    *)
(* have removed it or agreed to its overwriting: saves that come while     *)
(* init infers, asks or detects are kept or asked about.  init loses a     *)
(* save unasked only if it comes between exists() and the end of           *)
(* write_text(), or between the answer and unlink(): nothing locks the     *)
(* file (init.py:235-241, check.py:888-894).                               *)
UserFileKept == fate = "own" => arch = "own"

(* An overwrite replaces the file: init leaves no project without one, but *)
(* by an I/O error, a crash, or when there was none; in particular an      *)
(* inference that fails leaves the old file (check.py:839-867).            *)
OverwriteReplaces ==
  initPc = "idle" /\ arch = "absent" /\ fileFaults = 0 => fate = "none"
=============================================================================
