----------------------------- MODULE MCWorkflow -----------------------------
EXTENDS Workflow

OldBlock == <<"begin", "outdated", "end">>

(* Hooks with no block, with one before, between and after commands, with  *)
(* two, and with markers that do not match.                                *)
MCHandHooks ==
  { <<"run">>, <<"run", "run">>, <<"run", "exit">>,
    OldBlock, <<"run">> \o OldBlock, <<"run">> \o OldBlock \o <<"run">>,
    OldBlock \o <<"exit">>, OldBlock \o <<"run">> \o OldBlock,
    <<"begin", "run">>, <<"end", "run", "begin">>, <<"run", "end">> }
=============================================================================
