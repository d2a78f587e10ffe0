---------------------------- MODULE MCToolCalls ----------------------------
(* ToolCalls with stuttering at the end, so that only a scheduler that is  *)
(* stuck in the middle of a batch is a deadlock.                           *)
EXTENDS ToolCalls

Finished == pc \in {"done", "failed"} /\ UNCHANGED vars

MCSpec == Init /\ [][Next \/ Finished]_vars /\ WF_vars(Scheduler) /\ WF_vars(Bodies)
=============================================================================
