----------------------------- MODULE DryRunContract -----------------------------
(***************************************************************************)
(* What the task that starts a dry run may count on, whatever page, plugin *)
(* and browser do.  DryRun.tla has the run itself and implements this      *)
(* module; Applications.tla has the task around it, and takes a dry run to *)
(* be one of the ends allowed here.                                        *)
(***************************************************************************)

VARIABLES
  touched,  \* the run has filled or clicked something, or written a screenshot
  entry,    \* its entry in the audit log, "none" before there is one
  end       \* how it ended, "running" before

vars == <<touched, entry, end>>

Init == touched = FALSE /\ entry = "none" /\ end = "running"

\* The plugin, or a screenshot, does something to the page or the disk.
Touch ==
  /\ end = "running"
  /\ touched' = TRUE
  /\ UNCHANGED <<entry, end>>

\* A result is audited before the task has it; a success comes of a page driven.
Succeed ==
  /\ end = "running" /\ touched
  /\ entry' = "dry_run_success" /\ end' = "success"
  /\ UNCHANGED touched

Fail ==
  /\ end = "running"
  /\ entry' = "dry_run_failed" /\ end' = "failed"
  /\ UNCHANGED touched

\* PlaywrightTransientError: Celery may run it all again, for nothing was done.
BreakOff ==
  /\ end = "running" /\ ~touched
  /\ end' = "transient"
  /\ UNCHANGED <<touched, entry>>

\* Any other exception.
Raise ==
  /\ end = "running"
  /\ end' = "raised"
  /\ UNCHANGED <<touched, entry>>

Next == Touch \/ Succeed \/ Fail \/ BreakOff \/ Raise

Spec == Init /\ [][Next]_vars

\* The ends of a run, each with the audit entry that goes with it.
Agreed ==
  {<<"success", "dry_run_success">>, <<"failed", "dry_run_failed">>,
   <<"transient", "none">>, <<"raised", "none">>}

\* A run ends in one of the agreed ways; until then nothing is on record.
EndsAsAgreed ==
  IF end = "running" THEN entry = "none" ELSE <<end, entry>> \in Agreed
=============================================================================
