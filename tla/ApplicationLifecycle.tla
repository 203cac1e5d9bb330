-------------------------- MODULE ApplicationLifecycle --------------------------
(***************************************************************************)
(* What the repository promises about one application: it is created       *)
(* either QUEUED or REVIEW_REQUIRED, a QUEUED application is driven by the *)
(* Playwright dry run to PENDING_VERIFICATION, FAILED or REVIEW_REQUIRED,  *)
(* and only a FAILED application is ever put back in the queue.  There are *)
(* no requests, workers, messages or crashes here: Applications.tla has    *)
(* those, and is compared with this module.                                *)
(***************************************************************************)

CONSTANT Apps                  \* application ids

VARIABLE status                \* status[a]: application_status, or "absent"

Driven == {"PENDING_VERIFICATION", "FAILED", "REVIEW_REQUIRED"}

Init == status = [a \in Apps |-> "absent"]

Create(a) ==
  /\ status[a] = "absent"
  /\ \E s \in {"QUEUED", "REVIEW_REQUIRED"} : status' = [status EXCEPT ![a] = s]

Drive(a) ==
  /\ status[a] = "QUEUED"
  /\ \E s \in Driven : status' = [status EXCEPT ![a] = s]

\* The retry sweep re-queues several applications in one transaction.
Requeue(S) ==
  /\ \A a \in S : status[a] = "FAILED"
  /\ status' = [a \in Apps |-> IF a \in S THEN "QUEUED" ELSE status[a]]

Next ==
  \/ \E a \in Apps : Create(a) \/ Drive(a)
  \/ \E S \in (SUBSET Apps) \ {{}} : Requeue(S)

Safe == Init /\ [][Next]_status

Spec == Safe /\ \A a \in Apps : WF_status(Drive(a))
=============================================================================
