----------------------------- MODULE EmailLifecycle -----------------------------
(***************************************************************************)
(* What the repository promises about one email: it is stored once, and    *)
(* each delivery of its message is a single try, which classifies it at    *)
(* most once, announces it at most once and only if its own answer was     *)
(* important, and may be given up for good.  The sync asks for one try per *)
(* email; the others are the broker's, which delivers a message again      *)
(* while an earlier delivery of it is not acknowledged.  There are no      *)
(* runs, locks, limits or crashes here: Mail.tla has those, and is         *)
(* compared with this module.                                              *)
(***************************************************************************)
CONSTANTS
  Mails,
  Tasks  \* pairs of an email and the number of a delivery, 0 for the first

VARIABLES
  mail,  \* mail[m]: the row of email m
  try    \* try[t]: what became of a delivery

vars == <<mail, try>>

Init ==
  /\ mail = [m \in Mails |-> "none"]
  /\ try = [t \in Tasks |-> "none"]

Store(new) ==
  /\ \A m \in new : mail[m] = "none"
  /\ mail' = [m \in Mails |-> IF m \in new THEN "stored" ELSE mail[m]]
  /\ UNCHANGED try

Becomes(t, old, new) == try[t] = old /\ try' = [try EXCEPT ![t] = new]

\* The sync sends the message of an email it has stored.
Deliver(t) ==
  /\ t[2] = 0 /\ mail[t[1]] = "stored"
  /\ Becomes(t, "none", "open")
  /\ UNCHANGED mail

Redeliver(t) ==
  /\ t[2] # 0 /\ \E u \in Tasks : u[1] = t[1] /\ try[u] = "open"
  /\ Becomes(t, "none", "open")
  /\ UNCHANGED mail

\* The answer is committed before anything is announced.
Classify(t) ==
  /\ Becomes(t, "open", "plain") \/ Becomes(t, "open", "announce")
  /\ mail' = [mail EXCEPT ![t[1]] = "classified"]

Announce(t) ==
  /\ Becomes(t, "announce", "announced") \/ Becomes(t, "announce", "untold")
  /\ UNCHANGED mail

GiveUp(t) ==
  /\ Becomes(t, "open", "dropped")
  /\ UNCHANGED mail

\* A run that dies never sends the messages it had still to send.
NeverSend(ts) ==
  /\ \A t \in ts : t[2] = 0 /\ mail[t[1]] = "stored" /\ try[t] = "none"
  /\ try' = [t \in Tasks |-> IF t \in ts THEN "dropped" ELSE try[t]]
  /\ UNCHANGED mail

Next ==
  \/ \E new \in SUBSET Mails : Store(new)
  \/ \E ts \in SUBSET Tasks : NeverSend(ts)
  \/ \E t \in Tasks :
       Deliver(t) \/ Redeliver(t) \/ Classify(t) \/ Announce(t) \/ GiveUp(t)

Safe == Init /\ [][Next]_vars
=============================================================================
