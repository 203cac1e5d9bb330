------------------------------- MODULE TaskLock -------------------------------
(***************************************************************************)
(* What task_lock (scheduler/locking.py) promises, and no more: a run      *)
(* enters only while the Redis key is not there and leaves the key behind  *)
(* it; it takes the key away when it leaves, unless it dies or loses Redis. *)
(* The key may expire under a run, and a run may then take away a key that *)
(* another one has set, so there may be several inside.  ScheduledTasks    *)
(* and Mail both use the lock, and are both compared with this module.     *)
(***************************************************************************)
CONSTANT Users

VARIABLES
  held,   \* the key is in Redis
  inside  \* the runs between their SET and their DEL

vars == <<held, inside>>

Init == ~held /\ inside = {}

Enter(c) ==
  /\ ~held /\ c \notin inside
  /\ held' = TRUE
  /\ inside' = inside \cup {c}

\* The DEL; or the run dies, or Redis does not answer.
Leave(c) ==
  /\ c \in inside
  /\ held' \in {held, FALSE}
  /\ inside' = inside \ {c}

\* Redis carried out a SET, and its answer was lost.
SetUnanswered == ~held /\ held' = TRUE /\ UNCHANGED inside

Expire == held /\ held' = FALSE /\ UNCHANGED inside

Next == SetUnanswered \/ Expire \/ \E c \in Users : Enter(c) \/ Leave(c)

Safe == Init /\ [][Next]_vars
=============================================================================
