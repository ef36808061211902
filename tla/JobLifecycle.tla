---------------------------- MODULE JobLifecycle ----------------------------
(***************************************************************************)
(* What Core promises about a Generation Job and the audio history,        *)
(* whatever crashes, shutdowns, cancellations and faults happen below:     *)
(* a job ends at most once, its recording enters the history in the very   *)
(* step that completes it, and only a deletion takes it out again.         *)
(***************************************************************************)
CONSTANT Jobs

VARIABLES
  status,   \* "absent", "pending", "completed", "cancelled" or "failed"
  kept,     \* jobs whose client asked to keep the recording
  offered   \* jobs whose recording the history offers

abstract == <<status, kept, offered>>

LifecycleInit ==
  /\ status = [j \in Jobs |-> "absent"]
  /\ kept = {}
  /\ offered = {}

Submit(j) ==
  /\ status[j] = "absent"
  /\ status' = [status EXCEPT ![j] = "pending"]
  /\ kept' \in {kept, kept \cup {j}}
  /\ UNCHANGED offered

Complete(j) ==
  /\ status[j] = "pending"
  /\ status' = [status EXCEPT ![j] = "completed"]
  /\ offered' = offered \cup (kept \cap {j})
  /\ UNCHANGED kept

End(j) ==
  /\ status[j] = "pending"
  /\ \E s \in {"cancelled", "failed"} : status' = [status EXCEPT ![j] = s]
  /\ UNCHANGED <<kept, offered>>

Erase(j) ==
  /\ j \in offered
  /\ offered' = offered \ {j}
  /\ UNCHANGED <<status, kept>>

LifecycleNext == \E j \in Jobs : Submit(j) \/ Complete(j) \/ End(j) \/ Erase(j)

LifecycleSpec == LifecycleInit /\ [][LifecycleNext]_abstract
=============================================================================
