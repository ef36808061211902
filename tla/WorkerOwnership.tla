--------------------------- MODULE WorkerOwnership ---------------------------
(***************************************************************************)
(* How Core owns the processes of its Workers on POSIX: the owner record a *)
(* launch writes before the spawn and completes after it, the process      *)
(* group the record names, the termination of a Worker this Core launched, *)
(* and the sweep that ends what an earlier Core left behind.  WorkerPool   *)
(* takes each of these as one step; here they are the looks at the process *)
(* table and the signals they consist of, while processes exit, pids are   *)
(* handed out again and Core crashes.                                      *)
(*                                                                         *)
(* Every launch has a claim of its own on its command line, so the start   *)
(* time and command hash of a process say of which launch it is: `of`.     *)
(* The last look and the signal it allows are one step, and a pid is not   *)
(* handed out again in the moment a launch takes to record it.             *)
(***************************************************************************)
EXTENDS FiniteSets

CONSTANTS
  Launches,    \* launches, by this Core and by earlier ones
  Pids,        \* process ids; a group has the id of its leader
  Stranger,    \* the process groups that are not a Worker's
  Unused       \* no process group

ASSUME WorkerOwnershipAssumption ==
  /\ Stranger \notin Launches /\ Unused \notin Launches \cup {Stranger}
  /\ {Unused, "none", "pending"} \cap Pids = {}

VARIABLES
  group,       \* [of, leader, helper] of each pid: whose group, where its leader is,
               \* and whether another process runs in it
  record,      \* the owner record of each launch: none, pending or the pid it names
  duty,        \* what Core has come to with each launch
  pidOf,       \* the pid of each launch as Core knows it
  looked,      \* the snapshot of its group that Core looked at last
  registered   \* launches that are Workers of the registry

ownVars == <<group, record, duty, pidOf, looked, registered>>

NoGroup   == [of |-> Unused, leader |-> "gone", helper |-> FALSE]
Groups    == [of : Launches \cup {Stranger, Unused}, leader : {"runs", "zombie", "gone"},
              helper : BOOLEAN]
Stages    == {"none", "claimed", "spawned", "named", "serving", "ending", "told", "warned",
              "killed", "kept", "ended", "stray", "sought", "hunted", "chased", "over", "unfound"}
Launching == {"claimed", "spawned", "named"}
Sweeping  == {"sought", "hunted", "chased"}
Ending    == {"ending", "told", "warned", "killed"}
LockTaken == \E n \in Launches : duty[n] \in Launching \cup Sweeping

OwnInit ==
  /\ group = [p \in Pids |-> NoGroup]
  /\ record = [n \in Launches |-> "none"]
  /\ duty = [n \in Launches |-> "none"]
  /\ pidOf = [n \in Launches |-> Unused]
  /\ looked = [n \in Launches |-> NoGroup]
  /\ registered = {}

Duty(n, stage) == duty' = [duty EXCEPT ![n] = stage]
-----------------------------------------------------------------------------
(* Looking at the process table. *)

\* Members of a group are the processes that are not zombies.
Members(p) == {m \in {"leader", "helper"} :
                 IF m = "leader" THEN group[p].leader = "runs" ELSE group[p].helper}

\* Seeded fault: a group whose leader is gone counts as gone.
EmptyWithoutLeader(p) == "leader" \notin Members(p)

NoMembers(p) == Members(p) = {}

\* Seeded fault: the pid alone identifies the group.
VerifiedByPid(n, p) == TRUE

\* The leader is the process of the launch, if the group has a leader.
Verified(n, p) == "leader" \in Members(p) => group[p].of = n

\* A process of that pid, be it a zombie.
Identity(p) == group[p].leader # "gone"

\* A leader that carries the claim of a pending record.
Claimants(n) == {p \in Pids : group[p].of = n /\ "leader" \in Members(p)}

Look(n, p) == looked' = [looked EXCEPT ![n] = group[p]]

\* The launch, or the sweep of its record, is over: its locals are gone.
LeaveOff(n, stage) ==
  /\ duty' = [duty EXCEPT ![n] = stage]
  /\ looked' = [looked EXCEPT ![n] = NoGroup]
  /\ pidOf' = [pidOf EXCEPT ![n] = IF n \in registered THEN @ ELSE Unused]

Unchanged(n, p) ==
  /\ Verified(n, p)
  /\ ~NoMembers(p) => looked[n].of = group[p].of
  /\ (looked[n].leader = "runs") = ("leader" \in Members(p)) /\ looked[n].helper = group[p].helper

\* SIGKILL: the group ends at once, but for a leader still to be waited for.
KillGroup(p) ==
  group' = [group EXCEPT ![p] = IF @.leader = "gone" THEN NoGroup
                                ELSE [@ EXCEPT !.helper = FALSE, !.leader = "zombie"]]
-----------------------------------------------------------------------------
(* A launch: the pending record, the spawn, the record of the pid. *)

WritePending(n) ==
  /\ ~LockTaken /\ duty[n] = "none"
  /\ record' = [record EXCEPT ![n] = "pending"]
  /\ Duty(n, "claimed")
  /\ UNCHANGED <<group, pidOf, looked, registered>>

SpawnWorker(n) ==
  /\ duty[n] = "claimed"
  /\ \E p \in Pids :
       /\ group[p] = NoGroup
       /\ group' = [group EXCEPT ![p] = [of |-> n, leader |-> "runs", helper |-> FALSE]]
       /\ pidOf' = [pidOf EXCEPT ![n] = p]
  /\ Duty(n, "spawned")
  /\ UNCHANGED <<record, looked, registered>>

\* Nothing was spawned: the files of the launch go.
SpawnFails(n) ==
  /\ duty[n] = "claimed"
  /\ record' = [record EXCEPT ![n] = "none"]
  /\ Duty(n, "over")
  /\ UNCHANGED <<group, pidOf, looked, registered>>

Finalize(n) ==
  /\ duty[n] = "spawned" /\ Identity(pidOf[n])
  /\ record' = [record EXCEPT ![n] = pidOf[n]]
  /\ Duty(n, "named")
  /\ UNCHANGED <<group, pidOf, looked, registered>>

Admit(n) ==
  /\ duty[n] = "named"
  /\ registered' = registered \cup {n}
  /\ Duty(n, "serving")
  /\ UNCHANGED <<group, record, pidOf, looked>>
-----------------------------------------------------------------------------
(* The end of a Worker that this Core launched: after a failed launch, by its *)
(* watch task, a hard stop or a planned stop.                                 *)

\* What could not be proved stays as it is, record and all.
Uncertain(n) == LeaveOff(n, IF n \in registered THEN "kept" ELSE "stray")

\* A planned stop may take the Worker out of the registry first.
EndOwned(n) ==
  /\ duty[n] \in {"spawned", "named", "serving", "kept"}
  /\ Duty(n, "ending")
  /\ registered' \in {registered, registered \ {n}}
  /\ UNCHANGED <<group, record, pidOf, looked>>

\* A pending record is completed from the process table.
Contained(n) ==
  /\ record[n] = "pending" => Identity(pidOf[n])
  /\ Verified(n, pidOf[n])

Contain(n) ==
  /\ duty[n] = "ending"
  /\ IF Contained(n) THEN Look(n, pidOf[n]) /\ Duty(n, "told") /\ UNCHANGED pidOf
     ELSE Uncertain(n)
  /\ UNCHANGED <<group, record, registered>>

\* SIGTERM, or SIGKILL for a hard stop.
SignalGroup(n) ==
  /\ duty[n] = "told"
  /\ IF Unchanged(n, pidOf[n])
     THEN /\ KillGroup(pidOf[n]) \/ UNCHANGED group
          /\ Duty(n, "warned") /\ UNCHANGED <<pidOf, looked>>
     ELSE Uncertain(n) /\ UNCHANGED group
  /\ UNCHANGED <<record, registered>>

Waited(n, p) == group[p].of = n => ~Identity(p)

\* A deadline passed: first the one of the leader, then the one of the group.
Escalate(n) ==
  LET p == pidOf[n] IN
  /\ duty[n] = "warned"
  /\ ~NoMembers(p) \/ ~Waited(n, p)
  /\ IF Verified(n, p)
     THEN KillGroup(p) /\ Duty(n, "killed") /\ UNCHANGED <<pidOf, looked>>
     ELSE Uncertain(n) /\ UNCHANGED group
  /\ UNCHANGED <<record, registered>>

\* The files go, or one resists: its Worker stays in the registry, or leaves it all the same.
RemoveFiles(n) ==
  /\ looked' = [looked EXCEPT ![n] = NoGroup]
  /\ \/ /\ n \in registered
        /\ Duty(n, "ended") /\ UNCHANGED <<record, pidOf, registered>>
     \/ /\ \/ record' = [record EXCEPT ![n] = "none"] /\ Duty(n, "over")
           \/ UNCHANGED record /\ Duty(n, "stray")
        /\ registered' = registered \ {n}
        /\ pidOf' = [pidOf EXCEPT ![n] = Unused]
  /\ UNCHANGED group

\* The leader was waited for and the group is empty.
GroupEnded(n) ==
  LET p == pidOf[n] IN
  /\ duty[n] \in {"warned", "killed"}
  /\ Verified(n, p) /\ NoMembers(p) /\ Waited(n, p)
  /\ RemoveFiles(n)

\* A Worker that is known to have ended is not looked at again.
EndAgain(n) == duty[n] = "ended" /\ RemoveFiles(n)

NeverEnded(n) ==
  /\ duty[n] = "killed"
  /\ Uncertain(n)
  /\ UNCHANGED <<group, record, registered>>
-----------------------------------------------------------------------------
(* start: the sweep over the records that no Worker of the registry has. *)

SweepRecords ==
  /\ ~LockTaken /\ \E n \in Launches : duty[n] = "stray"
  /\ duty' = [n \in Launches |-> IF duty[n] = "stray" THEN "sought" ELSE duty[n]]
  /\ UNCHANGED <<group, record, pidOf, looked, registered>>

\* The files of the record go.
ForgetRecord(n, stage) == record' = [record EXCEPT ![n] = "none"] /\ LeaveOff(n, stage)

\* A snapshot of the group p, which the record names or a claimant leads.
Hunt(n, p) ==
  /\ pidOf' = [pidOf EXCEPT ![n] = p]
  /\ Look(n, p)
  /\ Duty(n, "hunted")

RegisteredPids == {pidOf[m] : m \in registered}

SeekPending(n) ==
  /\ duty[n] = "sought" /\ record[n] = "pending"
  /\ \/ Claimants(n) = {} /\ ForgetRecord(n, "unfound")
     \/ \E p \in Claimants(n) : Hunt(n, p) /\ UNCHANGED record
  /\ UNCHANGED <<group, registered>>

SeekNamed(n) ==
  LET p == record[n] IN
  /\ duty[n] = "sought" /\ p # "pending"
  /\ \/ /\ p \in RegisteredPids \/ ~Verified(n, p)
        /\ LeaveOff(n, "stray") /\ UNCHANGED record
     \/ /\ p \notin RegisteredPids /\ Verified(n, p)
        /\ IF NoMembers(p) THEN ForgetRecord(n, "over") ELSE Hunt(n, p) /\ UNCHANGED record
  /\ UNCHANGED <<group, registered>>

Warn(n) ==
  /\ duty[n] = "hunted"
  /\ IF Unchanged(n, pidOf[n])
     THEN Duty(n, "chased") /\ UNCHANGED <<pidOf, looked>>
     ELSE LeaveOff(n, "stray")
  /\ UNCHANGED <<group, record, registered>>

\* The group is empty, by itself or by SIGKILL; or it cannot be verified any more.
Chase(n) ==
  LET p == pidOf[n] IN
  /\ duty[n] = "chased"
  /\ IF Verified(n, p) THEN KillGroup(p) /\ ForgetRecord(n, "over")
     ELSE LeaveOff(n, "stray") /\ UNCHANGED <<group, record>>
  /\ UNCHANGED registered
-----------------------------------------------------------------------------
(* The machine. *)

\* Core is gone; its Workers run on.
CoreIsGone ==
  /\ duty' = [n \in Launches |-> IF record[n] = "none" THEN duty[n] ELSE "stray"]
  /\ pidOf' = [n \in Launches |-> Unused]
  /\ looked' = [n \in Launches |-> NoGroup]
  /\ registered' = {}
  /\ registered # {} \/ \E n \in Launches : duty[n] \in Launching \cup Sweeping \cup Ending
  /\ UNCHANGED <<group, record>>

HelperStarts(p) == group[p].leader = "runs" /\ ~group[p].helper
                   /\ group' = [group EXCEPT ![p].helper = TRUE]

LeaderExits(p) == group[p].leader = "runs" /\ group' = [group EXCEPT ![p].leader = "zombie"]

\* The parent waits for it, or init does.
LeaderIsReaped(p) == /\ group[p].leader = "zombie"
                     /\ group' = [group EXCEPT ![p] = IF @.helper THEN [@ EXCEPT !.leader = "gone"]
                                                     ELSE NoGroup]

HelperExits(p) == /\ group[p].helper
                  /\ group' = [group EXCEPT ![p] = IF @.leader = "gone" THEN NoGroup
                                                  ELSE [@ EXCEPT !.helper = FALSE]]

\* A pid is free once no process has it, nor a group that it names.
StrangerStarts(p) ==
  /\ group[p] = NoGroup
  /\ ~\E n \in Launches : pidOf[n] = p /\ record[n] = "pending"
  /\ group' = [group EXCEPT ![p] = [of |-> Stranger, leader |-> "runs", helper |-> FALSE]]

MachineStep(p) ==
  /\ HelperStarts(p) \/ LeaderExits(p) \/ LeaderIsReaped(p) \/ HelperExits(p) \/ StrangerStarts(p)
  /\ UNCHANGED <<record, duty, pidOf, looked, registered>>

LaunchStep(n) == WritePending(n) \/ SpawnWorker(n) \/ SpawnFails(n) \/ Finalize(n) \/ Admit(n)
EndStep(n)    == EndOwned(n) \/ Contain(n) \/ SignalGroup(n) \/ Escalate(n) \/ GroupEnded(n)
                 \/ EndAgain(n) \/ NeverEnded(n)
SweepStep(n)  == SeekPending(n) \/ SeekNamed(n) \/ Warn(n) \/ Chase(n)

OwnNext ==
  \/ SweepRecords \/ CoreIsGone
  \/ \E n \in Launches : LaunchStep(n) \/ EndStep(n) \/ SweepStep(n)
  \/ \E p \in Pids : MachineStep(p)

OwnSpec == OwnInit /\ [][OwnNext]_ownVars
-----------------------------------------------------------------------------
OwnTypeOK ==
  /\ group \in [Pids -> Groups]
  /\ record \in [Launches -> {"none", "pending"} \cup Pids]
  /\ duty \in [Launches -> Stages]
  /\ pidOf \in [Launches -> Pids \cup {Unused}]
  /\ looked \in [Launches -> Groups]
  /\ registered \subseteq Launches

(* While a process of a Worker runs, its leader or a helper that outlived it,  *)
(* the owner record is on disk for the next Core to find it by.  One case is   *)
(* left: the leader exits before its pid is recorded, and only its helper runs.*)
GroupKeepsItsRecord ==
  \A p \in Pids, n \in Launches :
    group[p].of = n /\ Members(p) # {} =>
      record[n] # "none" \/ (duty[n] = "unfound" /\ group[p].leader # "runs")

\* A step that signals the group of `pidOf`, or finds it empty.
Signals(n) ==
  <<duty[n], duty'[n]>> \in {<<"told", "warned">>, <<"warned", "killed">>, <<"hunted", "chased">>,
                            <<"chased", "over">>}

(* No signal meets a group that another program, or another Worker, leads,     *)
(* however long ago the record was written and whoever has the pid by now.  (A *)
(* group that has lost its leader is taken for the one of the record.)         *)
SignalsMeetTheWorker ==
  [][\A n \in Launches :
       Signals(n) /\ group[pidOf[n]].leader = "runs" => group[pidOf[n]].of = n]_ownVars
=============================================================================
