---------------------------- MODULE WorkerProofs ----------------------------
(***************************************************************************)
(* Theorems about Worker processes: who owns them, what a lease leaves     *)
(* behind, where a download writes and what the promotion of a snapshot    *)
(* publishes.                                                              *)
(***************************************************************************)
EXTENDS Promotion, WorkerDownload, WorkerSynthesis, WorkerOwnership, TLAPS

-----------------------------------------------------------------------------
(* WorkerOwnership.  A group that lives is on record, and signals go to    *)
(* the Worker, for any number of launches and pids, with pids that are     *)
(* used again and a Core that is killed.                                   *)

\* A member of the group runs.
Alive(g) == g.leader = "runs" \/ g.helper

\* What a launch has spawned runs in one group, under the pid that is on record and the one
\* that Core knows; none before the spawn.
OneGroup(n) ==
  \A p \in Pids : group[p].of = n =>
    /\ duty[n] \notin {"none", "claimed"}
    /\ \A q \in Pids : group[q].of = n => q = p
    /\ record[n] \in Pids => record[n] = p
    /\ pidOf[n] # Unused => pidOf[n] = p

\* What is left of it when the record has gone.
NothingLeft(n) ==
  \A p \in Pids : group[p].of = n =>
    /\ duty[n] = "ended" => ~Alive(group[p])
    /\ record[n] = "none" => ~Alive(group[p]) \/ (duty[n] = "unfound" /\ group[p].leader # "runs")

\* The record and the pid that Core has at each stage.
OnRecord(n) ==
  /\ record[n] = "none" => duty[n] \in {"none", "over", "unfound"}
  /\ duty[n] = "claimed" => record[n] = "pending"
  /\ duty[n] \in {"spawned", "named", "serving", "kept", "ending", "told", "warned", "killed",
                  "hunted", "chased"} => pidOf[n] \in Pids

\* The inductive invariant.
OwnInv ==
  /\ OwnTypeOK
  /\ \A n \in Launches : OneGroup(n) /\ NothingLeft(n) /\ OnRecord(n)

USE WorkerOwnershipAssumption DEF OwnTypeOK, Stages

(* There is no group and no record.                                        *)
LEMMA InitOwn == OwnInit => OwnInv
  BY DEF OwnInit, OwnInv, NoGroup, Groups, OneGroup, NothingLeft, OnRecord

(* Who the members of a group are.                                             *)
LEMMA MembersAre ==
  ASSUME NEW p
  PROVE  (Members(p) = {} <=> ~Alive(group[p]))
         /\ ("leader" \in Members(p) <=> group[p].leader = "runs")
  BY DEF Members, Alive

\* No group of a launch appears, and none comes to life again.
Shrinks ==
  /\ group' \in [Pids -> Groups]
  /\ \A p \in Pids, n \in Launches : group'[p].of = n =>
       /\ group[p].of = n
       /\ group'[p].leader = "runs" => group[p].leader = "runs"
       /\ Alive(group'[p]) => Alive(group[p])

(* One group is replaced.                                                      *)
LEMMA OneShrinks ==
  ASSUME OwnTypeOK, NEW p \in Pids, NEW g \in Groups, group' = [group EXCEPT ![p] = g],
         g.of \in Launches => /\ g.of = group[p].of
                              /\ g.leader = "runs" => group[p].leader = "runs"
                              /\ Alive(g) => Alive(group[p])
  PROVE  Shrinks
  BY DEF Shrinks

(* Three ways to shrink: no group changes,                                 *)
LEMMA UnchangedShrinks ==
  ASSUME OwnTypeOK, UNCHANGED group
  PROVE  Shrinks
  BY DEF Shrinks

(* one is killed,                                                          *)
LEMMA KillShrinks ==
  ASSUME OwnTypeOK, NEW p \in Pids, KillGroup(p)
  PROVE  Shrinks /\ \A n \in Launches : group'[p].of = n => ~Alive(group'[p])
<1> DEFINE g == IF group[p].leader = "gone" THEN NoGroup
                ELSE [group[p] EXCEPT !.helper = FALSE, !.leader = "zombie"]
<1>1. group[p] \in Groups
  OBVIOUS
<1>2. g \in Groups /\ ~Alive(g) /\ g.leader # "runs" /\ g.of \in {group[p].of, Unused}
  BY <1>1 DEF Groups, NoGroup, Alive
<1>3. group' = [group EXCEPT ![p] = g]
  BY DEF KillGroup
<1> HIDE DEF g
<1>4. Shrinks
  BY <1>2, <1>3, OneShrinks
<1> QED
  BY <1>2, <1>3, <1>4

(* or processes of the machine come and go.                                *)
LEMMA MachineShrinks ==
  ASSUME OwnTypeOK, NEW p \in Pids, MachineStep(p)
  PROVE  Shrinks
<1>1. group[p] \in Groups
  OBVIOUS
<1>2. ASSUME NEW g \in Groups, group' = [group EXCEPT ![p] = g],
             g.of = group[p].of \/ g.of \in {Stranger, Unused},
             g.leader = "runs" => group[p].leader = "runs" \/ g.of = Stranger,
             g.helper => group[p].helper \/ group[p].leader = "runs"
      PROVE  Shrinks
  BY <1>1, <1>2, OneShrinks DEF Alive, Groups
<1>3. CASE HelperStarts(p)
  <2>1. [group[p] EXCEPT !.helper = TRUE] \in Groups
    BY <1>1 DEF Groups
  <2>2. group' = [group EXCEPT ![p] = [group[p] EXCEPT !.helper = TRUE]]
    BY <1>1, <1>3 DEF HelperStarts
  <2> QED
    BY <1>1, <1>2, <1>3, <2>1, <2>2 DEF HelperStarts, Groups
<1>4. CASE LeaderExits(p)
  <2>1. [group[p] EXCEPT !.leader = "zombie"] \in Groups
    BY <1>1 DEF Groups
  <2>2. group' = [group EXCEPT ![p] = [group[p] EXCEPT !.leader = "zombie"]]
    BY <1>1, <1>4 DEF LeaderExits
  <2> QED
    BY <1>1, <1>2, <2>1, <2>2 DEF Groups
<1>5. CASE LeaderIsReaped(p)
  <2> DEFINE g == IF group[p].helper THEN [group[p] EXCEPT !.leader = "gone"] ELSE NoGroup
  <2>1. g \in Groups /\ g.of \in {group[p].of, Unused} /\ g.leader = "gone"
          /\ (g.helper => group[p].helper)
    BY <1>1 DEF Groups, NoGroup
  <2>2. group' = [group EXCEPT ![p] = g]
    BY <1>1, <1>5 DEF LeaderIsReaped
  <2> HIDE DEF g
  <2> QED
    BY <1>1, <1>2, <2>1, <2>2
<1>6. CASE HelperExits(p)
  <2> DEFINE g == IF group[p].leader = "gone" THEN NoGroup ELSE [group[p] EXCEPT !.helper = FALSE]
  <2>1. /\ g \in Groups /\ g.of \in {group[p].of, Unused} /\ ~g.helper
        /\ g.leader = "runs" => group[p].leader = "runs"
    BY <1>1 DEF Groups, NoGroup
  <2>2. group' = [group EXCEPT ![p] = g]
    BY <1>1, <1>6 DEF HelperExits
  <2> HIDE DEF g
  <2> QED
    BY <1>1, <1>2, <2>1, <2>2
<1>7. CASE StrangerStarts(p)
  <2>1. [of |-> Stranger, leader |-> "runs", helper |-> FALSE] \in Groups
    BY DEF Groups
  <2> QED
    BY <1>2, <1>7, <2>1 DEF StrangerStarts
<1> QED
  BY <1>3, <1>4, <1>5, <1>6, <1>7 DEF MachineStep

(* What the machine does keeps the invariant.                              *)
LEMMA ShrinkKeeps ==
  ASSUME OwnInv, Shrinks, UNCHANGED <<record, duty, pidOf, looked, registered>>
  PROVE  OwnInv'
  BY DEF OwnInv, Shrinks, OneGroup, NothingLeft, OnRecord

\* A step of one launch, whose files and tables have their types.
StepOf(n) ==
  /\ Shrinks /\ duty' \in [Launches -> Stages]
       /\ record' \in [Launches -> {"none", "pending"} \cup Pids]
  /\ pidOf' \in [Launches -> Pids \cup {Unused}] /\ looked' \in [Launches -> Groups]
  /\ registered' \subseteq Launches
  /\ \A m \in Launches \ {n} : UNCHANGED <<record[m], duty[m], pidOf[m]>>

(* What one launch does leaves the others alone.                               *)
LEMMA StepKeeps ==
  ASSUME OwnInv, NEW n \in Launches, StepOf(n), OneGroup(n)', NothingLeft(n)', OnRecord(n)'
  PROVE  OwnInv'
<1>1. OwnTypeOK'
  BY DEF StepOf, Shrinks
<1>2. \A m \in Launches \ {n} : OneGroup(m)' /\ NothingLeft(m)' /\ OnRecord(m)'
  BY SMTT(30) DEF OwnInv, StepOf, Shrinks, OneGroup, NothingLeft, OnRecord
<1> QED
  BY <1>1, <1>2 DEF OwnInv

(* A launch is left off: the pid that Core knows stays or goes.                *)
LEMMA LeaveOffFacts ==
  ASSUME OwnTypeOK, NEW n \in Launches, NEW stage \in Stages, LeaveOff(n, stage)
  PROVE  /\ duty' \in [Launches -> Stages] /\ duty'[n] = stage
         /\ pidOf' \in [Launches -> Pids \cup {Unused}] /\ pidOf'[n] \in {pidOf[n], Unused}
         /\ n \in registered => pidOf'[n] = pidOf[n]
         /\ looked' \in [Launches -> Groups]
         /\ \A m \in Launches \ {n} : UNCHANGED <<duty[m], pidOf[m]>>
<1>1. NoGroup \in Groups
  BY DEF NoGroup, Groups
<1> QED
  BY <1>1 DEF LeaveOff

(* The sweep has found the group of a record,                              *)
LEMMA HuntFacts ==
  ASSUME OwnTypeOK, NEW n \in Launches, NEW p \in Pids, Hunt(n, p)
  PROVE  /\ duty' \in [Launches -> Stages] /\ duty'[n] = "hunted"
         /\ pidOf' \in [Launches -> Pids \cup {Unused}] /\ pidOf'[n] = p
         /\ looked' \in [Launches -> Groups]
         /\ \A m \in Launches \ {n} : UNCHANGED <<duty[m], pidOf[m]>>
  BY DEF Hunt, Look, Duty

(* or its record goes.                                                     *)
LEMMA ForgetFacts ==
  ASSUME OwnTypeOK, NEW n \in Launches, NEW stage \in Stages, ForgetRecord(n, stage)
  PROVE  /\ LeaveOff(n, stage)
         /\ record' \in [Launches -> {"none", "pending"} \cup Pids] /\ record'[n] = "none"
         /\ \A m \in Launches \ {n} : UNCHANGED record[m]
  BY DEF ForgetRecord

(* An end that could not be verified leaves the record where it is.        *)
LEMMA UncertainFacts ==
  ASSUME OwnInv, NEW n \in Launches, duty[n] \in Ending, Uncertain(n), Shrinks,
         UNCHANGED <<record, registered>>
  PROVE  OwnInv'
<1>1. PICK stage \in {"kept", "stray"} : LeaveOff(n, stage) /\ (stage = "kept" <=> n \in registered)
  BY DEF Uncertain
<1>2. StepOf(n)
  BY <1>1, LeaveOffFacts DEF OwnInv, StepOf
<1>3. /\ duty'[n] \in {"kept", "stray"} /\ pidOf'[n] \in {pidOf[n], Unused}
      /\ duty'[n] = "kept" => pidOf'[n] = pidOf[n]
  BY <1>1, LeaveOffFacts DEF OwnInv
<1>4. pidOf[n] \in Pids
  BY DEF OwnInv, OnRecord, Ending
<1>5. OneGroup(n)'
  BY <1>3, <1>4 DEF OwnInv, Shrinks, OneGroup
<1>6. NothingLeft(n)'
  BY <1>3 DEF OwnInv, Shrinks, NothingLeft, Ending
<1>7. OnRecord(n)'
  BY <1>3, <1>4 DEF OwnInv, OnRecord, Ending
<1> QED
  BY <1>2, <1>5, <1>6, <1>7, StepKeeps

(* Each step of a launch, of an end and of a sweep keeps the invariant.    *)
LEMMA WritePendingKeeps ==
  ASSUME OwnInv, NEW n \in Launches, WritePending(n)
  PROVE  OwnInv'
<1>1. StepOf(n)
  BY UnchangedShrinks DEF OwnInv, StepOf, WritePending, Duty
<1>2. OneGroup(n)' /\ NothingLeft(n)' /\ OnRecord(n)'
  BY DEF OwnInv, OneGroup, NothingLeft, OnRecord, WritePending, Duty
<1> QED
  BY <1>1, <1>2, StepKeeps

LEMMA SpawnFailsKeeps ==
  ASSUME OwnInv, NEW n \in Launches, SpawnFails(n)
  PROVE  OwnInv'
<1>1. StepOf(n)
  BY UnchangedShrinks DEF OwnInv, StepOf, SpawnFails, Duty
<1>2. OneGroup(n)' /\ NothingLeft(n)' /\ OnRecord(n)'
  BY DEF OwnInv, OneGroup, NothingLeft, OnRecord, SpawnFails, Duty
<1> QED
  BY <1>1, <1>2, StepKeeps

LEMMA AdmitKeeps ==
  ASSUME OwnInv, NEW n \in Launches, Admit(n)
  PROVE  OwnInv'
<1>1. StepOf(n)
  BY UnchangedShrinks DEF OwnInv, StepOf, Admit, Duty
<1>2. OneGroup(n)' /\ NothingLeft(n)' /\ OnRecord(n)'
  BY DEF OwnInv, OneGroup, NothingLeft, OnRecord, Admit, Duty
<1> QED
  BY <1>1, <1>2, StepKeeps

LEMMA EndOwnedKeeps ==
  ASSUME OwnInv, NEW n \in Launches, EndOwned(n)
  PROVE  OwnInv'
<1>1. StepOf(n)
  BY UnchangedShrinks DEF OwnInv, StepOf, EndOwned, Duty
<1>2. OneGroup(n)' /\ NothingLeft(n)' /\ OnRecord(n)'
  BY DEF OwnInv, OneGroup, NothingLeft, OnRecord, EndOwned, Duty
<1> QED
  BY <1>1, <1>2, StepKeeps

LEMMA SpawnWorkerKeeps ==
  ASSUME OwnInv, NEW n \in Launches, SpawnWorker(n)
  PROVE  OwnInv'
<1>1. PICK p \in Pids : /\ group[p] = NoGroup
                        /\ group' = [group EXCEPT ![p] = [of |-> n, leader |-> "runs", helper |-> FALSE]]
                        /\ pidOf' = [pidOf EXCEPT ![n] = p]
  BY DEF SpawnWorker
<1>2. [of |-> n, leader |-> "runs", helper |-> FALSE] \in Groups
  BY DEF Groups
<1>3. duty[n] = "claimed" /\ Duty(n, "spawned") /\ UNCHANGED <<record, looked, registered>>
  BY DEF SpawnWorker
<1>4. OwnTypeOK'
  BY <1>1, <1>2, <1>3 DEF OwnInv, Duty
<1>5. \A m \in Launches \ {n} : OneGroup(m)' /\ NothingLeft(m)' /\ OnRecord(m)'
  BY <1>1, <1>3 DEF OwnInv, OneGroup, NothingLeft, OnRecord, Duty
<1>6. OneGroup(n)' /\ NothingLeft(n)' /\ OnRecord(n)'
  BY <1>1, <1>3 DEF OwnInv, OneGroup, NothingLeft, OnRecord, Duty
<1> QED
  BY <1>4, <1>5, <1>6 DEF OwnInv

LEMMA FinalizeKeeps ==
  ASSUME OwnInv, NEW n \in Launches, Finalize(n)
  PROVE  OwnInv'
<1>1. pidOf[n] \in Pids
  BY DEF Finalize, OwnInv, OnRecord
<1>2. StepOf(n)
  BY <1>1, UnchangedShrinks DEF OwnInv, StepOf, Finalize, Duty
<1>3. OneGroup(n)' /\ NothingLeft(n)' /\ OnRecord(n)'
  BY <1>1 DEF OwnInv, OneGroup, NothingLeft, OnRecord, Finalize, Duty
<1> QED
  BY <1>2, <1>3, StepKeeps

LEMMA ContainKeeps ==
  ASSUME OwnInv, NEW n \in Launches, Contain(n)
  PROVE  OwnInv'
<1>1. duty[n] = "ending" /\ UNCHANGED <<group, record, registered>> /\ pidOf[n] \in Pids
  BY DEF Contain, OwnInv, OnRecord
<1>2. CASE Uncertain(n)
  BY <1>1, <1>2, UncertainFacts, UnchangedShrinks DEF OwnInv, Ending
<1>3. CASE Look(n, pidOf[n]) /\ Duty(n, "told") /\ UNCHANGED pidOf
  <2>1. StepOf(n)
    BY <1>1, <1>3, UnchangedShrinks DEF OwnInv, StepOf, Look, Duty
  <2>2. OneGroup(n)' /\ NothingLeft(n)' /\ OnRecord(n)'
    BY <1>1, <1>3 DEF OwnInv, OneGroup, NothingLeft, OnRecord, Duty
  <2> QED
    BY <2>1, <2>2, StepKeeps
<1> QED
  BY <1>2, <1>3 DEF Contain

LEMMA SignalGroupKeeps ==
  ASSUME OwnInv, NEW n \in Launches, SignalGroup(n)
  PROVE  OwnInv'
<1>1. duty[n] = "told" /\ UNCHANGED <<record, registered>> /\ pidOf[n] \in Pids
  BY DEF SignalGroup, OwnInv, OnRecord
<1>2. CASE Uncertain(n) /\ UNCHANGED group
  BY <1>1, <1>2, UncertainFacts, UnchangedShrinks DEF OwnInv, Ending
<1>3. CASE (KillGroup(pidOf[n]) \/ UNCHANGED group) /\ Duty(n, "warned")
             /\ UNCHANGED <<pidOf, looked>>
  <2>1. Shrinks
    BY <1>1, <1>3, KillShrinks, UnchangedShrinks DEF OwnInv
  <2>2. StepOf(n)
    BY <1>1, <1>3, <2>1 DEF OwnInv, StepOf, Duty
  <2>3. OneGroup(n)' /\ NothingLeft(n)' /\ OnRecord(n)'
    BY <1>1, <1>3, <2>1 DEF OwnInv, Shrinks, OneGroup, NothingLeft, OnRecord, Duty
  <2> QED
    BY <2>2, <2>3, StepKeeps
<1> QED
  BY <1>2, <1>3 DEF SignalGroup

LEMMA EscalateKeeps ==
  ASSUME OwnInv, NEW n \in Launches, Escalate(n)
  PROVE  OwnInv'
<1>1. duty[n] = "warned" /\ UNCHANGED <<record, registered>> /\ pidOf[n] \in Pids
  BY DEF Escalate, OwnInv, OnRecord
<1>2. CASE Uncertain(n) /\ UNCHANGED group
  BY <1>1, <1>2, UncertainFacts, UnchangedShrinks DEF OwnInv, Ending
<1>3. CASE KillGroup(pidOf[n]) /\ Duty(n, "killed") /\ UNCHANGED <<pidOf, looked>>
  <2>1. Shrinks
    BY <1>1, <1>3, KillShrinks, UnchangedShrinks DEF OwnInv
  <2>2. StepOf(n)
    BY <1>1, <1>3, <2>1 DEF OwnInv, StepOf, Duty
  <2>3. OneGroup(n)' /\ NothingLeft(n)' /\ OnRecord(n)'
    BY <1>1, <1>3, <2>1 DEF OwnInv, Shrinks, OneGroup, NothingLeft, OnRecord, Duty
  <2> QED
    BY <2>2, <2>3, StepKeeps
<1> QED
  BY <1>2, <1>3 DEF Escalate

(* The files go once nothing is left.                                          *)
LEMMA RemoveFilesKeeps ==
  ASSUME OwnInv, NEW n \in Launches, RemoveFiles(n), duty[n] \in {"warned", "killed", "ended"},
         \A p \in Pids : group[p].of = n => ~Alive(group[p])
  PROVE  OwnInv'
<1>1. NoGroup \in Groups
  BY DEF NoGroup, Groups
<1>2. StepOf(n)
  BY <1>1, UnchangedShrinks DEF OwnInv, StepOf, RemoveFiles, Duty
<1>3. OneGroup(n)' /\ NothingLeft(n)' /\ OnRecord(n)'
  BY DEF OwnInv, OneGroup, NothingLeft, OnRecord, RemoveFiles, Duty
<1> QED
  BY <1>2, <1>3, StepKeeps

LEMMA GroupEndedKeeps ==
  ASSUME OwnInv, NEW n \in Launches, GroupEnded(n)
  PROVE  OwnInv'
<1>1. duty[n] \in {"warned", "killed"} /\ NoMembers(pidOf[n]) /\ RemoveFiles(n) /\ pidOf[n] \in Pids
  BY DEF GroupEnded, OwnInv, OnRecord
<1>2. ~Alive(group[pidOf[n]])
  BY <1>1, MembersAre DEF NoMembers
<1>3. \A p \in Pids : group[p].of = n => ~Alive(group[p])
  BY <1>1, <1>2 DEF OwnInv, OneGroup
<1> QED
  BY <1>1, <1>3, RemoveFilesKeeps

LEMMA EndAgainKeeps ==
  ASSUME OwnInv, NEW n \in Launches, EndAgain(n)
  PROVE  OwnInv'
  BY RemoveFilesKeeps DEF EndAgain, OwnInv, NothingLeft

LEMMA NeverEndedKeeps ==
  ASSUME OwnInv, NEW n \in Launches, NeverEnded(n)
  PROVE  OwnInv'
  BY UncertainFacts, UnchangedShrinks DEF NeverEnded, OwnInv, Ending

(* The sweep leaves a record for the next one.                                 *)
LEMMA StrayKeeps ==
  ASSUME OwnInv, NEW n \in Launches, duty[n] \in Sweeping, LeaveOff(n, "stray"),
         UNCHANGED <<group, record, registered>>
  PROVE  OwnInv'
<1>1. StepOf(n)
  BY LeaveOffFacts, UnchangedShrinks DEF OwnInv, StepOf
<1>2. OneGroup(n)' /\ NothingLeft(n)' /\ OnRecord(n)'
  BY LeaveOffFacts DEF OwnInv, OneGroup, NothingLeft, OnRecord, Sweeping
<1> QED
  BY <1>1, <1>2, StepKeeps

(* The sweep removes a record once nothing is left, or no leader that it could *)
(* have found.                                                                 *)
LEMMA ForgetKeeps ==
  ASSUME OwnInv, NEW n \in Launches, duty[n] \in Sweeping, NEW stage \in {"over", "unfound"},
         ForgetRecord(n, stage), Shrinks, UNCHANGED registered,
         \A p \in Pids : group'[p].of = n =>
           ~Alive(group'[p]) \/ (stage = "unfound" /\ group'[p].leader # "runs")
  PROVE  OwnInv'
<1>1. StepOf(n)
  BY ForgetFacts, LeaveOffFacts DEF OwnInv, StepOf
<1>2. OneGroup(n)' /\ NothingLeft(n)' /\ OnRecord(n)'
  BY SMTT(30), ForgetFacts, LeaveOffFacts
     DEF OwnInv, Shrinks, OneGroup, NothingLeft, OnRecord, Sweeping
<1> QED
  BY <1>1, <1>2, StepKeeps

LEMMA HuntKeeps ==
  ASSUME OwnInv, NEW n \in Launches, duty[n] = "sought", NEW p \in Pids, Hunt(n, p),
         \A q \in Pids : group[q].of = n => q = p,
         UNCHANGED <<group, record, registered>>
  PROVE  OwnInv'
<1>1. StepOf(n)
  BY HuntFacts, UnchangedShrinks DEF OwnInv, StepOf
<1>2. OneGroup(n)' /\ NothingLeft(n)' /\ OnRecord(n)'
  BY HuntFacts DEF OwnInv, OneGroup, NothingLeft, OnRecord
<1> QED
  BY <1>1, <1>2, StepKeeps

LEMMA SeekPendingKeeps ==
  ASSUME OwnInv, NEW n \in Launches, SeekPending(n)
  PROVE  OwnInv'
<1>1. duty[n] = "sought" /\ UNCHANGED <<group, registered>>
  BY DEF SeekPending
<1>2. CASE Claimants(n) = {} /\ ForgetRecord(n, "unfound")
  <2>1. \A p \in Pids : group[p].of = n => group[p].leader # "runs"
    BY <1>2, MembersAre DEF Claimants
  <2> QED
    BY <1>1, <1>2, <2>1, ForgetKeeps, UnchangedShrinks DEF OwnInv, Sweeping
<1>3. ASSUME NEW p \in Claimants(n), Hunt(n, p), UNCHANGED record PROVE OwnInv'
  <2>1. p \in Pids /\ \A q \in Pids : group[q].of = n => q = p
    BY DEF Claimants, OwnInv, OneGroup
  <2> QED
    BY <1>1, <1>3, <2>1, HuntKeeps
<1> QED
  BY <1>2, <1>3 DEF SeekPending

LEMMA SeekNamedKeeps ==
  ASSUME OwnInv, NEW n \in Launches, SeekNamed(n)
  PROVE  OwnInv'
<1> DEFINE p == record[n]
<1>1. duty[n] = "sought" /\ UNCHANGED <<group, registered>> /\ p \in Pids
  BY DEF SeekNamed, OwnInv, OnRecord
<1>2. \A q \in Pids : group[q].of = n => q = p
  BY <1>1 DEF OwnInv, OneGroup
<1>3. CASE LeaveOff(n, "stray") /\ UNCHANGED record
  BY <1>1, <1>3, StrayKeeps DEF Sweeping
<1>4. CASE NoMembers(p) /\ ForgetRecord(n, "over")
  <2>1. ~Alive(group[p])
    BY <1>4, MembersAre DEF NoMembers
  <2> QED
    BY <1>1, <1>2, <1>4, <2>1, ForgetKeeps, UnchangedShrinks DEF OwnInv, Sweeping
<1>5. CASE Hunt(n, p) /\ UNCHANGED record
  BY <1>1, <1>2, <1>5, HuntKeeps
<1> QED
  BY <1>3, <1>4, <1>5 DEF SeekNamed

LEMMA WarnKeeps ==
  ASSUME OwnInv, NEW n \in Launches, Warn(n)
  PROVE  OwnInv'
<1>1. duty[n] = "hunted" /\ UNCHANGED <<group, record, registered>>
  BY DEF Warn
<1>2. CASE Duty(n, "chased") /\ UNCHANGED <<pidOf, looked>>
  <2>1. StepOf(n)
    BY <1>1, <1>2, UnchangedShrinks DEF OwnInv, StepOf, Duty
  <2>2. OneGroup(n)' /\ NothingLeft(n)' /\ OnRecord(n)'
    BY <1>1, <1>2 DEF OwnInv, OneGroup, NothingLeft, OnRecord, Duty
  <2> QED
    BY <2>1, <2>2, StepKeeps
<1>3. CASE LeaveOff(n, "stray")
  BY <1>1, <1>3, StrayKeeps DEF Sweeping
<1> QED
  BY <1>2, <1>3 DEF Warn

LEMMA ChaseKeeps ==
  ASSUME OwnInv, NEW n \in Launches, Chase(n)
  PROVE  OwnInv'
<1> DEFINE p == pidOf[n]
<1>1. duty[n] = "chased" /\ UNCHANGED registered /\ p \in Pids
  BY DEF Chase, OwnInv, OnRecord
<1>2. CASE KillGroup(p) /\ ForgetRecord(n, "over")
  <2>1. Shrinks /\ (group'[p].of = n => ~Alive(group'[p]))
    BY <1>1, <1>2, KillShrinks DEF OwnInv
  <2>2. \A q \in Pids : group'[q].of = n => q = p
    BY <1>1, <2>1 DEF OwnInv, OneGroup, Shrinks
  <2> QED
    BY <1>1, <1>2, <2>1, <2>2, ForgetKeeps DEF Sweeping
<1>3. CASE LeaveOff(n, "stray") /\ UNCHANGED <<group, record>>
  BY <1>1, <1>3, StrayKeeps DEF Sweeping
<1> QED
  BY <1>2, <1>3 DEF Chase

(* Core, and the start of a sweep.                                             *)
LEMMA SweepRecordsKeeps ==
  ASSUME OwnInv, SweepRecords
  PROVE  OwnInv'
  BY DEF SweepRecords, OwnInv, OneGroup, NothingLeft, OnRecord

(* Core is gone: the records are all that is left of its launches.         *)
LEMMA CoreIsGoneKeeps ==
  ASSUME OwnInv, CoreIsGone
  PROVE  OwnInv'
<1>1. NoGroup \in Groups
  BY DEF NoGroup, Groups
<1>2. \A n \in Launches : pidOf'[n] = Unused
                          /\ duty'[n] = IF record[n] = "none" THEN duty[n] ELSE "stray"
  BY DEF CoreIsGone
<1>3. OwnTypeOK'
  BY <1>1 DEF CoreIsGone, OwnInv
<1>4. ASSUME NEW n \in Launches PROVE OneGroup(n)' /\ NothingLeft(n)' /\ OnRecord(n)'
  BY <1>2 DEF CoreIsGone, OwnInv, OneGroup, NothingLeft, OnRecord
<1> QED
  BY <1>3, <1>4 DEF OwnInv

(* Every step keeps the invariant.                                         *)
LEMMA OwnNextKeeps == OwnInv /\ [OwnNext]_ownVars => OwnInv'
<1> SUFFICES ASSUME OwnInv, [OwnNext]_ownVars PROVE OwnInv'
  OBVIOUS
<1>1. CASE UNCHANGED ownVars
  BY <1>1, ShrinkKeeps, UnchangedShrinks DEF ownVars, OwnInv
<1>2. ASSUME NEW n \in Launches, LaunchStep(n) \/ EndStep(n) \/ SweepStep(n) PROVE OwnInv'
  BY <1>2, WritePendingKeeps, SpawnWorkerKeeps, SpawnFailsKeeps, FinalizeKeeps,
     AdmitKeeps,
     EndOwnedKeeps, ContainKeeps, SignalGroupKeeps, EscalateKeeps, GroupEndedKeeps,
     EndAgainKeeps, NeverEndedKeeps, SeekPendingKeeps, SeekNamedKeeps, WarnKeeps, ChaseKeeps
  DEF LaunchStep, EndStep, SweepStep
<1>3. ASSUME NEW p \in Pids, MachineStep(p) PROVE OwnInv'
  BY <1>3, MachineShrinks, ShrinkKeeps DEF MachineStep, OwnInv
<1> QED
  BY <1>1, <1>2, <1>3, SweepRecordsKeeps, CoreIsGoneKeeps DEF OwnNext

(* The inductive invariant of groups and records holds.                    *)
LEMMA OwnInvariant == OwnSpec => []OwnInv
  BY InitOwn, OwnNextKeeps, PTL DEF OwnSpec

(* A process group that a launch spawned and that still runs has its       *)
(* record, unless the sweep found no claimant of a pending one.            *)
THEOREM GroupsKeepTheirRecords == OwnSpec => []GroupKeepsItsRecord
<1>1. OwnInv => GroupKeepsItsRecord
  BY MembersAre DEF OwnInv, NothingLeft, GroupKeepsItsRecord, Alive
<1> QED
  BY OwnInvariant, <1>1, PTL

(* Every step that signals looks at the leader first.                          *)
LEMMA SignalsAreVerified ==
  ASSUME OwnInv, OwnNext, NEW n \in Launches, Signals(n), group[pidOf[n]].leader = "runs"
  PROVE  group[pidOf[n]].of = n
<1>1. ASSUME NEW m \in Launches, LaunchStep(m) \/ EndStep(m) \/ SweepStep(m)
      PROVE  m = n /\ (SignalGroup(n) \/ Escalate(n) \/ Warn(n) \/ Chase(n))
  BY <1>1 DEF OwnInv, Signals, LaunchStep, EndStep, SweepStep, WritePending, SpawnWorker,
       SpawnFails, Finalize, Admit, EndOwned, Contain, GroupEnded, EndAgain, NeverEnded,
         SeekPending,
       SeekNamed, Duty, LeaveOff, Uncertain, RemoveFiles, ForgetRecord, Hunt,
       SignalGroup, Escalate, Warn, Chase
<1>2. ~SweepRecords /\ ~CoreIsGone /\ \A p \in Pids : ~MachineStep(p)
  BY DEF Signals, SweepRecords, CoreIsGone, MachineStep
<1>3. SignalGroup(n) \/ Escalate(n) \/ Warn(n) \/ Chase(n)
  BY <1>1, <1>2 DEF OwnNext
<1>4. Verified(n, pidOf[n])
  BY <1>3 DEF Signals, OwnInv, SignalGroup, Escalate, Warn, Chase, Unchanged, Uncertain,
              LeaveOff
<1> QED
  BY <1>4, MembersAre DEF Verified

(* No step signals a group that another program or another Worker leads:   *)
(* the pid that Core holds is still that of the launch when the signal is  *)
(* sent.                                                                   *)
THEOREM SignalsAlwaysMeetTheWorker == OwnSpec => SignalsMeetTheWorker
<1>1. OwnInv /\ [OwnNext]_ownVars =>
        [\A n \in Launches :
           Signals(n) /\ group[pidOf[n]].leader = "runs" => group[pidOf[n]].of = n]_ownVars
  BY SignalsAreVerified
<1> QED
  BY OwnInvariant, <1>1, PTL DEF OwnSpec, SignalsMeetTheWorker

HIDE WorkerOwnershipAssumption DEF OwnTypeOK, Stages

-----------------------------------------------------------------------------
(* WorkerSynthesis.  Nothing of a lease runs on once it was given back,    *)
(* for any number of leases, pieces and late callbacks.                    *)

\* The lease that uses the model.
Using(s) == lease[s] \in {"open", "closing", "unloading"}

\* One lease at a time, and what it has asked the Worker.
OneLease ==
  /\ \A s, q \in Synths : lease[s] \in Held /\ lease[q] \in Held => s = q
  /\ \A s \in Synths :
       /\ lease[s] \in {"loaded", "open"} => rpc = "none"
       /\ lease[s] \in {"closing", "unloading"} => rpc # "load"
       /\ lease[s] = "loading" => rpc \notin {"none", "unload"}
  /\ (\A s \in Synths : lease[s] \notin Held) => rpc = "none"

\* What holds up the loop, and what answers say of the model.
LoopAndAnswers ==
  /\ loop = "load" => rpc = "load"
  /\ loop = "unload" => rpc = "unload" /\ loaded /\ ~quarantined
  /\ \A s \in Synths :
       /\ lease[s] = "loading" /\ rpc = "yes" => loop = "free" /\ loaded
       /\ lease[s] = "loaded" \/ Using(s) => loop \notin {"load", "late"}
       /\ Using(s) /\ rpc = "yes" => ~loaded

\* A thread that starts while a model is loaded is one of the lease; who infers has the lock.
ThreadsOfTheLease ==
  \A s \in Synths :
    /\ lease[s] \in {"loading", "loaded"} => producing[s] = "off"
    /\ producing[s] = "start" => ~loaded \/ Using(s)
    /\ producing[s] = "infer" \/ (producing[s] = "put" /\ item[s] \in 1 .. Pieces) => inference = s
    /\ put[s] # "none" => producing[s] = "put"
    /\ stale[s] <= lapses

\* Nobody infers, and nothing is quarantined, without a loaded model and a lease that uses it.
BusyInLease == inference # Blank \/ quarantined => loaded /\ \E s \in Synths : Using(s)

\* The inductive invariant.
SynthInv ==
  SynthTypeOK /\ OneLease /\ LoopAndAnswers /\ ThreadsOfTheLease /\ BusyInLease

USE SynthesisAssumption
    DEF LeaseIs, ProducerIs, PutIs, HandlerIs, VerdictIs, Enqueued, Held, InForce, Using,
        leaseVars, workerVars, threadVars, handlerVars

(* Nothing is loaded and nothing runs.                                     *)
LEMMA InitSynth == SynthInit => SynthInv
<1> SUFFICES ASSUME SynthInit PROVE SynthInv
  OBVIOUS
<1>1. 1 \in 0..Done /\ 0 \in 0..MaxLate /\ Blank \in 0..Done \cup {Blank} /\ <<>> \in Seq(1..Pieces)
  BY DEF Done
<1>2. SynthTypeOK
  BY <1>1 DEF SynthInit, SynthTypeOK, Quiet
<1>3. OneLease /\ LoopAndAnswers /\ ThreadsOfTheLease /\ BusyInLease
  BY DEF SynthInit, OneLease, LoopAndAnswers, ThreadsOfTheLease, BusyInLease
<1> QED
  BY <1>2, <1>3 DEF SynthInv

(* What the loop does with a load or an unload keeps the invariant,        *)
LEMMA BeginLoadKeeps ==
  ASSUME SynthInv, BeginLoad
  PROVE  SynthInv'
<1>1. SynthTypeOK'
  BY DEF SynthInv, SynthTypeOK, Quiet, Done, BeginLoad
<1>2. OneLease'
  BY DEF SynthInv, SynthTypeOK, OneLease, Quiet, BeginLoad
<1>3. LoopAndAnswers'
  BY DEF SynthInv, SynthTypeOK, LoopAndAnswers, OneLease, BeginLoad
<1>4. ThreadsOfTheLease'
  BY DEF SynthInv, SynthTypeOK, ThreadsOfTheLease, OneLease, LoopAndAnswers, BusyInLease,
         Quiet, BeginLoad
<1>5. BusyInLease'
  BY DEF SynthInv, SynthTypeOK, BusyInLease, OneLease, LoopAndAnswers, ThreadsOfTheLease,
         BeginLoad
<1> QED
  BY <1>1, <1>2, <1>3, <1>4, <1>5 DEF SynthInv

LEMMA EndLoadKeeps ==
  ASSUME SynthInv, EndLoad
  PROVE  SynthInv'
<1>1. SynthTypeOK'
  BY DEF SynthInv, SynthTypeOK, Quiet, Done, EndLoad
<1>2. OneLease'
  BY DEF SynthInv, OneLease, LoopAndAnswers, EndLoad
<1>3. LoopAndAnswers'
  BY DEF SynthInv, SynthTypeOK, LoopAndAnswers, OneLease, EndLoad
<1>4. ThreadsOfTheLease'
  BY DEF SynthInv, SynthTypeOK, ThreadsOfTheLease, OneLease, LoopAndAnswers, BusyInLease,
         Quiet, EndLoad
<1>5. BusyInLease'
  BY DEF SynthInv, SynthTypeOK, BusyInLease, OneLease, LoopAndAnswers, ThreadsOfTheLease,
         EndLoad
<1> QED
  BY <1>1, <1>2, <1>3, <1>4, <1>5 DEF SynthInv

LEMMA BeginUnloadKeeps ==
  ASSUME SynthInv, BeginUnload
  PROVE  SynthInv'
<1>1. SynthTypeOK'
  BY DEF SynthInv, SynthTypeOK, Quiet, Done, BeginUnload
<1>2. OneLease'
  BY DEF SynthInv, SynthTypeOK, OneLease, Quiet, BeginUnload
<1>3. LoopAndAnswers'
  BY DEF SynthInv, SynthTypeOK, LoopAndAnswers, OneLease, BeginUnload
<1>4. ThreadsOfTheLease'
  BY DEF SynthInv, SynthTypeOK, ThreadsOfTheLease, OneLease, LoopAndAnswers, BusyInLease,
         Quiet, BeginUnload
<1>5. BusyInLease'
  BY DEF SynthInv, SynthTypeOK, BusyInLease, OneLease, LoopAndAnswers, ThreadsOfTheLease,
         BeginUnload
<1> QED
  BY <1>1, <1>2, <1>3, <1>4, <1>5 DEF SynthInv

LEMMA EndUnloadKeeps ==
  ASSUME SynthInv, EndUnload
  PROVE  SynthInv'
<1>1. SynthTypeOK'
  BY DEF SynthInv, SynthTypeOK, Quiet, Done, EndUnload
<1>2. OneLease'
  BY DEF SynthInv, OneLease, LoopAndAnswers, EndUnload
<1>3. LoopAndAnswers'
  BY DEF SynthInv, SynthTypeOK, LoopAndAnswers, OneLease, EndUnload
<1>4. ThreadsOfTheLease'
  BY DEF SynthInv, SynthTypeOK, ThreadsOfTheLease, OneLease, LoopAndAnswers, BusyInLease,
         Quiet, EndUnload
<1>5. BusyInLease'
  BY DEF SynthInv, SynthTypeOK, BusyInLease, OneLease, LoopAndAnswers, ThreadsOfTheLease,
         EndUnload
<1> QED
  BY <1>1, <1>2, <1>3, <1>4, <1>5 DEF SynthInv

(* and so does each step of a lease,                                       *)
LEMMA TakeLeaseKeeps ==
  ASSUME SynthInv, NEW s \in Synths, TakeLease(s)
  PROVE  SynthInv'
<1>1. SynthTypeOK'
  BY DEF SynthInv, SynthTypeOK, Quiet, Done, TakeLease
<1>2. OneLease'
  BY DEF SynthInv, SynthTypeOK, OneLease, Quiet, TakeLease
<1>3. LoopAndAnswers'
  BY DEF SynthInv, SynthTypeOK, LoopAndAnswers, OneLease, TakeLease
<1>4. ThreadsOfTheLease'
  BY DEF SynthInv, SynthTypeOK, ThreadsOfTheLease, OneLease, LoopAndAnswers, BusyInLease,
         Quiet, TakeLease
<1>5. BusyInLease'
  BY DEF SynthInv, SynthTypeOK, BusyInLease, OneLease, LoopAndAnswers, ThreadsOfTheLease,
         TakeLease
<1> QED
  BY <1>1, <1>2, <1>3, <1>4, <1>5 DEF SynthInv

LEMMA LoadReturnsKeeps ==
  ASSUME SynthInv, NEW s \in Synths, LoadReturns(s)
  PROVE  SynthInv'
<1>1. SynthTypeOK'
  BY DEF SynthInv, SynthTypeOK, Quiet, Done, LoadReturns
<1>2. OneLease'
  BY DEF SynthInv, SynthTypeOK, OneLease, Quiet, LoadReturns
<1>3. LoopAndAnswers'
  BY DEF SynthInv, SynthTypeOK, LoopAndAnswers, OneLease, LoadReturns
<1>4. ThreadsOfTheLease'
  BY DEF SynthInv, SynthTypeOK, ThreadsOfTheLease, OneLease, LoopAndAnswers, BusyInLease,
         Quiet, LoadReturns
<1>5. BusyInLease'
  BY DEF SynthInv, SynthTypeOK, BusyInLease, OneLease, LoopAndAnswers, ThreadsOfTheLease,
         LoadReturns
<1> QED
  BY <1>1, <1>2, <1>3, <1>4, <1>5 DEF SynthInv

LEMMA SynthesizeKeeps ==
  ASSUME SynthInv, NEW s \in Synths, Synthesize(s)
  PROVE  SynthInv'
<1>1. SynthTypeOK'
  BY DEF SynthInv, SynthTypeOK, Quiet, Done, Synthesize
<1>2. OneLease'
  BY DEF SynthInv, SynthTypeOK, OneLease, Quiet, Synthesize
<1>3. LoopAndAnswers'
  BY DEF SynthInv, SynthTypeOK, LoopAndAnswers, OneLease, Synthesize
<1>4. ThreadsOfTheLease'
  BY DEF SynthInv, SynthTypeOK, ThreadsOfTheLease, OneLease, LoopAndAnswers, BusyInLease,
         Quiet, Synthesize
<1>5. BusyInLease'
  BY DEF SynthInv, SynthTypeOK, BusyInLease, OneLease, LoopAndAnswers, ThreadsOfTheLease,
         Synthesize
<1> QED
  BY <1>1, <1>2, <1>3, <1>4, <1>5 DEF SynthInv

LEMMA CloseStreamKeeps ==
  ASSUME SynthInv, NEW s \in Synths, CloseStream(s)
  PROVE  SynthInv'
<1>1. SynthTypeOK'
  BY DEF SynthInv, SynthTypeOK, Quiet, Done, CloseStream, AfterClose
<1>2. OneLease'
  BY DEF SynthInv, SynthTypeOK, OneLease, Quiet, CloseStream, AfterClose
<1>3. LoopAndAnswers'
  BY DEF SynthInv, SynthTypeOK, LoopAndAnswers, OneLease, CloseStream, AfterClose
<1>4. ThreadsOfTheLease'
  BY DEF SynthInv, SynthTypeOK, ThreadsOfTheLease, OneLease, LoopAndAnswers, BusyInLease,
         Quiet, CloseStream, AfterClose
<1>5. BusyInLease'
  BY DEF SynthInv, SynthTypeOK, BusyInLease, OneLease, LoopAndAnswers, ThreadsOfTheLease,
         CloseStream, AfterClose
<1> QED
  BY <1>1, <1>2, <1>3, <1>4, <1>5 DEF SynthInv

LEMMA SkipSynthesisKeeps ==
  ASSUME SynthInv, NEW s \in Synths, SkipSynthesis(s)
  PROVE  SynthInv'
<1>1. SynthTypeOK'
  BY DEF SynthInv, SynthTypeOK, Quiet, Done, SkipSynthesis
<1>2. OneLease'
  BY DEF SynthInv, SynthTypeOK, OneLease, Quiet, SkipSynthesis
<1>3. LoopAndAnswers'
  BY DEF SynthInv, SynthTypeOK, LoopAndAnswers, OneLease, SkipSynthesis
<1>4. ThreadsOfTheLease'
  BY DEF SynthInv, SynthTypeOK, ThreadsOfTheLease, OneLease, LoopAndAnswers, BusyInLease,
         Quiet, SkipSynthesis
<1>5. BusyInLease'
  BY DEF SynthInv, SynthTypeOK, BusyInLease, OneLease, LoopAndAnswers, ThreadsOfTheLease,
         SkipSynthesis
<1> QED
  BY <1>1, <1>2, <1>3, <1>4, <1>5 DEF SynthInv

LEMMA AskUnloadKeeps ==
  ASSUME SynthInv, NEW s \in Synths, AskUnload(s)
  PROVE  SynthInv'
<1>1. SynthTypeOK'
  BY DEF SynthInv, SynthTypeOK, Quiet, Done, AskUnload
<1>2. OneLease'
  BY DEF SynthInv, SynthTypeOK, OneLease, Quiet, AskUnload
<1>3. LoopAndAnswers'
  BY DEF SynthInv, SynthTypeOK, LoopAndAnswers, OneLease, AskUnload
<1>4. ThreadsOfTheLease'
  BY DEF SynthInv, SynthTypeOK, ThreadsOfTheLease, OneLease, LoopAndAnswers, BusyInLease,
         Quiet, AskUnload
<1>5. BusyInLease'
  BY DEF SynthInv, SynthTypeOK, BusyInLease, OneLease, LoopAndAnswers, ThreadsOfTheLease,
         AskUnload
<1> QED
  BY <1>1, <1>2, <1>3, <1>4, <1>5 DEF SynthInv

LEMMA UnloadAnsweredKeeps ==
  ASSUME SynthInv, NEW s \in Synths, UnloadAnswered(s)
  PROVE  SynthInv'
<1>1. SynthTypeOK'
  BY DEF SynthInv, SynthTypeOK, Quiet, Done, UnloadAnswered
<1>2. OneLease'
  <2>1. /\ \A q \in Synths \ {s} : lease'[q] = lease[q]
        /\ lease[s] \in {"closing", "unloading"} /\ lease'[s] \in {"over", "closing"}
             /\ rpc' = "none"
    BY DEF SynthInv, SynthTypeOK, UnloadAnswered
  <2> QED
    BY <2>1 DEF SynthInv, OneLease
<1>3. LoopAndAnswers'
  BY DEF SynthInv, SynthTypeOK, LoopAndAnswers, OneLease, UnloadAnswered
<1>4. ThreadsOfTheLease'
  BY DEF SynthInv, SynthTypeOK, ThreadsOfTheLease, OneLease, LoopAndAnswers, BusyInLease,
         Quiet, UnloadAnswered
<1>5. BusyInLease'
  BY DEF SynthInv, SynthTypeOK, BusyInLease, OneLease, LoopAndAnswers, ThreadsOfTheLease,
         UnloadAnswered
<1> QED
  BY <1>1, <1>2, <1>3, <1>4, <1>5 DEF SynthInv

LEMMA HardStopKeeps ==
  ASSUME SynthInv, NEW s \in Synths, HardStop(s)
  PROVE  SynthInv'
<1>1. SynthTypeOK'
  <2>1. lease' \in [Synths -> Held \cup Quiet]
    BY DEF SynthInv, SynthTypeOK, HardStop, Quiet, Done
  <2>2. producing' \in [Synths -> {"off", "start", "infer", "put", "over"}]
    BY DEF SynthInv, SynthTypeOK, HardStop, Quiet, Done
  <2>3. handler' \in [Synths -> {"off", "next", "expire", "quiesce", "over"}]
    BY DEF SynthInv, SynthTypeOK, HardStop, Quiet, Done
  <2>4. put' \in [Synths -> {"none", "scheduled", "waiting", "done"}]
    BY DEF SynthInv, SynthTypeOK, HardStop, Quiet, Done
  <2>5. stale' \in [Synths -> 0..MaxLate]
    BY DEF SynthInv, SynthTypeOK, HardStop, Quiet, Done
  <2>6. queue' \in [Synths -> 0..Done \cup {Blank}]
    BY DEF SynthInv, SynthTypeOK, HardStop, Quiet, Done
  <2> QED
    BY <2>1, <2>2, <2>3, <2>4, <2>5, <2>6
       DEF SynthInv, SynthTypeOK, HardStop, Quiet, Done, Quiet
<1>2. OneLease'
  BY DEF SynthInv, SynthTypeOK, OneLease, Quiet, HardStop
<1>3. LoopAndAnswers'
  BY DEF SynthInv, SynthTypeOK, LoopAndAnswers, OneLease, HardStop
<1>4. ThreadsOfTheLease'
  BY DEF SynthInv, SynthTypeOK, ThreadsOfTheLease, OneLease, LoopAndAnswers, BusyInLease,
         Quiet, HardStop
<1>5. BusyInLease'
  BY DEF SynthInv, SynthTypeOK, BusyInLease, OneLease, LoopAndAnswers, ThreadsOfTheLease,
         HardStop
<1> QED
  BY <1>1, <1>2, <1>3, <1>4, <1>5 DEF SynthInv

(* each step of the thread that produces pieces,                           *)
LEMMA BeginInferenceKeeps ==
  ASSUME SynthInv, NEW s \in Synths, BeginInference(s)
  PROVE  SynthInv'
<1>1. SynthTypeOK'
  <2>1. item' \in [Synths -> 0..Done]
          /\ producing' \in [Synths -> {"off", "start", "infer", "put", "over"}]
    <3>1. 0 \in 0..Done
      BY DEF Done
    <3>2. item' = item \/ item' = [item EXCEPT ![s] = 0]
      BY DEF BeginInference, Puts, Error
    <3>3. \E step \in {"put", "infer"} : producing' = [producing EXCEPT ![s] = step]
      BY DEF BeginInference, Puts
    <3>4. /\ item \in [Synths -> 0..Done]
          /\ producing \in [Synths -> {"off", "start", "infer", "put", "over"}]
      BY DEF SynthInv, SynthTypeOK
    <3> QED
      BY <3>1, <3>2, <3>3, <3>4
  <2>2. put' \in [Synths -> {"none", "scheduled", "waiting", "done"}]
    BY DEF SynthInv, SynthTypeOK, BeginInference, Puts, Error, Done
  <2>3. inference' \in Synths \cup {Blank}
    BY DEF SynthInv, SynthTypeOK, BeginInference, Puts, Error, Done
  <2> QED
    BY <2>1, <2>2, <2>3
       DEF SynthInv, SynthTypeOK, BeginInference, Puts, Error, Done, Quiet
<1>2. OneLease'
  BY DEF SynthInv, SynthTypeOK, OneLease, Quiet, BeginInference, Puts, Error
<1>3. LoopAndAnswers'
  BY DEF SynthInv, SynthTypeOK, LoopAndAnswers, OneLease, BeginInference, Puts, Error
<1>4. ThreadsOfTheLease'
  BY SMTT(30) DEF SynthInv, SynthTypeOK, ThreadsOfTheLease, OneLease, LoopAndAnswers, BusyInLease,
         Quiet, BeginInference, Puts, Error
<1>5. BusyInLease'
  BY DEF SynthInv, SynthTypeOK, BusyInLease, OneLease, LoopAndAnswers, ThreadsOfTheLease,
         BeginInference, Puts, Error
<1> QED
  BY <1>1, <1>2, <1>3, <1>4, <1>5 DEF SynthInv

LEMMA InferKeeps ==
  ASSUME SynthInv, NEW s \in Synths, Infer(s)
  PROVE  SynthInv'
<1>1. SynthTypeOK'
  <2>1. item' \in [Synths -> 0..Done]
          /\ producing' \in [Synths -> {"off", "start", "infer", "put", "over"}]
    <3>1. 0 \in 0..Done /\ Done \in 0..Done /\ item[s] \in 0..Done
      BY DEF Done, SynthInv, SynthTypeOK
    <3>2. item' = item \/ \E what \in 0..Done : item' = [item EXCEPT ![s] = what]
      BY <3>1 DEF Infer, Puts, Error
    <3>3. \E step \in {"put", "over"} : producing' = [producing EXCEPT ![s] = step]
      BY DEF Infer, Puts
    <3>4. /\ item \in [Synths -> 0..Done]
          /\ producing \in [Synths -> {"off", "start", "infer", "put", "over"}]
      BY DEF SynthInv, SynthTypeOK
    <3> QED
      BY <3>2, <3>3, <3>4
  <2>2. put' \in [Synths -> {"none", "scheduled", "waiting", "done"}]
    BY DEF SynthInv, SynthTypeOK, Infer, Puts, Error, Done
  <2>3. inference' \in Synths \cup {Blank}
    BY DEF SynthInv, SynthTypeOK, Infer, Puts, Error, Done
  <2> QED
    BY <2>1, <2>2, <2>3 DEF SynthInv, SynthTypeOK, Infer, Puts, Error, Done, Quiet
<1>2. OneLease'
  BY DEF SynthInv, SynthTypeOK, OneLease, Quiet, Infer, Puts, Error, Done
<1>3. LoopAndAnswers'
  BY DEF SynthInv, SynthTypeOK, LoopAndAnswers, OneLease, Infer, Puts, Error, Done
<1>4. ThreadsOfTheLease'
  BY DEF SynthInv, SynthTypeOK, ThreadsOfTheLease, OneLease, LoopAndAnswers, BusyInLease,
         Quiet, Infer, Puts, Error, Done
<1>5. BusyInLease'
  BY DEF SynthInv, SynthTypeOK, BusyInLease, OneLease, LoopAndAnswers, ThreadsOfTheLease,
         Infer, Puts, Error, Done
<1> QED
  BY <1>1, <1>2, <1>3, <1>4, <1>5 DEF SynthInv

LEMMA SchedulePutKeeps ==
  ASSUME SynthInv, NEW s \in Synths, SchedulePut(s)
  PROVE  SynthInv'
<1>1. SynthTypeOK'
  BY DEF SynthInv, SynthTypeOK, Quiet, Done, SchedulePut, Unless
<1>2. OneLease'
  BY DEF SynthInv, SynthTypeOK, OneLease, Quiet, SchedulePut, Unless
<1>3. LoopAndAnswers'
  BY DEF SynthInv, SynthTypeOK, LoopAndAnswers, OneLease, SchedulePut, Unless
<1>4. ThreadsOfTheLease'
  BY SMTT(30) DEF SynthInv, SynthTypeOK, ThreadsOfTheLease, OneLease, LoopAndAnswers, BusyInLease,
         Quiet, SchedulePut, Unless
<1>5. BusyInLease'
  BY DEF SynthInv, SynthTypeOK, BusyInLease, OneLease, LoopAndAnswers, ThreadsOfTheLease,
         SchedulePut, Unless
<1> QED
  BY <1>1, <1>2, <1>3, <1>4, <1>5 DEF SynthInv

LEMMA PutExpiresKeeps ==
  ASSUME SynthInv, NEW s \in Synths, PutExpires(s)
  PROVE  SynthInv'
<1>1. SynthTypeOK'
  <2>1. stale' \in [Synths -> 0..MaxLate]
    <3>1. CASE lapses < MaxLate /\ stale' = [stale EXCEPT ![s] = @ + 1]
      <4>1. stale[s] + 1 \in 0..MaxLate
        BY <3>1 DEF SynthInv, SynthTypeOK, ThreadsOfTheLease
      <4> QED
        BY <3>1, <4>1 DEF SynthInv, SynthTypeOK
    <3>2. CASE UNCHANGED stale
      BY <3>2 DEF SynthInv, SynthTypeOK
    <3> QED
      BY <3>1, <3>2 DEF PutExpires
  <2>2. lapses' \in 0..MaxLate
    BY DEF SynthInv, SynthTypeOK, PutExpires, ThreadsOfTheLease, Done
  <2>3. put' \in [Synths -> {"none", "scheduled", "waiting", "done"}]
    BY DEF SynthInv, SynthTypeOK, PutExpires, ThreadsOfTheLease, Done
  <2> QED
    BY <2>1, <2>2, <2>3
       DEF SynthInv, SynthTypeOK, PutExpires, ThreadsOfTheLease, Done, Quiet
<1>2. OneLease'
  BY DEF SynthInv, SynthTypeOK, OneLease, Quiet, PutExpires
<1>3. LoopAndAnswers'
  BY DEF SynthInv, SynthTypeOK, LoopAndAnswers, OneLease, PutExpires
<1>4. ThreadsOfTheLease'
  BY DEF SynthInv, SynthTypeOK, ThreadsOfTheLease, OneLease, LoopAndAnswers, BusyInLease,
         Quiet, PutExpires
<1>5. BusyInLease'
  BY DEF SynthInv, SynthTypeOK, BusyInLease, OneLease, LoopAndAnswers, ThreadsOfTheLease,
         PutExpires
<1> QED
  BY <1>1, <1>2, <1>3, <1>4, <1>5 DEF SynthInv

LEMMA AfterPutKeeps ==
  ASSUME SynthInv, NEW s \in Synths, AfterPut(s)
  PROVE  SynthInv'
<1>1. SynthTypeOK'
  <2>1. item' \in [Synths -> 0..Done]
    <3>1. item[s] \in 1..Pieces => item[s] + 1 \in 0..Done
      BY DEF Done
    <3>2. CASE item[s] \in 1..Pieces
      BY <3>1, <3>2 DEF SynthInv, SynthTypeOK, AfterPut
    <3>3. CASE item[s] \notin 1..Pieces
      BY <3>3 DEF SynthInv, SynthTypeOK, AfterPut
    <3> QED
      BY <3>2, <3>3
  <2>2. producing' \in [Synths -> {"off", "start", "infer", "put", "over"}]
    BY DEF SynthInv, SynthTypeOK, AfterPut, Done
  <2>3. put' \in [Synths -> {"none", "scheduled", "waiting", "done"}]
    BY DEF SynthInv, SynthTypeOK, AfterPut, Done
  <2> QED
    BY <2>1, <2>2, <2>3 DEF SynthInv, SynthTypeOK, AfterPut, Done, Quiet
<1>2. OneLease'
  BY DEF SynthInv, SynthTypeOK, OneLease, Quiet, AfterPut
<1>3. LoopAndAnswers'
  BY DEF SynthInv, SynthTypeOK, LoopAndAnswers, OneLease, AfterPut
<1>4. ThreadsOfTheLease'
  BY DEF SynthInv, SynthTypeOK, ThreadsOfTheLease, OneLease, LoopAndAnswers, BusyInLease,
         Quiet, AfterPut
<1>5. BusyInLease'
  BY DEF SynthInv, SynthTypeOK, BusyInLease, OneLease, LoopAndAnswers, ThreadsOfTheLease,
         AfterPut
<1> QED
  BY <1>1, <1>2, <1>3, <1>4, <1>5 DEF SynthInv

(* and each one of the handler on the loop, whose callbacks may be late.   *)
LEMMA RunPutKeeps ==
  ASSUME SynthInv, NEW s \in Synths, RunPut(s)
  PROVE  SynthInv'
<1>1. \/ stale' = [stale EXCEPT ![s] = @ - 1] /\ stale[s] > 0 /\ put' = put
      \/ stale' = stale /\ put[s] \in {"scheduled", "waiting"}
         /\ \E step \in {"waiting", "done"} : put' = [put EXCEPT ![s] = step]
  BY DEF RunPut
<1>2. stale' \in [Synths -> 0..MaxLate] /\ \A q \in Synths : stale'[q] <= stale[q]
  <2>1. stale[s] \in 0..MaxLate /\ (stale[s] > 0 => stale[s] - 1 \in 0..MaxLate)
    BY DEF SynthInv, SynthTypeOK
  <2>2. stale' = stale \/ (stale[s] > 0 /\ stale' = [stale EXCEPT ![s] = stale[s] - 1])
    BY <1>1
  <2>3. stale \in [Synths -> 0..MaxLate]
    BY DEF SynthInv, SynthTypeOK
  <2>4. stale' \in [Synths -> 0..MaxLate]
    BY <2>1, <2>2, <2>3
  <2> QED
    BY <2>1, <2>2, <2>3, <2>4
<1>3. /\ put' \in [Synths -> {"none", "scheduled", "waiting", "done"}]
      /\ \A q \in Synths : put'[q] # "none" => put[q] # "none"
  BY <1>1, ZenonT(40) DEF SynthInv, SynthTypeOK
<1>4. SynthTypeOK'
  <2>1. queue' = queue \/ queue' = [queue EXCEPT ![s] = item[s]]
    BY DEF RunPut
  <2>2. queue \in [Synths -> 0..Done \cup {Blank}] /\ item[s] \in 0..Done \cup {Blank}
    BY DEF SynthInv, SynthTypeOK
  <2>3. queue' \in [Synths -> 0..Done \cup {Blank}]
    BY <2>1, <2>2
  <2> QED
    BY <1>2, <1>3, <2>3 DEF SynthInv, SynthTypeOK, RunPut
<1>5. OneLease'
  BY DEF SynthInv, SynthTypeOK, OneLease, Quiet, RunPut
<1>6. LoopAndAnswers'
  BY DEF SynthInv, SynthTypeOK, LoopAndAnswers, OneLease, RunPut
<1>7. ThreadsOfTheLease'
  <2>1. \A q \in Synths : stale'[q] <= lapses'
    BY <1>2 DEF RunPut, SynthInv, SynthTypeOK, ThreadsOfTheLease
  <2>2. UNCHANGED <<lease, producing, item, loaded, inference>>
    BY DEF RunPut
  <2> QED
    BY <1>3, <2>1, <2>2 DEF SynthInv, ThreadsOfTheLease
<1>8. BusyInLease'
  BY DEF SynthInv, SynthTypeOK, BusyInLease, OneLease, LoopAndAnswers, ThreadsOfTheLease,
         RunPut
<1> QED
  BY <1>4, <1>5, <1>6, <1>7, <1>8 DEF SynthInv

LEMMA YieldItemKeeps ==
  ASSUME SynthInv, NEW s \in Synths, YieldItem(s)
  PROVE  SynthInv'
<1>1. SynthTypeOK'
  <2>1. queue' \in [Synths -> 0..Done \cup {Blank}]
    BY DEF SynthInv, SynthTypeOK, YieldItem, Done
  <2>2. yielded' \in [Synths -> Seq(1..Pieces)]
    <3>1. CASE queue[s] \in 1..Pieces
      <4>1. Append(yielded[s], queue[s]) \in Seq(1..Pieces)
        BY <3>1 DEF SynthInv, SynthTypeOK
      <4> QED
        BY <3>1, <4>1 DEF SynthInv, SynthTypeOK, YieldItem
    <3>2. CASE queue[s] \notin 1..Pieces
      BY <3>2 DEF SynthInv, SynthTypeOK, YieldItem
    <3> QED
      BY <3>1, <3>2
  <2>3. handler' \in [Synths -> {"off", "next", "expire", "quiesce", "over"}]
    <3>1. handler' = handler \/ handler' = [handler EXCEPT ![s] = "quiesce"]
      BY DEF YieldItem
    <3> QED
      BY <3>1 DEF SynthInv, SynthTypeOK
  <2>4. outcome' \in [Synths -> {"none", "result", "error"}]
    BY ZenonT(40) DEF SynthInv, SynthTypeOK, YieldItem, Done
  <2> QED
    BY <2>1, <2>2, <2>3, <2>4 DEF SynthInv, SynthTypeOK, YieldItem, Done, Quiet
<1>2. OneLease'
  BY DEF SynthInv, SynthTypeOK, OneLease, Quiet, YieldItem, Done
<1>3. LoopAndAnswers'
  BY DEF SynthInv, SynthTypeOK, LoopAndAnswers, OneLease, YieldItem, Done
<1>4. ThreadsOfTheLease'
  BY DEF SynthInv, SynthTypeOK, ThreadsOfTheLease, OneLease, LoopAndAnswers, BusyInLease,
         Quiet, YieldItem, Done
<1>5. BusyInLease'
  BY DEF SynthInv, SynthTypeOK, BusyInLease, OneLease, LoopAndAnswers, ThreadsOfTheLease,
         YieldItem, Done
<1> QED
  BY <1>1, <1>2, <1>3, <1>4, <1>5 DEF SynthInv

LEMMA ExpireKeeps ==
  ASSUME SynthInv, NEW s \in Synths, Expire(s)
  PROVE  SynthInv'
<1>1. SynthTypeOK'
  BY DEF SynthInv, SynthTypeOK, Quiet, Done, Expire, ToldLater
<1>2. OneLease'
  BY DEF SynthInv, SynthTypeOK, OneLease, Quiet, Expire, ToldLater
<1>3. LoopAndAnswers'
  BY DEF SynthInv, SynthTypeOK, LoopAndAnswers, OneLease, Expire, ToldLater
<1>4. ThreadsOfTheLease'
  BY DEF SynthInv, SynthTypeOK, ThreadsOfTheLease, OneLease, LoopAndAnswers, BusyInLease,
         Quiet, Expire, ToldLater
<1>5. BusyInLease'
  BY DEF SynthInv, SynthTypeOK, BusyInLease, OneLease, LoopAndAnswers, ThreadsOfTheLease,
         Expire, ToldLater
<1> QED
  BY <1>1, <1>2, <1>3, <1>4, <1>5 DEF SynthInv

LEMMA HandleCancelKeeps ==
  ASSUME SynthInv, NEW s \in Synths, HandleCancel(s)
  PROVE  SynthInv'
<1>1. SynthTypeOK'
  BY DEF SynthInv, SynthTypeOK, Quiet, Done, HandleCancel
<1>2. OneLease'
  BY DEF SynthInv, SynthTypeOK, OneLease, Quiet, HandleCancel
<1>3. LoopAndAnswers'
  BY DEF SynthInv, SynthTypeOK, LoopAndAnswers, OneLease, HandleCancel
<1>4. ThreadsOfTheLease'
  BY DEF SynthInv, SynthTypeOK, ThreadsOfTheLease, OneLease, LoopAndAnswers, BusyInLease,
         Quiet, HandleCancel
<1>5. BusyInLease'
  BY DEF SynthInv, SynthTypeOK, BusyInLease, OneLease, LoopAndAnswers, ThreadsOfTheLease,
         HandleCancel
<1> QED
  BY <1>1, <1>2, <1>3, <1>4, <1>5 DEF SynthInv

LEMMA QuiesceKeeps ==
  ASSUME SynthInv, NEW s \in Synths, Quiesce(s)
  PROVE  SynthInv'
<1>1. SynthTypeOK'
  BY SMTT(30) DEF SynthInv, SynthTypeOK, Quiet, Done, Quiesce
<1>2. OneLease'
  BY DEF SynthInv, SynthTypeOK, OneLease, Quiet, Quiesce
<1>3. LoopAndAnswers'
  BY DEF SynthInv, SynthTypeOK, LoopAndAnswers, OneLease, Quiesce
<1>4. ThreadsOfTheLease'
  BY DEF SynthInv, SynthTypeOK, ThreadsOfTheLease, OneLease, LoopAndAnswers, BusyInLease,
         Quiet, Quiesce
<1>5. BusyInLease'
  BY DEF SynthInv, SynthTypeOK, BusyInLease, OneLease, LoopAndAnswers, ThreadsOfTheLease,
         Quiesce
<1> QED
  BY <1>1, <1>2, <1>3, <1>4, <1>5 DEF SynthInv

(* The inductive invariant of leases and threads holds, fair or not.       *)
LEMMA SynthInvariant == SynthInit /\ [][SynthNext]_synthVars => []SynthInv
<1>1. SynthInv /\ [SynthNext]_synthVars => SynthInv'
  <2> SUFFICES ASSUME SynthInv, [SynthNext]_synthVars PROVE SynthInv'
    OBVIOUS
  <2>1. CASE UNCHANGED synthVars
    BY <2>1 DEF synthVars, SynthInv, SynthTypeOK, OneLease, LoopAndAnswers,
                ThreadsOfTheLease, BusyInLease
  <2>2. CASE SynthNext
    BY <2>2, BeginLoadKeeps, EndLoadKeeps, BeginUnloadKeeps, EndUnloadKeeps,
       TakeLeaseKeeps, LoadReturnsKeeps, SynthesizeKeeps, CloseStreamKeeps,
       SkipSynthesisKeeps, AskUnloadKeeps, UnloadAnsweredKeeps, HardStopKeeps,
       BeginInferenceKeeps, InferKeeps, SchedulePutKeeps, PutExpiresKeeps, AfterPutKeeps,
       RunPutKeeps, YieldItemKeeps, ExpireKeeps, HandleCancelKeeps, QuiesceKeeps
    DEF SynthNext, UnloadStep
  <2> QED
    BY <2>1, <2>2
<1> QED
  BY InitSynth, <1>1, PTL

(* A lease that left nobody busy returned its Worker quiet.                *)
LEMMA NobodyBusyIsQuiet == SynthInv => LeaseReturnsQuiet
  BY DEF SynthInv, BusyInLease, LeaseReturnsQuiet

(* When no lease is in force nobody infers and nothing is quarantined,     *)
(* however late the threads and the callbacks of earlier leases run.       *)
THEOREM LeasesReturnQuiet == SynthSpec => []LeaseReturnsQuiet
  BY SynthInvariant, NobodyBusyIsQuiet, PTL DEF SynthSpec

HIDE SynthesisAssumption
    DEF LeaseIs, ProducerIs, PutIs, HandlerIs, VerdictIs, Enqueued, Held, InForce, Using,
        leaseVars, workerVars, threadVars, handlerVars

-----------------------------------------------------------------------------
(* WorkerDownload.  No download writes where another one does, for any     *)
(* number of calls, Workers and descriptors.                               *)

\* A call has a Worker, and its thread the number of a descriptor.
CallHasWorker(d) ==
  /\ call[d] # "off" => host[d] \in Workers
  /\ thread[d] # "none" => call[d] # "off"
  /\ call[d] \in Fetching \/ thread[d] # "none" => handle[d] \in Handles
  /\ call[d] \in {"off", "resolve", "prepare"} => workspace[d] = Absent

\* A thread at work has the lock of its process, and is in its own workspace unless it went
\* by a descriptor that was closed.
InOwnDirectory(d) ==
  thread[d] \in {"running", "written"} => cwdLock[host[d]] = d /\ (~astray => cwd[host[d]] = d)

\* What is in the directory of a call is its own.
OwnFiles(d) ==
  ~astray => /\ workspace[d] # Absent => workspace[d].model \in {None, d}
             /\ copied[d] \in {None, d}

\* A directory whose call is over is removed by the thread that is still in it.
WillBeRemoved(d) ==
  workspace[d] # Absent /\ host[d] \in process => call[d] \notin Over \/ thread[d] # "none"

\* The inductive invariant.
DownloadInv ==
  /\ DownloadTypeOK
  /\ \A d \in Downloads : CallHasWorker(d) /\ InOwnDirectory(d) /\ OwnFiles(d) /\ WillBeRemoved(d)

USE DownloadAssumption DEF Fetching, Over, CallIs, ThreadIs, WorkspaceIs, Empty

(* No Worker, no call, no directory.                                       *)
LEMMA InitDownload == DownloadInit => DownloadInv
<1> SUFFICES ASSUME DownloadInit PROVE DownloadInv
  OBVIOUS
<1>1. opened \in [Workers -> [Handles -> Downloads \cup {None}]]
  BY DEF DownloadInit
<1>2. DownloadTypeOK
  BY <1>1 DEF DownloadInit, DownloadTypeOK
<1>3. \A d \in Downloads : CallHasWorker(d) /\ InOwnDirectory(d) /\ OwnFiles(d) /\ WillBeRemoved(d)
  BY DEF DownloadInit, CallHasWorker, InOwnDirectory, OwnFiles, WillBeRemoved
<1> QED
  BY <1>2, <1>3 DEF DownloadInv

(* Each action keeps the invariant.                                        *)
LEMMA StartWorkerKeeps ==
  ASSUME DownloadInv, NEW w \in Workers, StartWorker(w)
  PROVE  DownloadInv'
<1>1. DownloadTypeOK'
  BY DEF DownloadInv, DownloadTypeOK, CallHasWorker, StartWorker
<1>2. ASSUME NEW e \in Downloads PROVE CallHasWorker(e)' /\ InOwnDirectory(e)'
  BY DEF DownloadInv, DownloadTypeOK, CallHasWorker, InOwnDirectory, StartWorker
<1>3. ASSUME NEW e \in Downloads PROVE OwnFiles(e)' /\ WillBeRemoved(e)'
  BY DEF DownloadInv, DownloadTypeOK, CallHasWorker, InOwnDirectory, OwnFiles,
         WillBeRemoved, StartWorker
<1> QED
  BY <1>1, <1>2, <1>3 DEF DownloadInv

LEMMA KillWorkerKeeps ==
  ASSUME DownloadInv, NEW w \in Workers, KillWorker(w)
  PROVE  DownloadInv'
<1>1. DownloadTypeOK'
  BY DEF DownloadInv, DownloadTypeOK, CallHasWorker, KillWorker
<1>2. ASSUME NEW e \in Downloads PROVE CallHasWorker(e)' /\ InOwnDirectory(e)'
  BY DEF DownloadInv, DownloadTypeOK, CallHasWorker, InOwnDirectory, KillWorker
<1>3. ASSUME NEW e \in Downloads PROVE OwnFiles(e)' /\ WillBeRemoved(e)'
  BY DEF DownloadInv, DownloadTypeOK, CallHasWorker, InOwnDirectory, OwnFiles,
         WillBeRemoved, KillWorker
<1> QED
  BY <1>1, <1>2, <1>3 DEF DownloadInv

LEMMA ResolveKeeps ==
  ASSUME DownloadInv, NEW d \in Downloads, Resolve(d)
  PROVE  DownloadInv'
<1>1. PICK step \in {"prepare", "over"} : call' = [call EXCEPT ![d] = step]
  BY DEF Resolve
<1>2. UNCHANGED <<process, host, thread, fetch, handle, opened, cwdLock, cwd, workspace, copied,
        astray>>
      /\ call[d] = "resolve" /\ DownloadTypeOK
  BY DEF Resolve, DownloadInv
<1>3. DownloadTypeOK'
  BY <1>1, <1>2 DEF DownloadTypeOK
<1>4. ASSUME NEW e \in Downloads PROVE CallHasWorker(e)' /\ InOwnDirectory(e)' /\ OwnFiles(e)'
               /\ WillBeRemoved(e)'
  BY <1>1, <1>2
     DEF DownloadInv, DownloadTypeOK, CallHasWorker, InOwnDirectory, OwnFiles,
         WillBeRemoved
<1> QED
  BY <1>3, <1>4 DEF DownloadInv

LEMMA MakeWorkspaceKeeps ==
  ASSUME DownloadInv, NEW d \in Downloads, MakeWorkspace(d)
  PROVE  DownloadInv'
<1>1. DownloadTypeOK'
  BY DEF DownloadInv, DownloadTypeOK, CallHasWorker, MakeWorkspace
<1>2. ASSUME NEW e \in Downloads PROVE CallHasWorker(e)' /\ InOwnDirectory(e)'
  BY DEF DownloadInv, DownloadTypeOK, CallHasWorker, InOwnDirectory, MakeWorkspace
<1>3. ASSUME NEW e \in Downloads PROVE OwnFiles(e)' /\ WillBeRemoved(e)'
  BY DEF DownloadInv, DownloadTypeOK, CallHasWorker, InOwnDirectory, OwnFiles,
         WillBeRemoved, MakeWorkspace
<1> QED
  BY <1>1, <1>2, <1>3 DEF DownloadInv

LEMMA FetchedKeeps ==
  ASSUME DownloadInv, NEW d \in Downloads, Fetched(d)
  PROVE  DownloadInv'
<1>1. /\ call[d] \in {"model", "codec"} /\ thread[d] = "none" /\ DownloadTypeOK
      /\ UNCHANGED <<process, host, handle, opened, cwdLock, cwd, workspace, copied, astray>>
  BY DEF Fetched, DownloadInv
<1>2. CASE CallIs(d, "codec") /\ ThreadIs(d, "waiting") /\ fetch' = [fetch EXCEPT ![d] = "codec"]
  <2>1. DownloadTypeOK'
    BY <1>1, <1>2 DEF DownloadTypeOK
  <2>2. ASSUME NEW e \in Downloads PROVE CallHasWorker(e)' /\ InOwnDirectory(e)'
    BY <1>1, <1>2 DEF DownloadInv, DownloadTypeOK, CallHasWorker, InOwnDirectory
  <2>3. ASSUME NEW e \in Downloads PROVE OwnFiles(e)' /\ WillBeRemoved(e)'
    BY <1>1, <1>2 DEF DownloadInv, DownloadTypeOK, CallHasWorker, OwnFiles, WillBeRemoved
  <2> QED
    BY <2>1, <2>2, <2>3 DEF DownloadInv
<1>3. CASE CallIs(d, "copy") /\ UNCHANGED <<thread, fetch>>
  BY <1>1, <1>3
     DEF DownloadInv, DownloadTypeOK, CallHasWorker, InOwnDirectory, OwnFiles,
         WillBeRemoved
<1> QED
  BY <1>2, <1>3 DEF Fetched

LEMMA CopyFilesKeeps ==
  ASSUME DownloadInv, NEW d \in Downloads, CopyFiles(d)
  PROVE  DownloadInv'
<1>1. DownloadTypeOK'
  BY DEF DownloadInv, DownloadTypeOK, CallHasWorker, CopyFiles, Closes
<1>2. ASSUME NEW e \in Downloads PROVE CallHasWorker(e)' /\ InOwnDirectory(e)'
  BY DEF DownloadInv, DownloadTypeOK, CallHasWorker, InOwnDirectory, CopyFiles, Closes
<1>3. ASSUME NEW e \in Downloads PROVE OwnFiles(e)' /\ WillBeRemoved(e)'
  BY DEF DownloadInv, DownloadTypeOK, CallHasWorker, InOwnDirectory, OwnFiles,
         WillBeRemoved, CopyFiles, Closes
<1> QED
  BY <1>1, <1>2, <1>3 DEF DownloadInv

LEMMA CallFailsKeeps ==
  ASSUME DownloadInv, NEW d \in Downloads, CallFails(d)
  PROVE  DownloadInv'
<1>1. DownloadTypeOK'
  BY DEF DownloadInv, DownloadTypeOK, CallHasWorker, CallFails, Closes
<1>2. ASSUME NEW e \in Downloads PROVE CallHasWorker(e)' /\ InOwnDirectory(e)'
  BY DEF DownloadInv, DownloadTypeOK, CallHasWorker, InOwnDirectory, CallFails, Closes
<1>3. ASSUME NEW e \in Downloads PROVE OwnFiles(e)' /\ WillBeRemoved(e)'
  BY DEF DownloadInv, DownloadTypeOK, CallHasWorker, InOwnDirectory, OwnFiles,
         WillBeRemoved, CallFails, Closes
<1> QED
  BY <1>1, <1>2, <1>3 DEF DownloadInv

LEMMA CancelKeeps ==
  ASSUME DownloadInv, NEW d \in Downloads, Cancel(d)
  PROVE  DownloadInv'
<1>1. DownloadTypeOK'
  BY DEF DownloadInv, DownloadTypeOK, CallHasWorker, Cancel, Closes
<1>2. ASSUME NEW e \in Downloads PROVE CallHasWorker(e)' /\ InOwnDirectory(e)'
  BY DEF DownloadInv, DownloadTypeOK, CallHasWorker, InOwnDirectory, Cancel, Closes
<1>3. ASSUME NEW e \in Downloads PROVE OwnFiles(e)' /\ WillBeRemoved(e)'
  BY DEF DownloadInv, DownloadTypeOK, CallHasWorker, InOwnDirectory, OwnFiles,
         WillBeRemoved, Cancel, Closes
<1> QED
  BY <1>1, <1>2, <1>3 DEF DownloadInv

LEMMA EnterKeeps ==
  ASSUME DownloadInv, NEW d \in Downloads, Enter(d)
  PROVE  DownloadInv'
<1>1. DownloadTypeOK'
  BY DEF DownloadInv, DownloadTypeOK, CallHasWorker, Enter, Unlocked
<1>2. ASSUME NEW e \in Downloads PROVE CallHasWorker(e)' /\ InOwnDirectory(e)'
  BY ZenonT(40) DEF DownloadInv, DownloadTypeOK, CallHasWorker, InOwnDirectory, Enter, Unlocked
<1>3. ASSUME NEW e \in Downloads PROVE OwnFiles(e)' /\ WillBeRemoved(e)'
  BY DEF DownloadInv, DownloadTypeOK, CallHasWorker, InOwnDirectory, OwnFiles,
         WillBeRemoved, Enter, Unlocked
<1> QED
  BY <1>1, <1>2, <1>3 DEF DownloadInv

(* A thread writes where its descriptor leads: into the directory it       *)
(* entered.                                                                *)
LEMMA WriteKeeps ==
  ASSUME DownloadInv, NEW d \in Downloads, Write(d)
  PROVE  DownloadInv'
<1>1. DownloadTypeOK'
  <2>1. DownloadTypeOK /\ host[d] \in Workers
    BY DEF DownloadInv, CallHasWorker, Write
  <2> DEFINE at == cwd[host[d]]
             content == workspace[at]
             after == IF fetch[d] = "codec" THEN [content EXCEPT !.codec = TRUE]
                                            ELSE [content EXCEPT !.model = d]
  <2>2. CASE at = None \/ workspace[at] = Absent
    BY <2>1, <2>2 DEF DownloadTypeOK, Write, Written
  <2>3. CASE at # None /\ workspace[at] # Absent
    <3>1. at \in Downloads /\ content \in [model : Downloads \cup {None}, codec : BOOLEAN]
      BY <2>1, <2>3 DEF DownloadTypeOK
    <3> HIDE DEF content, at
    <3>2. after \in [model : Downloads \cup {None}, codec : BOOLEAN]
      BY <3>1
    <3> HIDE DEF after
    <3>3. workspace' = [workspace EXCEPT ![at] = after]
      BY <2>3, <3>1 DEF DownloadInv, DownloadTypeOK, Write, Written, at, content, after
    <3> QED
      BY <2>1, <3>1, <3>2, <3>3 DEF DownloadTypeOK, Write
  <2> QED
    BY <2>2, <2>3
<1>2. ASSUME NEW e \in Downloads PROVE CallHasWorker(e)' /\ InOwnDirectory(e)'
  BY DEF DownloadInv, DownloadTypeOK, CallHasWorker, InOwnDirectory, Write, Written
<1>3. ASSUME NEW e \in Downloads PROVE OwnFiles(e)' /\ WillBeRemoved(e)'
  BY DEF DownloadInv, DownloadTypeOK, CallHasWorker, InOwnDirectory, OwnFiles,
         WillBeRemoved, Write, Written
<1> QED
  BY <1>1, <1>2, <1>3 DEF DownloadInv

LEMMA DepartKeeps ==
  ASSUME DownloadInv, NEW d \in Downloads, Depart(d)
  PROVE  DownloadInv'
<1>1. DownloadTypeOK'
  BY DEF DownloadInv, DownloadTypeOK, CallHasWorker, Depart, AfterThread
<1>2. ASSUME NEW e \in Downloads PROVE CallHasWorker(e)' /\ InOwnDirectory(e)'
  BY DEF DownloadInv, DownloadTypeOK, CallHasWorker, InOwnDirectory, Depart, AfterThread
<1>3. ASSUME NEW e \in Downloads PROVE OwnFiles(e)' /\ WillBeRemoved(e)'
  BY DEF DownloadInv, DownloadTypeOK, CallHasWorker, InOwnDirectory, OwnFiles,
         WillBeRemoved, Depart, AfterThread
<1> QED
  BY <1>1, <1>2, <1>3 DEF DownloadInv

(* Every step keeps the invariant.                                         *)
LEMMA DownloadKeeps ==
  ASSUME DownloadInv, NEW d \in Downloads, NEW w \in Workers, Download(d, w)
  PROVE  DownloadInv'
  BY DEF DownloadInv, DownloadTypeOK, CallHasWorker, InOwnDirectory, OwnFiles,
         WillBeRemoved, Download

(* The inductive invariant of downloads holds.                             *)
LEMMA DownloadInvariant == DownloadSpec => []DownloadInv
<1>1. DownloadInv /\ [DownloadNext]_downloadVars => DownloadInv'
  <2> SUFFICES ASSUME DownloadInv, [DownloadNext]_downloadVars PROVE DownloadInv'
    OBVIOUS
  <2>1. CASE UNCHANGED downloadVars
    BY <2>1 DEF downloadVars, DownloadInv, DownloadTypeOK, CallHasWorker, InOwnDirectory,
                OwnFiles, WillBeRemoved
  <2>2. CASE DownloadNext
    BY <2>2, StartWorkerKeeps, KillWorkerKeeps, DownloadKeeps, ResolveKeeps,
       MakeWorkspaceKeeps, FetchedKeeps,
       CopyFilesKeeps, CallFailsKeeps, CancelKeeps, EnterKeeps, WriteKeeps,
         DepartKeeps DEF DownloadNext
  <2> QED
    BY <2>1, <2>2
<1> QED
  BY InitDownload, <1>1, PTL DEF DownloadSpec

(* The model a download copies is of its own revision, as long as no       *)
(* thread wrote by a descriptor that its cancelled call had closed; and a  *)
(* workspace in a Worker that runs has a call or a thread that will remove *)
(* it.                                                                     *)
THEOREM DownloadsAlwaysKeepApart == DownloadSpec => []DownloadsKeepApart
<1>1. DownloadInv => DownloadsKeepApart
  BY DEF DownloadInv, OwnFiles, WillBeRemoved, DownloadsKeepApart, ModelIsOfItsRevision,
         NoScratchIsLeft
<1> QED
  BY DownloadInvariant, <1>1, PTL

HIDE DownloadAssumption DEF Fetching, Over, CallIs, ThreadIs, WorkspaceIs, Empty

-----------------------------------------------------------------------------
(* Promotion.  What is published is what was verified, for any files,      *)
(* pieces and any number of writes by others.                              *)

VerifiedFile(f) == [kind |-> "file", differs |-> Checksum(f)]

\* Nothing is believed of the staging directory: only the manifest, the copies that were
\* compared with it and the file that is being read count.
PromotionInv ==
  /\ PromotionTypeOK
  /\ reading # NoFile => promoter = "copy" /\ \E f \in Required : reading.of = {f}
  /\ \A f \in Files : \/ promoted[f] = Missing
                      \/ /\ f \in Required /\ promoted[f] = VerifiedFile(f)
                         /\ promoter \in {"copy", "published"}
  /\ published => promoter = "published" /\ \A f \in Required : promoted[f] # Missing
  /\ promoter = "failed" => \A f \in Files : arrived[f] = Missing

USE PromotionAssumption DEF PromotionTypeOK, PieceSet

(* No file is being read.                                                      *)
LEMMA NoFileType ==
  /\ NoFile \in [of : SUBSET Files, held : SUBSET PieceSet, next : 1 .. PieceCount + 1,
                 differs : SUBSET PieceSet]
  /\ NoFile.of = {}
<1>1. 1 \in 1 .. PieceCount + 1
  OBVIOUS
<1> QED
  BY <1>1 DEF NoFile

(* An entry is missing, or a file with pieces that differ.                     *)
LEMMA EntryTypes ==
  Missing \in Entries /\ \A d \in SUBSET PieceSet : [kind |-> "file", differs |-> d] \in Entries
  BY DEF Missing, Entries

LEMMA InitPromotion == PromotionInit => PromotionInv
<1> SUFFICES ASSUME PromotionInit PROVE PromotionInv
  OBVIOUS
<1>1. arrived \in [Files -> Entries] /\ promoted \in [Files -> Entries]
  BY EntryTypes DEF PromotionInit
<1>2. changes \in 0 .. MaxChanges /\ reported \in [names : SUBSET Files, wrong : SUBSET Files]
  BY DEF PromotionInit
<1> QED
  BY <1>1, <1>2, NoFileType DEF PromotionInit, PromotionInv

(* Whoever gives up removes both directories.                                  *)
LEMMA GivingUpKeeps ==
  ASSUME PromotionInv, GiveUpPromotion, UNCHANGED <<reported, published, changes>>, ~published
  PROVE  PromotionInv'
<1>1. arrived' \in [Files -> Entries] /\ promoted' \in [Files -> Entries]
  BY EntryTypes DEF GiveUpPromotion
<1> QED
  BY <1>1, NoFileType DEF GiveUpPromotion, PromotionInv

LEMMA PromotionKeeps == PromotionInv /\ [PromotionNext]_promotionVars => PromotionInv'
<1> SUFFICES ASSUME PromotionInv, [PromotionNext]_promotionVars PROVE PromotionInv'
  OBVIOUS
<1>1. CASE UNCHANGED promotionVars
  BY <1>1 DEF promotionVars, PromotionInv, VerifiedFile, Checksum
<1>2. CASE ManifestArrives
  <2>1. arrived' \in [Files -> Entries]
    BY <1>2, EntryTypes DEF ManifestArrives
  <2> QED
    BY <1>2, <2>1 DEF ManifestArrives, PromotionInv
<1>3. CASE WalkStaging
  BY <1>3, GivingUpKeeps DEF WalkStaging, PromotionInv
<1>4. CASE ListStaging
  BY <1>4 DEF ListStaging, PromotionInv
<1>5. CASE PublishModel
  <2>1. promoter = "copy" /\ ~published /\ reading = NoFile
    BY <1>5 DEF PublishModel, PromotionInv
  <2>2. CASE GiveUpPromotion /\ UNCHANGED published
    BY <1>5, <2>1, <2>2, GivingUpKeeps DEF PublishModel
  <2>3. CASE \A f \in Required : promoted[f] # Missing
    <3>1. arrived' \in [Files -> Entries]
      BY <1>5, <2>3, EntryTypes DEF PublishModel
    <3> QED
      BY <1>5, <2>1, <2>3, <3>1 DEF PublishModel, PromotionInv, VerifiedFile, Checksum
  <2> QED
    BY <1>5, <2>2, <2>3 DEF PublishModel
<1>6. CASE PromotionFails
  BY <1>6, GivingUpKeeps DEF PromotionFails, PromotionInv
<1>7. ASSUME NEW f \in Files, HashFile(f) PROVE PromotionInv'
  BY <1>7, GivingUpKeeps DEF HashFile, PromotionInv
<1>8. ASSUME NEW f \in Files, OpenFile(f) PROVE PromotionInv'
  <2>1. promoter = "copy" /\ ~published
    BY <1>8 DEF OpenFile, PromotionInv
  <2>2. CASE GiveUpPromotion
    BY <1>8, <2>1, <2>2, GivingUpKeeps DEF OpenFile
  <2>3. CASE ~GiveUpPromotion
    <3>1. /\ reading' = [NoFile EXCEPT !.of = {f}, !.held = arrived[f].differs] /\ todo' = todo \ {f}
          /\ f \in Required /\ arrived[f].kind = "file"
          /\ UNCHANGED <<arrived, promoter, promoted, reported, published, changes>>
      BY <1>8, <2>3 DEF OpenFile
    <3>2. arrived[f].differs \subseteq PieceSet
      BY DEF PromotionInv, Entries, Missing
    <3>3. reading' \in [of : SUBSET Files, held : SUBSET PieceSet, next : 1 .. PieceCount + 1,
                        differs : SUBSET PieceSet] /\ reading'.of = {f}
      BY <3>1, <3>2, NoFileType
    <3> QED
      BY <2>1, <3>1, <3>3 DEF PromotionInv, VerifiedFile, Checksum
  <2> QED
    BY <2>2, <2>3
<1>9. ASSUME NEW f \in Files, CopyPiece(f) PROVE PromotionInv'
  <2>1. PICK differs \in {reading.held, arrived[f].differs} :
          reading' = [reading EXCEPT !.next = @ + 1,
                                     !.differs = @ \cup (differs \cap {reading.next})]
    BY <1>9 DEF CopyPiece
  <2>2. reading.next \in PieceSet /\ reading.next + 1 \in 1 .. PieceCount + 1
    BY <1>9 DEF CopyPiece, PromotionInv
  <2>3. reading' \in [of : SUBSET Files, held : SUBSET PieceSet, next : 1 .. PieceCount + 1,
                      differs : SUBSET PieceSet]
    BY <2>1, <2>2 DEF PromotionInv
  <2>4. reading # NoFile /\ reading'.of = reading.of
    BY <1>9, <2>1, NoFileType DEF CopyPiece, PromotionInv
  <2> QED
    BY <1>9, <2>3, <2>4 DEF CopyPiece, PromotionInv, VerifiedFile, Checksum
<1>10. ASSUME NEW f \in Files, FinishFile(f) PROVE PromotionInv'
  <2>1. CASE ~CopyIsVerified(f)
    BY <1>10, <2>1, GivingUpKeeps, NoFileType DEF FinishFile, PromotionInv
  <2>2. CASE CopyIsVerified(f)
    <3>1. promoted' = [promoted EXCEPT ![f] = VerifiedFile(f)] /\ reading' = NoFile
          /\ UNCHANGED <<arrived, promoter, todo, reported, published, changes>>
      BY <1>10, <2>2 DEF FinishFile, CopyIsVerified, VerifiedFile
    <3>2. f \in Required /\ promoter = "copy"
      BY <1>10, NoFileType DEF FinishFile, PromotionInv
    <3>3. VerifiedFile(f) \in Entries
      BY <2>2, EntryTypes DEF PromotionInv, VerifiedFile, CopyIsVerified
    <3>4. promoted' \in [Files -> Entries]
      BY <3>1, <3>3 DEF PromotionInv
    <3> QED
      BY <3>1, <3>2, <3>4, NoFileType, ZenonT(40) DEF PromotionInv, VerifiedFile, Checksum
  <2> QED
    BY <2>1, <2>2
<1>11. ASSUME NEW f \in Files, OthersWrite(f) PROVE PromotionInv'
  BY <1>11 DEF OthersWrite, PromotionInv, VerifiedFile, Checksum
<1> QED
  BY <1>1, <1>2, <1>3, <1>4, <1>5, <1>6, <1>7, <1>8, <1>9, <1>10, <1>11 DEF PromotionNext

(* The inductive invariant of the promotion holds.                         *)
LEMMA PromotionInvariant == PromotionSpec => []PromotionInv
  BY InitPromotion, PromotionKeeps, PTL DEF PromotionSpec

(* A model that is published has exactly the files of its revision, with the   *)
(* bytes that the manifest vouches for, however often others write.            *)
THEOREM OnlyVerifiedIsPublished == PromotionSpec => []PublishedIsVerified
<1>1. PromotionInv => PublishedIsVerified
  BY DEF PromotionInv, PublishedIsVerified, VerifiedFile
<1> QED
  BY PromotionInvariant, <1>1, PTL

HIDE PromotionAssumption DEF PromotionTypeOK, PieceSet

=============================================================================
