---------------------------- MODULE RuntimeUpgrade ----------------------------
(***************************************************************************)
(* The generations of the Worker environments: upgrade stages one below    *)
(* each engine, checks the health of all, and then replaces the pointer    *)
(* workers/current.json; rollback swaps the two that it names.  Several    *)
(* commands may run, and any may die between two steps.                    *)
(*                                                                         *)
(* Engines are numbered in the order of _engines.  What the release holds  *)
(* is abstracted to the outcome of each step over it.                      *)
(***************************************************************************)
EXTENDS Naturals

CONSTANTS
  Upgrades,      \* processes that run an upgrade or a rollback
  EngineCount,   \* engines of a release
  GenerationIds, \* identifiers of generations
  NoId           \* none

ASSUME UpgradeAssumption == EngineCount \in Nat \ {0} /\ NoId \notin GenerationIds

VARIABLES
  op,       \* what each process runs: "none", "upgrade" or "rollback"
  doing,    \* its step
  staged,   \* how many engines it has staged
  engine,   \* the engine it checks, or removes what it staged for
  target,   \* the generation it activates
  current,  \* the generation that the pointer named when it began
  dirs,     \* generations/<id> of each engine
  pointer,  \* current.json
  verified, \* history: generations all of whose engines passed the health check
  torn      \* history: generations removed after the pointer came to name them

upgradeVars == <<op, doing, staged, engine, target, current, dirs, pointer, verified, torn>>

Engines == 1 .. EngineCount

NoPointer == [generation |-> NoId, previous |-> NoId]

Does(u, step) == doing' = [doing EXCEPT ![u] = step]
AtEngine(u, n) == engine' = [engine EXCEPT ![u] = n]
Holds(e, g, content) == dirs' = [dirs EXCEPT ![e][g] = content]

UpgradeInit ==
  /\ op = [u \in Upgrades |-> "none"] /\ doing = [u \in Upgrades |-> "off"]
  /\ staged = [u \in Upgrades |-> 0] /\ engine = [u \in Upgrades |-> 1]
  /\ target = [u \in Upgrades |-> NoId] /\ current = [u \in Upgrades |-> NoId]
  /\ dirs = [e \in Engines |-> [g \in GenerationIds |-> "absent"]]
  /\ pointer = NoPointer /\ verified = {} /\ torn = {}

\* _read_manifest: the identity and the artifacts, not the environment.
HasManifest(g) == \A e \in Engines : dirs[e][g] \in {"manifest", "installed"}

\* _read_pointer raises unless what the pointer names is there.
PointerReads ==
  /\ pointer.generation # NoId => HasManifest(pointer.generation)
  /\ pointer.previous # NoId => HasManifest(pointer.previous)
-----------------------------------------------------------------------------
BeginUpgrade(u, g) ==
  /\ doing[u] = "off"
  /\ op' = [op EXCEPT ![u] = "upgrade"]
  /\ target' = [target EXCEPT ![u] = g]
  /\ current' = [current EXCEPT ![u] = pointer.generation]
  /\ Does(u, IF PointerReads THEN "stage" ELSE "over")
  /\ UNCHANGED <<staged, engine, dirs, pointer, verified, torn>>

\* Seeded fault: the directory that is in the way is removed, too.
StagedOrOccupied(u) == staged[u] + 1

\* What the exception handler of upgrade removes after a directory was in the way.
StagedBefore(u) == staged[u]

\* The exception handler of upgrade, which removes what n engines have staged.
UpgradeFails(u, n) ==
  /\ staged' = [staged EXCEPT ![u] = n]
  /\ AtEngine(u, 1)
  /\ Does(u, IF n = 0 THEN "over" ELSE "remove")

MakeDirectory(u) ==
  /\ doing[u] = "stage"
  /\ IF dirs[staged[u] + 1][target[u]] = "absent"
     THEN /\ Holds(staged[u] + 1, target[u], "partial")
          /\ Does(u, "fill") /\ UNCHANGED <<staged, engine>>
     ELSE UpgradeFails(u, StagedBefore(u)) /\ UNCHANGED dirs
  /\ UNCHANGED <<op, target, current, pointer, verified, torn>>

\* The artifacts and the manifest, and then uv venv and uv pip install.
Fill(u) ==
  /\ doing[u] = "fill"
  /\ \/ /\ dirs[staged[u] + 1][target[u]] = "partial"
        /\ Holds(staged[u] + 1, target[u], "manifest")
        /\ UNCHANGED <<doing, staged>>
     \/ /\ dirs[staged[u] + 1][target[u]] = "manifest"
        /\ Holds(staged[u] + 1, target[u], "installed")
        /\ staged' = [staged EXCEPT ![u] = @ + 1]
        /\ Does(u, IF staged'[u] = EngineCount THEN "check" ELSE "stage")
  /\ UNCHANGED <<op, engine, target, current, pointer, verified, torn>>

\* _stage_engine removes what it made, and may fail in that, and raises.
StageFails(u) ==
  /\ doing[u] = "fill"
  /\ \E rest \in {"absent", "partial"} : Holds(staged[u] + 1, target[u], rest)
  /\ UpgradeFails(u, staged[u])
  /\ UNCHANGED <<op, target, current, pointer, verified, torn>>

\* _verify_candidate_structure, and a Worker that starts: only an installed environment can.
Answers(u) == dirs[engine[u]][target[u]] = "installed"

CheckHealth(u) ==
  /\ doing[u] = "check"
  /\ \/ /\ Answers(u)
        /\ IF engine[u] = EngineCount
           THEN Does(u, "activate") /\ verified' = verified \cup {target[u]} /\ UNCHANGED engine
           ELSE AtEngine(u, engine[u] + 1) /\ UNCHANGED <<doing, verified>>
        /\ UNCHANGED staged
     \/ /\ IF op[u] = "upgrade" THEN UpgradeFails(u, EngineCount)
           ELSE Does(u, "over") /\ UNCHANGED <<staged, engine>>
        /\ UNCHANGED verified
  /\ UNCHANGED <<op, target, current, dirs, pointer, torn>>

Activated(u) == [generation |-> target[u], previous |-> current[u]]

\* _activate_pointer.  It raises before the replacement, or after it, when the
\* directory cannot be synchronised; an upgrade then removes what it staged.
Activate(u) ==
  /\ doing[u] = "activate"
  /\ \/ /\ pointer' = Activated(u)
        /\ Does(u, "activated") /\ UNCHANGED <<staged, engine, torn>>
     \/ /\ pointer' \in {pointer, Activated(u)}
        /\ IF op[u] = "rollback" THEN Does(u, "over") /\ UNCHANGED <<staged, engine, torn>>
           ELSE /\ UpgradeFails(u, EngineCount)
                /\ torn' = IF pointer' = Activated(u) THEN torn \cup {target[u]} ELSE torn
  /\ UNCHANGED <<op, target, current, dirs, verified>>

\* One of the staged directories is removed, or that fails and ends it.
RemoveGeneration(u) ==
  /\ doing[u] = "remove"
  /\ \/ /\ Holds(engine[u], target[u], "absent")
        /\ AtEngine(u, engine[u] + 1)
        /\ Does(u, IF engine[u] = staged[u] THEN "over" ELSE "remove")
     \/ /\ Holds(engine[u], target[u], "partial")
        /\ Does(u, "over") /\ UNCHANGED engine
  /\ UNCHANGED <<op, staged, target, current, pointer, verified, torn>>

\* Also what the upgrade command does when Core does not start again after it.
BeginRollback(u) ==
  /\ doing[u] = "off" \/ (doing[u] = "activated" /\ op[u] = "upgrade")
  /\ op' = [op EXCEPT ![u] = "rollback"]
  /\ target' = [target EXCEPT ![u] = pointer.previous]
  /\ current' = [current EXCEPT ![u] = pointer.generation]
  /\ AtEngine(u, 1)
  /\ Does(u, IF PointerReads /\ pointer.previous # NoId THEN "check" ELSE "over")
  /\ UNCHANGED <<staged, dirs, pointer, verified, torn>>

Dies(u) ==
  /\ doing[u] \notin {"off", "activated", "over"}
  /\ Does(u, "over")
  /\ UNCHANGED <<op, staged, engine, target, current, dirs, pointer, verified, torn>>
-----------------------------------------------------------------------------
UpgradeStep(u) ==
  \/ \E g \in GenerationIds : BeginUpgrade(u, g)
  \/ MakeDirectory(u) \/ Fill(u) \/ StageFails(u) \/ CheckHealth(u) \/ Activate(u) \/ RemoveGeneration(u)
  \/ BeginRollback(u) \/ Dies(u)

UpgradeNext == \E u \in Upgrades : UpgradeStep(u)

UpgradeSpec == UpgradeInit /\ [][UpgradeNext]_upgradeVars
-----------------------------------------------------------------------------
UpgradeTypeOK ==
  /\ op \in [Upgrades -> {"none", "upgrade", "rollback"}]
  /\ doing \in [Upgrades -> {"off", "stage", "fill", "check", "activate", "activated", "remove",
                             "over"}]
  /\ staged \in [Upgrades -> 0 .. EngineCount] /\ engine \in [Upgrades -> 1 .. EngineCount + 1]
  /\ target \in [Upgrades -> GenerationIds \cup {NoId}]
  /\ current \in [Upgrades -> GenerationIds \cup {NoId}]
  /\ dirs \in [Engines -> [GenerationIds -> {"absent", "partial", "manifest", "installed"}]]
  /\ pointer \in [generation : GenerationIds \cup {NoId}, previous : GenerationIds \cup {NoId}]
  /\ verified \subseteq GenerationIds /\ torn \subseteq GenerationIds

(* Both generations that the pointer names are whole and passed their health   *)
(* checks, whichever commands ran, failed, cleaned up or died meanwhile, unless *)
(* the directory of the pointer could not be synchronised after its replacement.*)
PointerNamesWhole ==
  torn = {} =>
    \A g \in {pointer.generation, pointer.previous} \ {NoId} :
      g \in verified /\ \A e \in Engines : dirs[e][g] = "installed"
=============================================================================
