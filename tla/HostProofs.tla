----------------------------- MODULE HostProofs -----------------------------
(***************************************************************************)
(* Theorems about the parts of the host: the runtime generations and their *)
(* pointer, the run record and the claim of Core, and the definition that  *)
(* the service manager has of it.                                          *)
(***************************************************************************)
EXTENDS RuntimeUpgrade, CoreRun, LoginService, TLAPS

-----------------------------------------------------------------------------
(* RuntimeUpgrade.  The pointer names whole generations, for any number of *)
(* commands, engines and generations.                                      *)

\* The directories below generation target[u] that command u may still change: what it has
\* staged, what it is filling, and what it has not yet removed.
Owns(u, e) ==
  /\ op[u] = "upgrade"
  /\ \/ doing[u] \in {"stage", "check", "activate"} /\ e <= staged[u]
     \/ doing[u] = "fill" /\ e <= staged[u] + 1
     \/ doing[u] = "remove" /\ engine[u] <= e /\ e <= staged[u]

\* A generation that is whole, was checked, and that no command may change any more.
SettledGeneration(g) ==
  /\ g \in verified
  /\ \A e \in Engines : dirs[e][g] = "installed"
  /\ \A u \in Upgrades : target[u] = g => \A e \in Engines : ~Owns(u, e)

\* Where a command is, and what it has staged by then.
Progress(u) ==
  /\ doing[u] = "off" => staged[u] = 0
  /\ doing[u] \in {"off", "stage", "fill"} => engine[u] = 1
  /\ doing[u] \in {"stage", "fill"} => op[u] = "upgrade" /\ staged[u] < EngineCount
  /\ doing[u] = "remove" => op[u] = "upgrade" /\ engine[u] \in 1 .. staged[u]
  /\ doing[u] = "check" => engine[u] \in Engines
  /\ doing[u] \in {"check", "activate"} => op[u] \in {"upgrade", "rollback"}
  /\ op[u] = "upgrade" /\ doing[u] \in {"check", "activate"} => staged[u] = EngineCount
  /\ doing[u] \in {"stage", "fill", "check", "activate", "remove"} => target[u] \in GenerationIds

\* What it owns is there, and installed unless it is being filled or removed.
Stock(u) ==
  /\ \A e \in Engines : Owns(u, e) => dirs[e][target[u]] # "absent"
  /\ op[u] = "upgrade" /\ doing[u] \in {"stage", "fill", "check", "activate"} =>
       \A e \in 1 .. staged[u] : dirs[e][target[u]] = "installed"
  /\ op[u] = "upgrade" /\ doing[u] = "activate" => target[u] \in verified

Exclusive ==
  \A u, v \in Upgrades : u # v /\ target[u] = target[v] => \A e \in Engines : ~(Owns(u, e) /\ Owns(v, e))

\* What the pointer names, and what commands will have it name, is settled.
Named(u) ==
  /\ doing[u] \in {"stage", "fill", "check", "activate"} => current[u] = NoId \/ SettledGeneration(current[u])
  /\ op[u] = "rollback" /\ doing[u] \in {"check", "activate"} =>
       SettledGeneration(target[u])

PointerSettled == \A g \in {pointer.generation, pointer.previous} \ {NoId} : SettledGeneration(g)

UpgradeInv ==
  /\ UpgradeTypeOK
  /\ \A u \in Upgrades : Progress(u)
  /\ torn = {} => /\ \A u \in Upgrades : Stock(u) /\ Named(u)
                  /\ Exclusive /\ PointerSettled

USE UpgradeAssumption DEF UpgradeTypeOK, Engines, NoPointer, Does, AtEngine

LEMMA InitUpgrade == UpgradeInit => UpgradeInv
<1> SUFFICES ASSUME UpgradeInit PROVE UpgradeInv
  OBVIOUS
<1>1. UpgradeTypeOK
  BY DEF UpgradeInit
<1>2. \A u \in Upgrades : Progress(u) /\ Stock(u) /\ Named(u)
  BY DEF UpgradeInit, Progress, Stock, Named, Owns
<1> QED
  BY <1>1, <1>2 DEF UpgradeInit, UpgradeInv, Exclusive, PointerSettled, Owns

DirectoryTable == [Engines -> [GenerationIds -> {"absent", "partial", "manifest", "installed"}]]

(* One directory changes and the others stay.                                  *)
LEMMA HoldsOne ==
  ASSUME UpgradeTypeOK, NEW e \in Engines, NEW g \in GenerationIds,
         NEW content \in {"absent", "partial", "manifest", "installed"}, Holds(e, g, content)
  PROVE  /\ dirs' \in DirectoryTable
         /\ dirs'[e][g] = content
         /\ \A f \in Engines, h \in GenerationIds : f # e \/ h # g => dirs'[f][h] = dirs[f][h]
  BY DEF Holds, DirectoryTable

UpgradeSteps == {"off", "stage", "fill", "check", "activate", "activated", "remove", "over"}

(* A command that fails goes on to remove what it staged.                      *)
LEMMA FailsTo ==
  ASSUME UpgradeTypeOK, NEW u \in Upgrades, NEW n \in 0 .. EngineCount, UpgradeFails(u, n)
  PROVE  /\ staged' \in [Upgrades -> 0 .. EngineCount] /\ staged'[u] = n
         /\ engine' \in [Upgrades -> 1 .. EngineCount + 1] /\ engine'[u] = 1
         /\ doing' \in [Upgrades -> UpgradeSteps]
         /\ doing' = [doing EXCEPT ![u] = IF n = 0 THEN "over" ELSE "remove"]
         /\ \A v \in Upgrades \ {u} : UNCHANGED <<staged[v], engine[v], doing[v]>>
  BY DEF UpgradeFails, UpgradeSteps

\* What an action leaves to be shown about the types and the progress.
TypesAndProgress == UpgradeTypeOK /\ \A u \in Upgrades : Progress(u)

(* The types and the progress of commands, which no other command touches.     *)
LEMMA ProgressKept ==
  ASSUME UpgradeInv, NEW u \in Upgrades, UpgradeStep(u)
  PROVE  TypesAndProgress'
<1> USE DEF TypesAndProgress, UpgradeInv
<1>1. ASSUME NEW g \in GenerationIds, BeginUpgrade(u, g) PROVE TypesAndProgress'
  BY <1>1 DEF BeginUpgrade, Progress
<1>2. CASE MakeDirectory(u)
  <2>1. staged[u] + 1 \in Engines /\ target[u] \in GenerationIds /\ op[u] = "upgrade" /\ doing[u] = "stage"
    BY <1>2 DEF MakeDirectory, Progress
  <2>2. CASE Holds(staged[u] + 1, target[u], "partial") /\ Does(u, "fill") /\ UNCHANGED <<staged, engine>>
    <3>1. dirs' \in DirectoryTable
      BY <2>1, <2>2, HoldsOne
    <3> QED
      BY <1>2, <2>1, <2>2, <3>1 DEF MakeDirectory, Progress, DirectoryTable
  <2>3. CASE UpgradeFails(u, staged[u]) /\ UNCHANGED dirs
    <3>1. UpgradeTypeOK'
      BY <1>2, <2>1, <2>3, FailsTo DEF MakeDirectory, UpgradeSteps
    <3> QED
      BY <1>2, <2>1, <2>3, <3>1, FailsTo DEF MakeDirectory, Progress
  <2> QED
    BY <1>2, <2>2, <2>3 DEF MakeDirectory, StagedBefore
<1>3. CASE Fill(u)
  <2>1. staged[u] + 1 \in Engines /\ target[u] \in GenerationIds /\ op[u] = "upgrade" /\ doing[u] = "fill"
    BY <1>3 DEF Fill, Progress
  <2>2. UNCHANGED <<op, engine, target, current, pointer, verified, torn>>
    BY <1>3 DEF Fill
  <2>3. CASE Holds(staged[u] + 1, target[u], "manifest") /\ UNCHANGED <<doing, staged>>
    <3>1. dirs' \in DirectoryTable
      BY <2>1, <2>3, HoldsOne
    <3> QED
      BY <2>1, <2>2, <2>3, <3>1 DEF Progress, DirectoryTable
  <2>4. CASE /\ Holds(staged[u] + 1, target[u], "installed")
             /\ staged' = [staged EXCEPT ![u] = @ + 1]
             /\ Does(u, IF staged'[u] = EngineCount THEN "check" ELSE "stage")
    <3>1. dirs' \in DirectoryTable
      BY <2>1, <2>4, HoldsOne
    <3>2. staged' \in [Upgrades -> 0 .. EngineCount] /\ staged'[u] = staged[u] + 1
      BY <2>1, <2>4
    <3>3. doing' \in [Upgrades -> UpgradeSteps]
      BY <2>4 DEF UpgradeSteps
    <3>4. UpgradeTypeOK'
      BY <2>2, <3>1, <3>2, <3>3 DEF DirectoryTable, UpgradeSteps
    <3>5. doing'[u] = IF staged[u] + 1 = EngineCount THEN "check" ELSE "stage"
      BY <2>4, <3>2
    <3>6. engine[u] \in Engines
      BY <2>1 DEF Progress
    <3> QED
      BY <2>1, <2>2, <2>4, <3>2, <3>4, <3>5, <3>6 DEF Progress
  <2> QED
    BY <1>3, <2>3, <2>4 DEF Fill
<1>4. CASE StageFails(u)
  <2>1. staged[u] + 1 \in Engines /\ target[u] \in GenerationIds /\ op[u] = "upgrade" /\ doing[u] = "fill"
    BY <1>4 DEF StageFails, Progress
  <2>2. UpgradeFails(u, staged[u]) /\ dirs' \in DirectoryTable
    BY <1>4, <2>1, HoldsOne DEF StageFails
  <2>3. UpgradeTypeOK'
    BY <1>4, <2>2, FailsTo, staged[u] \in 0 .. EngineCount DEF StageFails, DirectoryTable, UpgradeSteps
  <2> QED
    BY <1>4, <2>1, <2>2, <2>3, FailsTo DEF StageFails, Progress
<1>5. CASE CheckHealth(u)
  <2>1. engine[u] \in Engines /\ op[u] \in {"upgrade", "rollback"} /\ doing[u] = "check"
        /\ UNCHANGED <<op, target, current, dirs, pointer, torn>>
    BY <1>5 DEF CheckHealth, Progress
  <2>2. CASE engine[u] = EngineCount /\ Does(u, "activate") /\ verified' = verified \cup {target[u]}
             /\ UNCHANGED <<engine, staged>>
    BY <2>1, <2>2 DEF Progress
  <2>3. CASE engine[u] # EngineCount /\ AtEngine(u, engine[u] + 1) /\ UNCHANGED <<doing, verified, staged>>
    BY <2>1, <2>3 DEF Progress
  <2>4. CASE UpgradeFails(u, EngineCount) /\ UNCHANGED verified /\ op[u] = "upgrade"
    <3>1. UpgradeTypeOK'
      BY <2>1, <2>4, FailsTo, EngineCount \in 0 .. EngineCount DEF UpgradeSteps
    <3> QED
      BY <2>1, <2>4, <3>1, FailsTo DEF Progress
  <2>5. CASE Does(u, "over") /\ UNCHANGED <<staged, engine, verified>>
    BY <2>1, <2>5 DEF Progress
  <2> QED
    BY <1>5, <2>2, <2>3, <2>4, <2>5 DEF CheckHealth
<1>6. CASE Activate(u)
  <2>1. target[u] \in GenerationIds /\ op[u] \in {"upgrade", "rollback"} /\ doing[u] = "activate"
        /\ UNCHANGED <<op, target, current, dirs, verified>>
    BY <1>6 DEF Activate, Progress
  <2>2. pointer' \in [generation : GenerationIds \cup {NoId}, previous : GenerationIds \cup {NoId}]
    BY <1>6 DEF Activate, Activated
  <2>3. torn' \subseteq GenerationIds
    BY <1>6, <2>1 DEF Activate
  <2>4. CASE \E s \in {"activated", "over"} : Does(u, s) /\ UNCHANGED <<staged, engine>>
    BY <2>1, <2>2, <2>3, <2>4 DEF Progress
  <2>5. CASE UpgradeFails(u, EngineCount) /\ op[u] = "upgrade"
    <3>1. UpgradeTypeOK'
      BY <2>1, <2>2, <2>3, <2>5, FailsTo, EngineCount \in 0 .. EngineCount DEF UpgradeSteps
    <3> QED
      BY <2>1, <2>5, <3>1, FailsTo DEF Progress
  <2> QED
    BY <1>6, <2>1, <2>4, <2>5 DEF Activate
<1>7. CASE RemoveGeneration(u)
  <2>1. engine[u] \in Engines /\ engine[u] <= staged[u] /\ target[u] \in GenerationIds /\ op[u] = "upgrade"
        /\ UNCHANGED <<op, staged, target, current, pointer, verified, torn>>
    BY <1>7 DEF RemoveGeneration, Progress
  <2>2. dirs' \in DirectoryTable
    BY <1>7, <2>1, HoldsOne DEF RemoveGeneration
  <2>3. CASE AtEngine(u, engine[u] + 1) /\ Does(u, IF engine[u] = staged[u] THEN "over" ELSE "remove")
    BY <2>1, <2>2, <2>3 DEF Progress, DirectoryTable
  <2>4. CASE Does(u, "over") /\ UNCHANGED engine
    BY <2>1, <2>2, <2>4 DEF Progress, DirectoryTable
  <2> QED
    BY <1>7, <2>3, <2>4 DEF RemoveGeneration
<1>8. CASE BeginRollback(u)
  BY <1>8 DEF BeginRollback, Progress
<1>9. CASE Dies(u)
  BY <1>9 DEF Dies, Progress
<1> QED
  BY <1>1, <1>2, <1>3, <1>4, <1>5, <1>6, <1>7, <1>8, <1>9 DEF UpgradeStep

\* What a step of command u may do to the rest: it changes directories of its own generation
\* that it owns or that are absent, and comes to own no others.
Frame(u) ==
  /\ \A v \in Upgrades \ {u} : UNCHANGED <<op[v], doing[v], staged[v], engine[v], target[v], current[v]>>
  /\ verified \subseteq verified'
  /\ \A e \in Engines, g \in GenerationIds :
       dirs'[e][g] = dirs[e][g] \/ (g = target[u] /\ (Owns(u, e) \/ dirs[e][g] = "absent"))
  /\ \A e \in Engines : Owns(u, e)' =>
       target'[u] = target[u] /\ target[u] \in GenerationIds /\ (Owns(u, e) \/ dirs[e][target[u]] = "absent")

Safe == /\ \A u \in Upgrades : Stock(u) /\ Named(u)
        /\ Exclusive /\ PointerSettled

(* What is settled stays so, no directory gets two owners, and what other      *)
(* commands have staged stays.                                                 *)
LEMMA FrameKeeps ==
  ASSUME TypesAndProgress, Safe, NEW u \in Upgrades, Frame(u)
  PROVE  /\ \A g \in GenerationIds : SettledGeneration(g) => SettledGeneration(g)'
         /\ Exclusive'
         /\ \A v \in Upgrades \ {u} : Stock(v)' /\ Named(v)'
<1>1. \A v \in Upgrades \ {u}, e \in Engines : Owns(v, e)' <=> Owns(v, e)
  BY DEF Frame, Owns
<1>2. \A v \in Upgrades, e \in Engines : Owns(v, e) => target[v] \in GenerationIds
  BY DEF Owns, TypesAndProgress, Progress
<1>3. ASSUME NEW g \in GenerationIds, SettledGeneration(g) PROVE SettledGeneration(g)'
  BY <1>1, <1>3 DEF Frame, SettledGeneration
<1>4. Exclusive'
  BY <1>1, <1>2 DEF Frame, Safe, Exclusive, Stock
<1>5. ASSUME NEW v \in Upgrades \ {u} PROVE Stock(v)'
  <2>1. ASSUME NEW e \in Engines, Owns(v, e) PROVE dirs'[e][target[v]] = dirs[e][target[v]]
    BY <1>2, <2>1 DEF Frame, Safe, Exclusive, Stock
  <2>2. op[v] = "upgrade" /\ doing[v] \in {"stage", "fill", "check", "activate"} =>
          \A e \in 1 .. staged[v] : e \in Engines /\ Owns(v, e)
    BY DEF Owns, TypesAndProgress
  <2> QED
    BY <1>1, <2>1, <2>2 DEF Frame, Safe, Stock
<1>6. ASSUME NEW v \in Upgrades \ {u} PROVE Named(v)'
  BY <1>3 DEF Frame, Safe, Named, TypesAndProgress, Progress
<1> QED
  BY <1>3, <1>4, <1>5, <1>6

\* What an action leaves to be shown: its frame, what its command has then, and the pointer.
CommandKept(u) == Frame(u) /\ Stock(u)' /\ Named(u)' /\ PointerSettled'

(* A pointer that is not touched stays settled.                                *)
LEMMA PointerKept ==
  ASSUME TypesAndProgress, Safe, NEW u \in Upgrades, Frame(u), UNCHANGED pointer
  PROVE  PointerSettled'
  BY FrameKeeps DEF Safe, PointerSettled, TypesAndProgress

LEMMA SafeKept ==
  ASSUME TypesAndProgress, Safe, NEW u \in Upgrades, UpgradeStep(u), torn' = {}
  PROVE  Safe'
<1> SUFFICES CommandKept(u)
  BY FrameKeeps DEF CommandKept, Safe
<1> USE DEF TypesAndProgress
<1>1. ASSUME NEW g \in GenerationIds, BeginUpgrade(u, g) PROVE CommandKept(u)
  <2>1. Frame(u) /\ Stock(u)'
    BY <1>1 DEF BeginUpgrade, Frame, Stock, Owns, Progress
  <2>2. PointerSettled'
    BY <1>1, <2>1, PointerKept DEF BeginUpgrade
  <2>3. Named(u)'
    BY <1>1, <2>1, FrameKeeps DEF BeginUpgrade, Safe, PointerSettled, Named
  <2> QED
    BY <2>1, <2>2, <2>3 DEF CommandKept
<1>2. CASE MakeDirectory(u)
  <2>1. staged[u] + 1 \in Engines /\ target[u] \in GenerationIds /\ op[u] = "upgrade" /\ doing[u] = "stage"
    BY <1>2 DEF MakeDirectory, Progress
  <2>2. CASE dirs[staged[u] + 1][target[u]] = "absent"
    <3>1. Holds(staged[u] + 1, target[u], "partial") /\ doing' = [doing EXCEPT ![u] = "fill"]
          /\ UNCHANGED <<op, staged, engine, target, current, pointer, verified, torn>>
      BY <1>2, <2>2 DEF MakeDirectory
    <3>2. Frame(u)
      BY <2>1, <2>2, <3>1, HoldsOne DEF Frame, Owns
    <3>3. Stock(u)'
      <4>1. \A e \in 1 .. staged[u] : e \in Engines /\ dirs'[e][target[u]] = dirs[e][target[u]]
        <5>1. \A e \in 1 .. staged[u] : e \in Engines /\ e # staged[u] + 1
          BY <2>1
        <5>2. \A e \in Engines : e # staged[u] + 1 => dirs'[e][target[u]] = dirs[e][target[u]]
          BY SMTT(30), <2>1, <3>1, HoldsOne
        <5> QED BY <5>1, <5>2
      <4>2. dirs'[staged[u] + 1][target[u]] = "partial"
        BY <2>1, <3>1, HoldsOne
      <4>3. \A e \in 1 .. staged[u] : dirs[e][target[u]] = "installed"
        BY <2>1 DEF Stock, Safe
      <4>4. \A e \in Engines : Owns(u, e)' => e \in 1 .. staged[u] \/ e = staged[u] + 1
        BY <2>1, <3>1 DEF Owns
      <4>5. \A e \in 1 .. staged[u] : dirs'[e][target[u]] = "installed"
        BY <4>1, <4>3
      <4>6. doing'[u] = "fill" /\ UNCHANGED <<staged[u], target[u]>>
        BY <3>1
      <4> QED
        BY <4>2, <4>4, <4>5, <4>6 DEF Stock
    <3> QED
      BY <2>1, <3>1, <3>2, <3>3, PointerKept, FrameKeeps DEF CommandKept, Named, Safe
  <2>3. CASE dirs[staged[u] + 1][target[u]] # "absent"
    <3>1. UpgradeFails(u, staged[u]) /\ UNCHANGED <<op, target, current, dirs, pointer, verified, torn>>
      BY <1>2, <2>3 DEF MakeDirectory, StagedBefore
    <3>2. Frame(u) /\ Stock(u)' /\ Named(u)'
      BY <2>1, <3>1, FailsTo DEF Frame, Owns, Stock, Named, Safe
    <3> QED
      BY <3>1, <3>2, PointerKept DEF CommandKept
  <2> QED
    BY <2>2, <2>3
<1>3. CASE Fill(u)
  <2>1. staged[u] + 1 \in Engines /\ target[u] \in GenerationIds /\ op[u] = "upgrade" /\ doing[u] = "fill"
        /\ Owns(u, staged[u] + 1)
    BY <1>3 DEF Fill, Progress, Owns
  <2>2. UNCHANGED <<op, engine, target, current, pointer, verified, torn>>
    BY <1>3 DEF Fill
  <2>3. CASE Holds(staged[u] + 1, target[u], "manifest") /\ UNCHANGED <<doing, staged>>
    <3>1. Frame(u)
      BY <2>1, <2>2, <2>3, HoldsOne DEF Frame, Owns
    <3>2. Stock(u)'
      BY <2>1, <2>2, <2>3, HoldsOne DEF Stock, Owns, Safe
    <3> QED
      BY <2>1, <2>2, <2>3, <3>1, <3>2, PointerKept, FrameKeeps DEF CommandKept, Named, Safe
  <2>4. CASE /\ Holds(staged[u] + 1, target[u], "installed")
             /\ staged' = [staged EXCEPT ![u] = @ + 1]
             /\ Does(u, IF staged'[u] = EngineCount THEN "check" ELSE "stage")
    <3>1. staged'[u] = staged[u] + 1 /\ doing'[u] \in {"check", "stage"}
          /\ \A v \in Upgrades \ {u} : UNCHANGED <<staged[v], doing[v]>>
      BY <2>1, <2>4
    <3>2. Frame(u)
      BY <2>1, <2>2, <2>4, <3>1, HoldsOne DEF Frame, Owns
    <3>3. Stock(u)'
      <4>1. \A e \in 1 .. staged[u] : dirs[e][target[u]] = "installed"
        BY <2>1 DEF Stock, Safe
      <4>2. \A e \in 1 .. staged'[u] : e \in Engines /\ dirs'[e][target[u]] = "installed"
        BY <2>1, <2>4, <3>1, <4>1, HoldsOne
      <4> QED
        BY <2>1, <2>2, <3>1, <4>2 DEF Stock, Owns
    <3> QED
      BY <2>1, <2>2, <3>1, <3>2, <3>3, PointerKept, FrameKeeps DEF CommandKept, Named, Safe
  <2> QED
    BY <1>3, <2>3, <2>4 DEF Fill
<1>4. CASE StageFails(u)
  <2>1. staged[u] + 1 \in Engines /\ target[u] \in GenerationIds /\ op[u] = "upgrade" /\ doing[u] = "fill"
        /\ Owns(u, staged[u] + 1)
    BY <1>4 DEF StageFails, Progress, Owns
  <2>2. UpgradeFails(u, staged[u]) /\ UNCHANGED <<op, target, current, pointer, verified, torn>>
    BY <1>4 DEF StageFails
  <2>3. PICK rest \in {"absent", "partial"} : Holds(staged[u] + 1, target[u], rest)
    BY <1>4 DEF StageFails
  <2>4. Frame(u)
    BY <2>1, <2>2, <2>3, HoldsOne, FailsTo DEF Frame, Owns
  <2>5. Stock(u)' /\ Named(u)'
    BY <2>1, <2>2, <2>3, HoldsOne, FailsTo, SMTT(30) DEF Stock, Named, Owns, Safe
  <2> QED
    BY <2>2, <2>4, <2>5, PointerKept DEF CommandKept
<1>5. CASE CheckHealth(u)
  <2>1. engine[u] \in Engines /\ op[u] \in {"upgrade", "rollback"} /\ doing[u] = "check"
        /\ UNCHANGED <<op, target, current, dirs, pointer, torn>>
    BY <1>5 DEF CheckHealth, Progress
  <2>2. CASE Does(u, "activate") /\ verified' = verified \cup {target[u]} /\ UNCHANGED <<engine, staged>>
    <3>1. Frame(u) /\ Stock(u)'
      BY <2>1, <2>2 DEF Frame, Owns, Stock, Safe, Progress
    <3> QED
      BY <2>1, <2>2, <3>1, PointerKept, FrameKeeps DEF CommandKept, Named, Safe, Progress
  <2>3. CASE AtEngine(u, engine[u] + 1) /\ UNCHANGED <<doing, verified, staged>>
    <3>1. Frame(u) /\ Stock(u)'
      BY <2>1, <2>3 DEF Frame, Owns, Stock, Safe, Progress
    <3> QED
      BY <2>1, <2>3, <3>1, PointerKept, FrameKeeps DEF CommandKept, Named, Safe, Progress
  <2>4. CASE UpgradeFails(u, EngineCount) /\ UNCHANGED verified /\ op[u] = "upgrade"
    <3>1. Frame(u) /\ Stock(u)' /\ Named(u)'
      BY <2>1, <2>4, FailsTo, EngineCount \in 0 .. EngineCount DEF Frame, Owns, Stock, Named, Safe, Progress
    <3> QED
      BY <2>1, <3>1, PointerKept DEF CommandKept
  <2>5. CASE Does(u, "over") /\ UNCHANGED <<staged, engine, verified>>
    <3>1. Frame(u) /\ Stock(u)' /\ Named(u)'
      BY <2>1, <2>5 DEF Frame, Owns, Stock, Named
    <3> QED
      BY <2>1, <3>1, PointerKept DEF CommandKept
  <2> QED
    BY <1>5, <2>2, <2>3, <2>4, <2>5 DEF CheckHealth
<1>6. CASE Activate(u)
  <2>1. target[u] \in GenerationIds /\ op[u] \in {"upgrade", "rollback"} /\ doing[u] = "activate"
        /\ UNCHANGED <<op, target, current, dirs, verified>>
    BY <1>6 DEF Activate, Progress
  <2>2. CASE pointer' \in {pointer, Activated(u)} /\ UNCHANGED <<staged, engine>>
             /\ \E s \in {"activated", "over"} : Does(u, s)
    <3>1. Frame(u) /\ Stock(u)' /\ Named(u)'
      BY <2>1, <2>2 DEF Frame, Owns, Stock, Named
    <3>2. SettledGeneration(target[u])'
      <4>1. CASE op[u] = "rollback"
        BY <2>1, <3>1, <4>1, FrameKeeps DEF Safe, Named
      <4>2. CASE op[u] = "upgrade"
        <5>1. \A e \in Engines : Owns(u, e) /\ dirs[e][target[u]] = "installed"
          BY <2>1, <4>2 DEF Owns, Safe, Stock, Progress
        <5>2. \A v \in Upgrades : target[v] = target[u] => \A e \in Engines : ~Owns(v, e)'
          BY <2>1, <2>2, <5>1 DEF Owns, Safe, Exclusive
        <5> QED
          BY <2>1, <4>2, <5>1, <5>2 DEF SettledGeneration, Safe, Stock
      <4> QED
        BY <2>1, <4>1, <4>2
    <3>3. current[u] = NoId \/ SettledGeneration(current[u])'
      BY <2>1, <3>1, FrameKeeps DEF Safe, Named
    <3>4. \A g \in {pointer.generation, pointer.previous} \ {NoId} : SettledGeneration(g)'
      BY <3>1, FrameKeeps DEF Safe, PointerSettled
    <3>5. PointerSettled'
      <4>1. CASE pointer' = pointer
        BY <3>4, <4>1 DEF PointerSettled
      <4>2. CASE pointer' = Activated(u)
        <5>1. pointer'.generation = target[u] /\ pointer'.previous = current[u]
          BY <4>2 DEF Activated
        <5>2. SettledGeneration(pointer.generation)' /\ (pointer'.previous = NoId \/ SettledGeneration(pointer.previous)')
          BY <2>1, <3>2, <3>3, <5>1
        <5> QED
          BY <5>2 DEF PointerSettled
      <4> QED
        BY <2>2, <4>1, <4>2
    <3> QED
      BY <3>1, <3>5 DEF CommandKept
  <2>3. CASE UpgradeFails(u, EngineCount) /\ op[u] = "upgrade" /\ UNCHANGED pointer
    <3>1. Frame(u) /\ Stock(u)' /\ Named(u)'
      BY <2>1, <2>3, FailsTo, EngineCount \in 0 .. EngineCount DEF Frame, Owns, Stock, Named, Safe, Progress
    <3> QED
      BY <2>3, <3>1, PointerKept DEF CommandKept
  <2> QED
    BY <1>6, <2>1, <2>2, <2>3 DEF Activate
<1>7. CASE RemoveGeneration(u)
  <2>1. engine[u] \in Engines /\ engine[u] <= staged[u] /\ target[u] \in GenerationIds /\ op[u] = "upgrade"
        /\ doing[u] = "remove" /\ Owns(u, engine[u])
        /\ UNCHANGED <<op, staged, target, current, pointer, verified, torn>>
    BY <1>7 DEF RemoveGeneration, Progress, Owns
  <2>2. CASE Holds(engine[u], target[u], "absent") /\ AtEngine(u, engine[u] + 1)
             /\ Does(u, IF engine[u] = staged[u] THEN "over" ELSE "remove")
    <3>1. engine'[u] = engine[u] + 1 /\ doing'[u] \in {"over", "remove"}
          /\ \A v \in Upgrades \ {u} : UNCHANGED <<engine[v], doing[v]>>
      BY <2>1, <2>2
    <3>2. Frame(u)
      BY <2>1, <2>2, <3>1, HoldsOne DEF Frame, Owns
    <3>3. Stock(u)' /\ Named(u)'
      BY <2>1, <2>2, <3>1, HoldsOne DEF Stock, Named, Owns, Safe
    <3> QED
      BY <2>1, <3>2, <3>3, PointerKept DEF CommandKept
  <2>3. CASE Holds(engine[u], target[u], "partial") /\ Does(u, "over") /\ UNCHANGED engine
    <3>1. Frame(u)
      BY <2>1, <2>3, HoldsOne DEF Frame, Owns
    <3>2. Stock(u)' /\ Named(u)'
      BY <2>1, <2>3 DEF Stock, Named, Owns
    <3> QED
      BY <2>1, <3>1, <3>2, PointerKept DEF CommandKept
  <2> QED
    BY <1>7, <2>2, <2>3 DEF RemoveGeneration
<1>8. CASE BeginRollback(u)
  <2>1. Frame(u) /\ Stock(u)'
    BY <1>8 DEF BeginRollback, Frame, Stock, Owns
  <2>2. Named(u)'
    BY <1>8, <2>1, FrameKeeps DEF BeginRollback, Safe, PointerSettled, Named
  <2> QED
    BY <1>8, <2>1, <2>2, PointerKept DEF BeginRollback, CommandKept
<1>9. CASE Dies(u)
  <2>1. Frame(u) /\ Stock(u)' /\ Named(u)'
    BY <1>9 DEF Dies, Frame, Stock, Named, Owns
  <2> QED
    BY <1>9, <2>1, PointerKept DEF Dies, CommandKept
<1> QED
  BY <1>1, <1>2, <1>3, <1>4, <1>5, <1>6, <1>7, <1>8, <1>9 DEF UpgradeStep

(* The inductive invariant of upgrades holds.                              *)
LEMMA UpgradeInvariant == UpgradeSpec => []UpgradeInv
<1>1. UpgradeInv <=> TypesAndProgress /\ (torn = {} => Safe)
  BY DEF UpgradeInv, TypesAndProgress, Safe
<1>2. ASSUME UpgradeInv, NEW u \in Upgrades, UpgradeStep(u) PROVE UpgradeInv'
  <2>1. torn \subseteq torn'
    BY <1>2 DEF UpgradeStep, BeginUpgrade, MakeDirectory, Fill, StageFails, CheckHealth, Activate,
                RemoveGeneration, BeginRollback, Dies
  <2>2. TypesAndProgress'
    BY <1>2, ProgressKept
  <2>3. torn' = {} => Safe'
    BY <1>1, <1>2, <2>1, SafeKept
  <2> QED
    BY <2>2, <2>3 DEF UpgradeInv, TypesAndProgress, Safe
<1>3. ASSUME UpgradeInv, UNCHANGED upgradeVars PROVE UpgradeInv'
  <2>1. \A u \in Upgrades, e \in Engines : Owns(u, e)' <=> Owns(u, e)
    BY <1>3 DEF upgradeVars, Owns
  <2>2. \A g : SettledGeneration(g)' <=> SettledGeneration(g)
    BY <1>3, <2>1 DEF upgradeVars, SettledGeneration
  <2>3. TypesAndProgress'
    BY <1>1, <1>3 DEF upgradeVars, TypesAndProgress, Progress
  <2>4. torn = {} => Safe'
    BY <1>1, <1>3, <2>1, <2>2 DEF upgradeVars, Safe, Stock, Named, Exclusive, PointerSettled
  <2> QED
    BY <1>3, <2>3, <2>4 DEF upgradeVars, UpgradeInv, TypesAndProgress, Safe
<1>4. UpgradeInv /\ [UpgradeNext]_upgradeVars => UpgradeInv'
  BY <1>2, <1>3 DEF UpgradeNext
<1> QED
  BY InitUpgrade, <1>4, PTL DEF UpgradeSpec

(* Both generations that the pointer names are whole and were checked, unless  *)
(* its directory could not be synchronised: for any number of commands that    *)
(* fail, clean up or die.                                                      *)
THEOREM PointerAlwaysNamesWhole == UpgradeSpec => []PointerNamesWhole
<1>1. UpgradeInv => PointerNamesWhole
  BY DEF UpgradeInv, PointerSettled, SettledGeneration, PointerNamesWhole
<1> QED
  BY UpgradeInvariant, <1>1, PTL

HIDE UpgradeAssumption DEF UpgradeTypeOK, Engines, NoPointer, Does, AtEngine

-----------------------------------------------------------------------------
(* CoreRun.  Without start --detach the Core that is up is the one on      *)
(* record, for any number of commands.                                     *)

\* Where a command is says what it is, what it has to stop and which lock it has.
Standing(k) ==
  /\ at[k] # "off" => kind[k] # "none"
  /\ at[k] = "claim" => kind[k] \in {"serve", "start"}
  /\ HoldsDescriptor(k) => kind[k] = "start"
  /\ at[k] \in {"compare", "signal", "await", "clear", "clearing"} => seen[k] # Nobody
  /\ core[k] # "none" => at[k] \in {"wait", "tidy", "release", "serve", "done"}
  /\ at[k] = "spawn" => flock = Claim(k)
  /\ flock = Probe(k) <=> at[k] \in {"sweep", "clearing"}

\* Only a Core that wrote core.json was ever named there.
WasNamed(k) == core[k] \notin {"none", "claimed"}

\* Every name on record, and every name a command has read, is of a Core that wrote it.
NamesAreCores ==
  /\ runRecord # Nobody => WasNamed(runRecord)
  /\ \A k \in Commands : seen[k] # Nobody => WasNamed(seen[k])

\* What the property says of one Core.
IsOwner(k) ==
  Live(k) =>
    /\ flock = Claim(k)
    /\ core[k] \in {"recorded", "serving", "asked"}
         => runRecord = k \/ at[k] \in {"tidy", "release"}

\* The inductive invariant.
CoreInv ==
  /\ CoreTypeOK
  /\ \A k \in Commands : Standing(k)
  /\ NamesAreCores
  /\ Detached = {} => \A k \in Commands : IsOwner(k)

USE CoreRunAssumption
   DEF CoreTypeOK, Kinds, Free, Probe, Claim, Live, HoldsDescriptor, Goes, Becomes

(* No command has been given.                                              *)
LEMMA InitCore == CoreInit => CoreInv
  BY SMTT(30) DEF CoreInit, CoreInv, Standing, NamesAreCores, IsOwner

(* Types, and where commands are, whatever a command or a Core does.           *)
LEMMA StandingKept ==
  ASSUME CoreInv, NEW k \in Commands, CommandStep(k) \/ CoreStep(k)
  PROVE  CoreTypeOK' /\ (\A j \in Commands : Standing(j)') /\ NamesAreCores'
<1> USE DEF CoreInv, Standing, NamesAreCores, WasNamed
<1>1. CASE Give(k)
  BY <1>1 DEF Give
<1>2. CASE Read(k)
  BY <1>2 DEF Read, Returns
<1>3. CASE TryLock(k)
  BY <1>3 DEF TryLock, Probes
<1>4. CASE ReadAgain(k)
  BY <1>4 DEF ReadAgain, Returns
<1>5. CASE Sweep(k)
  BY <1>5 DEF Sweep, Returns
<1>6. CASE TakeClaim(k)
  BY <1>6 DEF TakeClaim
<1>7. CASE Spawn(k)
  BY <1>7 DEF Spawn
<1>8. CASE Ready(k)
  BY <1>8 DEF Ready
<1>9. CASE Interrupt(k)
  BY <1>9 DEF Interrupt
<1>10. CASE GiveUp(k)
  BY <1>10 DEF GiveUp, Terminated
<1>11. CASE Tidy(k)
  BY <1>11 DEF Tidy
<1>12. CASE Release(k)
  BY <1>12 DEF Release
<1>13. CASE Compare(k)
  BY <1>13 DEF Compare, StopEnds
<1>14. CASE Signal(k)
  BY <1>14 DEF Signal, Terminated, UnlessShared
<1>15. CASE Await(k)
  BY <1>15 DEF Await, UnlessShared
<1>16. CASE LockToClear(k)
  BY <1>16 DEF LockToClear, Probes, StopEnds
<1>17. CASE ClearIfOwner(k)
  BY <1>17 DEF ClearIfOwner, StopEnds
<1>18. CASE CommandDies(k)
  BY <1>18 DEF CommandDies
<1>19. CASE WriteRecord(k)
  BY <1>19 DEF WriteRecord
<1>20. CASE Serve(k)
  BY <1>20 DEF Serve
<1>21. CASE Quit(k)
  BY <1>21 DEF Quit
<1>22. CASE ClearOwn(k)
  BY <1>22 DEF ClearOwn
<1>23. CASE Exit(k)
  BY <1>23 DEF Exit
<1>24. CASE CoreDies(k)
  BY <1>24 DEF CoreDies, UnlessShared
<1> QED
  BY <1>1, <1>2, <1>3, <1>4, <1>5, <1>6, <1>7, <1>8, <1>9, <1>10, <1>11, <1>12, <1>13, <1>14,
     <1>15, <1>16, <1>17, <1>18, <1>19, <1>20, <1>21, <1>22, <1>23, <1>24
     DEF CommandStep, CoreStep

(* Without start --detach, a Core that lives keeps the claim and the       *)
(* record.                                                                 *)
LEMMA OwnersKept ==
  ASSUME CoreInv, NEW k \in Commands, CommandStep(k) \/ CoreStep(k), Detached' = {}
  PROVE  \A j \in Commands : IsOwner(j)'
<1> USE DEF CoreInv, Standing, NamesAreCores, WasNamed, IsOwner, Detached
<1>1. CASE Give(k)
  BY <1>1 DEF Give
<1>2. CASE Read(k)
  BY <1>2 DEF Read, Returns
<1>3. CASE TryLock(k)
  BY <1>3 DEF TryLock, Probes
<1>4. CASE ReadAgain(k)
  BY <1>4 DEF ReadAgain, Returns
<1>5. CASE Sweep(k)
  BY <1>5 DEF Sweep, Returns
<1>6. CASE TakeClaim(k)
  BY <1>6 DEF TakeClaim
<1>7. CASE Spawn(k)
  BY <1>7 DEF Spawn
<1>8. CASE Ready(k)
  BY <1>8 DEF Ready
<1>9. CASE Interrupt(k)
  BY <1>9 DEF Interrupt
<1>10. CASE GiveUp(k)
  BY <1>10 DEF GiveUp, Terminated
<1>11. CASE Tidy(k)
  BY <1>11 DEF Tidy
<1>12. CASE Release(k)
  BY <1>12 DEF Release
<1>13. CASE Compare(k)
  BY <1>13 DEF Compare, StopEnds
<1>14. CASE Signal(k)
  BY <1>14 DEF Signal, Terminated, UnlessShared
<1>15. CASE Await(k)
  BY <1>15 DEF Await, UnlessShared
<1>16. CASE LockToClear(k)
  BY <1>16 DEF LockToClear, Probes, StopEnds
<1>17. CASE ClearIfOwner(k)
  BY <1>17 DEF ClearIfOwner, StopEnds
<1>18. CASE CommandDies(k)
  BY <1>18 DEF CommandDies
<1>19. CASE WriteRecord(k)
  BY <1>19 DEF WriteRecord
<1>20. CASE Serve(k)
  BY <1>20 DEF Serve
<1>21. CASE Quit(k)
  BY <1>21 DEF Quit
<1>22. CASE ClearOwn(k)
  BY <1>22 DEF ClearOwn
<1>23. CASE Exit(k)
  BY <1>23 DEF Exit
<1>24. CASE CoreDies(k)
  BY <1>24 DEF CoreDies, UnlessShared
<1> QED
  BY <1>1, <1>2, <1>3, <1>4, <1>5, <1>6, <1>7, <1>8, <1>9, <1>10, <1>11, <1>12, <1>13, <1>14,
     <1>15, <1>16, <1>17, <1>18, <1>19, <1>20, <1>21, <1>22, <1>23, <1>24
     DEF CommandStep, CoreStep

(* The inductive invariant of the commands holds.                          *)
LEMMA CoreInvariant == CoreRunSpec => []CoreInv
<1>1. CoreInv /\ [CoreNext]_coreVars => CoreInv'
  <2> SUFFICES ASSUME CoreInv, [CoreNext]_coreVars PROVE CoreInv'
    OBVIOUS
  <2>1. CASE UNCHANGED coreVars
    BY <2>1 DEF coreVars, CoreInv, Standing, NamesAreCores, WasNamed, IsOwner, Detached
  <2>2. ASSUME NEW k \in Commands, CommandStep(k) \/ CoreStep(k) PROVE CoreInv'
    BY <2>2, StandingKept, OwnersKept DEF CoreInv
  <2> QED
    BY <2>1, <2>2 DEF CoreNext
<1> QED
  BY InitCore, <1>1, PTL DEF CoreRunSpec

(* As long as nobody starts Core detached, the Core that is up holds the   *)
(* claim and core.json names it, but while it removes the file at its end. *)
THEOREM CoreOwnerIsNamed == CoreRunSpec => []OwnerIsNamed
<1>1. CoreInv => OwnerIsNamed
  BY DEF CoreInv, IsOwner, OwnerIsNamed
<1> QED
  BY CoreInvariant, <1>1, PTL

HIDE CoreRunAssumption
   DEF CoreTypeOK, Kinds, Free, Probe, Claim, Live, HoldsDescriptor, Goes, Becomes

-----------------------------------------------------------------------------
(* LoginService.  However install and uninstall fail, are killed and are   *)
(* repeated, the service can be removed, and what they say is so.          *)

\* The commands that have begun, with the steps that are left.
Installing(todo)   == admin = [op |-> "install", todo |-> todo]
Uninstalling(todo) == admin = [op |-> "uninstall", todo |-> todo]

\* Where a command can be, and what its steps so far have made of the service.
\* What is left to do, what the manager has and what the files say, by platform: launchd,
OnDarwin ==
  /\ ~enabled /\ (active => definition)
  /\ \/ admin = Resting
     \/ Installing(<<"write", "bootstrap">>)
     \/ Installing(<<"bootstrap">>) /\ definition
     \/ Uninstalling(<<"look", "bootout", "unlink">>)
     \/ Uninstalling(<<"bootout", "unlink">>)
     \/ Uninstalling(<<"unlink">>) /\ ~active

\* systemd,
OnLinux ==
  /\ enabled \/ active => definition
  /\ \/ admin = Resting
     \/ Installing(<<"write", "reload", "enable", "start">>)
     \/ Installing(<<"reload", "enable", "start">>) /\ definition
     \/ Installing(<<"enable", "start">>) /\ definition
     \/ Installing(<<"start">>) /\ definition /\ enabled
     \/ Uninstalling(<<"look", "disable", "reload", "unlink">>)
     \/ Uninstalling(<<"disable", "reload", "unlink">>)
     \/ Uninstalling(<<"reload", "unlink">>) /\ ~enabled /\ ~active
     \/ Uninstalling(<<"unlink">>) /\ ~enabled /\ ~active

\* the scheduler of Windows.
OnWindows ==
  /\ ~active /\ ~definition
  /\ admin = Resting \/ Installing(<<"create">>) \/ Uninstalling(<<"delete">>)

\* The inductive invariant.
ServiceInv ==
  /\ {definition, enabled, active, coreRuns} \subseteq BOOLEAN
  /\ \/ platform = "darwin" /\ OnDarwin
     \/ platform = "linux" /\ OnLinux
     \/ platform = "windows" /\ OnWindows
  /\ report = "installed" => StartsAtLogin
  /\ report \in {"removed", "absent"} => ~StartsAtLogin /\ ~enabled /\ ~active
  /\ admin # Resting => report = "none"
  /\ report \in {"none", "refused", "installed", "removed", "absent", "failed",
                 "running", "stopped", "unknown"}

USE DEF StartsAtLogin, Finds, OnDarwin, OnLinux, OnWindows

(* Nothing is defined, and no command runs.                                *)
LEMMA InitService == ServiceInit => ServiceInv
  BY DEF ServiceInit, ServiceInv, Resting

\* A command is at the first of its steps, and goes on with the others.
IsAt(step) == admin # Resting /\ \A other : Doing(other) => other = step

\* Nothing is done while no command runs.
LEMMA NothingToDo == ASSUME admin = Resting, NEW step PROVE ~Doing(step)
  BY DEF Resting, Doing

\* The commands, step by step.
LEMMA CommandStages ==
  /\ Installing(<<"write", "bootstrap">>) =>
       IsAt("write") /\ (StepDone => Installing(<<"bootstrap">>)' /\ UNCHANGED report)
  /\ Installing(<<"bootstrap">>) =>
       IsAt("bootstrap") /\ (StepDone => Says("installed"))
  /\ Uninstalling(<<"look", "bootout", "unlink">>) =>
       IsAt("look") /\ (StepDone => Uninstalling(<<"bootout", "unlink">>)' /\ UNCHANGED report)
  /\ Uninstalling(<<"bootout", "unlink">>) =>
       IsAt("bootout") /\ (StepDone => Uninstalling(<<"unlink">>)' /\ UNCHANGED report)
  /\ Uninstalling(<<"unlink">>) =>
       IsAt("unlink") /\ (StepDone => Says("removed"))
  /\ Installing(<<"write", "reload", "enable", "start">>) =>
       IsAt("write") /\ (StepDone => Installing(<<"reload", "enable", "start">>)'
         /\ UNCHANGED report)
  /\ Installing(<<"reload", "enable", "start">>) =>
       IsAt("reload") /\ (StepDone => Installing(<<"enable", "start">>)' /\ UNCHANGED report)
  /\ Installing(<<"enable", "start">>) =>
       IsAt("enable") /\ (StepDone => Installing(<<"start">>)' /\ UNCHANGED report)
  /\ Installing(<<"start">>) =>
       IsAt("start") /\ (StepDone => Says("installed"))
  /\ Uninstalling(<<"look", "disable", "reload", "unlink">>) =>
       IsAt("look") /\ (StepDone => Uninstalling(<<"disable", "reload", "unlink">>)'
         /\ UNCHANGED report)
  /\ Uninstalling(<<"disable", "reload", "unlink">>) =>
       IsAt("disable") /\ (StepDone => Uninstalling(<<"reload", "unlink">>)' /\ UNCHANGED report)
  /\ Uninstalling(<<"reload", "unlink">>) =>
       IsAt("reload") /\ (StepDone => Uninstalling(<<"unlink">>)' /\ UNCHANGED report)
  /\ Installing(<<"create">>) =>
       IsAt("create") /\ (StepDone => Says("installed"))
  /\ Uninstalling(<<"delete">>) =>
       IsAt("delete") /\ (StepDone => Says("removed"))
<1>1. ASSUME Installing(<<"write", "bootstrap">>)
      PROVE  IsAt("write") /\ (StepDone => Installing(<<"bootstrap">>)' /\ UNCHANGED report)
  <2>1. admin.op = "install" /\ admin.todo = <<"write", "bootstrap">>
    BY <1>1 DEF Installing
  <2>2. Head(admin.todo) = "write" /\ Tail(admin.todo) = <<"bootstrap">> /\ admin.todo # <<>>
          /\ <<"bootstrap">> # <<>>
    BY <2>1
  <2>3. IsAt("write")
    BY <2>1, <2>2 DEF IsAt, Doing, Resting
  <2>4. [admin EXCEPT !.todo = Tail(@)] = [op |-> "install", todo |-> <<"bootstrap">>]
    BY <1>1, <2>2 DEF Installing
  <2> QED
    BY <2>2, <2>3, <2>4 DEF StepDone, Installing
<1>2. ASSUME Installing(<<"bootstrap">>)
      PROVE  IsAt("bootstrap") /\ (StepDone => Says("installed"))
  <2>1. admin.op = "install" /\ admin.todo = <<"bootstrap">>
    BY <1>2 DEF Installing
  <2>2. Head(admin.todo) = "bootstrap" /\ Tail(admin.todo) = <<>> /\ admin.todo # <<>>
    BY <2>1
  <2>3. IsAt("bootstrap")
    BY <2>1, <2>2 DEF IsAt, Doing, Resting
  <2> QED
    BY <2>1, <2>2, <2>3 DEF StepDone
<1>3. ASSUME Uninstalling(<<"look", "bootout", "unlink">>)
      PROVE  IsAt("look") /\ (StepDone => Uninstalling(<<"bootout", "unlink">>)'
             /\ UNCHANGED report)
  <2>1. admin.op = "uninstall" /\ admin.todo = <<"look", "bootout", "unlink">>
    BY <1>3 DEF Uninstalling
  <2>2. Head(admin.todo) = "look" /\ Tail(admin.todo) = <<"bootout", "unlink">>
          /\ admin.todo # <<>> /\ <<"bootout", "unlink">> # <<>>
    BY <2>1
  <2>3. IsAt("look")
    BY <2>1, <2>2 DEF IsAt, Doing, Resting
  <2>4. [admin EXCEPT !.todo = Tail(@)] = [op |-> "uninstall", todo |-> <<"bootout", "unlink">>]
    BY <1>3, <2>2 DEF Uninstalling
  <2> QED
    BY <2>2, <2>3, <2>4 DEF StepDone, Uninstalling
<1>4. ASSUME Uninstalling(<<"bootout", "unlink">>)
      PROVE  IsAt("bootout") /\ (StepDone => Uninstalling(<<"unlink">>)' /\ UNCHANGED report)
  <2>1. admin.op = "uninstall" /\ admin.todo = <<"bootout", "unlink">>
    BY <1>4 DEF Uninstalling
  <2>2. Head(admin.todo) = "bootout" /\ Tail(admin.todo) = <<"unlink">> /\ admin.todo # <<>>
          /\ <<"unlink">> # <<>>
    BY <2>1
  <2>3. IsAt("bootout")
    BY <2>1, <2>2 DEF IsAt, Doing, Resting
  <2>4. [admin EXCEPT !.todo = Tail(@)] = [op |-> "uninstall", todo |-> <<"unlink">>]
    BY <1>4, <2>2 DEF Uninstalling
  <2> QED
    BY <2>2, <2>3, <2>4 DEF StepDone, Uninstalling
<1>5. ASSUME Uninstalling(<<"unlink">>)
      PROVE  IsAt("unlink") /\ (StepDone => Says("removed"))
  <2>1. admin.op = "uninstall" /\ admin.todo = <<"unlink">>
    BY <1>5 DEF Uninstalling
  <2>2. Head(admin.todo) = "unlink" /\ Tail(admin.todo) = <<>> /\ admin.todo # <<>>
    BY <2>1
  <2>3. IsAt("unlink")
    BY <2>1, <2>2 DEF IsAt, Doing, Resting
  <2> QED
    BY <2>1, <2>2, <2>3 DEF StepDone
<1>6. ASSUME Installing(<<"write", "reload", "enable", "start">>)
      PROVE  IsAt("write") /\ (StepDone => Installing(<<"reload", "enable", "start">>)'
             /\ UNCHANGED report)
  <2>1. admin.op = "install" /\ admin.todo = <<"write", "reload", "enable", "start">>
    BY <1>6 DEF Installing
  <2>2. Head(admin.todo) = "write" /\ Tail(admin.todo) = <<"reload", "enable", "start">>
          /\ admin.todo # <<>> /\ <<"reload", "enable", "start">> # <<>>
    BY <2>1
  <2>3. IsAt("write")
    BY <2>1, <2>2 DEF IsAt, Doing, Resting
  <2>4. [admin EXCEPT !.todo = Tail(@)] = [op |-> "install", todo |-> <<"reload", "enable", "start">>]
    BY <1>6, <2>2 DEF Installing
  <2> QED
    BY <2>2, <2>3, <2>4 DEF StepDone, Installing
<1>7. ASSUME Installing(<<"reload", "enable", "start">>)
      PROVE  IsAt("reload") /\ (StepDone => Installing(<<"enable", "start">>)' /\ UNCHANGED report)
  <2>1. admin.op = "install" /\ admin.todo = <<"reload", "enable", "start">>
    BY <1>7 DEF Installing
  <2>2. Head(admin.todo) = "reload" /\ Tail(admin.todo) = <<"enable", "start">>
          /\ admin.todo # <<>> /\ <<"enable", "start">> # <<>>
    BY <2>1
  <2>3. IsAt("reload")
    BY <2>1, <2>2 DEF IsAt, Doing, Resting
  <2>4. [admin EXCEPT !.todo = Tail(@)] = [op |-> "install", todo |-> <<"enable", "start">>]
    BY <1>7, <2>2 DEF Installing
  <2> QED
    BY <2>2, <2>3, <2>4 DEF StepDone, Installing
<1>8. ASSUME Installing(<<"enable", "start">>)
      PROVE  IsAt("enable") /\ (StepDone => Installing(<<"start">>)' /\ UNCHANGED report)
  <2>1. admin.op = "install" /\ admin.todo = <<"enable", "start">>
    BY <1>8 DEF Installing
  <2>2. Head(admin.todo) = "enable" /\ Tail(admin.todo) = <<"start">> /\ admin.todo # <<>>
          /\ <<"start">> # <<>>
    BY <2>1
  <2>3. IsAt("enable")
    BY <2>1, <2>2 DEF IsAt, Doing, Resting
  <2>4. [admin EXCEPT !.todo = Tail(@)] = [op |-> "install", todo |-> <<"start">>]
    BY <1>8, <2>2 DEF Installing
  <2> QED
    BY <2>2, <2>3, <2>4 DEF StepDone, Installing
<1>9. ASSUME Installing(<<"start">>)
      PROVE  IsAt("start") /\ (StepDone => Says("installed"))
  <2>1. admin.op = "install" /\ admin.todo = <<"start">>
    BY <1>9 DEF Installing
  <2>2. Head(admin.todo) = "start" /\ Tail(admin.todo) = <<>> /\ admin.todo # <<>>
    BY <2>1
  <2>3. IsAt("start")
    BY <2>1, <2>2 DEF IsAt, Doing, Resting
  <2> QED
    BY <2>1, <2>2, <2>3 DEF StepDone
<1>10. ASSUME Uninstalling(<<"look", "disable", "reload", "unlink">>)
      PROVE  IsAt("look") /\ (StepDone => Uninstalling(<<"disable", "reload", "unlink">>)'
             /\ UNCHANGED report)
  <2>1. admin.op = "uninstall" /\ admin.todo = <<"look", "disable", "reload", "unlink">>
    BY <1>10 DEF Uninstalling
  <2>2. Head(admin.todo) = "look" /\ Tail(admin.todo) = <<"disable", "reload", "unlink">>
          /\ admin.todo # <<>> /\ <<"disable", "reload", "unlink">> # <<>>
    BY <2>1
  <2>3. IsAt("look")
    BY <2>1, <2>2 DEF IsAt, Doing, Resting
  <2>4. [admin EXCEPT !.todo = Tail(@)] = [op |-> "uninstall", todo |-> <<"disable", "reload", "unlink">>]
    BY <1>10, <2>2 DEF Uninstalling
  <2> QED
    BY <2>2, <2>3, <2>4 DEF StepDone, Uninstalling
<1>11. ASSUME Uninstalling(<<"disable", "reload", "unlink">>)
      PROVE  IsAt("disable") /\ (StepDone => Uninstalling(<<"reload", "unlink">>)'
             /\ UNCHANGED report)
  <2>1. admin.op = "uninstall" /\ admin.todo = <<"disable", "reload", "unlink">>
    BY <1>11 DEF Uninstalling
  <2>2. Head(admin.todo) = "disable" /\ Tail(admin.todo) = <<"reload", "unlink">>
          /\ admin.todo # <<>> /\ <<"reload", "unlink">> # <<>>
    BY <2>1
  <2>3. IsAt("disable")
    BY <2>1, <2>2 DEF IsAt, Doing, Resting
  <2>4. [admin EXCEPT !.todo = Tail(@)] = [op |-> "uninstall", todo |-> <<"reload", "unlink">>]
    BY <1>11, <2>2 DEF Uninstalling
  <2> QED
    BY <2>2, <2>3, <2>4 DEF StepDone, Uninstalling
<1>12. ASSUME Uninstalling(<<"reload", "unlink">>)
      PROVE  IsAt("reload") /\ (StepDone => Uninstalling(<<"unlink">>)' /\ UNCHANGED report)
  <2>1. admin.op = "uninstall" /\ admin.todo = <<"reload", "unlink">>
    BY <1>12 DEF Uninstalling
  <2>2. Head(admin.todo) = "reload" /\ Tail(admin.todo) = <<"unlink">> /\ admin.todo # <<>>
          /\ <<"unlink">> # <<>>
    BY <2>1
  <2>3. IsAt("reload")
    BY <2>1, <2>2 DEF IsAt, Doing, Resting
  <2>4. [admin EXCEPT !.todo = Tail(@)] = [op |-> "uninstall", todo |-> <<"unlink">>]
    BY <1>12, <2>2 DEF Uninstalling
  <2> QED
    BY <2>2, <2>3, <2>4 DEF StepDone, Uninstalling
<1>13. ASSUME Installing(<<"create">>)
      PROVE  IsAt("create") /\ (StepDone => Says("installed"))
  <2>1. admin.op = "install" /\ admin.todo = <<"create">>
    BY <1>13 DEF Installing
  <2>2. Head(admin.todo) = "create" /\ Tail(admin.todo) = <<>> /\ admin.todo # <<>>
    BY <2>1
  <2>3. IsAt("create")
    BY <2>1, <2>2 DEF IsAt, Doing, Resting
  <2> QED
    BY <2>1, <2>2, <2>3 DEF StepDone
<1>14. ASSUME Uninstalling(<<"delete">>)
      PROVE  IsAt("delete") /\ (StepDone => Says("removed"))
  <2>1. admin.op = "uninstall" /\ admin.todo = <<"delete">>
    BY <1>14 DEF Uninstalling
  <2>2. Head(admin.todo) = "delete" /\ Tail(admin.todo) = <<>> /\ admin.todo # <<>>
    BY <2>1
  <2>3. IsAt("delete")
    BY <2>1, <2>2 DEF IsAt, Doing, Resting
  <2> QED
    BY <2>1, <2>2, <2>3 DEF StepDone
<1> QED
  BY <1>1, <1>2, <1>3, <1>4, <1>5, <1>6, <1>7, <1>8, <1>9, <1>10, <1>11, <1>12, <1>13,
     <1>14

USE DEF Says

(* The steps that begin a command, and the one that only reads.            *)
LEMMA AsksKeep == ASSUME ServiceInv, AskInstall \/ AskUninstall \/ ShowStatus PROVE ServiceInv'
<1>1. CASE AskInstall
  BY <1>1 DEF AskInstall, ServiceInv, Resting, Installing, Uninstalling, InstallSteps
<1>2. CASE AskUninstall
  BY <1>2 DEF AskUninstall, ServiceInv, Resting, Installing, Uninstalling, UninstallSteps
<1>3. CASE ShowStatus
  BY <1>3 DEF ShowStatus, ServiceInv, Resting, Installing, Uninstalling
<1> QED
  BY <1>1, <1>2, <1>3

(* A command ends, by itself, by a failure or killed.                      *)
LEMMA EndsKeep ==
  ASSUME ServiceInv, StepFails \/ AdminDies \/ LogIn \/ KeepAlive \/ CoreChanges PROVE ServiceInv'
<1>1. CASE StepFails
  BY <1>1 DEF StepFails, ServiceInv, Resting, Installing, Uninstalling
<1>2. CASE AdminDies
  BY <1>2 DEF AdminDies, ServiceInv, Resting, Installing, Uninstalling
<1>3. CASE LogIn
  BY <1>3 DEF LogIn, ServiceInv, Resting, Installing, Uninstalling
<1>4. CASE KeepAlive
  BY <1>4 DEF KeepAlive, ServiceInv, Resting, Installing, Uninstalling
<1>5. CASE CoreChanges
  BY <1>5 DEF CoreChanges, ServiceInv, Resting, Installing, Uninstalling
<1> QED
  BY <1>1, <1>2, <1>3, <1>4, <1>5

(* The steps that write and remove the definition.                         *)
LEMMA DefinitionStepsKeep ==
  ASSUME ServiceInv, WriteDefinition \/ LookForDefinition \/ RemoveDefinition PROVE ServiceInv'
<1>1. CASE WriteDefinition
  BY <1>1, NothingToDo, CommandStages DEF IsAt, WriteDefinition, ServiceInv
<1>2. CASE LookForDefinition
  BY <1>2, NothingToDo, CommandStages DEF IsAt, LookForDefinition, ServiceInv
<1>3. CASE RemoveDefinition
  BY <1>3, NothingToDo, CommandStages DEF IsAt, RemoveDefinition, ServiceInv
<1> QED
  BY <1>1, <1>2, <1>3

(* The steps that call the service manager.                                *)
LEMMA ManagerStepsKeep ==
  ASSUME ServiceInv,
         \/ Bootstrap \/ BootOut \/ Reload \/ EnableUnit \/ StartUnit \/ DisableUnit
         \/ CreateTask \/ DeleteTask
  PROVE  ServiceInv'
<1>1. CASE Bootstrap
  BY <1>1, NothingToDo, CommandStages DEF IsAt, Bootstrap, ServiceInv
<1>2. CASE BootOut
  BY <1>2, NothingToDo, CommandStages DEF IsAt, BootOut, ServiceInv
<1>3. CASE Reload
  BY <1>3, NothingToDo, CommandStages DEF IsAt, Reload, ServiceInv
<1>4. CASE EnableUnit
  BY <1>4, NothingToDo, CommandStages DEF IsAt, EnableUnit, ServiceInv
<1>5. CASE StartUnit
  BY <1>5, NothingToDo, CommandStages DEF IsAt, StartUnit, ServiceInv
<1>6. CASE DisableUnit
  BY <1>6, NothingToDo, CommandStages DEF IsAt, DisableUnit, ServiceInv
<1>7. CASE CreateTask
  BY <1>7, NothingToDo, CommandStages DEF IsAt, CreateTask, ServiceInv
<1>8. CASE DeleteTask
  BY <1>8, NothingToDo, CommandStages DEF IsAt, DeleteTask, ServiceInv
<1> QED
  BY <1>1, <1>2, <1>3, <1>4, <1>5, <1>6, <1>7, <1>8

(* The inductive invariant of the service holds.                           *)
LEMMA ServiceInvariant == ServiceSpec => []ServiceInv
<1>1. ServiceInv /\ [ServiceNext]_serviceVars => ServiceInv'
  <2> SUFFICES ASSUME ServiceInv, [ServiceNext]_serviceVars PROVE ServiceInv'
    OBVIOUS
  <2>1. CASE UNCHANGED serviceVars
    BY <2>1 DEF serviceVars, ServiceInv, Installing, Uninstalling, Resting
  <2>2. CASE ServiceNext
    BY <2>2, AsksKeep, EndsKeep, DefinitionStepsKeep, ManagerStepsKeep DEF ServiceNext
  <2> QED
    BY <2>1, <2>2
<1> QED
  BY InitService, <1>1, PTL DEF ServiceSpec

(* What starts at login has a definition that uninstall finds, and a       *)
(* command that succeeded has told the truth, at every point where install *)
(* or uninstall can fail or be killed.                                     *)
THEOREM LoginServiceCanBeRemoved == ServiceSpec => []ServiceCanBeRemoved
<1>1. ServiceInv => ServiceCanBeRemoved
  BY DEF ServiceInv, ServiceCanBeRemoved
<1> QED
  BY ServiceInvariant, <1>1, PTL

(* The types of the service hold: a command that runs has steps left.      *)
LEMMA ServiceIsTyped == ServiceSpec => []ServiceTypeOK
<1>1. ServiceInv => ServiceTypeOK
  <2> SUFFICES ASSUME ServiceInv PROVE ServiceTypeOK
    OBVIOUS
  <2>1. platform \in DOMAIN InstallSteps
    BY DEF ServiceInv, InstallSteps
  <2>2. admin.op \in {"none", "install", "uninstall"} /\ (admin = Resting <=> admin.todo = <<>>)
    BY DEF ServiceInv, Installing, Uninstalling, Resting
  <2> QED
    BY <2>1, <2>2 DEF ServiceInv, ServiceTypeOK
<1> QED
  BY ServiceInvariant, <1>1, PTL

HIDE DEF StartsAtLogin, Finds, OnDarwin, OnLinux, OnWindows
HIDE DEF Says
=============================================================================
