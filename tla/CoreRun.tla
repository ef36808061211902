------------------------------- MODULE CoreRun -------------------------------
(***************************************************************************)
(* Which Core owns a data directory: run/core.json, the record that names  *)
(* it, and the flock on run/core.lock, through the commands serve, serve   *)
(* --background, stop and restart of processes that run concurrently.      *)
(*                                                                         *)
(* A command and the Core it starts have one name, which also stands for   *)
(* the pid and the owner token of that Core.  A lock belongs to an open    *)
(* file description, which a detached Core shares with the command that    *)
(* spawned it: unlocking it once unlocks it for both.                      *)
(***************************************************************************)
EXTENDS Naturals

CONSTANTS
  Commands, \* the commands that are given
  Nobody    \* no Core: an absent record

ASSUME CoreRunAssumption == Nobody \notin Commands

VARIABLES
  kind,     \* what each command is, "none" before it is given
  at,       \* where each command is
  seen,     \* the record each command has to stop
  core,     \* the Core of each command
  flock,    \* who holds the lock, and what for
  runRecord \* the Core that core.json names

coreVars == <<kind, at, seen, core, flock, runRecord>>

Free     == <<Nobody, "free">>
Probe(k) == <<k, "probe">>
Claim(k) == <<k, "claim">>

Kinds == {"serve", "start", "stop", "restart"}

Live(k) == core[k] \notin {"none", "gone"}

\* The command still has the descriptor that it passed on.
HoldsDescriptor(k) == at[k] \in {"spawn", "wait", "tidy", "release"}

Goes(k, step) == at' = [at EXCEPT ![k] = step]
Becomes(k, state) == core' = [core EXCEPT ![k] = state]

CoreInit ==
  /\ kind = [k \in Commands |-> "none"] /\ at = [k \in Commands |-> "off"]
  /\ seen = [k \in Commands |-> Nobody] /\ core = [k \in Commands |-> "none"]
  /\ flock = Free /\ runRecord = Nobody

Give(k) ==
  /\ at[k] = "off"
  /\ \E c \in Kinds : kind' = [kind EXCEPT ![k] = c]
  /\ Goes(k, "read")
  /\ UNCHANGED <<seen, core, flock, runRecord>>
-----------------------------------------------------------------------------
(* reconcile, the beginning of every command: it removes a record that nobody  *)
(* holds the claim of.                                                         *)

\* What a command does with the record that reconcile returns.
Returns(k, r) ==
  /\ kind' = [kind EXCEPT ![k] = IF @ = "restart" /\ r = Nobody THEN "start" ELSE @]
  /\ seen' = [seen EXCEPT ![k] = r]
  /\ Goes(k, CASE kind[k] \in {"serve", "start"} -> IF r = Nobody THEN "claim" ELSE "done"
               [] kind[k] = "stop"    -> IF r = Nobody THEN "done" ELSE "compare"
               [] kind[k] = "restart" -> IF r = Nobody THEN "read" ELSE "compare"
               [] kind[k] = "refused" -> "done")

Read(k) ==
  /\ at[k] = "read"
  /\ IF runRecord = Nobody THEN Returns(k, Nobody)
     ELSE Goes(k, "lock") /\ UNCHANGED <<kind, seen>>
  /\ UNCHANGED <<core, flock, runRecord>>

\* Seeded fault: a lock that cannot be had is not needed.
ProbesAnyway(k) == TRUE

Probes(k) == flock = Free

TryLock(k) ==
  /\ at[k] = "lock"
  /\ IF Probes(k) THEN flock' = Probe(k) /\ Goes(k, "sweep")
     ELSE Goes(k, "held") /\ UNCHANGED flock
  /\ UNCHANGED <<kind, seen, core, runRecord>>

\* Somebody else holds the lock: a Core, or a command that probes it just now.
ReadAgain(k) ==
  /\ at[k] = "held"
  /\ Returns(k, runRecord)
  /\ UNCHANGED <<core, flock, runRecord>>

Sweep(k) ==
  /\ at[k] = "sweep"
  /\ runRecord' = Nobody /\ flock' = Free
  /\ Returns(k, Nobody)
  /\ UNCHANGED core
-----------------------------------------------------------------------------
(* serve, and serve --background. *)

TakeClaim(k) ==
  /\ at[k] = "claim"
  /\ \/ /\ flock = Free
        /\ flock' = Claim(k)
        /\ IF kind[k] = "serve" THEN Becomes(k, "claimed") /\ Goes(k, "serve")
           ELSE Goes(k, "spawn") /\ UNCHANGED core
        /\ UNCHANGED kind
     \/ /\ flock # Free
        /\ IF kind[k] = "serve" THEN Goes(k, "done") /\ UNCHANGED kind
           ELSE Goes(k, "read") /\ kind' = [kind EXCEPT ![k] = "refused"]
        /\ UNCHANGED <<core, flock>>
  /\ UNCHANGED <<seen, runRecord>>

Spawn(k) ==
  /\ at[k] = "spawn"
  /\ \/ Becomes(k, "claimed") /\ Goes(k, "wait")
     \/ Goes(k, "release") /\ UNCHANGED core
  /\ UNCHANGED <<kind, seen, flock, runRecord>>

\* The Core answers its health route.
Ready(k) ==
  /\ at[k] = "wait" /\ core[k] \in {"serving", "asked"}
  /\ Goes(k, "release")
  /\ UNCHANGED <<kind, seen, core, flock, runRecord>>

\* Somebody interrupts the wait, which the Core, in its own session, does not hear.
Interrupt(k) ==
  /\ at[k] = "wait"
  /\ Goes(k, "release")
  /\ UNCHANGED <<kind, seen, core, flock, runRecord>>

\* SIGTERM ends a Core at once that uvicorn does not run yet.
Terminated(j) ==
  IF core[j] \in {"claimed", "recorded"} THEN "gone"
  ELSE IF core[j] = "serving" THEN "asked" ELSE core[j]

\* The Core has exited or is not ready in time.
GiveUp(k) ==
  /\ at[k] = "wait"
  /\ Becomes(k, Terminated(k))
  /\ Goes(k, "tidy")
  /\ UNCHANGED <<kind, seen, flock, runRecord>>

Tidy(k) ==
  /\ at[k] = "tidy"
  /\ runRecord' = IF runRecord = k THEN Nobody ELSE runRecord
  /\ Goes(k, "release")
  /\ UNCHANGED <<kind, seen, core, flock>>

\* The claim is unlocked, also for the Core that shares its description.
Release(k) ==
  /\ at[k] = "release"
  /\ flock' = IF flock = Claim(k) THEN Free ELSE flock
  /\ Goes(k, "done")
  /\ UNCHANGED <<kind, seen, core, runRecord>>
-----------------------------------------------------------------------------
(* The Core. *)

WriteRecord(k) ==
  /\ core[k] = "claimed"
  /\ runRecord' = k
  /\ Becomes(k, "recorded")
  /\ UNCHANGED <<kind, at, seen, flock>>

\* The application is built and served, or raises.
Serve(k) ==
  /\ core[k] = "recorded"
  /\ \E s \in {"serving", "closing"} : Becomes(k, s)
  /\ UNCHANGED <<kind, at, seen, flock, runRecord>>

Quit(k) ==
  /\ core[k] \in {"serving", "asked"}
  /\ Becomes(k, "closing")
  /\ UNCHANGED <<kind, at, seen, flock, runRecord>>

ClearOwn(k) ==
  /\ core[k] = "closing"
  /\ runRecord' = IF runRecord = k THEN Nobody ELSE runRecord
  /\ Becomes(k, "cleared")
  /\ UNCHANGED <<kind, at, seen, flock>>

\* The lock after the last descriptor that shared it was closed.
UnlessShared(k) == IF flock = Claim(k) /\ ~HoldsDescriptor(k) THEN Free ELSE flock

Exit(k) ==
  /\ core[k] = "cleared"
  /\ flock' = IF flock = Claim(k) THEN Free ELSE flock
  /\ Becomes(k, "gone")
  /\ UNCHANGED <<kind, at, seen, runRecord>>

CoreDies(k) ==
  /\ Live(k)
  /\ flock' = UnlessShared(k)
  /\ Becomes(k, "gone")
  /\ UNCHANGED <<kind, at, seen, runRecord>>
-----------------------------------------------------------------------------
(* stop, and the first half of restart. *)

StopEnds(k) ==
  /\ kind' = [kind EXCEPT ![k] = IF @ = "restart" THEN "start" ELSE @]
  /\ Goes(k, IF kind[k] = "restart" THEN "read" ELSE "done")

Compare(k) ==
  /\ at[k] = "compare"
  /\ IF runRecord = seen[k] THEN Goes(k, "signal") /\ UNCHANGED kind ELSE StopEnds(k)
  /\ UNCHANGED <<seen, core, flock, runRecord>>

Signal(k) ==
  /\ at[k] = "signal"
  /\ Becomes(seen[k], Terminated(seen[k]))
  /\ flock' = IF Terminated(seen[k]) = "gone" THEN UnlessShared(seen[k]) ELSE flock
  /\ Goes(k, IF Live(seen[k]) THEN "await" ELSE "clear")
  /\ UNCHANGED <<kind, seen, runRecord>>

\* It has ended, or its time is over and it is killed.
Await(k) ==
  /\ at[k] = "await"
  /\ Becomes(seen[k], "gone")
  /\ flock' = IF Live(seen[k]) THEN UnlessShared(seen[k]) ELSE flock
  /\ Goes(k, "clear")
  /\ UNCHANGED <<kind, seen, runRecord>>

\* clear_if_owner without a claim at hand.
LockToClear(k) ==
  /\ at[k] = "clear"
  /\ IF Probes(k) THEN flock' = Probe(k) /\ Goes(k, "clearing") /\ UNCHANGED kind
     ELSE StopEnds(k) /\ UNCHANGED flock
  /\ UNCHANGED <<seen, core, runRecord>>

ClearIfOwner(k) ==
  /\ at[k] = "clearing"
  /\ runRecord' = IF runRecord = seen[k] THEN Nobody ELSE runRecord
  /\ flock' = Free
  /\ StopEnds(k)
  /\ UNCHANGED <<seen, core>>

\* A command is killed: its descriptors are closed, but not unlocked.
CommandDies(k) ==
  /\ at[k] \notin {"off", "serve", "done"}
  /\ flock' = IF flock = Probe(k) \/ (flock = Claim(k) /\ ~Live(k)) THEN Free ELSE flock
  /\ Goes(k, "done")
  /\ UNCHANGED <<kind, seen, core, runRecord>>
-----------------------------------------------------------------------------
CommandStep(k) ==
  \/ Give(k) \/ Read(k) \/ TryLock(k) \/ ReadAgain(k) \/ Sweep(k)
  \/ TakeClaim(k) \/ Spawn(k) \/ Ready(k) \/ Interrupt(k) \/ GiveUp(k) \/ Tidy(k) \/ Release(k)
  \/ Compare(k) \/ Signal(k) \/ Await(k) \/ LockToClear(k) \/ ClearIfOwner(k)
  \/ CommandDies(k)

CoreStep(k) ==
  WriteRecord(k) \/ Serve(k) \/ Quit(k) \/ ClearOwn(k) \/ Exit(k) \/ CoreDies(k)

CoreNext == \E k \in Commands : CommandStep(k) \/ CoreStep(k)

CoreRunSpec == CoreInit /\ [][CoreNext]_coreVars
-----------------------------------------------------------------------------
CoreTypeOK ==
  /\ kind \in [Commands -> Kinds \cup {"none", "refused"}]
  /\ at \in [Commands -> {"off", "read", "lock", "held", "sweep", "claim", "spawn", "wait",
                          "tidy", "release", "serve", "compare", "signal", "await", "clear",
                          "clearing", "done"}]
  /\ seen \in [Commands -> Commands \cup {Nobody}]
  /\ core \in [Commands -> {"none", "claimed", "recorded", "serving", "asked", "closing",
                            "cleared", "gone"}]
  /\ flock \in {Free} \cup (Commands \X {"probe", "claim"})
  /\ runRecord \in Commands \cup {Nobody}

\* Commands that detached a Core and ended.
Detached == {k \in Commands : kind[k] = "start" /\ core[k] # "none" /\ at[k] = "done"}

(* As long as no command that detached a Core has ended, a Core that lives     *)
(* holds the claim, alone, and core.json names it from when it wrote it until  *)
(* it removes it, whatever the other commands probe, sweep, stop and clear.    *)
OwnerIsNamed ==
  Detached = {} =>
    \A k \in Commands : Live(k) =>
      /\ flock = Claim(k)
      /\ core[k] \in {"recorded", "serving", "asked"} =>
           runRecord = k \/ at[k] \in {"tidy", "release"}

(* No two Cores serve one data directory.                                      *)
NoDuplicateCores ==
  \A j, k \in Commands : core[j] = "serving" /\ core[k] = "serving" => j = k
=============================================================================
