------------------------------ MODULE Handover ------------------------------
(***************************************************************************)
(* An update of the guardian itself. Its Deployment has one replica and    *)
(* the default rolling update, so the new process, perhaps with another    *)
(* list of drivers or another DRY_RUN, starts before the old one gets its  *)
(* SIGTERM: for a while two reconcile loops work on the same objects.      *)
(* No call fails here but those about a Job of the other process.          *)
(***************************************************************************)
EXTENDS Cluster, Sequences

CONSTANTS
    OldLists, OldModes,    \* values of cfg.drivers and DRY_RUN before the update ...
    NewLists, NewModes,    \* ... and after
    Retries

ASSUME HandoverAssumption ==
    /\ OldLists # {} /\ NewLists # {}
    /\ \A list \in OldLists \cup NewLists : list \in Seq(Driver) /\ Len(list) > 0
    /\ OldModes \subseteq BOOLEAN /\ OldModes # {}
    /\ NewModes \subseteq BOOLEAN /\ NewModes # {}
    /\ Retries \in Nat

VARIABLES
    phase,       \* "old", "both" or "new": which processes run
    contested,   \* those whose wheel Job the other one has deleted
    oldPc, oldIdx, oldSnap, oldView, oldBuf, oldTries,
    oldBacking, oldGauge, oldDrivers, oldDryRun,
    newPc, newIdx, newSnap, newView, newBuf, newTries,
    newBacking, newGauge, newDrivers, newDryRun

oldVars == <<oldPc, oldIdx, oldSnap, oldView, oldBuf, oldTries,
             oldBacking, oldGauge, oldDrivers, oldDryRun>>
newVars == <<newPc, newIdx, newSnap, newView, newBuf, newTries,
             newBacking, newGauge, newDrivers, newDryRun>>
vars == <<clusterVars, phase, contested, oldVars, newVars>>

old == INSTANCE Guardian
    WITH DriverLists <- OldLists, Modes <- OldModes, MaxFault <- 0, MaxCrash <- 0,
         pc <- oldPc, idx <- oldIdx, snap <- oldSnap, view <- oldView, buf <- oldBuf,
         tries <- oldTries, backing <- oldBacking, gauge <- oldGauge,
         drivers <- oldDrivers, dryRun <- oldDryRun, faults <- 0, crashes <- 0
new == INSTANCE Guardian
    WITH DriverLists <- NewLists, Modes <- NewModes, MaxFault <- 0, MaxCrash <- 0,
         pc <- newPc, idx <- newIdx, snap <- newSnap, view <- newView, buf <- newBuf,
         tries <- newTries, backing <- newBacking, gauge <- newGauge,
         drivers <- newDrivers, dryRun <- newDryRun, faults <- 0, crashes <- 0

-----------------------------------------------------------------------------
(* Both processes name the Job of a driver alike. Each deletes it before   *)
(* it creates its own and once it is done.                                 *)
SameDriver == old!cur = new!cur
Deletes(pc) == pc \in {"wheelStart", "wheelWait"}

(* A step of `self', at pc, while the other one is at otherPc.             *)
Contest(self, pc, other, otherPc) ==
    contested' = IF Deletes(pc)
                 THEN (contested \ {self}) \cup
                      (IF otherPc = "wheelWait" /\ SameDriver THEN {other} ELSE {})
                 ELSE contested

(* jobs.create: AlreadyExists, the other one was quicker. jobs.get:        *)
(* NotFound, or the Job failed because two pods shared a directory. The    *)
(* repair ends with an error, the download perhaps not.                    *)
LosesJob(self, pc, otherPc) ==
    \/ pc = "wheelStart" /\ otherPc = "wheelWait" /\ SameDriver
    \/ pc = "wheelWait" /\ self \in contested

(* What is left of the Job whose end a process does not see.               *)
OldLeavesJob(steps) ==
    /\ old!LeavesJob(steps)
    /\ UNCHANGED <<conf, tmpl, rollout, secrets, wheels, pod, upgrading, helms, restarts>>
NewLeavesJob(steps) ==
    /\ new!LeavesJob(steps)
    /\ UNCHANGED <<conf, tmpl, rollout, secrets, wheels, pod, upgrading, helms, restarts>>

OldStep ==
    /\ phase # "new"
    /\ \/ old!Reconcile
       \/ LosesJob("old", oldPc, newPc) /\ old!RepairEnds /\ OldLeavesJob({"wheelWait"})
    /\ Contest("old", oldPc, "new", newPc)
    /\ UNCHANGED <<phase, newVars>>

NewStep ==
    /\ phase # "old"
    /\ \/ new!Reconcile
       \/ LosesJob("new", newPc, oldPc) /\ new!RepairEnds /\ NewLeavesJob({"wheelWait"})
    /\ Contest("new", newPc, "old", oldPc)
    /\ UNCHANGED <<phase, oldVars>>

(* The rolling update: the new pod starts ... *)
NewStarts ==
    /\ phase = "old" /\ phase' = "both"
    /\ UNCHANGED <<clusterVars, contested, oldVars, newVars>>

(* ... answers /healthz as soon as its listener is up, and the old process *)
(* is told to end, at whatever call it is in. Its Job, if any, runs on.    *)
OldEnds ==
    /\ phase = "both" /\ phase' = "new"
    /\ old!EndRun /\ oldBacking' = {} /\ oldGauge' = {}
    /\ contested' = contested \ {"old"}
    /\ OldLeavesJob({"wheelStart", "wheelWait"})
    /\ UNCHANGED <<oldDrivers, oldDryRun, newVars>>

OldJob == old!OwnJob /\ UNCHANGED <<phase, contested, newVars>>
NewJob == new!OwnJob /\ UNCHANGED <<phase, contested, oldVars>>

OldDelayOver(d) == old!DelayOver(d) /\ UNCHANGED <<phase, contested, newVars>>
NewDelayOver(d) == new!DelayOver(d) /\ UNCHANGED <<phase, contested, oldVars>>

Others == UNCHANGED <<phase, contested, oldVars, newVars>>
EnvironmentStep == Environment /\ Others

Next ==
    \/ OldStep \/ NewStep \/ NewStarts \/ OldEnds \/ EnvironmentStep
    \/ OldJob \/ NewJob
    \/ \E d \in Driver : OldDelayOver(d) \/ NewDelayOver(d)

Init ==
    /\ old!Init /\ new!Init
    /\ phase = "old" /\ contested = {}

(* As in Guardian, for each of the processes; an update that has begun is  *)
(* finished. Nobody promises that one begins.                              *)
Fairness ==
    /\ WF_vars(OldStep) /\ WF_vars(NewStep) /\ WF_vars(OldEnds)
    /\ \A d \in Driver : WF_vars(OldDelayOver(d)) /\ WF_vars(NewDelayOver(d))
    /\ WF_vars(Rollout /\ Others)
    /\ WF_vars(LateJobEnds /\ Others)
    /\ WF_vars(PodStartHealthy /\ Others)

Spec == Init /\ [][Next]_vars
FairSpec == Spec /\ Fairness

-----------------------------------------------------------------------------
TypeOK ==
    /\ phase \in {"old", "both", "new"}
    /\ contested \subseteq {"old", "new"}
    /\ old!TypeOK /\ new!TypeOK

(* Whichever of them restarts neutron-server, the Secret that the new pod  *)
(* mounts for its driver exists by then.                                   *)
SecretBeforeRollout ==
    /\ old!SecretBeforeRollout
    /\ new!SecretBeforeRollout

(* A process with DRY_RUN set installs nothing of its drivers, although it *)
(* writes back texts and merges into a template that the other one has     *)
(* changed since it read them.                                             *)
InstallsNothing(ds) ==
    /\ \A f \in File :
          conf'[f].edits \cap (ds \cup {ConfigDir}) \subseteq conf[f].edits
    /\ HasInjection(tmpl') => HasInjection(tmpl)
    /\ tmpl'.mounts \subseteq tmpl.mounts
    /\ secrets' = secrets /\ wheels' = wheels
DryRunStaysDry ==
    [][/\ oldDryRun /\ OldStep => InstallsNothing(old!Configured)
       /\ newDryRun /\ NewStep => InstallsNothing(new!Configured)]_vars

Updated == <>(phase = "new")

(* The undo button works during the update that presses it: whatever the   *)
(* old process writes back from texts it read before, once the new one is  *)
(* alone, its drivers and the injection go away for good.                  *)
HandoverUndoes ==
    Updated /\ newDryRun =>
        <>[](conf["ml2"].edits \cap new!Configured = {} /\ ~HasInjection(tmpl))

(* When the update switches DRY_RUN off, the drivers end up running,       *)
(* whatever the old process was just reverting.                            *)
HandoverHeals ==
    Updated /\ oldDryRun /\ ~newDryRun =>
        \A d \in Driver : <>[](d \in new!Configured => old!Running(d))

(* An entry that a stale write of the other process dropped is missed and  *)
(* added again: no Ready pod is left without it.                           *)
HandoverRelists ==
    Updated /\ ~newDryRun =>
        \A d \in Driver :
            <>[](d \in new!Configured /\ pod.phase = "ready" => d \in pod.listed)

(* Two processes that contest a Job, or undo each other's work, do not     *)
(* keep restarting neutron-server.                                         *)
HandoverConverges == <>[](oldPc \notin old!RepairSteps /\ newPc \notin new!RepairSteps)
=============================================================================
