---------------------------- MODULE HandoverProofs ----------------------------
(***************************************************************************)
(* What holds of the two guardian processes of an update, for every two    *)
(* lists of drivers and every DRY_RUN of each. The steps of a process are  *)
(* those GuardianProofs is about, whoever else writes to the cluster: its  *)
(* lemmas are taken from there for either process; what is left is that a  *)
(* process keeps what the other one relies on.                             *)
(***************************************************************************)
EXTENDS Handover, TLAPS

oldP == INSTANCE GuardianProofs
    WITH DriverLists <- OldLists, Modes <- OldModes, MaxFault <- 0, MaxCrash <- 0,
         pc <- oldPc, idx <- oldIdx, snap <- oldSnap, view <- oldView, buf <- oldBuf,
         tries <- oldTries, backing <- oldBacking, gauge <- oldGauge,
         drivers <- oldDrivers, dryRun <- oldDryRun, faults <- 0, crashes <- 0
newP == INSTANCE GuardianProofs
    WITH DriverLists <- NewLists, Modes <- NewModes, MaxFault <- 0, MaxCrash <- 0,
         pc <- newPc, idx <- newIdx, snap <- newSnap, view <- newView, buf <- newBuf,
         tries <- newTries, backing <- newBacking, gauge <- newGauge,
         drivers <- newDrivers, dryRun <- newDryRun, faults <- 0, crashes <- 0

(* What Handover does in the name of the old process is what oldP proves    *)
(* about: the definitions of the two instances read the same.              *)
LEMMA OldSame ==
  /\ old!Reconcile => oldP!Reconcile
  /\ old!RepairEnds => oldP!RepairEnds
  /\ old!EndRun => oldP!EndRun
  /\ old!OwnJob => oldP!OwnJob
  /\ \A d \in Driver : old!DelayOver(d) => oldP!DelayOver(d)
  BY DEF old!Reconcile, old!RepairEnds, old!EndRun, old!DelayOver, old!OwnJob, old!Tick,
         old!SkipBackingOff, old!CheckDriver, old!Repair, old!PostRepairCheck, old!Revert,
         old!BumpFailure, old!cur, old!NextDriver, old!NoTemplate, old!NoText, old!BackingOff,
         old!clusterVars, old!localVars, old!JobPod, old!WheelImage, old!guardianVars,
         old!Works, old!FirstStep, old!Fail, old!Goto, old!Same, old!RecordPresent, old!Check,
         old!ClearFailure, old!Ml2Get, old!Ml2Patch, old!LogGet, old!LogPatch, old!ScriptGet,
         old!ScriptPatch, old!WriteSecret, old!WheelStart, old!WheelWait, old!ApplyGet,
         old!ApplyPatch, old!PostGet, old!PostCheck, old!PostRetry, old!DetectFootprint,
         old!RevertMl2, old!RevertLogGet, old!RevertLog, old!RevertScriptGet,
         old!RevertScript, old!RevertInjection, old!RevertDone, old!Rendered, old!Verdicts,
         old!InjectionIsCurrent, old!HasInjection, old!PodReady, old!Read, old!RepairFails,
         old!Write, old!AddEntry, old!MaybeWrite, old!AfterLogging, old!ConfigDir,
         old!AlreadyExists, old!LeavesJob, old!Cached, old!Apply, old!GiveUp, old!Retry,
         old!Footprint, old!RemovalChanges, old!Configured, old!RunFails, old!RemoveEntries,
         old!AfterScript, old!SetTemplate, old!Uninjected, old!MaybeSetTemplate,
         old!ImportAnswers, old!ExtraConf, old!Injected, old!RetriesUsedUp, old!Listed,
         oldP!Reconcile, oldP!RepairEnds, oldP!EndRun, oldP!DelayOver, oldP!OwnJob, oldP!Tick,
         oldP!SkipBackingOff, oldP!CheckDriver, oldP!Repair, oldP!PostRepairCheck,
         oldP!Revert, oldP!BumpFailure, oldP!cur, oldP!NextDriver, oldP!NoTemplate,
         oldP!NoText, oldP!BackingOff, oldP!clusterVars, oldP!localVars, oldP!JobPod,
         oldP!WheelImage, oldP!guardianVars, oldP!Works, oldP!FirstStep, oldP!Fail, oldP!Goto,
         oldP!Same, oldP!RecordPresent, oldP!Check, oldP!ClearFailure, oldP!Ml2Get,
         oldP!Ml2Patch, oldP!LogGet, oldP!LogPatch, oldP!ScriptGet, oldP!ScriptPatch,
         oldP!WriteSecret, oldP!WheelStart, oldP!WheelWait, oldP!ApplyGet, oldP!ApplyPatch,
         oldP!PostGet, oldP!PostCheck, oldP!PostRetry, oldP!DetectFootprint, oldP!RevertMl2,
         oldP!RevertLogGet, oldP!RevertLog, oldP!RevertScriptGet, oldP!RevertScript,
         oldP!RevertInjection, oldP!RevertDone, oldP!Rendered, oldP!Verdicts,
         oldP!InjectionIsCurrent, oldP!HasInjection, oldP!PodReady, oldP!Read,
         oldP!RepairFails, oldP!Write, oldP!AddEntry, oldP!MaybeWrite, oldP!AfterLogging,
         oldP!ConfigDir, oldP!AlreadyExists, oldP!LeavesJob, oldP!Cached, oldP!Apply,
         oldP!GiveUp, oldP!Retry, oldP!Footprint, oldP!RemovalChanges, oldP!Configured,
         oldP!RunFails, oldP!RemoveEntries, oldP!AfterScript, oldP!SetTemplate,
         oldP!Uninjected, oldP!MaybeSetTemplate, oldP!ImportAnswers, oldP!ExtraConf,
         oldP!Injected, oldP!RetriesUsedUp, oldP!Listed

LEMMA OldJobSame == \A steps : OldLeavesJob(steps) => oldP!LeavesOnlyJob(steps)
  BY DEF OldLeavesJob, oldP!LeavesOnlyJob, old!LeavesJob, old!WheelImage, old!cur,
         oldP!LeavesJob, oldP!WheelImage, oldP!cur

LEMMA OldTypesSame ==
  /\ old!Init => oldP!Init
  /\ old!TypeOK <=> oldP!ClusterTypeOK /\ oldP!LocalsTypeOK /\ oldP!LoopTypeOK
  BY DEF old!Init, old!TypeOK, old!ClusterInit, old!NoTemplate, old!NoText, old!ClusterTypeOK,
         old!LocalsTypeOK, old!LoopTypeOK, old!File, old!Rendered, old!Vanilla, old!Text,
         old!Entries, old!Template, old!Pod, old!Steps, old!ConfigDir, old!ExtraConf,
         old!RepairSteps, old!PostSteps, old!RevertSteps, oldP!Init, oldP!TypeOK,
         oldP!ClusterInit, oldP!NoTemplate, oldP!NoText, oldP!ClusterTypeOK,
         oldP!LocalsTypeOK, oldP!LoopTypeOK, oldP!File, oldP!Rendered, oldP!Vanilla,
         oldP!Text, oldP!Entries, oldP!Template, oldP!Pod, oldP!Steps, oldP!ConfigDir,
         oldP!ExtraConf, oldP!RepairSteps, oldP!PostSteps, oldP!RevertSteps

(* What Handover does in the name of the new process is what newP proves    *)
(* about: the definitions of the two instances read the same.              *)
LEMMA NewSame ==
  /\ new!Reconcile => newP!Reconcile
  /\ new!RepairEnds => newP!RepairEnds
  /\ new!EndRun => newP!EndRun
  /\ new!OwnJob => newP!OwnJob
  /\ \A d \in Driver : new!DelayOver(d) => newP!DelayOver(d)
  BY DEF new!Reconcile, new!RepairEnds, new!EndRun, new!DelayOver, new!OwnJob, new!Tick,
         new!SkipBackingOff, new!CheckDriver, new!Repair, new!PostRepairCheck, new!Revert,
         new!BumpFailure, new!cur, new!NextDriver, new!NoTemplate, new!NoText, new!BackingOff,
         new!clusterVars, new!localVars, new!JobPod, new!WheelImage, new!guardianVars,
         new!Works, new!FirstStep, new!Fail, new!Goto, new!Same, new!RecordPresent, new!Check,
         new!ClearFailure, new!Ml2Get, new!Ml2Patch, new!LogGet, new!LogPatch, new!ScriptGet,
         new!ScriptPatch, new!WriteSecret, new!WheelStart, new!WheelWait, new!ApplyGet,
         new!ApplyPatch, new!PostGet, new!PostCheck, new!PostRetry, new!DetectFootprint,
         new!RevertMl2, new!RevertLogGet, new!RevertLog, new!RevertScriptGet,
         new!RevertScript, new!RevertInjection, new!RevertDone, new!Rendered, new!Verdicts,
         new!InjectionIsCurrent, new!HasInjection, new!PodReady, new!Read, new!RepairFails,
         new!Write, new!AddEntry, new!MaybeWrite, new!AfterLogging, new!ConfigDir,
         new!AlreadyExists, new!LeavesJob, new!Cached, new!Apply, new!GiveUp, new!Retry,
         new!Footprint, new!RemovalChanges, new!Configured, new!RunFails, new!RemoveEntries,
         new!AfterScript, new!SetTemplate, new!Uninjected, new!MaybeSetTemplate,
         new!ImportAnswers, new!ExtraConf, new!Injected, new!RetriesUsedUp, new!Listed,
         newP!Reconcile, newP!RepairEnds, newP!EndRun, newP!DelayOver, newP!OwnJob, newP!Tick,
         newP!SkipBackingOff, newP!CheckDriver, newP!Repair, newP!PostRepairCheck,
         newP!Revert, newP!BumpFailure, newP!cur, newP!NextDriver, newP!NoTemplate,
         newP!NoText, newP!BackingOff, newP!clusterVars, newP!localVars, newP!JobPod,
         newP!WheelImage, newP!guardianVars, newP!Works, newP!FirstStep, newP!Fail, newP!Goto,
         newP!Same, newP!RecordPresent, newP!Check, newP!ClearFailure, newP!Ml2Get,
         newP!Ml2Patch, newP!LogGet, newP!LogPatch, newP!ScriptGet, newP!ScriptPatch,
         newP!WriteSecret, newP!WheelStart, newP!WheelWait, newP!ApplyGet, newP!ApplyPatch,
         newP!PostGet, newP!PostCheck, newP!PostRetry, newP!DetectFootprint, newP!RevertMl2,
         newP!RevertLogGet, newP!RevertLog, newP!RevertScriptGet, newP!RevertScript,
         newP!RevertInjection, newP!RevertDone, newP!Rendered, newP!Verdicts,
         newP!InjectionIsCurrent, newP!HasInjection, newP!PodReady, newP!Read,
         newP!RepairFails, newP!Write, newP!AddEntry, newP!MaybeWrite, newP!AfterLogging,
         newP!ConfigDir, newP!AlreadyExists, newP!LeavesJob, newP!Cached, newP!Apply,
         newP!GiveUp, newP!Retry, newP!Footprint, newP!RemovalChanges, newP!Configured,
         newP!RunFails, newP!RemoveEntries, newP!AfterScript, newP!SetTemplate,
         newP!Uninjected, newP!MaybeSetTemplate, newP!ImportAnswers, newP!ExtraConf,
         newP!Injected, newP!RetriesUsedUp, newP!Listed

LEMMA NewJobSame == \A steps : NewLeavesJob(steps) => newP!LeavesOnlyJob(steps)
  BY DEF NewLeavesJob, newP!LeavesOnlyJob, new!LeavesJob, new!WheelImage, new!cur,
         newP!LeavesJob, newP!WheelImage, newP!cur

LEMMA NewTypesSame ==
  /\ new!Init => newP!Init
  /\ new!TypeOK <=> newP!ClusterTypeOK /\ newP!LocalsTypeOK /\ newP!LoopTypeOK
  BY DEF new!Init, new!TypeOK, new!ClusterInit, new!NoTemplate, new!NoText, new!ClusterTypeOK,
         new!LocalsTypeOK, new!LoopTypeOK, new!File, new!Rendered, new!Vanilla, new!Text,
         new!Entries, new!Template, new!Pod, new!Steps, new!ConfigDir, new!ExtraConf,
         new!RepairSteps, new!PostSteps, new!RevertSteps, newP!Init, newP!TypeOK,
         newP!ClusterInit, newP!NoTemplate, newP!NoText, newP!ClusterTypeOK,
         newP!LocalsTypeOK, newP!LoopTypeOK, newP!File, newP!Rendered, newP!Vanilla,
         newP!Text, newP!Entries, newP!Template, newP!Pod, newP!Steps, newP!ConfigDir,
         newP!ExtraConf, newP!RepairSteps, newP!PostSteps, newP!RevertSteps

(* The cluster is the same for both.                                       *)
LEMMA ClusterSame ==
  /\ oldP!ClusterTypeOK <=> newP!ClusterTypeOK
  /\ oldP!ClusterTypeOK' <=> newP!ClusterTypeOK'
  /\ Environment => oldP!Environment
  <1>1. /\ oldP!ClusterTypeOK <=> newP!ClusterTypeOK
        /\ oldP!ClusterTypeOK' <=> newP!ClusterTypeOK'
    BY DEF oldP!ClusterTypeOK, oldP!File, oldP!Text, oldP!Entries, oldP!Template, oldP!Pod,
         oldP!ConfigDir, oldP!ExtraConf, newP!ClusterTypeOK, newP!File, newP!Text,
         newP!Entries, newP!Template, newP!Pod, newP!ConfigDir, newP!ExtraConf
  <1>2. HelmTexts => oldP!HelmTexts
    BY DEF HelmTexts, File, Rendered, oldP!HelmTexts, oldP!File, oldP!Rendered
  <1>3. HelmTemplate => oldP!HelmTemplate
    <2>1. \A img : Vanilla(img) = oldP!Vanilla(img)
      BY DEF Vanilla, oldP!Vanilla
    <2>2. ASSUME NEW img PROVE Rerendered(img) = oldP!Rerendered(img)
      <3>1. Vanilla(img) = oldP!Vanilla(img)
        BY <2>1
      <3>2. \A t : t \in Rerendered(img) <=> t \in oldP!Rerendered(img)
        BY <3>1, SMT DEF Rerendered, oldP!Rerendered
      <3> QED BY <3>2
    <2> QED BY <2>2 DEF HelmTemplate, oldP!HelmTemplate
  <1>4. PodStart => oldP!PodStart
    BY DEF PodStart, Importable, Phases, HasInjection, Fits, Misfits, NoConfigDir, ConfigDir,
         oldP!PodStart, oldP!Importable, oldP!Phases, oldP!HasInjection, oldP!Fits,
         oldP!Misfits, oldP!NoConfigDir, oldP!ConfigDir
  <1>5. Rollout \/ PodRestart => oldP!Rollout \/ oldP!PodRestart
    BY DEF Rollout, PodRestart, NewPod, oldP!Rollout, oldP!PodRestart, oldP!NewPod
  <1>6. LateJob \/ LateJobEnds => oldP!LateJob \/ oldP!LateJobEnds
    BY DEF LateJob, LateJobEnds, JobPod, oldP!LateJob, oldP!LateJobEnds, oldP!JobPod
  <1> QED BY <1>1, <1>2, <1>3, <1>4, <1>5, <1>6 DEF Environment, oldP!Environment

-----------------------------------------------------------------------------
(* The inductive invariant: each process keeps to its mode and has staged  *)
(* its Secret before it waits for its Job, whatever the other one does.    *)
BothInv ==
    /\ phase \in {"old", "both", "new"}
    /\ contested \subseteq {"old", "new"}
    /\ oldP!ProcessInv /\ newP!ProcessInv

(* While the old process moves, the new one keeps its part.                *)
LEMMA OldAside ==
  ASSUME oldP!ProcessInv', newP!ProcessInv, secrets \subseteq secrets', UNCHANGED newVars
  PROVE  newP!ProcessInv'
  <1> USE HandoverAssumption, ClusterAssumption DEF ConfigDir, newP!ConfigDir
  <1>1. newP!ClusterTypeOK'
    BY ClusterSame DEF oldP!ProcessInv, oldP!TypeOK
  <1>2. UNCHANGED newP!guardianVars
    BY DEF newVars, newP!guardianVars
  <1> QED BY <1>1, <1>2, newP!ProcessStays

(* While the new process moves, the old one keeps its part.                *)
LEMMA NewAside ==
  ASSUME newP!ProcessInv', oldP!ProcessInv, secrets \subseteq secrets', UNCHANGED oldVars
  PROVE  oldP!ProcessInv'
  <1> USE HandoverAssumption, ClusterAssumption DEF ConfigDir, oldP!ConfigDir
  <1>1. oldP!ClusterTypeOK'
    BY ClusterSame DEF newP!ProcessInv, newP!TypeOK
  <1>2. UNCHANGED oldP!guardianVars
    BY DEF oldVars, oldP!guardianVars
  <1> QED BY <1>1, <1>2, oldP!ProcessStays

(* The old process takes a step: of its loop, of its Job, of a backoff, or *)
(* the end of a repair whose Job the other one took.                       *)
LEMMA OldMoves ==
  ASSUME BothInv, UNCHANGED newVars,
         \/ OldStep
         \/ OldJob \/ \E d \in Driver : OldDelayOver(d)
  PROVE  oldP!ProcessInv' /\ newP!ProcessInv'
  <1> USE HandoverAssumption, ClusterAssumption DEF ConfigDir, oldP!ConfigDir, newP!ConfigDir
  <1>1. oldP!ProcessInv' /\ secrets \subseteq secrets'
    <2>1. CASE old!Reconcile \/ OldJob \/ \E d \in Driver : OldDelayOver(d)
      BY <2>1, OldSame, oldP!ProcessGoesOn DEF BothInv, OldJob, OldDelayOver
    <2>2. CASE LosesJob("old", oldPc, newPc) /\ old!RepairEnds /\ OldLeavesJob({"wheelWait"})
      <3>1. oldPc \in oldP!RepairSteps
        BY <2>2 DEF LosesJob, oldP!RepairSteps
      <3>2. oldP!RepairEnds /\ oldP!LeavesOnlyJob({"wheelWait"}) /\ oldP!Works
        BY <2>2, OldSame, OldJobSame DEF oldP!Works
      <3> QED BY <3>1, <3>2, oldP!ProcessLosesJob DEF BothInv
    <2> QED BY <2>1, <2>2 DEF OldStep
  <1> QED BY <1>1, OldAside DEF BothInv

(* The new process takes a step: of its loop, of its Job, of a backoff, or *)
(* the end of a repair whose Job the other one took.                       *)
LEMMA NewMoves ==
  ASSUME BothInv, UNCHANGED oldVars,
         \/ NewStep
         \/ NewJob \/ \E d \in Driver : NewDelayOver(d)
  PROVE  newP!ProcessInv' /\ oldP!ProcessInv'
  <1> USE HandoverAssumption, ClusterAssumption DEF ConfigDir, newP!ConfigDir, oldP!ConfigDir
  <1>1. newP!ProcessInv' /\ secrets \subseteq secrets'
    <2>1. CASE new!Reconcile \/ NewJob \/ \E d \in Driver : NewDelayOver(d)
      BY <2>1, NewSame, newP!ProcessGoesOn DEF BothInv, NewJob, NewDelayOver
    <2>2. CASE LosesJob("new", newPc, oldPc) /\ new!RepairEnds /\ NewLeavesJob({"wheelWait"})
      <3>1. newPc \in newP!RepairSteps
        BY <2>2 DEF LosesJob, newP!RepairSteps
      <3>2. newP!RepairEnds /\ newP!LeavesOnlyJob({"wheelWait"}) /\ newP!Works
        BY <2>2, NewSame, NewJobSame DEF newP!Works
      <3> QED BY <3>1, <3>2, newP!ProcessLosesJob DEF BothInv
    <2> QED BY <2>1, <2>2 DEF NewStep
  <1> QED BY <1>1, NewAside DEF BothInv

(* The environment moves: both keep theirs.                                *)
LEMMA EnvironmentMoves ==
  ASSUME BothInv, EnvironmentStep
  PROVE  oldP!ProcessInv' /\ newP!ProcessInv'
  <1> USE HandoverAssumption, ClusterAssumption
          DEF ConfigDir, oldP!ConfigDir, newP!ConfigDir
  <1>1. oldP!ClusterTypeOK' /\ secrets' = secrets
    BY ClusterSame, oldP!EnvironmentPeer DEF BothInv, EnvironmentStep
  <1>2. newP!ClusterTypeOK'
    BY <1>1, ClusterSame
  <1>3. UNCHANGED oldP!guardianVars /\ UNCHANGED newP!guardianVars
    BY DEF EnvironmentStep, Others, oldVars, newVars, oldP!guardianVars, newP!guardianVars
  <1>4. oldP!ProcessInv'
    BY <1>1, <1>3, oldP!ProcessStays DEF BothInv
  <1>5. newP!ProcessInv'
    BY <1>1, <1>2, <1>3, newP!ProcessStays DEF BothInv
  <1> QED BY <1>4, <1>5

(* The old process is told to end, at whatever call it is in.              *)
LEMMA OldLeaves ==
  ASSUME BothInv, OldEnds
  PROVE  oldP!ProcessInv' /\ newP!ProcessInv'
  <1> USE HandoverAssumption, ClusterAssumption DEF ConfigDir, oldP!ConfigDir
  <1>1. oldP!EndRun /\ oldP!LeavesOnlyJob({"wheelStart", "wheelWait"})
    BY OldSame, OldJobSame DEF OldEnds
  <1>2. oldP!ProcessInv' /\ secrets' = secrets
    BY <1>1, oldP!ProcessEnds DEF BothInv, OldEnds
  <1> QED BY <1>2, OldAside DEF BothInv, OldEnds

(* The two keep their part in every step.                                  *)
LEMMA BothStep ==
  ASSUME BothInv, [Next]_vars
  PROVE  BothInv'
  <1>1. phase' \in {"old", "both", "new"} /\ contested' \subseteq {"old", "new"}
    BY DEF BothInv, Next, OldStep, NewStep, NewStarts, OldEnds, EnvironmentStep, Others,
           OldJob, NewJob, OldDelayOver, NewDelayOver, Contest, vars
  <1>2. CASE OldStep \/ OldJob \/ \E d \in Driver : OldDelayOver(d)
    BY <1>1, <1>2, OldMoves DEF BothInv, OldStep, OldJob, OldDelayOver
  <1>3. CASE NewStep \/ NewJob \/ \E d \in Driver : NewDelayOver(d)
    BY <1>1, <1>3, NewMoves DEF BothInv, NewStep, NewJob, NewDelayOver
  <1>4. CASE EnvironmentStep
    BY <1>1, <1>4, EnvironmentMoves DEF BothInv
  <1>5. CASE OldEnds
    BY <1>1, <1>5, OldLeaves DEF BothInv
  <1>6. CASE NewStarts \/ UNCHANGED vars
    <2> USE HandoverAssumption, ClusterAssumption
            DEF ConfigDir, oldP!ConfigDir, newP!ConfigDir
    <2>1. /\ UNCHANGED clusterVars /\ UNCHANGED oldP!clusterVars
          /\ UNCHANGED oldP!guardianVars /\ UNCHANGED newP!guardianVars
      BY <1>6 DEF NewStarts, vars, oldVars, newVars, oldP!guardianVars, newP!guardianVars,
                  clusterVars, oldP!clusterVars
    <2>2. oldP!ClusterTypeOK' /\ newP!ClusterTypeOK' /\ secrets' = secrets
      BY <2>1, ClusterSame, oldP!ClusterUnchanged
         DEF BothInv, oldP!ProcessInv, oldP!TypeOK, clusterVars
    <2>3. oldP!ProcessInv'
      BY <2>1, <2>2, oldP!ProcessStays DEF BothInv
    <2>4. newP!ProcessInv'
      BY <2>1, <2>2, newP!ProcessStays DEF BothInv
    <2> QED BY <1>1, <2>3, <2>4 DEF BothInv
  <1> QED BY <1>2, <1>3, <1>4, <1>5, <1>6 DEF Next

LEMMA BothStart ==
  ASSUME Init
  PROVE  BothInv
  <1> USE HandoverAssumption, ClusterAssumption
          DEF ConfigDir, oldP!ConfigDir, newP!ConfigDir
  <1>1. oldP!Init /\ newP!Init
    BY OldTypesSame, NewTypesSame DEF Init
  <1>2. oldP!ProcessInv
    BY <1>1, oldP!ProcessStarts
  <1>3. newP!ProcessInv
    BY <1>1, newP!ProcessStarts
  <1> QED BY <1>2, <1>3 DEF Init, BothInv

LEMMA BothInvariant == Spec => []BothInv
  BY BothStart, BothStep, PTL DEF Spec

-----------------------------------------------------------------------------
(* Every variable of the cluster and of either process always has its      *)
(* type, however the calls of the two interleave.                          *)
THEOREM HandoverTypeCorrect == Spec => []TypeOK
  <1>1. BothInv => TypeOK
    BY OldTypesSame, NewTypesSame
       DEF BothInv, TypeOK, oldP!ProcessInv, newP!ProcessInv, oldP!TypeOK, newP!TypeOK
  <1> QED BY <1>1, BothInvariant, PTL

(* Neither process restarts neutron-server for a driver whose Secret does  *)
(* not exist (repair, steps 2c and 4), and neither can take it away from   *)
(* the other one.                                                          *)
THEOREM SecretsComeFirst == Spec => []SecretBeforeRollout
  <1>1. BothInv => SecretBeforeRollout
    BY DEF BothInv, SecretBeforeRollout, old!SecretBeforeRollout, new!SecretBeforeRollout,
           oldP!ProcessInv, newP!ProcessInv, oldP!SecretInv, newP!SecretInv,
           old!cur, oldP!cur, new!cur, newP!cur,
           old!ExtraConf, oldP!ExtraConf, new!ExtraConf, newP!ExtraConf
  <1> QED BY <1>1, BothInvariant, PTL

LEMMA OldDry ==
  ASSUME BothInv, oldDryRun, OldStep
  PROVE  InstallsNothing(old!Configured)
  <1> USE HandoverAssumption, ClusterAssumption DEF ConfigDir, oldP!ConfigDir
  <1>1. oldP!Reconcile
    <2>1. ~old!RepairEnds \/ ~LosesJob("old", oldPc, newPc)
      BY DEF BothInv, oldP!ProcessInv, oldP!ModeInv, oldP!RepairSteps, LosesJob
    <2> QED BY <2>1, OldSame DEF OldStep
  <1>2. old!Configured = oldP!Configured
    BY DEF old!Configured, oldP!Configured
  <1>3. File = oldP!File
    BY DEF File, oldP!File
  <1>4. \A t : HasInjection(t) <=> oldP!HasInjection(t)
    BY DEF HasInjection, oldP!HasInjection
  <1>5. /\ \A f \in File :
              conf'[f].edits \cap (old!Configured \cup {ConfigDir}) \subseteq conf[f].edits
        /\ oldP!HasInjection(tmpl') => oldP!HasInjection(tmpl)
        /\ tmpl'.mounts \subseteq tmpl.mounts
        /\ secrets' = secrets /\ wheels' = wheels
    BY <1>1, <1>2, <1>3, oldP!DryRunStep DEF BothInv, oldP!ProcessInv
  <1> QED BY <1>4, <1>5 DEF InstallsNothing

LEMMA NewDry ==
  ASSUME BothInv, newDryRun, NewStep
  PROVE  InstallsNothing(new!Configured)
  <1> USE HandoverAssumption, ClusterAssumption DEF ConfigDir, newP!ConfigDir
  <1>1. newP!Reconcile
    <2>1. ~new!RepairEnds \/ ~LosesJob("new", newPc, oldPc)
      BY DEF BothInv, newP!ProcessInv, newP!ModeInv, newP!RepairSteps, LosesJob
    <2> QED BY <2>1, NewSame DEF NewStep
  <1>2. new!Configured = newP!Configured
    BY DEF new!Configured, newP!Configured
  <1>3. File = newP!File
    BY DEF File, newP!File
  <1>4. \A t : HasInjection(t) <=> newP!HasInjection(t)
    BY DEF HasInjection, newP!HasInjection
  <1>5. /\ \A f \in File :
              conf'[f].edits \cap (new!Configured \cup {ConfigDir}) \subseteq conf[f].edits
        /\ newP!HasInjection(tmpl') => newP!HasInjection(tmpl)
        /\ tmpl'.mounts \subseteq tmpl.mounts
        /\ secrets' = secrets /\ wheels' = wheels
    BY <1>1, <1>2, <1>3, newP!DryRunStep DEF BothInv, newP!ProcessInv
  <1> QED BY <1>4, <1>5 DEF InstallsNothing

(* A process with DRY_RUN set only ever takes out (revert_or_preview):     *)
(* what it writes back, even from texts it read before the other one       *)
(* installed its drivers, has none of its own in it.                       *)
THEOREM DryRunKeepsOut == Spec => DryRunStaysDry
  <1> DEFINE Dry == /\ oldDryRun /\ OldStep => InstallsNothing(old!Configured)
                    /\ newDryRun /\ NewStep => InstallsNothing(new!Configured)
  <1>1. BothInv /\ [Next]_vars => [Dry]_vars
    BY OldDry, NewDry
  <1>2. Spec => [][Dry]_vars
    BY <1>1, BothInvariant, PTL DEF Spec
  <1> QED BY <1>2 DEF DryRunStaysDry
=============================================================================
