------------------------------ MODULE Guardian ------------------------------
(***************************************************************************)
(* The reconcile loop of one guardian process (main.rs, reconcile.rs):     *)
(* every call to the Kubernetes API is a step of its own, so that the rest *)
(* of the cluster, an API error or the end of the process can come between *)
(* any two of them.                                                        *)
(***************************************************************************)
EXTENDS Cluster, Sequences

CONSTANTS
    DriverLists, \* values cfg.drivers takes across restarts of the guardian ...
    Modes,       \* ... and those DRY_RUN takes
    Retries,     \* POST_REPAIR_CHECK_RETRIES (60 in the code)
    MaxFault,    \* bound: API calls or wheel downloads that fail
    MaxCrash     \* bound: restarts of the guardian

ASSUME GuardianAssumption ==
    /\ DriverLists # {}
    /\ \A list \in DriverLists : list \in Seq(Driver) /\ Len(list) > 0
    /\ Modes \subseteq BOOLEAN /\ Modes # {}
    /\ Retries \in Nat /\ MaxFault \in Nat /\ MaxCrash \in Nat

VARIABLES
    pc,          \* the next call of the guardian
    idx,         \* position in drivers of the driver being handled
    snap,        \* `deployment': the template fetched at the top of the run
    view,        \* the template fetched last by apply_injection_patch or the post-repair check
    buf,         \* the text read last, before it is patched
    tries,       \* post-repair checks repeated so far
    backing,     \* drivers whose next_attempt is in the future
    gauge,       \* drivers whose driver_present gauge reads 1
    drivers,     \* cfg.drivers, in order
    dryRun,      \* cfg.dry_run
    faults, crashes

localVars == <<pc, idx, snap, view, buf, tries>>
guardianVars == <<pc, idx, snap, view, buf, tries, backing, gauge, drivers, dryRun, faults, crashes>>
vars == <<clusterVars, guardianVars>>

RepairSteps == {"ml2Get", "ml2Patch", "logGet", "logPatch", "scriptGet", "scriptPatch",
                "writeSecret", "wheelStart", "wheelWait", "applyGet", "applyPatch"}
PostSteps == {"postGet", "postCheck", "postRetry"}
RevertSteps == {"footprint", "revertMl2", "revertLogGet", "revertLog",
                "revertScriptGet", "revertScript", "revertInjection", "revertDone"}
Steps == {"idle", "check"} \cup RepairSteps \cup PostSteps \cup RevertSteps

(* Values of locals that are not in scope. *)
NoText == Rendered(0)
NoTemplate == [image |-> NoImage, injector |-> NoImage,
               pythonpath |-> FALSE, depJobs |-> FALSE, mounts |-> {}]

Configured == {drivers[i] : i \in 1..Len(drivers)}
cur == drivers[idx]

-----------------------------------------------------------------------------
(* Building blocks of the actions.                                         *)

Fail == faults < MaxFault /\ faults' = faults + 1
Works == faults' = faults

Same == UNCHANGED <<backing, gauge, drivers, dryRun, crashes>>
Goto(step) == pc' = step /\ UNCHANGED <<idx, snap, view, buf, tries>>

(* run_once returns: its locals are gone. *)
EndRun == /\ pc' = "idle" /\ idx' = 1 /\ tries' = 0
          /\ snap' = NoTemplate /\ view' = NoTemplate /\ buf' = NoText

(* `continue', or the end of the loop body: on to the next driver. *)
NextDriver ==
    IF idx = Len(drivers) THEN EndRun
    ELSE /\ pc' = "check" /\ idx' = idx + 1 /\ tries' = 0
         /\ view' = NoTemplate /\ buf' = NoText /\ UNCHANGED snap

(* consecutive_failures, as far as it decides whether a driver is skipped: *)
(* bump_failure puts next_attempt in the future, a confirmed driver is     *)
(* removed. How long the delay is: module RetrySchedule.                   *)
BumpFailure(d) == backing' = backing \cup {d}
ClearFailure(d) == backing' = backing \ {d}
BackingOff(d) == d \in backing

(* metrics::record_present *)
RecordPresentOnly(ds, present) ==            \* mutant: a metric that only goes up
    gauge' = IF present THEN gauge \cup ds ELSE gauge
RecordAbsentOnly(ds, present) ==             \* mutant: a metric that only goes down
    gauge' = IF present THEN gauge ELSE gauge \ ds
RecordPresent(ds, present) == gauge' = IF present THEN gauge \cup ds ELSE gauge \ ds

(* The edits of the texts: the current content plus this entry ...         *)
AddEntryHardcoded(text, e) == [text EXCEPT !.edits = {e}]   \* mutant: a fixed list
AddEntry(text, e) == [text EXCEPT !.edits = @ \cup {e}]
(* ... or without those of the configured drivers.                         *)
RemoveOneEntry(text) == [text EXCEPT !.edits = @ \ {drivers[1]}]   \* mutant: one driver only
RemoveEntries(text) == [text EXCEPT !.edits = @ \ (Configured \cup {ConfigDir})]
Listed(text) == text.edits \cap Configured

(* Whether a removal changes the text: also when it only writes the list   *)
(* of a rendering nobody has edited in the form it writes lists in.        *)
RemovalChanges(text) ==
    IF text.edits = {} THEN BOOLEAN ELSE {Listed(text) # {}}

(* A patch carries the text computed from buf, whatever is live by now: no *)
(* resourceVersion. One that is answered with an error may have happened.  *)
Write(f, text) == conf' = [conf EXCEPT ![f] = text]
MaybeWrite(f, text) == Write(f, text) \/ UNCHANGED conf

SetTemplate(t) == tmpl' = t /\ rollout' = (rollout \/ t # tmpl)
MaybeSetTemplate(t) == SetTemplate(t) \/ UNCHANGED <<tmpl, rollout>>

-----------------------------------------------------------------------------
(* find_ready_pod: a pod on its way out does not count. *)
PodReady == pod.phase = "ready"

(* exec_capture of the import: the command's exit status is awaited and    *)
(* dropped, so an import that fails is an answer like any other.           *)
ImportAnswers(d) == TRUE

(* check_present against template t. A pod that is not Ready, or an error  *)
(* while it is asked, is "degraded".                                       *)
VerdictsUnlisted(d, t) ==                    \* mutant: mechanism_drivers not looked at
    IF ~HasInjection(t) \/ ~InjectionIsCurrent(t) THEN {"absent"}
    ELSE IF ~PodReady THEN {"degraded"} ELSE {"present"}
Verdicts(d, t) ==
    IF ~HasInjection(t) \/ ~InjectionIsCurrent(t) THEN {"absent"}
    ELSE IF ~PodReady THEN {"degraded"}
    ELSE IF d \notin pod.listed THEN {"absent"}
    ELSE IF ImportAnswers(d) THEN {"present"}
    ELSE {"degraded"}

(* The two branches of every check: the calls are answered, or one is not. *)
(* The stream of an exec that breaks after it was opened is no error: what *)
(* came of ml2_conf.ini by then may not list the driver.                   *)
Check(d, t, verdict) ==
    \/ Works /\ verdict \in Verdicts(d, t)
    \/ /\ Fail /\ InjectionIsCurrent(t) /\ HasInjection(t)
       /\ verdict = "degraded" \/ (PodReady /\ verdict = "absent")

-----------------------------------------------------------------------------
(* main's loop: a tick starts a run, which fetches the Deployment once.    *)
(* `?' on an error: the run is over before it began.                       *)
FirstStepEitherWay == "check"                \* mutant: dry_run not looked at
FirstStep == IF dryRun THEN "footprint" ELSE "check"

Tick ==
    /\ pc = "idle"
    /\ \/ /\ Works
          /\ pc' = FirstStep
          /\ snap' = tmpl
          /\ UNCHANGED <<idx, view, buf, tries>>
       \/ Fail /\ Goto("idle")
    /\ Same /\ UNCHANGED clusterVars

SkipBackingOff ==
    /\ pc = "check" /\ BackingOff(cur)
    /\ RecordPresent({cur}, FALSE)
    /\ NextDriver
    /\ Works /\ UNCHANGED <<backing, drivers, dryRun, crashes, clusterVars>>

(* The check of one driver: against the template of the top of the run,    *)
(* but against the pod as it is now.                                       *)
CheckDriver ==
    /\ pc = "check" /\ ~BackingOff(cur)
    /\ \/ /\ Check(cur, snap, "present")
          /\ RecordPresent({cur}, TRUE)
          /\ ClearFailure(cur)
          /\ NextDriver
       \/ /\ Check(cur, snap, "degraded")
          /\ RecordPresent({cur}, FALSE)
          /\ NextDriver
          /\ UNCHANGED backing
       \/ /\ Check(cur, snap, "absent")
          /\ RecordPresent({cur}, FALSE)
          /\ Goto("ml2Get")
          /\ UNCHANGED backing
    /\ UNCHANGED <<drivers, dryRun, crashes, clusterVars>>

-----------------------------------------------------------------------------
(* repair, one call after the other. An error of a call marked `?' ends    *)
(* the repair: run_once counts it and goes on with the next driver.        *)
RepairEnds ==
    /\ BumpFailure(cur)
    /\ NextDriver
    /\ UNCHANGED <<gauge, drivers, dryRun, crashes>>
RepairFails == Fail /\ RepairEnds

(* get_secret_key / get_configmap_key of file f: on to the patch if the    *)
(* edited text differs, past it if not.                                    *)
Read(f, change, otherwise) ==
    /\ Works
    /\ buf' = conf[f]
    /\ pc' = IF change THEN otherwise[1] ELSE otherwise[2]
    /\ UNCHANGED <<idx, snap, view, tries>>
    /\ Same

Ml2Get ==
    /\ pc = "ml2Get"
    /\ \/ Read("ml2", cur \notin conf["ml2"].edits, <<"ml2Patch", "logGet">>)
       \/ RepairFails
    /\ UNCHANGED clusterVars

Ml2Patch ==
    /\ pc = "ml2Patch"
    /\ \/ Works /\ Write("ml2", AddEntry(buf, cur)) /\ Goto("logGet") /\ Same
       \/ MaybeWrite("ml2", AddEntry(buf, cur)) /\ RepairFails
    /\ UNCHANGED <<tmpl, rollout, secrets, wheels, late, pod, upgrading, helms, restarts>>

(* The logger is best effort: its errors are logged, and the repair goes on. *)
AfterLoggingRefOnly ==       \* mutant: has_extra_config forgets inline data
    IF cur \in External THEN "scriptGet" ELSE "wheelStart"
AfterLogging == IF cur \in ExtraConf THEN "scriptGet" ELSE "wheelStart"

LogGet ==
    /\ pc = "logGet"
    /\ \/ Read("log", cur \notin conf["log"].edits, <<"logPatch", AfterLogging>>)
       \/ Fail /\ Goto(AfterLogging) /\ Same
    /\ UNCHANGED clusterVars

LogPatch ==
    /\ pc = "logPatch"
    /\ \/ Works /\ Write("log", AddEntry(buf, cur))
       \/ Fail /\ MaybeWrite("log", AddEntry(buf, cur))
    /\ Goto(AfterLogging) /\ Same
    /\ UNCHANGED <<tmpl, rollout, secrets, wheels, late, pod, upgrading, helms, restarts>>

(* So is the script's --config-dir flag: an unknown script shape costs the *)
(* extra config, not the driver.                                           *)
ScriptGet ==
    /\ pc = "scriptGet"
    /\ \/ Read("script", ConfigDir \notin conf["script"].edits,
                <<"scriptPatch", "writeSecret">>)
       \/ Fail /\ Goto("writeSecret") /\ Same
    /\ UNCHANGED clusterVars

ScriptPatch ==
    /\ pc = "scriptPatch"
    /\ \/ Works /\ Write("script", AddEntry(buf, ConfigDir))
       \/ Fail /\ MaybeWrite("script", AddEntry(buf, ConfigDir))
    /\ Goto("writeSecret") /\ Same
    /\ UNCHANGED <<tmpl, rollout, secrets, wheels, late, pod, upgrading, helms, restarts>>

(* write_driver_config_secret: nothing to do, and no call to fail, for a   *)
(* driver whose Secret is somebody else's.                                 *)
WriteSecret ==
    /\ pc = "writeSecret"
    /\ \/ /\ Works /\ Goto("wheelStart") /\ Same
          /\ secrets' = secrets \cup ({cur} \cap Managed)
       \/ /\ cur \in Managed /\ RepairFails
          /\ secrets' \in {secrets, secrets \cup {cur}}
    /\ UNCHANGED <<conf, tmpl, rollout, wheels, late, pod, upgrading, helms, restarts>>

(* wheelcache::refresh, as the repair sees it (its Job protocol: module    *)
(* WheelCache). The Job's pod empties the driver's directory, and downloads *)
(* for the image of the snapshot taken at the top of the run.              *)
WheelImageOfNow == tmpl.image                \* mutant: not the run's snapshot
WheelImage == snap.image
Cached(d, img) == wheels' = [wheels EXCEPT ![d] = img]

(* The refresh is over at one of these steps, but its Job is not. *)
LeavesJob(steps) ==
    \/ UNCHANGED late
    \/ pc \in steps /\ late' = late \cup {<<cur, WheelImage>>}

(* The Job of an earlier refresh is deleted, but may not be gone yet. *)
AlreadyExists == \E job \in late : job[1] = cur

WheelStart ==
    /\ pc = "wheelStart"
    /\ \/ Works /\ Goto("wheelWait") /\ Same /\ UNCHANGED late
       \/ AlreadyExists /\ Works /\ RepairEnds /\ UNCHANGED late
       \/ RepairFails /\ LeavesJob({"wheelStart"})
    /\ UNCHANGED <<conf, tmpl, rollout, secrets, wheels, pod, upgrading, helms, restarts>>

(* Meanwhile its pod is at work. *)
OwnJob == pc = "wheelWait" /\ JobPod(cur, WheelImage) /\ UNCHANGED guardianVars

(* The Job succeeded; or it failed, timed out, or its end was not seen.    *)
WheelWait ==
    /\ pc = "wheelWait"
    /\ \/ Works /\ Cached(cur, WheelImage) /\ UNCHANGED late /\ Goto("applyGet") /\ Same
       \/ RepairFails /\ UNCHANGED wheels /\ LeavesJob({"wheelWait"})
    /\ UNCHANGED <<conf, tmpl, rollout, secrets, pod, upgrading, helms, restarts>>

(* apply_injection_patch fetches the Deployment again for the image ...    *)
ApplyGet ==
    /\ pc = "applyGet"
    /\ \/ /\ Works /\ Same
          /\ view' = tmpl /\ pc' = "applyPatch"
          /\ UNCHANGED <<idx, snap, buf, tries>>
       \/ RepairFails
    /\ UNCHANGED clusterVars

(* ... and patches. The restarted-at annotation changes every time, so     *)
(* there is a rollout even when nothing else in the template changed.      *)
ApplyContentOnly(img) == SetTemplate(Injected(tmpl, img, Configured))    \* mutant: no restarted-at
Apply(img) == tmpl' = Injected(tmpl, img, Configured) /\ rollout' = TRUE

ApplyPatch ==
    /\ pc = "applyPatch"
    /\ \/ Works /\ Apply(view.image) /\ Goto("postGet") /\ Same
       \/ RepairFails /\ (Apply(view.image) \/ UNCHANGED <<tmpl, rollout>>)
    /\ UNCHANGED <<conf, secrets, wheels, late, pod, upgrading, helms, restarts>>

-----------------------------------------------------------------------------
(* The post-repair check: the Deployment is fetched afresh, and checked    *)
(* again until the driver is there or the retries are used up.             *)
PostGet ==
    /\ pc = "postGet"
    /\ \/ /\ Works /\ Same
          /\ view' = tmpl /\ pc' = "postCheck"
          /\ UNCHANGED <<idx, snap, buf, tries>>
       \/ RepairFails
    /\ UNCHANGED clusterVars

OneRetryMore == tries > Retries              \* mutant: off by one
RetriesUsedUp == tries = Retries

GiveUp ==
    /\ RetriesUsedUp
    /\ BumpFailure(cur)
    /\ NextDriver
RetryUncounted ==                            \* mutant: the counter is not advanced
    /\ ~RetriesUsedUp
    /\ pc' = "postRetry"
    /\ UNCHANGED <<tries, idx, snap, view, buf, backing>>
Retry ==
    /\ ~RetriesUsedUp
    /\ tries' = tries + 1
    /\ pc' = "postRetry"
    /\ UNCHANGED <<idx, snap, view, buf, backing>>

PostCheck ==
    /\ pc = "postCheck"
    /\ \/ Check(cur, view, "present") /\ ClearFailure(cur) /\ NextDriver
       \/ /\ \E verdict \in {"absent", "degraded"} : Check(cur, view, verdict)
          /\ GiveUp \/ Retry
    /\ UNCHANGED <<gauge, drivers, dryRun, crashes, clusterVars>>

(* A fetch that fails uses up a retry; the last verdict stands. *)
PostRetry ==
    /\ pc = "postRetry"
    /\ \/ /\ Works /\ UNCHANGED backing
          /\ view' = tmpl /\ pc' = "postCheck"
          /\ UNCHANGED <<idx, snap, buf, tries>>
       \/ Fail /\ (GiveUp \/ Retry)
    /\ UNCHANGED <<gauge, drivers, dryRun, crashes, clusterVars>>

-----------------------------------------------------------------------------
(* revert_or_preview: the whole run when DRY_RUN is set. An error of a     *)
(* call marked `?' ends the run.                                           *)
RunFails == Fail /\ EndRun /\ Same

(* A footprint: the injection in the snapshot, or a configured driver in   *)
(* ml2_conf.ini.                                                           *)
FootprintInTemplate(text) == HasInjection(snap)    \* mutant: ml2_conf.ini not looked at
Footprint(text) == HasInjection(snap) \/ Listed(text) # {}

(* Without one the intended repair is only described: reads, no effect     *)
(* beyond the gauge. describe_intended_repair's errors are logged.         *)
DetectFootprint ==
    /\ pc = "footprint"
    /\ \/ /\ Footprint(conf["ml2"])
          /\ \E change \in RemovalChanges(conf["ml2"]) :
                Read("ml2", change, <<"revertMl2", "revertLogGet">>)
       \/ /\ ~Footprint(conf["ml2"])
          /\ Works /\ EndRun
          /\ RecordPresent(Configured, FALSE)
          /\ UNCHANGED <<backing, drivers, dryRun, crashes>>
       \/ RunFails
    /\ UNCHANGED clusterVars

RevertMl2 ==
    /\ pc = "revertMl2"
    /\ \/ Works /\ Write("ml2", RemoveEntries(buf)) /\ Goto("revertLogGet") /\ Same
       \/ MaybeWrite("ml2", RemoveEntries(buf)) /\ RunFails
    /\ UNCHANGED <<tmpl, rollout, secrets, wheels, late, pod, upgrading, helms, restarts>>

RevertLogGet ==
    /\ pc = "revertLogGet"
    /\ \/ \E change \in RemovalChanges(conf["log"]) :
             Read("log", change, <<"revertLog", "revertScriptGet">>)
       \/ Fail /\ Goto("revertScriptGet") /\ Same
    /\ UNCHANGED clusterVars

RevertLog ==
    /\ pc = "revertLog"
    /\ \/ Works /\ Write("log", RemoveEntries(buf))
       \/ Fail /\ MaybeWrite("log", RemoveEntries(buf))
    /\ Goto("revertScriptGet") /\ Same
    /\ UNCHANGED <<tmpl, rollout, secrets, wheels, late, pod, upgrading, helms, restarts>>

(* The Deployment is touched last, and only if the snapshot had the injection. *)
AfterScript == IF HasInjection(snap) THEN "revertInjection" ELSE "revertDone"

RevertScriptGet ==
    /\ pc = "revertScriptGet"
    /\ \/ Read("script", conf["script"].edits # {}, <<"revertScript", AfterScript>>)
       \/ RunFails
    /\ UNCHANGED clusterVars

RevertScript ==
    /\ pc = "revertScript"
    /\ \/ Works /\ Write("script", RemoveEntries(buf)) /\ Goto(AfterScript) /\ Same
       \/ MaybeWrite("script", RemoveEntries(buf)) /\ RunFails
    /\ UNCHANGED <<tmpl, rollout, secrets, wheels, late, pod, upgrading, helms, restarts>>

RevertInjection ==
    /\ pc = "revertInjection"
    /\ \/ Works /\ SetTemplate(Uninjected(tmpl, Configured)) /\ Goto("revertDone") /\ Same
       \/ MaybeSetTemplate(Uninjected(tmpl, Configured)) /\ RunFails
    /\ UNCHANGED <<conf, secrets, wheels, late, pod, upgrading, helms, restarts>>

RevertDone ==
    /\ pc = "revertDone"
    /\ Works /\ EndRun
    /\ RecordPresent(Configured, FALSE)
    /\ UNCHANGED <<backing, drivers, dryRun, crashes, clusterVars>>

-----------------------------------------------------------------------------
(* The process ends at whatever call it was in (SIGTERM aborts the loop,   *)
(* a crash, a new configuration) and starts again with nothing but its     *)
(* configuration, which may have changed. A wheel Job of its runs on.      *)
Restart ==
    /\ crashes < MaxCrash
    /\ crashes' = crashes + 1
    /\ drivers' \in DriverLists /\ dryRun' \in Modes
    /\ EndRun
    /\ backing' = {} /\ gauge' = {}
    /\ faults' = faults
    /\ LeavesJob({"wheelStart", "wheelWait"})
    /\ UNCHANGED <<conf, tmpl, rollout, secrets, wheels, pod, upgrading, helms, restarts>>

(* The backoff delay of a driver runs out. *)
GivenUpForGood(d) == FALSE                   \* mutant: v1, no retry after the limit
DelayOver(d) ==
    /\ BackingOff(d)
    /\ backing' = backing \ {d}
    /\ UNCHANGED <<clusterVars, localVars, gauge, drivers, dryRun, faults, crashes>>

Repair == \/ Ml2Get \/ Ml2Patch \/ LogGet \/ LogPatch \/ ScriptGet \/ ScriptPatch
          \/ WriteSecret \/ WheelStart \/ WheelWait \/ ApplyGet \/ ApplyPatch
PostRepairCheck == PostGet \/ PostCheck \/ PostRetry
Revert == \/ DetectFootprint \/ RevertMl2 \/ RevertLogGet \/ RevertLog
          \/ RevertScriptGet \/ RevertScript \/ RevertInjection \/ RevertDone

(* One step of the reconcile loop. *)
Reconcile == Tick \/ SkipBackingOff \/ CheckDriver \/ Repair \/ PostRepairCheck \/ Revert

EnvironmentStep == Environment /\ UNCHANGED guardianVars

Next == \/ Reconcile \/ Restart \/ OwnJob
        \/ \E d \in Driver : DelayOver(d)
        \/ EnvironmentStep

Init ==
    /\ ClusterInit
    /\ pc = "idle" /\ idx = 1 /\ tries = 0
    /\ snap = NoTemplate /\ view = NoTemplate /\ buf = NoText
    /\ backing = {} /\ gauge = {}
    /\ drivers \in DriverLists /\ dryRun \in Modes
    /\ faults = 0 /\ crashes = 0

Spec == Init /\ [][Next]_vars

(* The loop runs, time passes, and Kubernetes makes the progress its       *)
(* controllers promise. Nobody promises a Helm upgrade, an eviction or a   *)
(* restart of the guardian.                                                *)
Fairness ==
    /\ WF_vars(Reconcile)
    /\ \A d \in Driver : WF_vars(DelayOver(d))
    /\ WF_vars(Rollout /\ UNCHANGED guardianVars)
    /\ WF_vars(LateJobEnds /\ UNCHANGED guardianVars)
    /\ WF_vars(PodStartHealthy /\ UNCHANGED guardianVars)

FairSpec == Spec /\ Fairness

LocalsTypeOK ==
    /\ pc \in Steps
    /\ idx \in 1..Len(drivers)
    /\ snap \in Template \cup {NoTemplate}
    /\ view \in Template \cup {NoTemplate}
    /\ pc # "idle" => snap \in Template
    /\ pc \in {"applyPatch", "postCheck"} => view \in Template
    /\ buf \in Text
    /\ pc \in {"ml2Patch", "logPatch", "revertMl2", "revertLog"} => buf.edits \subseteq Driver
    /\ pc \in {"scriptPatch", "revertScript"} => buf.edits \subseteq {ConfigDir}
    /\ tries \in 0..Retries

LoopTypeOK ==
    /\ backing \subseteq Driver
    /\ gauge \subseteq Driver
    /\ drivers \in DriverLists
    /\ dryRun \in Modes
    /\ faults \in 0..MaxFault
    /\ crashes \in 0..MaxCrash

TypeOK == ClusterTypeOK /\ LocalsTypeOK /\ LoopTypeOK

-----------------------------------------------------------------------------
(* What the guardian promises.                                             *)

(* The steps of the guardian itself, as opposed to Helm's or a new process. *)
GuardianStep == upgrading' = upgrading /\ crashes' = crashes

(* The order of repair's steps matters: by the time apply_injection_patch  *)
(* restarts neutron-server, the Secret the new pod mounts for this driver  *)
(* exists, whatever failed, was interrupted or retried before.             *)
SecretBeforeRollout ==
    pc \in {"applyGet", "applyPatch"} /\ cur \in ExtraConf => cur \in secrets

(* So do the driver's wheels, and they are the ones downloaded for the     *)
(* image the run saw: nothing takes them away again before the rollout but *)
(* the Job of an earlier refresh that nobody waited for to the end.        *)
WheelsBeforeRollout ==
    [][pc' \in {"applyGet", "applyPatch"} /\ wheels'[cur'] # snap'.image =>
         \/ \E img \in Image : <<cur, img>> \in late
         \/ pc \in {"applyGet", "applyPatch"} /\ wheels[cur] # snap.image]_vars

(* A repair merges: although it writes back a text it read a call ago, it  *)
(* never drops an entry of a driver repaired before, in this run or an     *)
(* earlier one, from any of the three texts.                               *)
RepairNeverUnlists ==
    [][~dryRun /\ GuardianStep =>
         \A f \in File : conf[f].edits \subseteq conf'[f].edits]_vars

(* The undo is ordered: the volumes and the plugins are only taken out of  *)
(* the template once neither --config-dir nor the name of a configured     *)
(* driver is left that would make the pod of the next rollout fail without *)
(* them. A driver that was taken out of the list stays in ml2_conf.ini.    *)
RevertNeverStrands ==
    pc = "revertInjection" =>
        Listed(conf["ml2"]) = {} /\ conf["script"].edits = {}

(* What an undo that got to its end without a fatal error has removed,     *)
(* whatever Helm did meanwhile: the configured drivers, --config-dir and   *)
(* the injection with its environment; the mounts of the drivers if it saw *)
(* an injection; their loggers if no call failed. What it leaves are the   *)
(* Secrets, the wheels and the emptied DEPENDENCY_JOBS.                    *)
RevertRemoves ==
    pc = "revertDone" =>
        /\ Listed(conf["ml2"]) = {} /\ conf["script"].edits = {}
        /\ ~HasInjection(tmpl) /\ ~tmpl.pythonpath
        /\ HasInjection(snap) => tmpl.mounts \cap Configured = {}
        /\ faults = 0 => Listed(conf["log"]) = {}

(* With DRY_RUN set nothing of a configured driver is ever installed, even *)
(* by a process that was restarted into it in the middle of a repair.      *)
DryRunNeverInstalls ==
    [][dryRun /\ GuardianStep =>
         /\ \A f \in File :
               conf'[f].edits \cap (Configured \cup {ConfigDir}) \subseteq conf[f].edits
         /\ HasInjection(tmpl') => HasInjection(tmpl)
         /\ tmpl'.mounts \subseteq tmpl.mounts
         /\ secrets' = secrets /\ pc' # "wheelWait"]_vars

(* Every driver is there and works. *)
Running(d) == pod.phase = "ready" /\ d \in pod.listed /\ d \in pod.imports

(* A run always ends, however the cluster answers: the retries of the      *)
(* post-repair check are bounded and nothing waits for anything else.      *)
RunsTerminate == []<>(pc = "idle")

(* Repair never stops for good (v1 gave up after three failures): once     *)
(* API calls stop failing and DRY_RUN stays off, an injection that is      *)
(* missing or stale is applied again, across backoff and restarts.         *)
NeverGivesUp ==
    <>[]~dryRun => (~InjectionIsCurrent(tmpl) ~> InjectionIsCurrent(tmpl))

(* Every repair restarts neutron-server, so repairing must end: from some  *)
(* point on the guardian only checks.                                      *)
Converges == <>[](pc \notin RepairSteps)

(* An upgrade that came between the snapshot and the apply of a repair:    *)
(* the injection has the new image, pinned wheels are those of the old one. *)
Outrun ==
    /\ tmpl.injector = tmpl.image
    /\ \E d \in Pinned : wheels[d] \notin {NoImage, tmpl.image}

(* Without errors, every driver ends up listed and importable in a Ready   *)
(* pod, after any Helm upgrade (to an image that its old wheels do not     *)
(* fit, too) and any eviction, unless the upgrade outran a repair for good. *)
SelfHeals ==
    <>[]~Outrun => \A d \in Driver : <>[](d \in Configured => Running(d))

(* Once DRY_RUN stays set, drivers and injection go away for good.         *)
UndoCompletes ==
    <>[]dryRun => <>[](Listed(conf["ml2"]) = {} /\ ~HasInjection(tmpl))

(* What alerts are built on: the gauge is written at a few places of a run *)
(* and keeps its value in between, but it does not stay wrong. It reads 1  *)
(* from some point on for a driver that keeps running ...                  *)
GaugeFollows ==
    \A d \in Driver :
        <>[](~dryRun /\ d \in Configured /\ Running(d)) => <>[](d \in gauge)

(* ... and 0 all the time a driver is being repaired, whatever it read     *)
(* before, up to the check that confirms the repair.                       *)
ZeroWhileRepaired == pc \in RepairSteps \cup PostSteps => cur \notin gauge

-----------------------------------------------------------------------------
(* What the documentation says and the code does not do.                   *)

(* k8s/mod.rs on injection_is_current: "wired up and built for the image   *)
(* now running".                                                           *)
BuiltForImage ==
    pc = "idle" /\ InjectionIsCurrent(tmpl) =>
        \A d \in Pinned : wheels[d] = tmpl.image

(* reconcile.rs on check_present: "config actually lists the driver, and   *)
(* it actually imports".                                                   *)
PresentMeansImports == [][gauge' \ gauge \subseteq pod.imports]_vars

(* reconcile.rs on DRY_RUN: "the guardian's real-world footprint should be *)
(* zero" -- so when a dry run finds nothing to revert, nothing is left that *)
(* changes how neutron-server runs.                                        *)
ZeroFootprint ==
    [][pc = "footprint" /\ pc' = "idle" /\ faults' = faults /\ crashes' = crashes =>
         conf["ml2"].edits = {} /\ conf["script"].edits = {}]_vars

(* reconcile.rs on add_driver_to_ml2_conf: whatever is there, plus this     *)
(* driver, "so a future PCD default change to the other drivers on that    *)
(* line isn't clobbered" -- so the guardian never writes back an older     *)
(* rendering than the live one.                                            *)
RenderingKept ==
    [][GuardianStep => \A f \in File : conf'[f].gen >= conf[f].gen]_vars

(* README: "it detects drift and repairs it, indefinitely" -- so the pod   *)
(* of a repair that failed half-way does not stay unable to start.         *)
PodComesUp == pod.phase = "init" ~> pod.phase # "init"
=============================================================================
