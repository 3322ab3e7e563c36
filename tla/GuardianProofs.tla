--------------------------- MODULE GuardianProofs ---------------------------
(***************************************************************************)
(* What holds of Guardian for every set of drivers and images and every    *)
(* bound. First type correctness, one lemma per helper and one per group   *)
(* of actions. Then the inductive invariant LoopInv: which mode a run is   *)
(* in, that a text read is not older than the entries in it, that a repair *)
(* has the Secret it will mount, and what a revert has undone so far; each *)
(* part is preserved by every step (ModeStep, ReadStep, SecretStep,        *)
(* RevertStep). The safety theorems at the end follow from it.             *)
(***************************************************************************)
EXTENDS Guardian, TLAPS

(* The driver being handled is a configured one.                           *)
LEMMA CurIsDriver ==
  ASSUME LocalsTypeOK, drivers \in DriverLists
  PROVE  cur \in Driver /\ cur \in Configured /\ Configured \subseteq Driver
  <1>1. drivers \in Seq(Driver)
    BY GuardianAssumption
  <1> QED BY <1>1 DEF LocalsTypeOK, cur, Configured

(* When run_once returns, its locals are reset to values of their types.   *)
LEMMA EndRunTyped ==
  ASSUME EndRun, drivers' \in DriverLists
  PROVE  LocalsTypeOK'
  <1>1. drivers' \in Seq(Driver) /\ Len(drivers') > 0
    BY GuardianAssumption
  <1>2. 1 \in 1..Len(drivers')
    BY <1>1
  <1> QED BY <1>2, GuardianAssumption, ClusterAssumption
          DEF EndRun, NoText, Rendered, Text, LocalsTypeOK, Steps

(* Going on to the next driver stays inside cfg.drivers.                   *)
LEMMA NextDriverTyped ==
  ASSUME LocalsTypeOK, drivers \in DriverLists, drivers' = drivers, pc # "idle", NextDriver
  PROVE  LocalsTypeOK'
  <1>1. CASE idx = Len(drivers)
    BY <1>1, EndRunTyped DEF NextDriver
  <1>2. CASE idx # Len(drivers)
    <2>1. Len(drivers) \in Nat
      BY GuardianAssumption
    <2>2. idx + 1 \in 1..Len(drivers)
      BY <1>2, <2>1 DEF LocalsTypeOK
    <2>3. NoText \in Text
      BY ClusterAssumption DEF NoText, Rendered, Text
    <2> QED BY <1>2, <2>2, <2>3, GuardianAssumption DEF NextDriver, LocalsTypeOK, Steps
  <1> QED BY <1>1, <1>2

PlainSteps == Steps \ {"applyPatch", "postCheck", "ml2Patch", "logPatch", "scriptPatch",
                       "revertMl2", "revertLog", "revertScript"}

(* A plain step forward keeps the types; PlainSteps are those that read    *)
(* no local of the call before.                                            *)
LEMMA GotoTyped ==
  ASSUME LocalsTypeOK, pc # "idle", NEW s \in PlainSteps, Goto(s), drivers' = drivers
  PROVE  LocalsTypeOK'
  BY DEF Goto, LocalsTypeOK, PlainSteps

(* Writing one of the three texts, or failing to, keeps the types of the   *)
(* cluster.                                                                *)
LEMMA WriteTyped ==
  ASSUME ClusterTypeOK, NEW f \in File, NEW text \in Text, text.edits \subseteq Entries(f),
         MaybeWrite(f, text),
         UNCHANGED <<tmpl, rollout, secrets, wheels, late, pod, upgrading, helms, restarts>>
  PROVE  ClusterTypeOK'
  <1>1. CASE Write(f, text)
    BY <1>1 DEF Write, ClusterTypeOK
  <1>2. CASE UNCHANGED conf
    BY <1>2 DEF ClusterTypeOK
  <1> QED BY <1>1, <1>2 DEF MaybeWrite

(* Adding an entry gives a text of the file it came from.                  *)
LEMMA AddEntryTyped ==
  ASSUME NEW text \in Text, NEW f \in File, NEW e \in Entries(f), text.edits \subseteq Entries(f)
  PROVE  /\ AddEntry(text, e) \in Text
         /\ AddEntry(text, e).edits = text.edits \cup {e}
         /\ AddEntry(text, e).edits \subseteq Entries(f)
  BY DEF AddEntry, Text, Entries

(* Removing the entries adds none, and leaves none of a configured driver. *)
LEMMA RemoveEntriesTyped ==
  ASSUME NEW text \in Text
  PROVE  /\ RemoveEntries(text) \in Text
         /\ RemoveEntries(text).edits \subseteq text.edits
         /\ RemoveEntries(text).edits \cap (Configured \cup {ConfigDir}) = {}
  BY DEF RemoveEntries, Text

(* A repair that ends at any call, failed or not, keeps the types.         *)
LEMMA RepairEndsTyped ==
  ASSUME LocalsTypeOK, LoopTypeOK, pc # "idle", RepairEnds, Works \/ Fail
  PROVE  LocalsTypeOK' /\ LoopTypeOK'
  <1>1. LocalsTypeOK'
    BY NextDriverTyped DEF RepairEnds, LoopTypeOK
  <1>2. LoopTypeOK'
    BY CurIsDriver, GuardianAssumption DEF RepairEnds, Works, Fail, BumpFailure, LoopTypeOK
  <1> QED BY <1>1, <1>2

LEMMA RepairFailsTyped ==
  ASSUME LocalsTypeOK, LoopTypeOK, pc # "idle", RepairFails
  PROVE  LocalsTypeOK' /\ LoopTypeOK'
  BY RepairEndsTyped DEF RepairFails

(* A step that changes nothing of the loop but the fault counter keeps     *)
(* its types.                                                              *)
LEMMA SameTyped ==
  ASSUME LoopTypeOK, Works \/ Fail, Same
  PROVE  LoopTypeOK'
  BY GuardianAssumption DEF Works, Fail, Same, LoopTypeOK

(* A step that does not touch the cluster keeps its types.                 *)
LEMMA ClusterUnchanged ==
  ASSUME ClusterTypeOK, UNCHANGED clusterVars
  PROVE  ClusterTypeOK'
  BY DEF ClusterTypeOK, clusterVars

(* What the two Deployment patches leave is a template, with the injector  *)
(* or without.                                                             *)
LEMMA InjectedTyped ==
  ASSUME NEW t \in Template, NEW img \in Image, NEW ds
  PROVE  /\ Injected(t, img, ds) \in Template /\ Injected(t, img, ds).injector = img
         /\ Injected(t, img, ds).mounts \subseteq ds
         /\ Uninjected(t, ds) \in Template /\ ~HasInjection(Uninjected(t, ds))
         /\ ~Uninjected(t, ds).pythonpath /\ Uninjected(t, ds).mounts = t.mounts \ ds
  BY DEF Injected, Uninjected, Template, HasInjection

-----------------------------------------------------------------------------
(* What Helm may make of the template: Vanilla, or the template it was     *)
(* with the injector kept, PYTHONPATH and the mounts kept or dropped.      *)
LEMMA RerenderedIs ==
  ASSUME tmpl \in Template, NEW img \in Image, NEW t \in Rerendered(img)
  PROVE  /\ t \in Template
         /\ \/ t.injector = NoImage /\ ~t.pythonpath /\ t.mounts = {}
            \/ /\ t.injector = tmpl.injector
               /\ t.pythonpath => tmpl.pythonpath
               /\ t.mounts \in {tmpl.mounts, {}}
  <1>1. CASE t = Vanilla(img)
    BY <1>1 DEF Vanilla, Template
  <1>2. CASE t \in {[tmpl EXCEPT !.image = img, !.depJobs = waits, !.pythonpath = FALSE,
                               !.mounts = mounts] :
                      waits \in {tmpl.depJobs, TRUE}, mounts \in {tmpl.mounts, {}}}
    <2>1. PICK waits \in {tmpl.depJobs, TRUE}, mounts \in {tmpl.mounts, {}} :
            t = [tmpl EXCEPT !.image = img, !.depJobs = waits, !.pythonpath = FALSE,
                             !.mounts = mounts]
      BY <1>2
    <2> QED BY <2>1 DEF Template
  <1>3. CASE t \in {[tmpl EXCEPT !.image = img, !.depJobs = waits] : waits \in {tmpl.depJobs, TRUE}}
    <2>1. PICK waits \in {tmpl.depJobs, TRUE} : t = [tmpl EXCEPT !.image = img, !.depJobs = waits]
      BY <1>3
    <2> QED BY <2>1 DEF Template
  <1> QED BY <1>1, <1>2, <1>3 DEF Rerendered

(* The pod of a wheel Job leaves wheels for its image, or none.            *)
LEMMA JobPodTyped ==
  ASSUME ClusterTypeOK, NEW d \in Driver, NEW img \in Image, JobPod(d, img)
  PROVE  ClusterTypeOK'
  <1>1. PICK w \in {NoImage, img} : wheels' = [wheels EXCEPT ![d] = w]
    BY DEF JobPod
  <1>2. wheels' \in [Driver -> Image \cup {NoImage}]
    BY <1>1 DEF ClusterTypeOK
  <1> QED BY <1>2 DEF JobPod, ClusterTypeOK

(* Helm, the Deployment controller, the kubelet and the Jobs keep the types. *)
LEMMA EnvironmentTyped ==
  ASSUME ClusterTypeOK, Environment
  PROVE  ClusterTypeOK'
  <1>1. CASE HelmTexts
    <2>1. helms + 1 \in 0..MaxHelm /\ helms' = helms + 1
      BY <1>1, ClusterAssumption DEF HelmTexts, ClusterTypeOK
    <2>2. Rendered(helms + 1) \in Text /\ Rendered(helms + 1).edits = {}
      BY <2>1 DEF Rendered, Text
    <2>3. /\ conf' \in [File -> Text]
          /\ \A f \in File : conf'[f].edits \subseteq Entries(f)
      BY <1>1, <2>2 DEF HelmTexts
    <2> QED BY <1>1, <2>1, <2>3 DEF HelmTexts, ClusterTypeOK
  <1>5. CASE HelmTemplate
    <2>1. tmpl' \in Template
      <3>1. PICK img \in Image : tmpl' \in Rerendered(img)
        BY <1>5 DEF HelmTemplate
      <3> QED BY <3>1, RerenderedIs DEF ClusterTypeOK
    <2>2. rollout' \in BOOLEAN
      BY <1>5 DEF HelmTemplate, ClusterTypeOK
    <2> QED BY <1>5, <2>1, <2>2 DEF HelmTemplate, ClusterTypeOK
  <1>2. CASE Rollout
    BY <1>2 DEF Rollout, ClusterTypeOK, NewPod, Pod
  <1>3. CASE PodRestart
    BY <1>3, ClusterAssumption DEF PodRestart, ClusterTypeOK, NewPod, Pod
  <1>4. CASE PodStart
    <2>1. PICK imports \in Importable(tmpl) : \E phase \in Phases(imports) :
            pod' = [phase |-> phase, listed |-> conf["ml2"].edits, imports |-> imports]
      BY <1>4 DEF PodStart
    <2>2. imports \subseteq Driver
      BY <2>1, ClusterAssumption DEF Importable, Misfits
    <2>3. Phases(imports) \subseteq {"ready", "crashed"}
      BY DEF Phases
    <2>4. conf["ml2"].edits \subseteq Driver
      BY DEF ClusterTypeOK, File, Entries
    <2>5. pod' \in Pod
      BY <2>1, <2>2, <2>3, <2>4 DEF Pod
    <2> QED BY <1>4, <2>5 DEF PodStart, ClusterTypeOK
  <1>6. CASE LateJob
    <2>1. PICK d \in Driver, img \in Image : JobPod(d, img)
      BY <1>6 DEF LateJob
    <2> QED BY <2>1, JobPodTyped
  <1>7. CASE LateJobEnds
    BY <1>7 DEF LateJobEnds, ClusterTypeOK
  <1> QED BY <1>1, <1>2, <1>3, <1>4, <1>5, <1>6, <1>7 DEF Environment

-----------------------------------------------------------------------------
(* The start of a run and the check of a driver keep the types.            *)
LEMMA StartTyped ==
  ASSUME TypeOK, Tick \/ SkipBackingOff \/ CheckDriver
  PROVE  TypeOK'
  <1> USE DEF TypeOK
  <1>1. CASE Tick
    <2>1. ClusterTypeOK'
      BY <1>1, ClusterUnchanged DEF Tick
    <2>2. LoopTypeOK'
      BY <1>1, SameTyped DEF Tick
    <2>3. CASE /\ pc' = FirstStep /\ snap' = tmpl
               /\ UNCHANGED <<idx, view, buf, tries>>
      BY <1>1, <2>1, <2>2, <2>3 DEF Tick, FirstStep, Same, LocalsTypeOK, ClusterTypeOK, Steps,
                                        RevertSteps
    <2>4. CASE Goto("idle")
      BY <1>1, <2>1, <2>2, <2>4 DEF Tick, Goto, Same, LocalsTypeOK
    <2> QED BY <1>1, <2>1, <2>2, <2>3, <2>4 DEF Tick
  <1>2. CASE SkipBackingOff
    <2>1. ClusterTypeOK'
      BY <1>2, ClusterUnchanged DEF SkipBackingOff, clusterVars
    <2>2. LoopTypeOK'
      BY <1>2 DEF SkipBackingOff, Works, LoopTypeOK, RecordPresent
    <2> QED BY <1>2, <2>1, <2>2, NextDriverTyped DEF SkipBackingOff, LoopTypeOK
  <1>3. CASE CheckDriver
    <2>1. ClusterTypeOK'
      BY <1>3, ClusterUnchanged DEF CheckDriver, clusterVars
    <2>2. Works \/ Fail
      BY <1>3 DEF CheckDriver, Check
    <2>3. backing' \subseteq Driver /\ gauge' \subseteq Driver
      BY <1>3, CurIsDriver DEF CheckDriver, ClearFailure, LoopTypeOK, RecordPresent
    <2>4. LoopTypeOK'
      BY <1>3, <2>2, <2>3, GuardianAssumption DEF CheckDriver, Works, Fail, LoopTypeOK
    <2>5. pc = "check" /\ (NextDriver \/ Goto("ml2Get"))
      BY <1>3 DEF CheckDriver
    <2>6. LocalsTypeOK'
      <3>1. "ml2Get" \in PlainSteps
        BY DEF PlainSteps, Steps, RepairSteps
      <3>2. drivers' = drivers /\ drivers \in DriverLists
        BY <1>3 DEF CheckDriver, LoopTypeOK
      <3> QED BY <2>5, <3>1, <3>2, NextDriverTyped, GotoTyped
    <2> QED BY <2>1, <2>4, <2>6
  <1> QED BY <1>1, <1>2, <1>3

(* Reading a text leaves it in buf, with only the entries its file can     *)
(* have.                                                                   *)
LEMMA ReadTyped ==
  ASSUME TypeOK, pc # "idle", NEW f \in File, NEW c, NEW s \in Steps, NEW o \in PlainSteps,
         s \in {"ml2Patch", "logPatch", "revertMl2", "revertLog"} => f # "script",
         s \in {"scriptPatch", "revertScript"} => f = "script",
         s \notin {"applyPatch", "postCheck"},
         Read(f, c, <<s, o>>)
  PROVE  LocalsTypeOK' /\ LoopTypeOK'
  <1>1. LoopTypeOK'
    BY SameTyped DEF Read, TypeOK
  <1>2. buf' = conf[f] /\ buf' \in Text /\ buf'.edits \subseteq Entries(f)
    BY DEF Read, TypeOK, ClusterTypeOK
  <1>3. pc' \in {s, o} /\ UNCHANGED <<idx, snap, view, tries>>
    BY DEF Read
  <1>4. LocalsTypeOK'
    BY <1>2, <1>3 DEF LocalsTypeOK, TypeOK, PlainSteps, Entries, File, Read, Same
  <1> QED BY <1>1, <1>4

(* The image a repair caches wheels for is that of a template it fetched.  *)
LEMMA WheelImageTyped ==
  ASSUME LocalsTypeOK, pc # "idle"
  PROVE  WheelImage \in Image
  BY DEF LocalsTypeOK, WheelImage, Template

(* Every call of a repair keeps the types.                                 *)
LEMMA RepairTyped ==
  ASSUME TypeOK, Repair
  PROVE  TypeOK'
  <1> USE DEF TypeOK
  <1>a. /\ {"logGet", "scriptGet", "writeSecret", "wheelStart", "wheelWait",
            "applyGet", "postGet", "revertLogGet"} \subseteq PlainSteps
        /\ {"ml2Patch", "logPatch", "scriptPatch"} \subseteq Steps
    BY DEF PlainSteps, Steps, RepairSteps, PostSteps, RevertSteps
  <1>b. cur \in Driver /\ ConfigDir \in Entries("script") /\ Driver = Entries("ml2")
        /\ Driver = Entries("log") /\ File = {"ml2", "log", "script"}
    BY CurIsDriver DEF Entries, File, LoopTypeOK
  <1>c. AfterLogging \in {"scriptGet", "wheelStart"}
    BY DEF AfterLogging
  <1>d. pc # "idle" => WheelImage \in Image
    BY WheelImageTyped
  <1>1. CASE Ml2Get
    BY <1>1, <1>a, <1>b, ReadTyped, RepairFailsTyped, ClusterUnchanged DEF Ml2Get
  <1>2. CASE Ml2Patch
    <2>1. AddEntry(buf, cur) \in Text /\ AddEntry(buf, cur).edits \subseteq Entries("ml2")
      BY <1>2, <1>b, AddEntryTyped DEF Ml2Patch, LocalsTypeOK
    <2>2. ClusterTypeOK'
      BY <1>2, <1>b, <2>1, WriteTyped DEF Ml2Patch, MaybeWrite
    <2> QED BY <1>2, <1>a, <2>2, GotoTyped, SameTyped, RepairFailsTyped DEF Ml2Patch, Same
  <1>3. CASE LogGet
    BY <1>3, <1>a, <1>b, <1>c, ReadTyped, GotoTyped, SameTyped, ClusterUnchanged DEF LogGet, Same
  <1>4. CASE LogPatch
    <2>1. AddEntry(buf, cur) \in Text /\ AddEntry(buf, cur).edits \subseteq Entries("log")
      BY <1>4, <1>b, AddEntryTyped DEF LogPatch, LocalsTypeOK
    <2>2. ClusterTypeOK'
      BY <1>4, <1>b, <2>1, WriteTyped DEF LogPatch, MaybeWrite
    <2> QED BY <1>4, <1>a, <1>c, <2>2, GotoTyped, SameTyped DEF LogPatch, Same
  <1>5. CASE ScriptGet
    BY <1>5, <1>a, <1>b, ReadTyped, GotoTyped, SameTyped, ClusterUnchanged DEF ScriptGet, Same
  <1>6. CASE ScriptPatch
    <2>1. /\ AddEntry(buf, ConfigDir) \in Text
          /\ AddEntry(buf, ConfigDir).edits \subseteq Entries("script")
      BY <1>6, <1>b, AddEntryTyped DEF ScriptPatch, LocalsTypeOK, Entries
    <2>2. ClusterTypeOK'
      BY <1>6, <1>b, <2>1, WriteTyped DEF ScriptPatch, MaybeWrite
    <2> QED BY <1>6, <1>a, <2>2, GotoTyped, SameTyped DEF ScriptPatch, Same
  <1>7. CASE WriteSecret
    <2>1. ClusterTypeOK'
      BY <1>7, <1>b DEF WriteSecret, ClusterTypeOK
    <2> QED BY <1>7, <1>a, <2>1, GotoTyped, SameTyped, RepairFailsTyped DEF WriteSecret, Same
  <1>8. CASE WheelStart
    <2>1. late' \subseteq Driver \X Image
      BY <1>8, <1>b, <1>d DEF WheelStart, LeavesJob, ClusterTypeOK
    <2>2. ClusterTypeOK'
      BY <1>8, <2>1 DEF WheelStart, ClusterTypeOK
    <2> QED BY <1>8, <1>a, <2>2, GotoTyped, SameTyped, RepairEndsTyped, RepairFailsTyped
            DEF WheelStart, Same
  <1>9. CASE WheelWait
    <2>1. late' \subseteq Driver \X Image
      BY <1>9, <1>b, <1>d DEF WheelWait, LeavesJob, ClusterTypeOK
    <2>2. ClusterTypeOK'
      BY <1>9, <1>d, <2>1 DEF WheelWait, Cached, ClusterTypeOK
    <2> QED BY <1>9, <1>a, <2>2, GotoTyped, SameTyped, RepairFailsTyped DEF WheelWait, Same
  <1>10. CASE ApplyGet
    <2>1. CASE Works /\ Same /\ view' = tmpl /\ pc' = "applyPatch"
               /\ UNCHANGED <<idx, snap, buf, tries>>
      <3>1. LocalsTypeOK'
        BY <1>10, <2>1 DEF ApplyGet, Same, LocalsTypeOK, ClusterTypeOK, Steps, RepairSteps
      <3> QED BY <1>10, <2>1, <3>1, SameTyped, ClusterUnchanged DEF ApplyGet
    <2>2. CASE RepairFails
      BY <1>10, <2>2, RepairFailsTyped, ClusterUnchanged DEF ApplyGet
    <2> QED BY <1>10, <2>1, <2>2 DEF ApplyGet
  <1>11. CASE ApplyPatch
    <2>1. view.image \in Image
      BY <1>11 DEF ApplyPatch, LocalsTypeOK, Template
    <2>2. Injected(tmpl, view.image, Configured) \in Template
      BY <2>1, InjectedTyped DEF ClusterTypeOK
    <2>3. ClusterTypeOK'
      BY <1>11, <2>2 DEF ApplyPatch, Apply, ClusterTypeOK
    <2> QED BY <1>11, <1>a, <2>3, GotoTyped, SameTyped, RepairFailsTyped DEF ApplyPatch, Same
  <1> QED BY <1>1, <1>2, <1>3, <1>4, <1>5, <1>6, <1>7, <1>8, <1>9, <1>10, <1>11 DEF Repair

(* The post-repair check keeps the types: its retries are counted up to    *)
(* the limit.                                                              *)
LEMMA PostTyped ==
  ASSUME TypeOK, PostRepairCheck
  PROVE  TypeOK'
  <1> USE DEF TypeOK
  <1>a. ASSUME GiveUp, pc # "idle", drivers' = drivers
        PROVE  LocalsTypeOK' /\ backing' \subseteq Driver
    BY <1>a, NextDriverTyped, CurIsDriver DEF GiveUp, BumpFailure, LoopTypeOK
  <1>b. ASSUME Retry, pc # "idle", drivers' = drivers
        PROVE  LocalsTypeOK' /\ backing' \subseteq Driver
    <2>1. tries + 1 \in 0..Retries
      BY <1>b, GuardianAssumption DEF Retry, RetriesUsedUp, LocalsTypeOK
    <2> QED BY <1>b, <2>1 DEF Retry, LocalsTypeOK, LoopTypeOK, Steps, PostSteps
  <1>1. CASE PostGet
    <2>1. CASE Works /\ Same /\ view' = tmpl /\ pc' = "postCheck"
               /\ UNCHANGED <<idx, snap, buf, tries>>
      <3>1. LocalsTypeOK'
        BY <1>1, <2>1 DEF PostGet, Same, LocalsTypeOK, ClusterTypeOK, Steps, PostSteps
      <3> QED BY <1>1, <2>1, <3>1, SameTyped, ClusterUnchanged DEF PostGet
    <2>2. CASE RepairFails
      BY <1>1, <2>2, RepairFailsTyped, ClusterUnchanged DEF PostGet
    <2> QED BY <1>1, <2>1, <2>2 DEF PostGet
  <1>2. CASE PostCheck
    <2>1. ClusterTypeOK'
      BY <1>2, ClusterUnchanged DEF PostCheck, clusterVars
    <2>2. Works \/ Fail
      BY <1>2 DEF PostCheck, Check
    <2>3. LocalsTypeOK' /\ backing' \subseteq Driver
      <3>1. CASE ClearFailure(cur) /\ NextDriver
        BY <1>2, <3>1, NextDriverTyped DEF PostCheck, ClearFailure, LoopTypeOK
      <3>2. CASE GiveUp \/ Retry
        BY <1>2, <3>2, <1>a, <1>b DEF PostCheck
      <3> QED BY <1>2, <3>1, <3>2 DEF PostCheck
    <2>4. LoopTypeOK'
      BY <1>2, <2>2, <2>3, GuardianAssumption DEF PostCheck, Works, Fail, LoopTypeOK
    <2> QED BY <2>1, <2>3, <2>4
  <1>3. CASE PostRetry
    <2>1. ClusterTypeOK'
      BY <1>3, ClusterUnchanged DEF PostRetry, clusterVars
    <2>2. Works \/ Fail
      BY <1>3 DEF PostRetry
    <2>3. LocalsTypeOK' /\ backing' \subseteq Driver
      <3>1. CASE UNCHANGED backing /\ view' = tmpl /\ pc' = "postCheck"
                 /\ UNCHANGED <<idx, snap, buf, tries>>
        BY <1>3, <3>1 DEF PostRetry, LocalsTypeOK, ClusterTypeOK, LoopTypeOK, Steps, PostSteps
      <3>2. CASE GiveUp \/ Retry
        BY <1>3, <3>2, <1>a, <1>b DEF PostRetry
      <3> QED BY <1>3, <3>1, <3>2 DEF PostRetry
    <2>4. LoopTypeOK'
      BY <1>3, <2>2, <2>3, GuardianAssumption DEF PostRetry, Works, Fail, LoopTypeOK
    <2> QED BY <2>1, <2>3, <2>4
  <1> QED BY <1>1, <1>2, <1>3 DEF PostRepairCheck

(* Every call of a revert keeps the types.                                 *)
LEMMA RevertTyped ==
  ASSUME TypeOK, Revert
  PROVE  TypeOK'
  <1> USE DEF TypeOK
  <1>a. /\ {"revertLogGet", "revertScriptGet", "revertInjection", "revertDone"} \subseteq PlainSteps
        /\ {"revertMl2", "revertLog", "revertScript"} \subseteq Steps
        /\ PlainSteps \subseteq Steps
    BY DEF PlainSteps, Steps, RevertSteps
  <1>b. File = {"ml2", "log", "script"}
    BY DEF File
  <1>c. AfterScript \in {"revertInjection", "revertDone"}
    BY DEF AfterScript
  <1>d. RemoveEntries(buf) \in Text /\ RemoveEntries(buf).edits \subseteq buf.edits
    BY RemoveEntriesTyped DEF LocalsTypeOK
  <1>e. ASSUME RunFails
        PROVE  LocalsTypeOK' /\ LoopTypeOK'
    BY <1>e, EndRunTyped, SameTyped DEF RunFails, Same, LoopTypeOK
  <1>1. CASE DetectFootprint
    <2>1. ClusterTypeOK'
      BY <1>1, ClusterUnchanged DEF DetectFootprint
    <2>2. CASE \E change \in RemovalChanges(conf["ml2"]) :
                 Read("ml2", change, <<"revertMl2", "revertLogGet">>)
      BY <1>1, <2>1, <2>2, <1>a, <1>b, ReadTyped DEF DetectFootprint
    <2>3. CASE /\ Works /\ EndRun
               /\ RecordPresent(Configured, FALSE)
               /\ UNCHANGED <<backing, drivers, dryRun, crashes>>
      BY <2>1, <2>3, EndRunTyped DEF Works, LoopTypeOK, RecordPresent
    <2> QED BY <1>1, <2>1, <2>2, <2>3, <1>e DEF DetectFootprint
  <1>2. CASE RevertMl2
    <2>1. ClusterTypeOK'
      BY <1>2, <1>b, <1>d, WriteTyped DEF RevertMl2, MaybeWrite, LocalsTypeOK, Entries
    <2> QED BY <1>2, <1>a, <1>e, <2>1, GotoTyped, SameTyped DEF RevertMl2, Same
  <1>3. CASE RevertLogGet
    BY <1>3, <1>a, <1>b, ReadTyped, GotoTyped, SameTyped, ClusterUnchanged DEF RevertLogGet, Same
  <1>4. CASE RevertLog
    <2>1. ClusterTypeOK'
      BY <1>4, <1>b, <1>d, WriteTyped DEF RevertLog, MaybeWrite, LocalsTypeOK, Entries
    <2> QED BY <1>4, <1>a, <2>1, GotoTyped, SameTyped DEF RevertLog, Same
  <1>5. CASE RevertScriptGet
    BY <1>5, <1>a, <1>b, <1>c, <1>e, ReadTyped, ClusterUnchanged DEF RevertScriptGet
  <1>6. CASE RevertScript
    <2>1. ClusterTypeOK'
      BY <1>6, <1>b, <1>d, WriteTyped DEF RevertScript, MaybeWrite, LocalsTypeOK, Entries
    <2> QED BY <1>6, <1>a, <1>c, <1>e, <2>1, GotoTyped, SameTyped DEF RevertScript, Same
  <1>7. CASE RevertInjection
    <2>1. Uninjected(tmpl, Configured) \in Template
      BY DEF Uninjected, Template, ClusterTypeOK
    <2>2. ClusterTypeOK'
      BY <1>7, <2>1 DEF RevertInjection, MaybeSetTemplate, SetTemplate, ClusterTypeOK
    <2> QED BY <1>7, <1>a, <1>e, <2>2, GotoTyped, SameTyped DEF RevertInjection, Same
  <1>8. CASE RevertDone
    <2>1. ClusterTypeOK'
      BY <1>8, ClusterUnchanged DEF RevertDone, clusterVars
    <2>2. LoopTypeOK'
      BY <1>8 DEF RevertDone, Works, LoopTypeOK, RecordPresent
    <2> QED BY <1>8, <2>1, <2>2, EndRunTyped DEF RevertDone, LoopTypeOK
  <1> QED BY <1>1, <1>2, <1>3, <1>4, <1>5, <1>6, <1>7, <1>8 DEF Revert

(* So do a restart of the guardian, the pod of its Job, the end of a delay *)
(* and the environment.                                                    *)
LEMMA OtherTyped ==
  ASSUME TypeOK,
         \/ Restart \/ OwnJob \/ (\E d \in Driver : DelayOver(d))
         \/ EnvironmentStep \/ UNCHANGED vars
  PROVE  TypeOK'
  <1> USE DEF TypeOK
  <1>1. CASE Restart
    <2>1. late' \subseteq Driver \X Image
      <3>1. CASE pc \in {"wheelStart", "wheelWait"}
        BY <1>1, <3>1, WheelImageTyped, CurIsDriver
           DEF Restart, LeavesJob, ClusterTypeOK, LoopTypeOK
      <3> QED BY <1>1, <3>1 DEF Restart, LeavesJob, ClusterTypeOK
    <2>2. ClusterTypeOK'
      BY <1>1, <2>1 DEF Restart, ClusterTypeOK
    <2>3. LoopTypeOK'
      BY <1>1, GuardianAssumption DEF Restart, LoopTypeOK
    <2> QED BY <1>1, <2>2, <2>3, EndRunTyped DEF Restart
  <1>5. CASE OwnJob
    BY <1>5, WheelImageTyped, CurIsDriver, JobPodTyped
       DEF OwnJob, guardianVars, LocalsTypeOK, LoopTypeOK
  <1>2. CASE \E d \in Driver : DelayOver(d)
    BY <1>2, ClusterUnchanged DEF DelayOver, localVars, LocalsTypeOK, LoopTypeOK
  <1>3. CASE EnvironmentStep
    BY <1>3, EnvironmentTyped DEF EnvironmentStep, guardianVars, LocalsTypeOK, LoopTypeOK
  <1>4. CASE UNCHANGED vars
    BY <1>4, ClusterUnchanged DEF vars, guardianVars, LocalsTypeOK, LoopTypeOK
  <1> QED BY <1>1, <1>2, <1>3, <1>4, <1>5

(* A fresh cluster and a fresh guardian have the types.                    *)
LEMMA InitTyped ==
  ASSUME Init
  PROVE  TypeOK
  <1>1. Rendered(0) \in Text /\ Rendered(0).edits = {}
    BY ClusterAssumption DEF Rendered, Text
  <1>2. \A img \in Image : Vanilla(img) \in Template
    BY DEF Vanilla, Template
  <1>3. ClusterTypeOK
    <2>1. conf \in [File -> Text] /\ \A f \in File : conf[f].edits \subseteq Entries(f)
      BY <1>1 DEF Init, ClusterInit
    <2>2. tmpl \in Template /\ pod \in Pod
      BY <1>2 DEF Init, ClusterInit, Pod
    <2>3. wheels \in [Driver -> Image \cup {NoImage}] /\ late = {}
      BY DEF Init, ClusterInit
    <2>4. helms \in 0..MaxHelm /\ restarts \in 0..MaxRestart
      BY ClusterAssumption DEF Init, ClusterInit
    <2>5. rollout \in BOOLEAN /\ upgrading \in BOOLEAN /\ secrets \subseteq Driver
      BY ClusterAssumption DEF Init, ClusterInit
    <2> QED BY <2>1, <2>2, <2>3, <2>4, <2>5 DEF ClusterTypeOK
  <1>4. LocalsTypeOK
    <2>1. drivers \in Seq(Driver) /\ Len(drivers) > 0
      BY GuardianAssumption DEF Init
    <2>2. 1 \in 1..Len(drivers)
      BY <2>1
    <2> QED BY <1>1, <2>2, GuardianAssumption DEF Init, LocalsTypeOK, NoText, Steps
  <1>5. LoopTypeOK
    BY GuardianAssumption DEF Init, LoopTypeOK
  <1> QED BY <1>3, <1>4, <1>5 DEF TypeOK

(* So a step of the loop does.                                             *)
LEMMA ReconcileTyped ==
  ASSUME TypeOK, Reconcile
  PROVE  TypeOK'
  BY StartTyped, RepairTyped, PostTyped, RevertTyped DEF Reconcile

(* Every variable always has its type, for any number of drivers, images,  *)
(* faults and restarts: no operation writes back anything else.            *)
THEOREM TypeCorrect == Spec => []TypeOK
  <1>1. TypeOK /\ [Next]_vars => TypeOK'
    BY ReconcileTyped, OtherTyped DEF Next
  <1> QED BY InitTyped, <1>1, PTL DEF Spec

-----------------------------------------------------------------------------
(* The inductive invariant behind the safety properties.                   *)

(* A run is a repair run or a revert run, as DRY_RUN was at its start; only *)
(* a new process changes it.                                               *)
ModeInv ==
    /\ pc \in RevertSteps => dryRun
    /\ pc \in {"check"} \cup RepairSteps \cup PostSteps => ~dryRun

(* The text about to be written back was read before, but only Helm can    *)
(* have written since, and its rendering has no entries.                   *)
ReadInv ==
    /\ pc = "ml2Patch" => conf["ml2"].edits \subseteq buf.edits
    /\ pc = "logPatch" => conf["log"].edits \subseteq buf.edits
    /\ pc = "scriptPatch" => conf["script"].edits \subseteq buf.edits

(* Nobody goes past write_driver_config_secret without the Secret.         *)
SecretInv ==
    /\ External \subseteq secrets
    /\ pc \in {"wheelStart", "wheelWait", "applyGet", "applyPatch"} /\ cur \in ExtraConf
         => cur \in secrets

(* PYTHONPATH does not outlive the injector. *)
Tidy(t) == ~HasInjection(t) => ~t.pythonpath

(* What the revert has undone so far. *)
RevertInv ==
    /\ pc \in {"revertLogGet", "revertLog", "revertScriptGet", "revertScript",
               "revertInjection", "revertDone"} => Listed(conf["ml2"]) = {}
    /\ pc \in {"revertScriptGet", "revertScript", "revertInjection", "revertDone"}
          /\ faults = 0 => Listed(conf["log"]) = {}
    /\ pc \in {"revertInjection", "revertDone"} => conf["script"].edits = {}
    /\ pc = "revertInjection" => HasInjection(snap)
    /\ pc \in RevertSteps /\ HasInjection(tmpl) => HasInjection(snap)
    /\ pc = "revertDone" =>
          /\ ~HasInjection(tmpl)
          /\ HasInjection(snap) => tmpl.mounts \cap Configured = {}
    /\ Tidy(tmpl)

LoopInv == ModeInv /\ ReadInv /\ SecretInv /\ RevertInv

(* After a driver the run is over or checks the next one.                  *)
LEMMA NextDriverGoes == ASSUME NextDriver PROVE pc' \in {"idle", "check"}
  BY DEF NextDriver, EndRun

(* No step takes a repair run into the revert or a revert run into the     *)
(* repair.                                                                 *)
LEMMA ModeStep ==
  ASSUME ModeInv, [Next]_vars
  PROVE  ModeInv'
  <1> USE DEF ModeInv, RepairSteps, PostSteps, RevertSteps
  <1>1. CASE Tick
    BY <1>1 DEF Tick, FirstStep, Same, Goto
  <1>2. CASE SkipBackingOff
    BY <1>2, NextDriverGoes DEF SkipBackingOff
  <1>3. CASE CheckDriver
    BY <1>3, NextDriverGoes DEF CheckDriver, Goto
  <1>4. CASE Repair
    <2>1. ~dryRun /\ dryRun' = dryRun
      BY <1>4 DEF Repair, Ml2Get, Ml2Patch, LogGet, LogPatch, ScriptGet, ScriptPatch,
                  WriteSecret, WheelStart, WheelWait, ApplyGet, ApplyPatch,
                  Read, Same, RepairFails, RepairEnds
    <2>2. pc' \notin RevertSteps
      BY <1>4, NextDriverGoes
         DEF Repair, Ml2Get, Ml2Patch, LogGet, LogPatch, ScriptGet, ScriptPatch,
             WriteSecret, WheelStart, WheelWait, ApplyGet, ApplyPatch,
             Read, Goto, RepairFails, RepairEnds, AfterLogging
    <2> QED BY <2>1, <2>2
  <1>5. CASE PostRepairCheck
    <2>1. ~dryRun /\ dryRun' = dryRun
      BY <1>5 DEF PostRepairCheck, PostGet, PostCheck, PostRetry, Same, RepairFails, RepairEnds
    <2>2. pc' \notin RevertSteps
      BY <1>5, NextDriverGoes
         DEF PostRepairCheck, PostGet, PostCheck, PostRetry, RepairFails, RepairEnds, GiveUp, Retry
    <2> QED BY <2>1, <2>2
  <1>6. CASE Revert
    <2>1. dryRun /\ dryRun' = dryRun
      BY <1>6 DEF Revert, DetectFootprint, RevertMl2, RevertLogGet, RevertLog, RevertScriptGet,
                  RevertScript, RevertInjection, RevertDone, Read, Same, RunFails
    <2>2. pc' \in RevertSteps \cup {"idle"}
      BY <1>6 DEF Revert, DetectFootprint, RevertMl2, RevertLogGet, RevertLog, RevertScriptGet,
                  RevertScript, RevertInjection, RevertDone, Read, Goto, RunFails, EndRun,
                  AfterScript
    <2> QED BY <2>1, <2>2
  <1>7. CASE Restart
    BY <1>7 DEF Restart, EndRun
  <1>8. CASE OwnJob \/ (\E d \in Driver : DelayOver(d)) \/ EnvironmentStep \/ UNCHANGED vars
    BY <1>8 DEF OwnJob, DelayOver, EnvironmentStep, vars, guardianVars, localVars
  <1> QED BY <1>1, <1>2, <1>3, <1>4, <1>5, <1>6, <1>7, <1>8 DEF Next, Reconcile

(* Nobody but the guardian adds an entry to a text, an injection or a      *)
(* mount to the template, or a Secret.                                     *)
LEMMA EnvironmentUnlists ==
  ASSUME TypeOK, Environment
  PROVE  /\ \A f \in File : conf'[f].edits \subseteq conf[f].edits
         /\ HasInjection(tmpl') => HasInjection(tmpl)
         /\ tmpl'.mounts \subseteq tmpl.mounts
         /\ Tidy(tmpl) => Tidy(tmpl')
         /\ secrets' = secrets
  <1>1. CASE HelmTemplate
    <2>1. PICK img \in Image : tmpl' \in Rerendered(img)
      BY <1>1 DEF HelmTemplate
    <2>2. tmpl \in Template /\ tmpl' \in Rerendered(img)
      BY <2>1 DEF TypeOK, ClusterTypeOK
    <2> QED BY <1>1, <2>2, RerenderedIs DEF HasInjection, Tidy, HelmTemplate
  <1>3. CASE HelmTexts
    BY <1>3 DEF HelmTexts, Rendered
  <1>2. CASE Rollout \/ PodRestart \/ PodStart \/ LateJob \/ LateJobEnds
    BY <1>2 DEF Rollout, PodRestart, PodStart, LateJob, LateJobEnds, JobPod
  <1> QED BY <1>1, <1>2, <1>3 DEF Environment

(* Between a read and its patch nobody adds an entry.                      *)
LEMMA ReadStep ==
  ASSUME TypeOK, ReadInv, [Next]_vars
  PROVE  ReadInv'
  <1> USE DEF ReadInv, RepairSteps, PostSteps, RevertSteps
  <1>1. CASE Tick \/ SkipBackingOff \/ CheckDriver
    BY <1>1, NextDriverGoes DEF Tick, SkipBackingOff, CheckDriver, FirstStep, Goto
  <1>2. CASE Ml2Get \/ LogGet \/ ScriptGet
    BY <1>2, NextDriverGoes
       DEF Ml2Get, LogGet, ScriptGet, Read, Goto, RepairFails, RepairEnds, AfterLogging, clusterVars
  <1>3. CASE \/ Ml2Patch \/ LogPatch \/ ScriptPatch \/ WriteSecret \/ WheelStart \/ WheelWait
             \/ ApplyGet \/ ApplyPatch
    BY <1>3, NextDriverGoes
       DEF Ml2Patch, LogPatch, ScriptPatch, WriteSecret, WheelStart, WheelWait,
           ApplyGet, ApplyPatch, Goto, RepairFails, RepairEnds, AfterLogging
  <1>4. CASE PostRepairCheck
    BY <1>4, NextDriverGoes
       DEF PostRepairCheck, PostGet, PostCheck, PostRetry, RepairFails, RepairEnds, GiveUp, Retry
  <1>5. CASE Revert
    BY <1>5 DEF Revert, DetectFootprint, RevertMl2, RevertLogGet, RevertLog, RevertScriptGet,
                RevertScript, RevertInjection, RevertDone, Read, Goto, RunFails, EndRun,
                AfterScript
  <1>6. CASE Restart
    BY <1>6 DEF Restart, EndRun
  <1>7. CASE EnvironmentStep
    BY <1>7, EnvironmentUnlists DEF EnvironmentStep, guardianVars, File
  <1>8. CASE OwnJob \/ (\E d \in Driver : DelayOver(d)) \/ UNCHANGED vars
    BY <1>8 DEF OwnJob, JobPod, DelayOver, vars, guardianVars, localVars, clusterVars
  <1> QED BY <1>1, <1>2, <1>3, <1>4, <1>5, <1>6, <1>7, <1>8 DEF Next, Reconcile, Repair

(* Nobody deletes a Secret, and nobody goes past write_driver_config_secret *)
(* without one.                                                            *)
LEMMA SecretStep ==
  ASSUME TypeOK, SecretInv, [Next]_vars
  PROVE  SecretInv' /\ secrets \subseteq secrets'
  <1> USE DEF SecretInv
  <1>a. cur \in Driver /\ ExtraConf = Managed \cup External
    BY CurIsDriver DEF TypeOK, LoopTypeOK, ExtraConf
  <1>1. CASE Tick \/ SkipBackingOff \/ CheckDriver
    BY <1>1, NextDriverGoes
       DEF Tick, SkipBackingOff, CheckDriver, FirstStep, Goto, clusterVars
  <1>2. CASE Ml2Get \/ Ml2Patch
    BY <1>2, NextDriverGoes DEF Ml2Get, Ml2Patch, Read, Goto, RepairFails, RepairEnds, clusterVars
  <1>3. CASE LogGet \/ LogPatch
    <2>1. pc' = "wheelStart" => cur' \notin ExtraConf
      BY <1>3 DEF LogGet, LogPatch, Read, Goto, AfterLogging, Same, cur
    <2>2. pc' \in {"logPatch", "scriptGet", "wheelStart"} /\ secrets' = secrets
      BY <1>3 DEF LogGet, LogPatch, Read, Goto, AfterLogging, clusterVars
    <2> QED BY <2>1, <2>2
  <1>4. CASE ScriptGet \/ ScriptPatch
    BY <1>4 DEF ScriptGet, ScriptPatch, Read, Goto, clusterVars
  <1>5. CASE WriteSecret
    <2>1. secrets \subseteq secrets' /\ pc' \in {"wheelStart", "idle", "check"}
      BY <1>5, NextDriverGoes DEF WriteSecret, Goto, RepairFails, RepairEnds
    <2>2. pc' = "wheelStart" => cur' = cur /\ (cur \in Managed => cur \in secrets')
      BY <1>5, <1>a, NextDriverGoes DEF WriteSecret, Goto, RepairFails, RepairEnds, Same, cur
    <2> QED BY <1>a, <2>1, <2>2
  <1>6. CASE WheelStart \/ WheelWait
    <2>1. secrets' = secrets /\ pc \in {"wheelStart", "wheelWait"}
      BY <1>6 DEF WheelStart, WheelWait
    <2>2. \/ pc' \in {"wheelWait", "applyGet"} /\ cur' = cur
          \/ pc' \in {"idle", "check"}
      BY <1>6, NextDriverGoes DEF WheelStart, WheelWait, Goto, RepairFails, RepairEnds, Same, cur
    <2> QED BY <2>1, <2>2
  <1>7. CASE ApplyGet \/ ApplyPatch
    <2>1. secrets' = secrets
      BY <1>7 DEF ApplyGet, ApplyPatch, clusterVars
    <2>2. \/ pc = "applyGet" /\ pc' = "applyPatch" /\ cur' = cur
          \/ pc' \in {"postGet", "idle", "check"}
      BY <1>7, NextDriverGoes DEF ApplyGet, ApplyPatch, Goto, RepairFails, RepairEnds, Same, cur
    <2> QED BY <2>1, <2>2
  <1>8. CASE PostRepairCheck
    BY <1>8, NextDriverGoes
       DEF PostRepairCheck, PostGet, PostCheck, PostRetry, RepairFails, RepairEnds, GiveUp, Retry,
           clusterVars
  <1>9. CASE Revert
    BY <1>9 DEF Revert, DetectFootprint, RevertMl2, RevertLogGet, RevertLog, RevertScriptGet,
                RevertScript, RevertInjection, RevertDone, Read, Goto, RunFails, EndRun,
                AfterScript, clusterVars
  <1>10. CASE Restart
    BY <1>10 DEF Restart, EndRun
  <1>11. CASE EnvironmentStep
    BY <1>11, EnvironmentUnlists DEF EnvironmentStep, guardianVars, cur
  <1>12. CASE OwnJob \/ (\E d \in Driver : DelayOver(d)) \/ UNCHANGED vars
    BY <1>12 DEF OwnJob, JobPod, DelayOver, vars, guardianVars, localVars, clusterVars, cur
  <1> QED BY <1>1, <1>2, <1>3, <1>4, <1>5, <1>6, <1>7, <1>8, <1>9, <1>10, <1>11, <1>12
          DEF Next, Reconcile, Repair

(* What a revert has undone stays undone until it ends.                    *)
LEMMA RevertStep ==
  ASSUME TypeOK, RevertInv, [Next]_vars
  PROVE  RevertInv'
  <1> USE DEF RevertInv, RevertSteps
  <1>a. tmpl \in Template /\ buf \in Text
    BY DEF TypeOK, ClusterTypeOK, LocalsTypeOK
  <1>b. File = {"ml2", "log", "script"} /\ conf \in [File -> Text]
    BY DEF File, TypeOK, ClusterTypeOK
  <1>c. /\ drivers' = drivers => Configured' = Configured
        /\ \A text : text.edits \cap Configured = {} => Listed(text) = {}
        /\ Listed(RemoveEntries(buf)) = {}
        /\ pc = "revertScript" => RemoveEntries(buf).edits = {}
    <2>1. RemoveEntries(buf).edits = buf.edits \ (Configured \cup {ConfigDir})
      BY <1>a DEF RemoveEntries, Text
    <2> QED BY <2>1 DEF Configured, Listed, TypeOK, LocalsTypeOK
  <1>d. /\ \A text : \A change \in RemovalChanges(text) : ~change => Listed(text) = {}
        /\ Fail => faults' # 0
    <2>1. ASSUME NEW text, NEW change \in RemovalChanges(text), ~change
          PROVE  Listed(text) = {}
      BY <2>1 DEF RemovalChanges, Listed
    <2>2. Fail => faults' # 0
      BY GuardianAssumption DEF Fail, TypeOK, LoopTypeOK
    <2> QED BY <2>1, <2>2
  \* outside of a revert nothing but Tidy is claimed
  <1>e. ASSUME pc' \notin RevertSteps, Tidy(tmpl')
        PROVE  RevertInv'
    BY <1>e
  <1>1. CASE Tick
    BY <1>1 DEF Tick, FirstStep, Goto, clusterVars
  <1>2. CASE SkipBackingOff \/ CheckDriver
    BY <1>2, NextDriverGoes DEF SkipBackingOff, CheckDriver, Goto, clusterVars
  <1>3. CASE Repair /\ ~ApplyPatch
    <2>1. tmpl' = tmpl
      BY <1>3 DEF Repair, Ml2Get, Ml2Patch, LogGet, LogPatch, ScriptGet, ScriptPatch,
                  WriteSecret, WheelStart, WheelWait, ApplyGet, clusterVars
    <2>2. pc' \notin RevertSteps
      BY <1>3, NextDriverGoes
         DEF Repair, Ml2Get, Ml2Patch, LogGet, LogPatch, ScriptGet, ScriptPatch,
             WriteSecret, WheelStart, WheelWait, ApplyGet,
             Read, Goto, RepairFails, RepairEnds, AfterLogging
    <2> QED BY <1>e, <2>1, <2>2
  <1>4. CASE ApplyPatch
    <2>1. view.image \in Image
      BY <1>4 DEF ApplyPatch, TypeOK, LocalsTypeOK, Template
    <2>2. Tidy(tmpl')
      BY <1>4, <1>a, <2>1, InjectedTyped, ClusterAssumption
         DEF ApplyPatch, Apply, Tidy, HasInjection
    <2> QED BY <1>4, <2>2, NextDriverGoes DEF ApplyPatch, Goto, RepairFails, RepairEnds
  <1>5. CASE PostRepairCheck
    BY <1>5, NextDriverGoes
       DEF PostRepairCheck, PostGet, PostCheck, PostRetry, RepairFails, RepairEnds, GiveUp, Retry,
           clusterVars
  <1>6. CASE DetectFootprint
    <2>1. UNCHANGED <<conf, tmpl>>
      BY <1>6 DEF DetectFootprint, clusterVars
    <2>2. CASE pc' = "idle"
      BY <1>e, <2>1, <2>2
    <2>3. CASE pc' # "idle"
      <3>1. PICK change \in RemovalChanges(conf["ml2"]) :
              Read("ml2", change, <<"revertMl2", "revertLogGet">>)
        BY <1>6, <2>3 DEF DetectFootprint, RunFails, EndRun
      <3>2. UNCHANGED <<snap, drivers>> /\ (pc' = "revertMl2" \/ (pc' = "revertLogGet" /\ ~change))
        BY <3>1 DEF Read, Same
      <3> QED BY <1>6, <1>c, <1>d, <2>1, <3>2 DEF DetectFootprint, Listed
    <2> QED BY <2>2, <2>3
  <1>7. CASE RevertMl2
    <2>1. tmpl' = tmpl
      BY <1>7 DEF RevertMl2
    <2>2. CASE RunFails
      BY <1>e, <2>1, <2>2 DEF RunFails, EndRun
    <2>3. CASE Write("ml2", RemoveEntries(buf)) /\ Goto("revertLogGet") /\ Same
      <3>1. conf'["ml2"] = RemoveEntries(buf)
        BY <2>3, <1>b DEF Write
      <3> QED BY <1>7, <1>c, <2>1, <2>3, <3>1 DEF RevertMl2, Goto, Same, Listed
    <2> QED BY <1>7, <2>2, <2>3 DEF RevertMl2
  <1>8. CASE RevertLogGet
    <2>1. UNCHANGED <<conf, tmpl, snap, drivers>>
      BY <1>8 DEF RevertLogGet, Read, Goto, Same, clusterVars
    <2>2. CASE Fail /\ Goto("revertScriptGet")
      BY <1>8, <1>c, <1>d, <2>1, <2>2 DEF RevertLogGet, Goto, Listed
    <2>3. CASE ~(Fail /\ Goto("revertScriptGet"))
      <3>1. PICK change \in RemovalChanges(conf["log"]) :
              Read("log", change, <<"revertLog", "revertScriptGet">>)
        BY <1>8, <2>3 DEF RevertLogGet
      <3>2. pc' = "revertLog" \/ (pc' = "revertScriptGet" /\ ~change)
        BY <3>1 DEF Read
      <3> QED BY <1>8, <1>c, <1>d, <2>1, <3>2 DEF RevertLogGet, Listed
    <2> QED BY <2>2, <2>3
  <1>9. CASE RevertLog
    <2>1. /\ conf'["ml2"] = conf["ml2"]
          /\ UNCHANGED <<tmpl, snap, drivers>> /\ pc' = "revertScriptGet"
      BY <1>9, <1>b DEF RevertLog, MaybeWrite, Write, Goto, Same
    <2>2. faults' = 0 => conf'["log"] = RemoveEntries(buf)
      BY <1>9, <1>b, <1>d DEF RevertLog, Write
    <2> QED BY <1>9, <1>c, <2>1, <2>2 DEF RevertLog, Listed
  <1>10. CASE RevertScriptGet
    <2>1. conf' = conf /\ tmpl' = tmpl
      BY <1>10 DEF RevertScriptGet, clusterVars
    <2>2. CASE RunFails
      BY <1>e, <2>1, <2>2 DEF RunFails, EndRun
    <2>3. CASE Read("script", conf["script"].edits # {}, <<"revertScript", AfterScript>>)
      BY <1>10, <1>c, <2>1, <2>3 DEF RevertScriptGet, Read, Works, Same, AfterScript, Listed
    <2> QED BY <1>10, <2>2, <2>3 DEF RevertScriptGet
  <1>11. CASE RevertScript
    <2>1. tmpl' = tmpl
      BY <1>11 DEF RevertScript
    <2>2. CASE RunFails
      BY <1>e, <2>1, <2>2 DEF RunFails, EndRun
    <2>3. CASE Works /\ Write("script", RemoveEntries(buf)) /\ Goto(AfterScript) /\ Same
      <3>1. /\ conf'["ml2"] = conf["ml2"] /\ conf'["log"] = conf["log"]
            /\ conf'["script"].edits = {}
        BY <1>11, <2>3, <1>b, <1>c DEF Write, RevertScript
      <3> QED BY <1>11, <1>c, <2>1, <2>3, <3>1
              DEF RevertScript, Works, Same, Goto, AfterScript, Listed
    <2> QED BY <1>11, <2>2, <2>3 DEF RevertScript
  <1>12. CASE RevertInjection
    <2> DEFINE bare == Uninjected(tmpl, Configured)
    <2>1. ~HasInjection(bare) /\ Tidy(bare) /\ bare.mounts \cap Configured = {}
      BY <1>a DEF Uninjected, HasInjection, Tidy, Template
    <2>2. CASE Works /\ SetTemplate(bare) /\ Goto("revertDone") /\ Same
      BY <1>12, <1>c, <2>1, <2>2 DEF RevertInjection, SetTemplate, Works, Same, Goto, Listed
    <2>3. CASE MaybeSetTemplate(bare) /\ RunFails
      BY <1>e, <2>1, <2>3 DEF MaybeSetTemplate, SetTemplate, RunFails, EndRun
    <2> QED BY <1>12, <2>2, <2>3 DEF RevertInjection
  <1>13. CASE RevertDone
    BY <1>e, <1>13 DEF RevertDone, EndRun, clusterVars
  <1>14. CASE Restart
    BY <1>e, <1>14 DEF Restart, EndRun
  <1>15. CASE EnvironmentStep
    BY <1>15, <1>b, <1>c, EnvironmentUnlists DEF EnvironmentStep, guardianVars, Listed
  <1>16. CASE OwnJob \/ (\E d \in Driver : DelayOver(d)) \/ UNCHANGED vars
    BY <1>16, <1>c DEF OwnJob, JobPod, DelayOver, vars, guardianVars, localVars, clusterVars, Listed
  <1> QED BY <1>1, <1>2, <1>3, <1>4, <1>5, <1>6, <1>7, <1>8, <1>9, <1>10, <1>11, <1>12,
             <1>13, <1>14, <1>15, <1>16
          DEF Next, Reconcile, Revert, Repair

(* The invariant holds of a fresh cluster and a fresh guardian.            *)
LEMMA InitLoop ==
  ASSUME Init
  PROVE  LoopInv
  BY DEF Init, ClusterInit, LoopInv, ModeInv, ReadInv, SecretInv, RevertInv, Tidy,
         HasInjection, Vanilla, RepairSteps, PostSteps, RevertSteps

(* TypeOK and LoopInv together are inductive.                              *)
LEMMA Invariance == Spec => [](TypeOK /\ LoopInv)
  <1>1. Init => TypeOK /\ LoopInv
    BY InitTyped, InitLoop
  <1>2. TypeOK /\ LoopInv /\ [Next]_vars => (TypeOK /\ LoopInv)'
    <2> SUFFICES ASSUME TypeOK, LoopInv, [Next]_vars
                 PROVE  TypeOK' /\ LoopInv'
      OBVIOUS
    <2>1. TypeOK'
      BY ReconcileTyped, OtherTyped DEF Next
    <2> QED BY <2>1, ModeStep, ReadStep, SecretStep, RevertStep DEF LoopInv
  <1> QED BY <1>1, <1>2, PTL DEF Spec

-----------------------------------------------------------------------------
(* The Secret that the pod of a rollout mounts for this driver exists      *)
(* before the rollout (repair, steps 2 and 3), although any call in        *)
(* between may fail and Helm rewrites everything else.                     *)
THEOREM RolloutHasSecret == Spec => []SecretBeforeRollout
  <1>1. LoopInv => SecretBeforeRollout
    BY DEF LoopInv, SecretInv, SecretBeforeRollout
  <1> QED BY <1>1, Invariance, PTL

(* The revert takes the injection out last (revert_or_preview): of the     *)
(* drivers it knows none is listed by then, and --config-dir is gone.      *)
THEOREM RevertIsOrdered == Spec => []RevertNeverStrands
  <1>1. LoopInv => RevertNeverStrands
    BY DEF LoopInv, RevertInv, RevertNeverStrands
  <1> QED BY <1>1, Invariance, PTL

(* What a revert that ends without a fatal error has removed, at whatever  *)
(* moment Helm rewrote the texts or the template. It says nothing of the   *)
(* Secrets, the wheels and DEPENDENCY_JOBS, which the code leaves, of the  *)
(* loggers once a call has failed, or of mounts without an injection.      *)
THEOREM RevertRemovesInjection == Spec => []RevertRemoves
  <1>1. LoopInv => RevertRemoves
    BY DEF LoopInv, RevertInv, RevertRemoves, Tidy
  <1> QED BY <1>1, Invariance, PTL

(* Of the calls of a repair only the wait for the Job goes on to the       *)
(* rollout.                                                                *)
LEMMA WaysToApply ==
  ASSUME TypeOK, Next, pc' \in {"applyGet", "applyPatch"}
  PROVE  \/ WheelWait /\ Works /\ Cached(cur, WheelImage) /\ UNCHANGED <<idx, snap, drivers>>
         \/ /\ pc \in {"applyGet", "applyPatch"} /\ UNCHANGED <<idx, snap, drivers>>
            /\ wheels' # wheels => LateJob
  <1>1. CASE WheelWait
    BY <1>1, NextDriverGoes DEF WheelWait, Goto, Same, RepairFails, RepairEnds
  <1>2. CASE ApplyGet \/ ApplyPatch
    BY <1>2, NextDriverGoes DEF ApplyGet, ApplyPatch, Goto, Same, RepairFails, RepairEnds, clusterVars
  <1>3. CASE EnvironmentStep
    BY <1>3 DEF EnvironmentStep, guardianVars, Environment, HelmTexts, HelmTemplate, Rollout,
                PodRestart, PodStart, LateJobEnds
  <1>4. CASE OwnJob \/ \E d \in Driver : DelayOver(d)
    BY <1>4 DEF OwnJob, DelayOver, guardianVars, localVars, clusterVars
  <1>5. CASE Restart
    BY <1>5 DEF Restart, EndRun
  <1>6. CASE Reconcile /\ ~WheelWait /\ ~ApplyGet /\ ~ApplyPatch
    BY <1>6, NextDriverGoes
       DEF Reconcile, Tick, FirstStep, SkipBackingOff, CheckDriver, Repair, Ml2Get, Ml2Patch,
           LogGet, LogPatch, ScriptGet, ScriptPatch, WriteSecret, WheelStart, Read, Goto,
           RepairFails, RepairEnds, AfterLogging, PostRepairCheck, PostGet, PostCheck,
           PostRetry, GiveUp, Retry, Revert, DetectFootprint, RevertMl2, RevertLogGet,
           RevertLog, RevertScriptGet, RevertScript, RevertInjection, RevertDone, RunFails,
           EndRun, AfterScript
  <1> QED BY <1>1, <1>2, <1>3, <1>4, <1>5, <1>6 DEF Next

(* A repair goes on to the rollout with the wheels it has just cached, for *)
(* the image its run saw, and only a Job that an earlier refresh of this   *)
(* driver did not wait for can take them away again (refresh; run_once     *)
(* handles one driver after the other).                                    *)
THEOREM RolloutHasWheels == Spec => WheelsBeforeRollout
  <1> DEFINE Kept == pc' \in {"applyGet", "applyPatch"} /\ wheels'[cur'] # snap'.image =>
                       \/ \E img \in Image : <<cur, img>> \in late
                       \/ pc \in {"applyGet", "applyPatch"} /\ wheels[cur] # snap.image
  <1>1. TypeOK /\ LoopInv /\ [Next]_vars => [Kept]_vars
    <2> SUFFICES ASSUME TypeOK, Next, pc' \in {"applyGet", "applyPatch"},
                        wheels'[cur'] # snap'.image
                 PROVE  \/ \E img \in Image : <<cur, img>> \in late
                        \/ pc \in {"applyGet", "applyPatch"} /\ wheels[cur] # snap.image
      BY DEF Kept
    <2>1. cur \in Driver /\ wheels \in [Driver -> Image \cup {NoImage}]
      BY CurIsDriver DEF TypeOK, LoopTypeOK, ClusterTypeOK
    <2>2. UNCHANGED <<idx, snap, drivers>>
      BY WaysToApply
    <2>3. cur' = cur
      BY <2>2 DEF cur
    <2>4. ~(WheelWait /\ Works /\ Cached(cur, WheelImage))
      BY <2>1, <2>2, <2>3 DEF Cached, WheelImage
    <2>5. pc \in {"applyGet", "applyPatch"} /\ (wheels' # wheels => LateJob)
      BY <2>4, WaysToApply
    <2>6. CASE wheels[cur] # snap.image
      BY <2>5, <2>6
    <2>7. CASE wheels[cur] = snap.image
      <3>1. wheels'[cur] # wheels[cur]
        BY <2>2, <2>3, <2>7
      <3>2. PICK d \in Driver, img \in Image : <<d, img>> \in late /\ JobPod(d, img)
        BY <2>5, <3>1 DEF LateJob
      <3>3. d = cur
        BY <2>1, <3>1, <3>2 DEF JobPod
      <3> QED BY <3>2, <3>3
    <2> QED BY <2>6, <2>7
  <1>2. Spec => [][Kept]_vars
    BY <1>1, Invariance, PTL DEF Spec
  <1> QED BY <1>2 DEF WheelsBeforeRollout

(* The gauge of a driver reads 0 during all of its repair: the check that  *)
(* starts a repair writes it (run_once), and nothing writes it or moves on *)
(* to another driver before the repair has ended, one way or the other.    *)
THEOREM RepairReadsZero == Spec => []ZeroWhileRepaired
  <1> DEFINE Repairing == RepairSteps \cup PostSteps
  <1>1. Init => ZeroWhileRepaired
    BY DEF Init, ZeroWhileRepaired, RepairSteps, PostSteps
  <1>2. ZeroWhileRepaired /\ [Next]_vars => ZeroWhileRepaired'
    <2> SUFFICES ASSUME ZeroWhileRepaired, [Next]_vars
                 PROVE  ZeroWhileRepaired'
      OBVIOUS
    <2>a. {"idle", "check"} \cap Repairing = {} /\ RevertSteps \cap Repairing = {}
      BY DEF RepairSteps, PostSteps, RevertSteps
    \* steps that stay with the driver, and steps that leave the repair
    <2>b. ASSUME pc \in Repairing, UNCHANGED <<idx, drivers, gauge>> PROVE ZeroWhileRepaired'
      BY <2>b DEF ZeroWhileRepaired, cur
    <2>c. ASSUME pc' \notin Repairing PROVE ZeroWhileRepaired'
      BY <2>c DEF ZeroWhileRepaired
    <2>1. CASE Tick \/ SkipBackingOff \/ Revert \/ Restart
      <3>1. pc' \in {"idle", "check"} \cup RevertSteps
        BY <2>1, NextDriverGoes
           DEF Tick, FirstStep, Goto, SkipBackingOff, Restart, EndRun, Revert, DetectFootprint,
               RevertMl2, RevertLogGet, RevertLog, AfterScript, RevertScriptGet, RevertScript,
               RevertInjection, RevertDone, Read, RunFails, RevertSteps
      <3> QED BY <3>1, <2>a, <2>c
    <2>2. CASE CheckDriver
      <3>1. CASE NextDriver
        BY <3>1, <2>a, <2>c, NextDriverGoes
      <3>2. CASE RecordPresent({cur}, FALSE) /\ Goto("ml2Get")
        BY <2>2, <3>2 DEF CheckDriver, RecordPresent, Goto, ZeroWhileRepaired, cur
      <3> QED BY <2>2, <3>1, <3>2 DEF CheckDriver
    <2>3. CASE Repair
      <3>1. pc \in Repairing
        BY <2>3 DEF Repair, Ml2Get, Ml2Patch, LogGet, LogPatch, ScriptGet, ScriptPatch,
                    WriteSecret, WheelStart, WheelWait, ApplyGet, ApplyPatch, RepairSteps
      <3>2. RepairEnds \/ UNCHANGED <<idx, drivers, gauge>>
        BY <2>3 DEF Repair, Ml2Get, Ml2Patch, LogGet, LogPatch, ScriptGet, ScriptPatch,
                    WriteSecret, WheelStart, WheelWait, ApplyGet, ApplyPatch, Read, Goto, Same,
                    RepairFails
      <3> QED BY <3>1, <3>2, <2>a, <2>b, <2>c, NextDriverGoes DEF RepairEnds
    <2>4. CASE PostRepairCheck
      <3>1. pc \in Repairing
        BY <2>4 DEF PostRepairCheck, PostGet, PostCheck, PostRetry, PostSteps
      <3>2. NextDriver \/ UNCHANGED <<idx, drivers, gauge>>
        BY <2>4 DEF PostRepairCheck, PostGet, PostCheck, PostRetry, RepairFails, RepairEnds,
                    GiveUp, Retry, Same
      <3> QED BY <3>1, <3>2, <2>a, <2>b, <2>c, NextDriverGoes
    <2>5. CASE OwnJob \/ (\E d \in Driver : DelayOver(d)) \/ EnvironmentStep \/ UNCHANGED vars
      BY <2>5 DEF OwnJob, DelayOver, EnvironmentStep, vars, guardianVars, localVars,
                  ZeroWhileRepaired, cur
    <2> QED BY <2>1, <2>2, <2>3, <2>4, <2>5 DEF Next, Reconcile
  <1> QED BY <1>1, <1>2, PTL DEF Spec

(* A step of the guardian is neither a Helm upgrade nor a restart.         *)
LEMMA NotHelmNotRestart ==
  ASSUME TypeOK, GuardianStep
  PROVE  ~HelmTexts /\ ~HelmTemplate /\ ~Restart
  <1>1. crashes + 1 # crashes
    BY GuardianAssumption DEF TypeOK, LoopTypeOK
  <1> QED BY <1>1 DEF GuardianStep, HelmTexts, HelmTemplate, Restart

(* What a repair writes back contains everything that is live, for any     *)
(* number of drivers: the read-modify-write without a resourceVersion can  *)
(* lose Helm's rendering, but never another driver's entry.                *)
THEOREM RepairKeepsEntries == Spec => RepairNeverUnlists
  <1> DEFINE Keeps == ~dryRun /\ GuardianStep =>
                        \A f \in File : conf[f].edits \subseteq conf'[f].edits
  <1>1. TypeOK /\ LoopInv /\ [Next]_vars => [Keeps]_vars
    <2> SUFFICES ASSUME TypeOK, LoopInv, Next, ~dryRun, GuardianStep
                 PROVE  \A f \in File : conf[f].edits \subseteq conf'[f].edits
      OBVIOUS
    <2>1. CASE conf' = conf
      BY <2>1
    <2>2. CASE conf' # conf
      <3>1. File = {"ml2", "log", "script"} /\ conf \in [File -> Text] /\ buf \in Text
        BY DEF File, TypeOK, ClusterTypeOK, LocalsTypeOK
      <3>2. \A e : buf.edits \subseteq AddEntry(buf, e).edits
        BY <3>1 DEF AddEntry, Text
      <3>3. Ml2Patch \/ LogPatch \/ ScriptPatch
        <4>1. ~HelmTexts /\ ~HelmTemplate /\ ~Restart
          BY NotHelmNotRestart
        <4>2. ~Revert
          BY DEF LoopInv, ModeInv, RevertSteps, Revert, DetectFootprint, RevertMl2, RevertLogGet,
                 RevertLog, RevertScriptGet, RevertScript, RevertInjection, RevertDone
        <4> QED BY <2>2, <4>1, <4>2
                DEF Next, Reconcile, Repair, PostRepairCheck, Tick, SkipBackingOff, CheckDriver,
                    Ml2Get, LogGet, ScriptGet, WriteSecret, WheelStart, WheelWait, ApplyGet,
                    ApplyPatch, PostGet, PostCheck, PostRetry, OwnJob, DelayOver,
                    EnvironmentStep, Environment, Rollout, PodRestart, PodStart, LateJob,
                    LateJobEnds, JobPod, clusterVars
      <3>4. CASE Ml2Patch
        BY <2>2, <3>1, <3>2, <3>4
           DEF Ml2Patch, Write, MaybeWrite, LoopInv, ReadInv
      <3>5. CASE LogPatch
        BY <2>2, <3>1, <3>2, <3>5
           DEF LogPatch, Write, MaybeWrite, LoopInv, ReadInv
      <3>6. CASE ScriptPatch
        BY <2>2, <3>1, <3>2, <3>6
           DEF ScriptPatch, Write, MaybeWrite, LoopInv, ReadInv
      <3> QED BY <3>3, <3>4, <3>5, <3>6
    <2> QED BY <2>1, <2>2
  <1>2. Spec => [][Keeps]_vars
    BY <1>1, Invariance, PTL DEF Spec
  <1> QED BY <1>2 DEF RepairNeverUnlists

(* A step of a process with DRY_RUN set adds nothing of its drivers,       *)
(* whatever somebody else has put into the texts, and starts no Job.       *)
LEMMA DryRunStep ==
  ASSUME TypeOK, ModeInv, dryRun, Reconcile
  PROVE  /\ \A f \in File :
               conf'[f].edits \cap (Configured \cup {ConfigDir}) \subseteq conf[f].edits
         /\ HasInjection(tmpl') => HasInjection(tmpl)
         /\ tmpl'.mounts \subseteq tmpl.mounts
         /\ secrets' = secrets /\ wheels' = wheels /\ pc' # "wheelWait"
  <1>1. ~Repair /\ ~PostRepairCheck /\ ~SkipBackingOff /\ ~CheckDriver
    BY DEF ModeInv, RepairSteps, PostSteps, Repair, PostRepairCheck, SkipBackingOff,
           CheckDriver, Ml2Get, Ml2Patch, LogGet, LogPatch, ScriptGet, ScriptPatch, WriteSecret,
           WheelStart, WheelWait, ApplyGet, ApplyPatch, PostGet, PostCheck, PostRetry
  <1>2. CASE Tick
    BY <1>2 DEF Tick, FirstStep, Goto, clusterVars
  <1>3. CASE Revert
    <2>1. secrets' = secrets /\ wheels' = wheels /\ pc' # "wheelWait"
      BY <1>3 DEF Revert, DetectFootprint, RevertMl2, RevertLogGet, RevertLog, RevertScriptGet,
                  RevertScript, RevertInjection, RevertDone, Read, Goto, RunFails, EndRun,
                  AfterScript, clusterVars
    <2>2. ASSUME NEW f \in File
          PROVE  conf'[f].edits \cap (Configured \cup {ConfigDir}) \subseteq conf[f].edits
      <3>1. conf \in [File -> Text] /\ RemoveEntries(buf).edits \cap (Configured \cup {ConfigDir}) = {}
        BY DEF TypeOK, ClusterTypeOK, LocalsTypeOK, RemoveEntries, Text
      <3>2. CASE RevertMl2 \/ RevertLog \/ RevertScript
        BY <3>1, <3>2 DEF RevertMl2, RevertLog, RevertScript, MaybeWrite, Write
      <3>3. CASE ~(RevertMl2 \/ RevertLog \/ RevertScript)
        BY <1>3, <3>3 DEF Revert, DetectFootprint, RevertLogGet, RevertScriptGet,
                          RevertInjection, RevertDone, clusterVars
      <3> QED BY <3>2, <3>3
    <2>3. /\ HasInjection(tmpl') => HasInjection(tmpl)
          /\ tmpl'.mounts \subseteq tmpl.mounts
      <3>1. CASE RevertInjection
        <4>1. tmpl' = tmpl \/ tmpl' = Uninjected(tmpl, Configured)
          BY <3>1 DEF RevertInjection, MaybeSetTemplate, SetTemplate
        <4>2. /\ ~HasInjection(Uninjected(tmpl, Configured))
              /\ Uninjected(tmpl, Configured).mounts \subseteq tmpl.mounts
          BY DEF TypeOK, ClusterTypeOK, Uninjected, HasInjection, Template
        <4> QED BY <4>1, <4>2
      <3>2. CASE ~RevertInjection
        BY <1>3, <3>2 DEF Revert, DetectFootprint, RevertMl2, RevertLogGet, RevertLog,
                          RevertScriptGet, RevertScript, RevertDone, clusterVars
      <3> QED BY <3>1, <3>2
    <2> QED BY <2>1, <2>2, <2>3
  <1> QED BY <1>1, <1>2, <1>3 DEF Reconcile

(* DRY_RUN never installs anything of the configured drivers, whatever run *)
(* was interrupted before it and whatever drivers were configured then.    *)
THEOREM DryRunInstallsNothing == Spec => DryRunNeverInstalls
  <1> DEFINE Quiet == dryRun /\ GuardianStep =>
                        /\ \A f \in File :
                              conf'[f].edits \cap (Configured \cup {ConfigDir})
                                \subseteq conf[f].edits
                        /\ HasInjection(tmpl') => HasInjection(tmpl)
                        /\ tmpl'.mounts \subseteq tmpl.mounts
                        /\ secrets' = secrets /\ pc' # "wheelWait"
  <1>1. TypeOK /\ LoopInv /\ [Next]_vars => [Quiet]_vars
    <2> SUFFICES ASSUME TypeOK, LoopInv, Next, dryRun, GuardianStep
                 PROVE  Quiet
      BY DEF Quiet
    <2>1. ~HelmTexts /\ ~HelmTemplate /\ ~Restart
      BY NotHelmNotRestart
    <2>2. CASE Reconcile
      BY <2>2, DryRunStep DEF LoopInv, Quiet
    <2>3. CASE ~Reconcile
      <3>1. pc' = pc /\ UNCHANGED <<conf, tmpl, secrets>>
        BY <2>1, <2>3
           DEF Next, OwnJob, DelayOver, EnvironmentStep, Environment, Rollout, PodRestart, PodStart,
               LateJob, LateJobEnds, JobPod, clusterVars, guardianVars, localVars
      <3>2. pc # "wheelWait"
        BY DEF LoopInv, ModeInv, RepairSteps
      <3> QED BY <3>1, <3>2 DEF Quiet
    <2> QED BY <2>2, <2>3
  <1>2. Spec => [][Quiet]_vars
    BY <1>1, Invariance, PTL DEF Spec
  <1> QED BY <1>2 DEF DryRunNeverInstalls

-----------------------------------------------------------------------------
(* A guardian that is not alone (module Handover). What it keeps, whatever *)
(* somebody else does to the cluster, as long as the cluster keeps its     *)
(* types and no Secret is deleted.                                         *)
ProcessInv == TypeOK /\ ModeInv /\ SecretInv

(* A step of its own loop, the pod of its Job, or the end of a backoff.    *)
LEMMA ProcessGoesOn ==
  ASSUME ProcessInv, Reconcile \/ OwnJob \/ \E d \in Driver : DelayOver(d)
  PROVE  ProcessInv' /\ secrets \subseteq secrets'
  <1>1. TypeOK'
    BY ReconcileTyped, OtherTyped DEF ProcessInv
  <1> QED BY <1>1, ModeStep, SecretStep DEF ProcessInv, Next

(* A step of anybody else.                                                 *)
LEMMA ProcessStays ==
  ASSUME ProcessInv, UNCHANGED guardianVars, ClusterTypeOK', secrets \subseteq secrets'
  PROVE  ProcessInv'
  <1>1. LocalsTypeOK' /\ LoopTypeOK'
    BY DEF ProcessInv, TypeOK, guardianVars, LocalsTypeOK, LoopTypeOK
  <1>2. ModeInv' /\ SecretInv'
    BY DEF ProcessInv, guardianVars, ModeInv, SecretInv, cur
  <1> QED BY <1>1, <1>2 DEF ProcessInv, TypeOK

(* Only a list of Jobs changes when it leaves one behind.                  *)
LeavesOnlyJob(steps) ==
    /\ LeavesJob(steps)
    /\ UNCHANGED <<conf, tmpl, rollout, secrets, wheels, pod, upgrading, helms, restarts>>

LEMMA LeavesJobTyped ==
  ASSUME TypeOK, NEW steps, "idle" \notin steps, LeavesOnlyJob(steps)
  PROVE  ClusterTypeOK' /\ secrets' = secrets
  <1>1. late' \subseteq Driver \X Image
    <2>1. CASE pc = "idle"
      BY <2>1 DEF LeavesOnlyJob, LeavesJob, TypeOK, ClusterTypeOK
    <2>2. CASE pc # "idle"
      BY <2>2, CurIsDriver, WheelImageTyped
         DEF LeavesOnlyJob, LeavesJob, TypeOK, ClusterTypeOK, LoopTypeOK
    <2> QED BY <2>1, <2>2
  <1> QED BY <1>1 DEF LeavesOnlyJob, TypeOK, ClusterTypeOK

(* A repair that ends because somebody else took the Job.                  *)
LEMMA ProcessLosesJob ==
  ASSUME ProcessInv, pc \in RepairSteps, RepairEnds, Works, LeavesOnlyJob({"wheelWait"})
  PROVE  ProcessInv' /\ secrets' = secrets
  <1>1. pc # "idle" /\ ~dryRun
    BY DEF ProcessInv, ModeInv, RepairSteps
  <1>2. TypeOK' /\ secrets' = secrets
    BY <1>1, LeavesJobTyped, RepairEndsTyped DEF ProcessInv, TypeOK
  <1>3. pc' \in {"idle", "check"} /\ dryRun' = dryRun
    BY NextDriverGoes DEF RepairEnds
  <1> QED BY <1>1, <1>2, <1>3
          DEF ProcessInv, ModeInv, SecretInv, RepairSteps, PostSteps, RevertSteps

(* The end of the process, at whatever call it is in.                      *)
LEMMA ProcessEnds ==
  ASSUME ProcessInv, EndRun, backing' = {}, gauge' = {},
         LeavesOnlyJob({"wheelStart", "wheelWait"}),
         UNCHANGED <<drivers, dryRun, faults, crashes>>
  PROVE  ProcessInv' /\ secrets' = secrets
  <1>1. ClusterTypeOK' /\ LocalsTypeOK' /\ secrets' = secrets
    BY LeavesJobTyped, EndRunTyped DEF ProcessInv, TypeOK, LoopTypeOK
  <1>2. LoopTypeOK'
    BY DEF ProcessInv, TypeOK, LoopTypeOK
  <1>3. pc' = "idle"
    BY DEF EndRun
  <1> QED BY <1>1, <1>2, <1>3
          DEF ProcessInv, TypeOK, ModeInv, SecretInv, RepairSteps, PostSteps, RevertSteps

(* A step of Helm, the Deployment controller or the kubelet.               *)
LEMMA EnvironmentPeer ==
  ASSUME ProcessInv, Environment
  PROVE  ClusterTypeOK' /\ secrets' = secrets
  BY EnvironmentTyped, EnvironmentUnlists DEF ProcessInv, TypeOK

LEMMA ProcessStarts ==
  ASSUME Init
  PROVE  ProcessInv
  BY InitTyped, InitLoop DEF ProcessInv, LoopInv
=============================================================================
