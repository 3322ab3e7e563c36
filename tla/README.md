# Verification of the PCD neutron ML2 guardian

The guardian (`src/`, Rust) is a small controller. It keeps third-party ML2
mechanism drivers installed in the `neutron-server` Deployment of a PCD
installation, although the Helm chart that renders this Deployment knows nothing
of them and every upgrade may undo them. This directory holds TLA+ models of it,
TLC configurations that check them, and proofs checked by TLAPS.

## 1. The system

| component | code | state | operations |
|---|---|---|---|
| reconcile loop | `main.rs`, `reconcile.rs` | per run: the Deployment fetched at its top; per process: `consecutive_failures` (count, `next_attempt`), gauges | tick, `check_present`, `repair` (eleven calls), post-repair check with retries, `revert_or_preview` when `DRY_RUN` is set |
| Kubernetes access | `k8s/mod.rs` | none of its own; the Secret `neutron-etc`, the ConfigMap `neutron-bin`, the Deployment, one Secret per driver with inline extra config | get and patch of texts, `apply_injection_patch`, `remove_injection`, `exec_capture`, `has_injection`, `injection_is_current` |
| retry schedule | `main.rs`, `reconcile.rs` (`backoff_delay`, `bump_failure`) | failure count, `next_attempt`, tokio's interval | tick, skip, attempt, bump, clear |
| wheel cache | `wheelcache.rs` | a Job per driver, its pods, `/wheelcache/<driver>` on a shared volume | `refresh`: delete, create, poll, list, delete |
| text edits | `reconcile.rs`, `k8s/*.rs` | the three texts | add and remove an entry of a list, a logger, a `--config-dir` flag |
| configuration | `config.rs`, drivers file | read once | parse, validate |
| metrics, HTTP | `metrics.rs`, `main.rs` | gauges, counters | `/metrics`, `/healthz` |
| telemetry, errors | `telemetry.rs`, `error.rs` | none | log, wrap |
| Helm chart, image | `deploy/helm/`, `Dockerfile` | none | install the guardian |

How they interact. One task runs the loop; a run handles the drivers one after
the other and awaits one API call at a time. Nothing is locked: texts are read
with one call and written back whole with a later one, a forced server-side apply
that carries no `resourceVersion`. Around it, in steps the guardian does not control: Helm
renders the three texts anew and merges the pod template; the Deployment
controller replaces the pod; the kubelet starts it once the Secrets it mounts
exist; an evicted pod comes back from whatever the template says by then; a
wheel Job and its pods live on when the process that created them has ended.

What is hard here:

* **Staleness.** The Deployment of the top of the run is used minutes later; the
  text that is patched was read a call before; the pod keeps the texts it was
  started with.
* **Half-done work.** Eleven calls make a repair, up to seven a revert. Each may
  fail (some errors end the repair, some only cost a feature), may have taken
  effect although an error came back, and the process may end between any two.
* **Ordering.** The rollout restarts Neutron, so everything the new pod needs must
  be staged before; what is undone must be undone in the opposite order.
* **Progress.** A rollout is disruptive: a repair must never repeat forever, and
  must never stop for good either.
* **Names that are reused.** Every refresh of a driver uses one Job name, deletes
  in the background, and does not wait.
* **Two at once.** The guardian's own Deployment is updated by starting the new
  process before the old one is told to end; both edit the same objects.
* **Line edits.** Adding and removing are separate functions that have to be inverse
  over any history of drivers, and must agree with the check on what is listed.

What makes each part correct: the loop stages before it rolls out, never drops
another driver's entry, installs nothing under `DRY_RUN`, undoes in order and
as far as it says, ends every run, heals after an upgrade and then stops repairing; the
schedule keeps repairs apart but forgets no driver; the wheel cache never takes
another Job's success for its own, leaves only its own wheels, and returns; the
edits keep what is PCD's, and taking everything out gives back what was rendered.
`PROJECT.json` ("hazards") gives the line at which each of these can go wrong.

## 2. The modules

| module | models | notes |
|---|---|---|
| `Cluster` | the objects and what changes them without the guardian | `HelmTexts`, `HelmTemplate`, `Rollout`, `PodStart`, `PodRestart`; the two patches and the two predicates of `k8s/mod.rs` as functions of the template |
| `Guardian` | `main` and `reconcile.rs`; EXTENDS `Cluster` | one action per API call; `pc` names the next call |
| `MCGuardian` | the lists of drivers of the instances | |
| `GuardianProofs` | theorems about `Guardian` | |
| `RetrySchedule`, `RetryProofs` | interval, backoff; theorems | `MCRetrySchedule.cfg` |
| `WheelCache`, `WheelProofs` | `wheelcache::refresh`, Job controller, pods; theorems | `MCWheelCache.cfg` |
| `WheelContract` | what `refresh` promises its caller | implemented by `WheelCache` |
| `Handover`, `MCHandover` | the update of the guardian: two INSTANCEs of `Guardian` over one `Cluster` | old and new process, wheel Jobs they contest |
| `HandoverProofs` | theorems about `Handover` | two INSTANCEs of `GuardianProofs` |
| `Texts`, `TextsProofs` | the six line edits of `reconcile.rs` and the check of `mechanism_drivers`; theorems | pure operators on lines |
| `SelectionProofs` | lemmas about positions in a sequence, and about loops | used by `TextsProofs`, `RetryProofs` |
| `ConfEdit`, `MCConfEdit` | the texts under a sequence of guardians; `Config::from_env` and its validation | `EXTENDS Texts` |
| `ConfEditProofs` | theorems about `ConfEdit` | |
| `EditContract` | the edits as `Cluster` and `Guardian` take them: sets of entries | implemented by `ConfEdit` |

**Cluster.** A text is `[gen, edits]`: the Helm rendering it comes from and the
guardian's edits in it. The pod template is the five things the patches and checks
distinguish: the main image, the injector initContainer (the image it runs, or
none), `PYTHONPATH`, whether the dependency-wait container still names Jobs, and
the mounted extra-config Secrets. A Helm upgrade renders the texts without edits and,
any time later, merges the template in one of the ways the code's comments report seeing:
everything kept, the initContainer kept but `PYTHONPATH` dropped, everything
dropped. The pod copies the listed drivers when it starts (the texts are `subPath`
mounts). Each driver's wheels are known by the image they were downloaded with;
those of a driver in `Pinned` only surely fit that image. `late` holds the wheel Jobs
that nobody waits for any more, because the refresh that created them gave up or its
process ended: in any later step, a pod of theirs may empty or fill the driver's directory (`LateJob`), until
the Job is done or deleted (`LateJobEnds`).

**Guardian.** The actions follow the calls of `run_once`: `Tick` (fetch the
Deployment), `CheckDriver`, then for an absent driver `Ml2Get`/`Ml2Patch`,
`LogGet`/`LogPatch`, `ScriptGet`/`ScriptPatch`, `WriteSecret`, `WheelStart`,
`WheelWait`, `ApplyGet`, `ApplyPatch`, `PostGet`, `PostCheck`, `PostRetry`; under
`DRY_RUN`, `DetectFootprint` to `RevertDone`. Locals that live across an await are
variables (`snap`, `view`, `buf`, `tries`) and are reset when they go out of scope.
Each action has a branch in which its call fails: `RepairFails` for `?` in
`repair`, `RunFails` for `?` in `revert_or_preview`, falling through where the
code only logs. A failed patch may have happened. `Restart` ends the process
anywhere and takes up its configuration anew: `DRY_RUN` from `Modes`, the list `drivers` from
`DriverLists`. `backing` is the part of
`consecutive_failures` that decides whether a driver is skipped; `DelayOver` is
the abstraction of the timing in `RetrySchedule`. `gauge` is the `driver_present`
metric, written by `RecordPresent` where the code calls `record_present`. `WheelStart`,
`OwnJob` and `WheelWait` are the effect of `refresh` on the cache; its protocol is in
`WheelCache`. While it waits its Job empties and fills the directory; a refresh that returns an
error, or whose process ends, may leave the Job in `late` (`LeavesJob`), and the next refresh
may find its name taken (`AlreadyExists`) or share the directory with it.
A removal may patch a text with nothing to remove (`RemovalChanges`): it writes a list nobody
has edited yet in its own form.

**RetrySchedule.** Discrete time for one driver. `due` is the time to the
interval's next tick, negative when missed: ticks come in a burst, as tokio's
default has it. `Delay` is `backoff_delay` with its `min(16)`, shift and cap.
`since`, `unseen`, `skipped` and `fast` are history variables.

**WheelCache.** `refresh` call by call (`Begin`, `Create`, `Poll`, `Timeout`,
`GiveUp`, `ReadList`, `Finish`), with the Job controller (`StartPod`,
`SyncStatus`, `Expire`) and the container's script (`Clear`, `Download`, `List`,
or `PodFails`) taking steps in between. `dest` is the set of refreshes whose
wheels are in the directory. `gen` tells one Job from the next of the same name, as a UID does.

**WheelContract** has no Jobs and no pods: a call, work that may change the
directory in any way while the call lasts or after one that failed, and a return
which is Ok only with the call's own wheels in place. API errors and restarts set
`interrupted`, after which it promises no more than to return. `KeepsContract` maps
`WheelCache` to it: `busy` is `pc # "idle"`, `cache` is "own" when `dest` holds this
refresh's wheels alone.

**Handover.** `old` and `new` are two INSTANCEs of `Guardian` that share the
variables of `Cluster`; `OldStep` and `NewStep` are their reconcile loops, `NewStarts`
and `OldEnds` the rolling update. What `Guardian` cannot know by itself is the Job
the other one deletes: `contested` holds a process whose Job is gone, and `LosesJob`
lets its `create` or `get` fail. The Job that a process lost, or left when it ended, works on
as in `Guardian` (`OldLeavesJob`, `NewLeavesJob`).

**Texts and ConfEdit.** A line is its kind and the names on it, and whether a list is
written as the guardian writes one; a text is its lines and whether it ends with a
newline. The operators do what the functions of `reconcile.rs` do with lines: the
check looks at the first `mechanism_drivers` line and the edits at all of them; the
`keys` line is that of `[loggers]`; the flag goes after the first anchor of either
layout; `RemoveLogger` takes one blank line with the section. What is kept of a sequence is
given by its positions (`Selected`) and the loop over the configured drivers by a
function of their number (`ForDrivers`), so that both can be proved about. `ConfEdit` applies
them in any order: a process configures itself (`Configure`: missing file, `DRY_RUN`
set to anything, the two validations), repairs or reverts one text, ends, and the next
one may have another list. `EditsAsEntries` maps the texts to the sets of entries
found in them and so justifies `conf[f].edits` in `Cluster`, driver lists that change
included.

### Abstractions, and what they leave out

* A Helm upgrade is two steps, the three texts and the Deployment; the Secret and
  the ConfigMap of the texts change together.
* `Cluster` and `Guardian` see the entries of a text only (`EditsAsEntries` shows
  what that is worth). A repair that only reformats a list, which the code also patches,
  does not occur: a list with an entry is in the guardian's form already, and the chart is
  assumed to know none of the drivers.
* `ConfEdit` writes right after it reads; what happens between is `Guardian`'s and
  `Handover`'s part. A driver's name stands for its `import_module` too. The chart
  itself is assumed to know none of the drivers (`ConfEditAssumption`): the code
  cannot tell PCD's entry from its own and would revert it.
* At least one driver is configured. The Deployment has one replica and its
  surge settings replace the old pod.
* A request of a process that has ended does not arrive later; what it did, it did
  before. That a patch answered with an error has happened is modelled.
* Every API call is answered: a call that hangs for good would hang the loop.
* `Guardian` and `Handover` know the content of a driver's directory by one image. When two
  Jobs wrote into it, it counts as the last writer's; which wheels are whose is in `WheelCache`.
  A refresh that succeeds leaves its own wheels when it returns: only a Job in `late` can take
  them away later.
* An exec stream that breaks ends the call without an error. `Check` lets its partial output
  read as absent; a broken import reads as present, as every import does.
* In `Handover` no API call fails except those about a contested Job, and nothing
  upgrades the neutron release: `Guardian` has those. One driver, no pinned wheels.
* `WheelCache`'s `BackedOff`: within one process a failed refresh is followed by at
  least 300 s of backoff, taken to be longer than the deletion of a Job and its
  pods lasts. Without that assumption the old pod meets the new one there too.
* `RetrySchedule` has one driver: time spent in another driver's repair is not
  counted. `LongestRepair` bounds this driver's own.
* The keys of the driver Secret other than those written are not modelled.

## 3. The runs

| run | bounds | shows |
|---|---|---|
| `safety` | two drivers (one with inline config), two lists of them, two images, one Helm upgrade, one error, one restart, `DRY_RUN` either way | `SecretBeforeRollout`, `WheelsBeforeRollout`, `RevertNeverStrands`, `RevertRemoves`, `ZeroWhileRepaired`, `RepairNeverUnlists`, `DryRunNeverInstalls`, `TypeOK` |
| `loop` | one driver, one image, one upgrade, two errors, one restart, `DRY_RUN` either way; liveness | `RunsTerminate`, `NeverGivesUp`, `Converges`, `UndoCompletes`, `GaugeFollows` |
| `heal` | two drivers (one with inline config, the other pinned), two images, one upgrade, one eviction, no errors; liveness | `SelfHeals` |
| `retry` | the code's ratios: interval = base, cap = 12 bases, repairs up to 12/5 intervals, 20 units behind | `Spacing`, `NotEveryTick`, `CheckedInTime`, `TypeOK` |
| `wheels` | three refreshes, two pods per Job, one error, one restart | `OkFromOwnPod`, `CleanUnlessInterrupted`, `RefreshReturns`, `KeepsContract` (refinement), `TypeOK` |
| `edits` | two drivers, six driver lists (both orders, one driver twice, two that are refused), four renderings (both script layouts and an unknown one, two `mechanism_drivers` lines and none, untidy lists, no final newline, a blank last line) | `ForeignKept`, `LoggersMatch`, `ScriptWellFormed`, `RoundTrip`, `EditsAsEntries` (refinement), `TypeOK` |
| `handover` | one driver with inline config, `DRY_RUN` either way before and after; liveness | `SecretBeforeRollout`, `DryRunStaysDry`, `HandoverUndoes`, `HandoverHeals`, `HandoverRelists`, `HandoverConverges`, `TypeOK` |
| `v_image`, `v_import`, `v_footprint`, `v_secret`, `v_clobber` | as needed | a sentence of the repository that the code does not keep; section 5 |

Why these bounds are enough to be interesting. Two drivers are what it takes for
one's repair to disturb the other's, with the two kinds of configuration split
between them. One Helm upgrade, error or restart can fall between any two calls,
and the unbounded part of the system (runs, repairs, rollouts, starts and ends of
pods) is not bounded at all: the state space is finite because run-local state is
reset. `Retries` is 1, not 60: one check that is repeated and one that uses the
retries up. In `safety`, the largest (nine million states), it is 0, since no property
of that run depends on how often a check is repeated; its two lists let a restart take a driver
out and put it back. The images are symmetric in `safety` (no action tells them apart), and its
`VIEW` (`MCView`) leaves out what is never read again: what a pod imports, whose
rendering a text is, what a pod lists that is not Ready, the text and the template read last once they
have been used, the gauges but that of the driver under repair. `Pinned` is empty there: it only matters for
what a pod imports. Liveness is checked without symmetry, and with one driver where restarts and errors
are the question: `heal` and `v_secret` have the two. The theorems cover every other value for the safety properties. In
`wheels` three refreshes are needed for a Job of an earlier process, a failed
refresh and a clean one to meet. In `edits` nothing is bounded but the inputs: any
number of edits, processes and upgrades follow each other. `handover` has one driver
because two reconcile loops of two drivers each exceed what the checker does in
minutes; a contested Job and a stale write both need one driver only. Deadlock is
checked everywhere but in `wheels`, where the system stops once its refreshes are
used up.

The liveness runs assume: the loop takes its next step (`WF(Reconcile)`: the tokio
task runs, every call is answered or fails); a delay elapses (`WF(DelayOver)`); the
Deployment controller replaces the pod (`WF(Rollout)`), a pod that has all it
needs starts (`WF(PodStartHealthy)`), and a Job that was left comes to an end
(`WF(LateJobEnds)`: it fails after `backoffLimit`, the next refresh deletes it, or it is done and expires;
a pod that hangs for good is in `WheelCache`). Nothing promises a Helm upgrade, an eviction,
a restart, or that a pod whose wheels may not fit starts. `WheelCache` has
`WF(Refresh)` only: pods may hang and the Job controller may stop, since the
timeout alone must end a refresh. `Handover` assumes the same of both processes, and
`WF(OldEnds)`: an update that has begun is finished. Nothing promises that one begins.

Three properties are weaker than one would like, for a reason in the code.
`WheelsBeforeRollout` excepts a driver with a Job in `late`: a refresh that returns an error of
`jobs.get`, or is cut off by the end of the process, leaves its Job to itself, and the next
refresh deletes it in the background; its pod may empty the directory after the next refresh
has returned Ok. `WheelContract` promises nothing then, either.
`SelfHeals` speaks of a driver with pinned wheels too, so that an upgrade to another image makes those it has unfit, but
only if the upgrade does not come between the two fetches of one repair (`Outrun`): the
wheels of the old image are then never replaced, which is what `v_image` shows. It is stated
without API errors, since a failed download leaves a working injection without wheels, which
the check does not see (`v_import`).
`HandoverHeals` is stated for an update that switches `DRY_RUN` off. When both
processes repair, the old one's refresh can empty the cache while the new one's rollout
installs from it; the pod is then Ready without the driver importable, so only
`HandoverRelists` holds.

## 4. The proofs

TLAPS proves the following for every value of the constants that the named
assumptions admit: `ClusterAssumption`, `GuardianAssumption`, `HandoverAssumption`,
`RetryAssumption` and `WheelAssumption` only give types and say that some driver is
configured; `ConfEditAssumption` also says what a rendering holds when nobody has edited it: no
driver of the guardian's, no `--config-dir`, no list in the script. Every
safety invariant and every action property of the passing runs is among them; what is
left to the model checker alone is liveness.

* **`GuardianProofs`**: `TypeCorrect`, `RolloutHasSecret`, `RolloutHasWheels`, `RevertIsOrdered`,
  `RevertRemovesInjection`, `RepairKeepsEntries`, `DryRunInstallsNothing`, `RepairReadsZero`, for
  lists of drivers that change at every restart. The inductive
  invariant is `TypeOK /\ LoopInv`. What has been staged is only true because of
  where the process is, so `LoopInv` says for each part of `pc` what its past
  implies: `ModeInv` (repair steps only without `DRY_RUN`, revert steps only
  with), `ReadInv` (every entry that is live is in `buf`: since the read nobody but
  Helm wrote, and Helm only takes entries away), `SecretInv`
  (the Secret is there after `writeSecret`),
  `RevertInv` (which texts are clean of the configured drivers by now; `snap` without an injection means the
  template still has none, since only the guardian adds one). There is no such invariant for the
  wheels, which a Job in `late` may take away in any step: `RolloutHasWheels` is an action
  property, and `WaysToApply` says that only `WheelWait` leads to `applyGet`. The other two action
  properties follow from `LoopInv`; `ZeroWhileRepaired` is inductive by itself.
* **`HandoverProofs`**: `HandoverTypeCorrect`, `SecretsComeFirst`, `DryRunKeepsOut`. Of
  `LoopInv`, two processes keep what does not depend on being alone: `ProcessInv` is
  `TypeOK`, `ModeInv` and `SecretInv` (Secrets are only ever added). `ReadInv` and the
  cached wheels are lost, since the other process writes in between. `GuardianProofs`
  ends with what a process keeps in a step of its own, while its Job works, when it leaves the
  Job, when it ends, and when anybody else acts who keeps the cluster's types and deletes
  no Secret. `HandoverProofs` takes these lemmas for either process (`oldP`, `newP`); `BothInv`
  is both their `ProcessInv`. `DryRunKeepsOut` needs of a stale `buf` only that a revert
  takes every entry of its own drivers out of it: what it writes back may hold entries of
  others that the cluster has lost since, but none of its own.
* **`RetryProofs`**: `DelayBounds` and `DelayDoubles` about `backoff_delay`;
  `RetryTypeCorrect`; `CheckedWithinCap` from an invariant that relates `unseen`,
  `wait` and `due`; `SpacedByDelay` (repairs are at least `Delay(failures)` apart)
  from `since + wait >= Delay(failures)`. The documented delay is a recursive function
  (`Doubled`); `DoubledSteps` derives its equations from the one it is chosen by, and
  `DelayAsDocumented` compares it with `Delay`, failure by failure: they agree as long as the
  cap on the delay bites before the one on the exponent, `Cap <= 65536 * Base`
  (the code has 3600 s and 300 s). With it `SpacedAsDocumented` is `Spacing`. `TickPassesBy` is `NotEveryTick`,
  from `TickInv` (a failed repair that took time leaves more to wait than there is to the
  next tick), for an interval of at most the base delay: the default, 300 s, is the base.
* **`WheelProofs`**: `OkIsOurs`, from `OwnInv`: a Job present while `refresh` polls
  is the one it created, since `Create` fails when another is still there.
  `WheelTypeCorrect`: the bound on `failed` needs `BoundInv`, which counts a Job's
  pods: the next one is only created when `failed`, caught up with them, allows it and
  all before have failed, so that there are never more than `BackoffLimit + 1`. `CleanRefresh`: without interruption only the latest Job's pods
  can be alive (`CleanInv`), because a refresh begins when the pods of the one before are
  gone; so between `Clear` and `Finish` only this refresh writes to `dest`.
  `RefreshImplementsContract`: with the same invariant, each action is an action of
  `WheelContract` under the mapping or leaves its four variables alone.
* **`SelectionProofs`**: a filter gives its items in order, without a recursive
  definition: `Position(at, j)` is the j-th element of a set of positions. `SelectedItems`
  and `SelectedMoved` (two sequences with the same selected items, at other places, have the
  same selection) rest on finite sets alone. Induction over the numbers up to a
  bound is a lemma about a set of numbers (`InductionUpTo`, from the least number
  outside it), and `StepwiseExists` with it gives a loop's variable as a function of
  the number of its passes.
* **`TextsProofs`**: for any text and any names, `AddDriverAddsOne` and
  `RemoveDriverRemovesOne` (the check finds what it found before, and the driver, or
  without it), `AddDriverOnce` (adding twice is adding once), `FlagRoundTrip` (removing the
  flag undoes adding it, in both layouts). `SectionsMoved` says when lines that
  are moved stay in their sections.
* **`ConfEditProofs`**: `EditsTyped`, `NothingForeignLost`, `LoggersPaired`,
  `ScriptStaysWellFormed`, `EditsUndone`, and the refinement `EditsImplementContract`. None
  of them is inductive, since none says what else is in the text. `EditInv` says that
  each text is the rendered one with edits in it: `Ml2From` line by line (the names of a
  list are the rendered ones, then drivers, the same in every list), `ScriptFrom` (the
  rendered script, or that with the flag added). In `logging.conf` lines move. `Matched` says
  of each driver that it has one section and is on every `keys` line, or neither;
  `AddLoggerAddsOne` and `RemoveLoggerRemovesOne` preserve it and what is foreign, through a map
  of the positions that are kept (`KeptLines`). For `RoundTrip` of a chart `AsWritten`,
  `LogFrom` adds that the rendered lines are at the front, in place, and that every
  line after them goes with a driver's section. The loop of a revert follows with
  `StepwiseExists`. For the refinement, a revert is one `Remove` of `EditContract`, and an
  edit that changes no entry is a stutter.

Model-checked only: the temporal properties `RunsTerminate`, `NeverGivesUp`, `Converges`,
`UndoCompletes`, `GaugeFollows`, `SelfHeals`, `RefreshReturns` and the four `Handover...`
ones. They rest on fairness, whose ENABLED is out of the prover's reach. The
assumptions on constants are evaluated in every run.

## 5. Where the code and its words disagree

* `v_image`: wheels are downloaded for the image seen at the top of the run, the
  injector gets the image of a later fetch; after an upgrade between the two the
  injection counts as current with the old image's wheels, and stays so.
* `v_import`: `exec_capture` drops the command's exit status, so a driver that
  does not import is reported present.
* `v_footprint`: only the injection and `ml2_conf.ini` count as a footprint; a
  `--config-dir` left by a revert that stopped half-way is never removed.
* `v_secret`: the rollout of one driver's repair mounts the Secrets of all; if the
  next driver's repair fails before it writes its own, the pod never starts, and
  "degraded" is never repaired.
* `v_clobber`: between the read of a text and its patch the whole text may be rendered
  anew by an upgrade of the neutron release; the patch puts the old rendering back, with
  the driver added. The comment on `add_driver_to_ml2_conf` has the merge protect just
  that; nothing repairs it before the next upgrade.

Others that no run of its own shows:

* `k8s/mod.rs:653` says that `remove_injection_patch` "reverts everything
  `apply_injection_patch` may have added", and `reconcile.rs:656` that a dry run is "reverting to the
  pre-guardian state". It does not put back `DEPENDENCY_JOBS`, which
  `apply_injection_patch` emptied, so the dependency-wait container no longer waits for the
  chart's Jobs until Helm renders it again (the design document,
  `docs/specs/2026-09-13-neutron-ml2-guardian-design.md:964`, has it as a known gap, (b)). The
  loggers are best effort: after an error they stay. The extra-config Secrets and the wheels
  stay, and so do the mounts if the run's snapshot had no injection. `RevertRemoves` names what is
  removed, no more.
* A driver taken out of the configuration is not reverted: its name stays in
  `mechanism_drivers` when a later dry run takes the injection away. The properties of the
  revert speak of the configured drivers.
* `wheelcache.rs:95` promises "a clean directory every refresh"; the Job of a refresh that
  nobody waited for works on in the directory of the next one (`CleanUnlessInterrupted` and
  `WheelsBeforeRollout` except it).
* The comment on `remove_driver_from_ml2_conf` says it returns
  its input unchanged when the driver is not listed, but it rewrites the line (`a, b`
  becomes `a,b`), so that a revert may patch a text it has nothing to remove from. So does
  `remove_driver_logger_from_logging_conf` with the `keys` line, "a no-op if the section isn't
  present".
* `reconcile.rs:544-547` says that adding a logger "always inserts" one blank line, so that
  removing it goes back "byte-for-byte". It does for a text that ends with a newline and no
  blank line; otherwise it comes back with a final newline it did not have, or without a
  blank line of the chart's. `RoundTrip` leaves such renderings of `logging.conf` out
  (`AsWritten`); `ForeignKept`, which does not count blank lines, covers them.

## 6. Not modelled, and the plan

Not modelled: the metrics' counters, their encoding and `/healthz` (they only report),
telemetry and errors (wording), the image, roles and volumes of the chart (static).
Partly: the wheel cache (`classify` and the names in the list reach a log line only; the
choice of packages and pip's resolution are data), configuration (YAML and the settings
that are only passed on). Without a property, with the reason in `PROJECT.json`: the
backoff that a restart forgets, an interval of 0, an exec that hangs, an entry that PCD
lists itself, a driver taken out of the configuration.

What the plan has left, in order:

1. Lemmas towards the liveness properties that are safety in themselves: which step a
   process that waits can take next, and that a repair's steps only go forward.
2. What two processes keep of each other's texts: that an entry once listed and wanted by both
   is only taken out by Helm.
3. Larger instances: `handover` with an upgrade of the neutron release, with a second driver.
