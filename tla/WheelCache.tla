----------------------------- MODULE WheelCache -----------------------------
(***************************************************************************)
(* wheelcache::refresh for one driver: the guardian's calls about the Job, *)
(* the Job controller, and the pods that empty and fill the driver's       *)
(* directory on the shared volume. Every refresh reuses the Job's name.    *)
(***************************************************************************)
EXTENDS Naturals, FiniteSets

CONSTANTS
    BackoffLimit,  \* spec.backoffLimit of the Job: pods tried again (1)
    MaxRefresh,    \* bound: refreshes
    MaxFault,      \* bound: API calls that fail
    MaxCrash       \* bound: restarts of the guardian

ASSUME WheelAssumption ==
    /\ BackoffLimit \in Nat
    /\ MaxRefresh \in Nat /\ MaxFault \in Nat /\ MaxCrash \in Nat

VARIABLES
    pc,         \* the next call of refresh; "idle" outside of it
    gen,        \* number of the refresh, and of the Job and the wheels it makes
    result,     \* what the last refresh returned
    job,        \* the Job of that name
    pods,       \* the pods of this and of earlier Jobs
    dest,       \* /wheelcache/<driver>: the refreshes its wheels are from
    newProcess, \* TRUE: this process has not called refresh yet
    faults, crashes

vars == <<pc, gen, result, job, pods, dest, newProcess, faults, crashes>>

NewJob(g) == [gen |-> g, failed |-> 0, succeeded |-> FALSE]
NoJob == NewJob(0)

(* The container's script: rm -rf, pip download, ls. *)
Alive == {"pending", "cleared", "downloaded"}
Pod == [gen : 1..MaxRefresh, nr : 1..(BackoffLimit + 1),
        step : Alive \cup {"succeeded", "failed"}]

PodsOf(g) == {p \in pods : p.gen = g}
Active(g) == {p \in PodsOf(g) : p.step \in Alive}
FailedPods(g) == {p \in PodsOf(g) : p.step = "failed"}

(* The Job was deleted, in the background: the pod's turn will come. *)
Orphan(p) == p.gen # job.gen

-----------------------------------------------------------------------------
(* refresh *)

Fail == faults < MaxFault /\ faults' = faults + 1
Works == faults' = faults

Return(r) == pc' = "idle" /\ result' = r

(* jobs.delete, its error dropped. *)
BestEffortDelete == \/ Works /\ job' = NoJob
                    \/ Fail /\ UNCHANGED job

(* After a failed refresh the process backs off for longer than the garbage *)
(* collector and the grace period of a pod take; a new process does not.   *)
AtOnce == TRUE                       \* mutant: refresh is called again at once
BackedOff == \A p \in pods : Orphan(p) => p.step \notin Alive

Begin ==
    /\ pc = "idle" /\ gen < MaxRefresh
    /\ newProcess \/ BackedOff
    /\ gen' = gen + 1
    /\ pc' = "create" /\ result' = "none" /\ newProcess' = FALSE
    /\ BestEffortDelete
    /\ UNCHANGED <<pods, dest, crashes>>

(* AlreadyExists, if the stale Job is still there: the refresh fails.      *)
CreateOrAdopt ==                     \* mutant: the error of create is dropped
    /\ pc = "create"
    /\ Works /\ pc' = "poll" /\ UNCHANGED result
    /\ job' = IF job = NoJob THEN NewJob(gen) ELSE job
    /\ UNCHANGED <<gen, pods, dest, newProcess, crashes>>
Create ==
    /\ pc = "create"
    /\ \/ /\ Works /\ job = NoJob
          /\ job' = NewJob(gen) /\ pc' = "poll" /\ UNCHANGED result
       \/ Works /\ job # NoJob /\ Return("err") /\ UNCHANGED job
       \/ /\ Fail /\ Return("err")
          /\ job' \in {job} \cup (IF job = NoJob THEN {NewJob(gen)} ELSE {})
    /\ UNCHANGED <<gen, pods, dest, newProcess, crashes>>

(* One turn of the loop; an error of jobs.get leaves the Job alone.        *)
Poll ==
    /\ pc = "poll"
    /\ \/ Works /\ job.succeeded /\ pc' = "list" /\ UNCHANGED result
       \/ Works /\ ~job.succeeded /\ job.failed > 0 /\ pc' = "giveUp" /\ UNCHANGED result
       \/ Fail /\ Return("err")
    /\ UNCHANGED <<gen, job, pods, dest, newProcess, crashes>>

NoDeadline == FALSE                  \* mutant: waits for as long as it takes
Timeout ==
    /\ pc = "poll"
    /\ pc' = "giveUp"
    /\ UNCHANGED <<gen, result, job, pods, dest, newProcess, faults, crashes>>

(* The Job failed or took too long. *)
GiveUp ==
    /\ pc = "giveUp"
    /\ BestEffortDelete
    /\ Return("err")
    /\ UNCHANGED <<gen, pods, dest, newProcess, crashes>>

(* read_job_pod_wheel_list: the log of the first pod by label, which may be *)
(* another one than the pod that succeeded. A pod that has not started has *)
(* no log.                                                                 *)
ReadList ==
    /\ pc = "list"
    /\ \/ Works /\ (\E p \in pods : p.step # "pending") /\ pc' = "finish" /\ UNCHANGED result
       \/ Works /\ (\E p \in pods : p.step = "pending") /\ Return("err")
       \/ Fail /\ Return("err")
    /\ UNCHANGED <<gen, job, pods, dest, newProcess, crashes>>

Finish ==
    /\ pc = "finish"
    /\ BestEffortDelete
    /\ Return("ok")
    /\ UNCHANGED <<gen, pods, dest, newProcess, crashes>>

(* The guardian ends, in whatever call, and starts anew. *)
Restart ==
    /\ crashes < MaxCrash
    /\ crashes' = crashes + 1
    /\ newProcess' = TRUE
    /\ Return("none")
    /\ UNCHANGED <<gen, job, pods, dest, faults>>

-----------------------------------------------------------------------------
(* The Job controller and the pods. *)

OneTryMore == job.failed <= BackoffLimit + 1      \* mutant: off by one
TriesLeft == job.failed <= BackoffLimit

(* The next pod of the Job, unless it is done or failed too often. *)
StartPod ==
    /\ job # NoJob /\ ~job.succeeded
    /\ Active(job.gen) = {}
    /\ \A p \in PodsOf(job.gen) : p.step # "succeeded"
    /\ job.failed = Cardinality(FailedPods(job.gen)) /\ TriesLeft
    /\ pods' = pods \cup {[gen |-> job.gen, nr |-> job.failed + 1, step |-> "pending"]}
    /\ UNCHANGED <<pc, gen, result, job, dest, newProcess, faults, crashes>>

(* The Job's status catches up with its pods. *)
SyncStatus ==
    /\ job # NoJob
    /\ job' = [job EXCEPT !.failed = Cardinality(FailedPods(job.gen)),
                          !.succeeded = \E p \in PodsOf(job.gen) : p.step = "succeeded"]
    /\ UNCHANGED <<pc, gen, result, pods, dest, newProcess, faults, crashes>>

(* A finished Job nobody deletes is, ttlSecondsAfterFinished later. *)
Expire ==
    /\ pc = "idle"
    /\ job.succeeded \/ ~TriesLeft
    /\ job' = NoJob
    /\ UNCHANGED <<pc, gen, result, pods, dest, newProcess, faults, crashes>>

Becomes(p, step) == pods' = (pods \ {p}) \cup {[p EXCEPT !.step = step]}

ClearNothing(p) ==                   \* mutant: mkdir -p, but no rm -rf before
    p.step = "pending" /\ Becomes(p, "cleared") /\ UNCHANGED dest
Clear(p) == p.step = "pending" /\ Becomes(p, "cleared") /\ dest' = {}

Download(p) == p.step = "cleared" /\ Becomes(p, "downloaded") /\ dest' = dest \cup {p.gen}

List(p) == p.step = "downloaded" /\ Becomes(p, "succeeded") /\ UNCHANGED dest

(* No network, no such package, another pod's rm -rf; it may have left some *)
(* of its wheels.                                                          *)
PodFails(p) ==
    /\ p.step \in {"pending", "cleared"}
    /\ Becomes(p, "failed")
    /\ dest' \in {dest} \cup (IF p.step = "cleared" THEN {dest \cup {p.gen}} ELSE {})

(* The garbage collector's deletion takes effect. *)
Collect(p) == Orphan(p) /\ pods' = pods \ {p} /\ UNCHANGED dest

PodStep ==
    /\ \E p \in pods : Clear(p) \/ Download(p) \/ List(p) \/ PodFails(p) \/ Collect(p)
    /\ UNCHANGED <<pc, gen, result, job, newProcess, faults, crashes>>

-----------------------------------------------------------------------------
Refresh == Create \/ Poll \/ Timeout \/ GiveUp \/ ReadList \/ Finish
Controller == StartPod \/ SyncStatus \/ Expire

Next == Begin \/ Refresh \/ Restart \/ Controller \/ PodStep

Init ==
    /\ pc = "idle" /\ gen = 0 /\ result = "none"
    /\ job = NoJob /\ pods = {} /\ dest = {}
    /\ newProcess = TRUE
    /\ faults = 0 /\ crashes = 0

Spec == Init /\ [][Next]_vars

(* Only the guardian's own loop and its clock: a pod may hang forever.     *)
FairSpec == Spec /\ WF_vars(Refresh)

-----------------------------------------------------------------------------
TypeOK ==
    /\ pc \in {"idle", "create", "poll", "giveUp", "list", "finish"}
    /\ gen \in 0..MaxRefresh
    /\ result \in {"none", "ok", "err"}
    /\ job \in [gen : 0..MaxRefresh, failed : 0..(BackoffLimit + 1), succeeded : BOOLEAN]
    /\ pods \subseteq Pod
    /\ dest \subseteq 1..MaxRefresh
    /\ newProcess \in BOOLEAN
    /\ faults \in 0..MaxFault /\ crashes \in 0..MaxCrash

(* Job names are reused, but a success is never that of a Job left over     *)
(* from an earlier refresh, whichever deletes failed: refresh goes on to   *)
(* Ok only when a pod of the Job it created itself has downloaded.         *)
OkFromOwnPod ==
    pc \in {"list", "finish"} => \E p \in pods : p.gen = gen /\ p.step = "succeeded"

(* "A clean directory every refresh [...] reflect the current resolution, *)
(* not every historical one": the wheels of a refresh that returns Ok are  *)
(* its own and only its own.                                               *)
CleanEveryTime == pc = "finish" => dest = {gen}

(* This much of it holds: within one process and without API errors, when  *)
(* the backoff separates a refresh from the pods of the one before.        *)
CleanUnlessInterrupted == faults = 0 /\ crashes = 0 => CleanEveryTime

(* The protocol with Jobs and pods is what the repair takes refresh for: a *)
(* call that returns, Ok only with its own wheels in place, and nobody     *)
(* touching them afterwards.                                               *)
Contract == INSTANCE WheelContract
    WITH busy <- pc # "idle",
         cache <- IF dest = {gen} THEN "own" ELSE "other",
         interrupted <- faults > 0 \/ crashes > 0
KeepsContract == Contract!Spec

(* A refresh ends, whatever becomes of its pod. *)
RefreshReturns == pc # "idle" ~> pc = "idle"
=============================================================================
