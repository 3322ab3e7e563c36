----------------------------- MODULE WheelProofs -----------------------------
(***************************************************************************)
(* WheelCache for any number of refreshes, pods, errors and restarts: the  *)
(* success refresh reports is one of the Job it created.                   *)
(***************************************************************************)
EXTENDS WheelCache, FiniteSetTheorems, TLAPS

(* What the argument needs of the types. *)
Shape ==
    /\ gen \in Nat
    /\ job \in [gen : Nat, failed : Nat, succeeded : BOOLEAN]
    /\ IsFiniteSet(pods)
    /\ \A p \in pods : p \in [gen : Nat, nr : Nat, step : Alive \cup {"succeeded", "failed"}]

Finished(g) == \E p \in pods : p.gen = g /\ p.step = "succeeded"

(* From its creation to the return of refresh the Job is this refresh's    *)
(* own, and its status never runs ahead of its pods.                       *)
OwnInv ==
    /\ job.gen <= gen
    /\ pc \in {"poll", "giveUp", "list", "finish"} => job.gen = gen
    /\ job.succeeded => Finished(job.gen)
    /\ pc \in {"list", "finish"} => Finished(gen)

(* The deletes at the ends of refresh leave the Job or none. *)
LEMMA DeleteShape ==
  ASSUME Shape, BestEffortDelete
  PROVE  /\ job' = NoJob \/ job' = job
         /\ job' \in [gen : Nat, failed : Nat, succeeded : BOOLEAN]
         /\ NoJob.gen = 0 /\ ~NoJob.succeeded
  <1>1. NoJob \in [gen : Nat, failed : Nat, succeeded : BOOLEAN]
    BY DEF NoJob, NewJob
  <1>2. NoJob.gen = 0
    BY DEF NoJob, NewJob
  <1>3. ~NoJob.succeeded
    BY DEF NoJob, NewJob
  <1>4. job' = NoJob \/ job' = job
    BY DEF BestEffortDelete
  <1> QED BY <1>1, <1>2, <1>3, <1>4 DEF Shape

(* A pod that moves on was not done before: no success is ever undone.     *)
LEMMA PodStepShape ==
  ASSUME Shape, OwnInv, PodStep
  PROVE  Shape' /\ OwnInv'
  <1> USE DEF Shape, OwnInv
  <1>1. PICK p \in pods : Clear(p) \/ Download(p) \/ List(p) \/ PodFails(p) \/ Collect(p)
    BY DEF PodStep
  <1>2. UNCHANGED <<pc, gen, job>>
    BY DEF PodStep
  <1>3. CASE Collect(p)
    <2>1. pods' = pods \ {p} /\ p.gen # job.gen
      BY <1>3 DEF Collect, Orphan
    <2>2. IsFiniteSet(pods')
      BY <2>1, FS_RemoveElement
    <2>3. Finished(job.gen) => Finished(job.gen)'
      BY <1>2, <2>1 DEF Finished
    <2> QED BY <1>2, <2>1, <2>2, <2>3 DEF Finished
  <1>4. CASE ~Collect(p)
    <2>1. PICK step \in Alive \cup {"succeeded", "failed"} : Becomes(p, step) /\ p.step \in Alive
      BY <1>1, <1>4 DEF Clear, Download, List, PodFails, Alive
    <2>2. pods' = (pods \ {p}) \cup {[p EXCEPT !.step = step]}
      BY <2>1 DEF Becomes
    <2>3. IsFiniteSet(pods')
      BY <2>2, FS_RemoveElement, FS_AddElement
    <2>4. \A g : Finished(g) => Finished(g)'
      BY <2>1, <2>2 DEF Finished, Alive
    <2> QED BY <1>2, <2>1, <2>2, <2>3, <2>4 DEF Finished
  <1> QED BY <1>3, <1>4

(* OwnInv is inductive: Create makes the Job only when none is left, and   *)
(* nobody replaces it until refresh returns.                               *)
LEMMA OwnStep ==
  ASSUME Shape, OwnInv, [Next]_vars
  PROVE  Shape' /\ OwnInv'
  <1> USE DEF Shape, OwnInv
  <1>1. CASE Begin
    <2>1. gen' = gen + 1 /\ pc' = "create" /\ pods' = pods
      BY <1>1 DEF Begin
    <2> QED BY <1>1, <2>1, DeleteShape DEF Begin, Finished
  <1>2. CASE Create
    <2>1. UNCHANGED <<gen, pods>> /\ pc' \in {"poll", "idle"}
      BY <1>2 DEF Create, Return
    <2>2. job' = NewJob(gen) \/ (pc' = "idle" /\ job' = job)
      <3>1. CASE job = NoJob
        BY <1>2, <3>1 DEF Create, Return
      <3>2. CASE job # NoJob
        BY <1>2, <3>2 DEF Create, Return
      <3> QED BY <3>1, <3>2
    <2>3. NewJob(gen) = [gen |-> gen, failed |-> 0, succeeded |-> FALSE]
      BY DEF NewJob
    <2>4. /\ NewJob(gen).gen = gen /\ ~NewJob(gen).succeeded
          /\ NewJob(gen) \in [gen : Nat, failed : Nat, succeeded : BOOLEAN]
      <3>1. ~[gen |-> gen, failed |-> 0, succeeded |-> FALSE].succeeded
        OBVIOUS
      <3> QED BY <2>3, <3>1
    <2>5. CASE job' = NewJob(gen)
      BY <2>1, <2>4, <2>5 DEF Finished
    <2>6. CASE pc' = "idle" /\ job' = job
      BY <2>1, <2>6 DEF Finished
    <2> QED BY <2>2, <2>5, <2>6
  <1>3. CASE Poll \/ Timeout
    BY <1>3 DEF Poll, Timeout, Return, Finished
  <1>4. CASE GiveUp \/ Finish
    BY <1>4, DeleteShape DEF GiveUp, Finish, Return, Finished
  <1>5. CASE ReadList \/ Restart
    BY <1>5 DEF ReadList, Restart, Return, Finished
  <1>6. CASE StartPod
    <2> DEFINE p == [gen |-> job.gen, nr |-> job.failed + 1, step |-> "pending"]
    <2>1. UNCHANGED <<pc, gen, job>> /\ pods' = pods \cup {p}
      BY <1>6 DEF StartPod
    <2>2. IsFiniteSet(pods')
      BY <2>1, FS_AddElement
    <2>3. p \in [gen : Nat, nr : Nat, step : Alive \cup {"succeeded", "failed"}]
      BY DEF Alive
    <2> QED BY <2>1, <2>2, <2>3 DEF Finished
  <1>7. CASE SyncStatus
    <2> DEFINE s == \E p \in PodsOf(job.gen) : p.step = "succeeded"
               n == Cardinality(FailedPods(job.gen))
    <2>1. n \in Nat
      <3>1. FailedPods(job.gen) \subseteq pods
        BY DEF FailedPods, PodsOf
      <3> QED BY <3>1, FS_Subset, FS_CardinalityType
    <2>2. job' = [job EXCEPT !.failed = n, !.succeeded = s] /\ UNCHANGED <<pc, gen, pods>>
      BY <1>7 DEF SyncStatus
    <2>3. s \in BOOLEAN /\ (s => Finished(job.gen))
      BY DEF PodsOf, Finished
    <2> HIDE DEF s, n
    <2>4. /\ job'.gen = job.gen /\ job'.succeeded = s
          /\ job' \in [gen : Nat, failed : Nat, succeeded : BOOLEAN]
      BY <2>1, <2>2, <2>3
    <2>5. \A g : Finished(g)' <=> Finished(g)
      BY <2>2 DEF Finished
    <2> QED BY <2>2, <2>3, <2>4, <2>5
  <1>8. CASE Expire
    BY <1>8 DEF Expire, NoJob, NewJob, Finished
  <1>9. CASE PodStep
    BY <1>9, PodStepShape
  <1>10. CASE UNCHANGED vars
    BY <1>10 DEF vars, Finished
  <1> QED BY <1>1, <1>2, <1>3, <1>4, <1>5, <1>6, <1>7, <1>8, <1>9, <1>10
          DEF Next, Refresh, Controller

(* refresh never takes an old Job's success for its own, however its       *)
(* deletes fail and whenever it is interrupted.                            *)
THEOREM OkIsOurs == Spec => []OkFromOwnPod
  <1>1. Init => Shape /\ OwnInv
    BY FS_EmptySet DEF Init, Shape, OwnInv, NoJob, NewJob
  <1>2. Shape /\ OwnInv => OkFromOwnPod
    BY DEF OwnInv, Finished, OkFromOwnPod
  <1>3. Shape /\ OwnInv /\ [Next]_vars => Shape' /\ OwnInv'
    BY OwnStep
  <1> QED BY <1>1, <1>2, <1>3, PTL DEF Spec

-----------------------------------------------------------------------------
(* Types: what bounds the failures of a Job is the number of its pods.     *)

BoundInv ==
    /\ IsFiniteSet(pods)
    /\ job.gen <= gen
    /\ job.gen = 0 => job = NoJob
    /\ pc # "idle" => gen > 0
    /\ \A p \in pods : p.gen <= gen
    /\ pc = "create" => PodsOf(gen) = {} /\ job.gen < gen
    /\ dest \subseteq 1..gen
    /\ Cardinality(PodsOf(job.gen)) <= BackoffLimit + 1

LEMMA NoJobType ==
  /\ NoJob.gen = 0 /\ NoJob.failed = 0 /\ ~NoJob.succeeded
  /\ NoJob \in [gen : {0}, failed : {0}, succeeded : {FALSE}]
  <1>1. NoJob = [gen |-> 0, failed |-> 0, succeeded |-> FALSE]
    BY DEF NoJob, NewJob
  <1>2. NoJob \in [gen : {0}, failed : {0}, succeeded : {FALSE}]
    BY <1>1
  <1> QED BY <1>1, <1>2

(* A delete, answered or not, leaves what is typed typed. *)
LEMMA DeleteBound ==
  ASSUME WheelAssumption, TypeOK, BoundInv, BestEffortDelete, UNCHANGED pods
  PROVE  /\ faults' \in 0..MaxFault
         /\ job' \in [gen : 0..MaxRefresh, failed : 0..(BackoffLimit + 1), succeeded : BOOLEAN]
         /\ job'.gen <= gen
         /\ job'.gen = 0 => job' = NoJob
         /\ Cardinality(PodsOf(job'.gen)) <= BackoffLimit + 1
  <1>1. faults' \in 0..MaxFault
    BY DEF WheelAssumption, TypeOK, BestEffortDelete, Works, Fail
  <1>2. CASE job' = job
    BY <1>1, <1>2 DEF TypeOK, BoundInv
  <1>3. CASE job' = NoJob
    <2>1. PodsOf(0) = {}
      BY DEF PodsOf, TypeOK, Pod
    <2>2. Cardinality(PodsOf(0)) = 0
      BY <2>1, FS_EmptySet
    <2>3. 0 <= gen /\ gen \in Nat
      BY DEF TypeOK
    <2>4. job'.gen = 0
      BY <1>3, NoJobType
    <2>5. job' \in [gen : 0..MaxRefresh, failed : 0..(BackoffLimit + 1), succeeded : BOOLEAN]
      <3>1. 0 \in 0..MaxRefresh /\ 0 \in 0..(BackoffLimit + 1) /\ FALSE \in BOOLEAN
        BY DEF WheelAssumption
      <3> QED BY <1>3, <3>1, NoJobType
    <2>6. PodsOf(job'.gen) = PodsOf(0)
      BY <2>4 DEF PodsOf
    <2>7. Cardinality(PodsOf(job'.gen)) <= BackoffLimit + 1
      BY <2>2, <2>6 DEF WheelAssumption
    <2> QED BY <1>1, <1>3, <2>3, <2>4, <2>5, <2>7
  <1> QED BY <1>2, <1>3 DEF BestEffortDelete

LEMMA OneMore ==
  ASSUME NEW S, IsFiniteSet(S), NEW x
  PROVE  /\ Cardinality(S) \in Nat /\ Cardinality(S \cup {x}) \in Nat
         /\ Cardinality(S \cup {x}) <= Cardinality(S) + 1
  <1>1. Cardinality(S) \in Nat
    BY FS_CardinalityType
  <1>2. Cardinality(S \cup {x}) = IF x \in S THEN Cardinality(S) ELSE Cardinality(S) + 1
    BY FS_AddElement
  <1> QED BY <1>1, <1>2

(* Each kind of step keeps the types and the bounds. *)
LEMMA BoundPodStep ==
  ASSUME WheelAssumption, TypeOK, BoundInv, PodStep
  PROVE  TypeOK' /\ BoundInv'
  <1> USE DEF TypeOK, BoundInv
  <1>1. PICK p \in pods : Clear(p) \/ Download(p) \/ List(p) \/ PodFails(p) \/ Collect(p)
    BY DEF PodStep
  <1>2. UNCHANGED <<pc, gen, result, job, newProcess, faults, crashes>>
    BY DEF PodStep
  <1>3. p \in Pod /\ p.gen \in 1..gen
    BY DEF Pod
  <1>4. dest' \subseteq 1..gen
    BY <1>1, <1>3, <1>2 DEF Clear, Download, List, PodFails, Collect
  <1>5. dest' \subseteq 1..MaxRefresh
    BY <1>4
  <1>6. IsFiniteSet(PodsOf(job.gen))
    BY FS_Subset DEF PodsOf
  <1>7. CASE Collect(p)
    <2>1. pods' = pods \ {p}
      BY <1>7 DEF Collect
    <2>2. IsFiniteSet(pods')
      BY <2>1, FS_RemoveElement
    <2>3. PodsOf(job.gen)' \subseteq PodsOf(job.gen)
      BY <2>1, <1>2 DEF PodsOf
    <2>4. Cardinality(PodsOf(job.gen)') <= Cardinality(PodsOf(job.gen))
      BY <2>3, <1>6, FS_Subset
    <2>5. /\ Cardinality(PodsOf(job.gen)') \in Nat
          /\ Cardinality(PodsOf(job.gen)) \in Nat
      BY <2>3, <1>6, FS_Subset, FS_CardinalityType
    <2>6. pc' = "create" => PodsOf(gen)' = {}
      BY <2>1, <1>2 DEF PodsOf
    <2>7. (Cardinality(PodsOf(job.gen)) <= BackoffLimit + 1)'
      BY <2>4, <2>5 DEF WheelAssumption
    <2> QED BY <2>1, <2>2, <2>6, <2>7, <1>2, <1>4, <1>5
  <1>8. CASE ~Collect(p)
    <2>1. PICK step \in Alive \cup {"succeeded", "failed"} : Becomes(p, step)
      BY <1>1, <1>8 DEF Clear, Download, List, PodFails, Alive
    <2> DEFINE q == [p EXCEPT !.step = step]
    <2>2. pods' = (pods \ {p}) \cup {q}
      BY <2>1 DEF Becomes
    <2>3. q \in Pod /\ q.gen = p.gen
      BY <1>3 DEF Pod
    <2> HIDE DEF q
    <2>4. IsFiniteSet(pods')
      BY <2>2, FS_RemoveElement, FS_AddElement
    <2>5. pods' \subseteq Pod /\ \A r \in pods' : r.gen <= gen
      BY <2>2, <2>3
    <2>6. pc' = "create" => PodsOf(gen)' = {}
      BY <2>2, <2>3, <1>2 DEF PodsOf
    <2>7. (Cardinality(PodsOf(job.gen)) <= BackoffLimit + 1)'
      <3>1. CASE p.gen = job.gen
        <4>1. PodsOf(job.gen)' = (PodsOf(job.gen) \ {p}) \cup {q}
          BY <2>2, <2>3, <1>2, <3>1 DEF PodsOf
        <4>2. p \in PodsOf(job.gen)
          BY <3>1 DEF PodsOf
        <4>3. /\ IsFiniteSet(PodsOf(job.gen) \ {p})
              /\ Cardinality(PodsOf(job.gen) \ {p}) = Cardinality(PodsOf(job.gen)) - 1
          BY <4>2, <1>6, FS_RemoveElement
        <4>4. /\ Cardinality((PodsOf(job.gen) \ {p}) \cup {q})
                   <= Cardinality(PodsOf(job.gen) \ {p}) + 1
              /\ Cardinality((PodsOf(job.gen) \ {p}) \cup {q}) \in Nat
          BY <4>3, OneMore
        <4>5. Cardinality(PodsOf(job.gen)) \in Nat
          BY <1>6, FS_CardinalityType
        <4>6. Cardinality((PodsOf(job.gen) \ {p}) \cup {q}) <= BackoffLimit + 1
          BY <4>3, <4>4, <4>5 DEF WheelAssumption
        <4> QED BY <4>1, <4>6
      <3>2. CASE p.gen # job.gen
        <4>1. PodsOf(job.gen)' = PodsOf(job.gen)
          BY <2>2, <2>3, <1>2, <3>2 DEF PodsOf
        <4> QED BY <4>1, <1>2
      <3> QED BY <3>1, <3>2
    <2> QED BY <2>4, <2>5, <2>6, <2>7, <1>2, <1>4, <1>5
  <1> QED BY <1>7, <1>8

LEMMA BoundStep ==
  ASSUME WheelAssumption, TypeOK, BoundInv, [Next]_vars
  PROVE  TypeOK' /\ BoundInv'
  <1> USE DEF TypeOK, BoundInv
  <1>1. CASE Begin
    <2>1. /\ gen < MaxRefresh /\ gen' = gen + 1 /\ pc' = "create" /\ result' = "none"
          /\ newProcess' = FALSE /\ BestEffortDelete /\ UNCHANGED <<pods, dest, crashes>>
      BY <1>1 DEF Begin
    <2>2. PodsOf(gen)' = {}
      BY <2>1 DEF PodsOf
    <2>3. /\ faults' \in 0..MaxFault
          /\ job' \in [gen : 0..MaxRefresh, failed : 0..(BackoffLimit + 1),
                       succeeded : BOOLEAN]
          /\ job'.gen <= gen /\ (job'.gen = 0 => job' = NoJob)
          /\ Cardinality(PodsOf(job'.gen)) <= BackoffLimit + 1
      BY <2>1, DeleteBound
    <2>4. PodsOf(job'.gen) = PodsOf(job.gen)'
      BY <2>1 DEF PodsOf
    <2>5. gen' \in 1..MaxRefresh /\ job'.gen < gen' /\ job'.gen <= gen'
      BY <2>1, <2>3 DEF WheelAssumption
    <2>6. Cardinality(PodsOf(job.gen)') <= BackoffLimit + 1
      BY <2>3, <2>4
    <2>7. dest' \subseteq 1..gen' /\ \A p \in pods' : p.gen <= gen'
      BY <2>1, <2>5 DEF Pod
    <2>8. TypeOK'
      <3>1. (pods \subseteq Pod)' /\ (dest \subseteq 1..MaxRefresh)'
        BY <2>1 DEF Pod
      <3>2. pc' = "create" /\ gen' \in 0..MaxRefresh /\ result' = "none"
        BY <2>1, <2>5
      <3>3. crashes' \in 0..MaxCrash
        BY <2>1
      <3>4. newProcess' \in BOOLEAN
        <4>1. newProcess' = FALSE
          BY ONLY <2>1
        <4> QED BY ONLY <4>1
      <3> QED BY <3>1, <3>2, <3>3, <3>4, <2>3
    <2>9. BoundInv'
      BY <2>1, <2>2, <2>3, <2>5, <2>6, <2>7
    <2> QED BY <2>8, <2>9
  <1>2. CASE Create
    <2>1. UNCHANGED <<gen, pods, dest, newProcess, crashes>> /\ pc = "create"
          /\ pc' \in {"poll", "idle"} /\ result' \in {result, "err"}
      BY <1>2 DEF Create, Return
    <2>2. faults' \in 0..MaxFault
      BY <1>2 DEF Create, Works, Fail, WheelAssumption
    <2>3. job' = NewJob(gen) \/ job' = job
      <3>1. CASE job = NoJob
        BY <1>2, <3>1 DEF Create
      <3>2. CASE job # NoJob
        BY <1>2, <3>2 DEF Create
      <3> QED BY <3>1, <3>2
    <2>4. CASE job' = NewJob(gen)
      <3>1. NewJob(gen) = [gen |-> gen, failed |-> 0, succeeded |-> FALSE]
        BY DEF NewJob
      <3>2. 0 \in 0..(BackoffLimit + 1) /\ FALSE \in BOOLEAN
        BY DEF WheelAssumption
      <3>3. /\ job'.gen = gen
            /\ job' \in [gen : 0..MaxRefresh, failed : 0..(BackoffLimit + 1),
                         succeeded : BOOLEAN]
        BY <2>4, <3>1, <3>2
      <3>4. PodsOf(job.gen)' = {}
        BY <2>1, <3>3 DEF PodsOf
      <3>5. Cardinality(PodsOf(job.gen)') <= BackoffLimit + 1
        BY <3>4, FS_EmptySet DEF WheelAssumption
      <3> QED BY <2>1, <2>2, <3>3, <3>5
    <2>5. CASE job' = job
      <3>1. PodsOf(job.gen)' = PodsOf(job.gen)
        BY <2>1, <2>5 DEF PodsOf
      <3> QED BY <2>1, <2>2, <2>5, <3>1
    <2> QED BY <2>3, <2>4, <2>5
  <1>3. CASE Poll \/ Timeout \/ ReadList \/ Restart \/ UNCHANGED vars
    <2>1. UNCHANGED <<gen, job, pods, dest>>
      BY <1>3 DEF Poll, Timeout, ReadList, Restart, vars
    <2>2. /\ pc' \in {"idle", "poll", "giveUp", "list", "finish"} \/ pc' = pc
          /\ result' \in {result, "err", "none"} /\ newProcess' \in BOOLEAN
          /\ pc' = "idle" \/ pc # "idle" \/ pc' = pc
      BY <1>3 DEF Poll, Timeout, ReadList, Restart, vars, Return
    <2>3. faults' \in 0..MaxFault /\ crashes' \in 0..MaxCrash
      BY <1>3 DEF Poll, Timeout, ReadList, Restart, vars, Works, Fail, WheelAssumption
    <2>4. PodsOf(job.gen)' = PodsOf(job.gen) /\ PodsOf(gen)' = PodsOf(gen)
      BY <2>1 DEF PodsOf
    <2> QED BY <2>1, <2>2, <2>3, <2>4
  <1>4. CASE GiveUp \/ Finish
    <2>1. /\ UNCHANGED <<gen, pods, dest, newProcess, crashes>> /\ BestEffortDelete
          /\ pc' = "idle" /\ result' \in {"ok", "err"}
      BY <1>4 DEF GiveUp, Finish, Return
    <2>2. PodsOf(job'.gen) = PodsOf(job.gen)'
      BY <2>1 DEF PodsOf
    <2> QED BY <2>1, <2>2, DeleteBound
  <1>5. CASE StartPod
    <2> DEFINE p == [gen |-> job.gen, nr |-> job.failed + 1, step |-> "pending"]
    <2>1. /\ UNCHANGED <<pc, gen, result, job, dest, newProcess, faults, crashes>>
          /\ pods' = pods \cup {p} /\ job # NoJob
          /\ Active(job.gen) = {} /\ \A q \in PodsOf(job.gen) : q.step # "succeeded"
          /\ job.failed = Cardinality(FailedPods(job.gen)) /\ job.failed <= BackoffLimit
      BY <1>5 DEF StartPod, TriesLeft
    <2>2. job.gen \in 1..MaxRefresh /\ job.failed + 1 \in 1..(BackoffLimit + 1)
      BY <2>1 DEF WheelAssumption
    <2>3. p \in Pod
      BY <2>2 DEF Pod, Alive
    <2>4. IsFiniteSet(pods')
      BY <2>1, FS_AddElement
    <2>5. PodsOf(job.gen) = FailedPods(job.gen)
      BY <2>1 DEF Active, FailedPods, PodsOf, Pod
    <2>6. PodsOf(job.gen)' = PodsOf(job.gen) \cup {p}
      BY <2>1 DEF PodsOf
    <2>7. IsFiniteSet(PodsOf(job.gen))
      BY FS_Subset DEF PodsOf
    <2> HIDE DEF p
    <2>8. Cardinality(PodsOf(job.gen)') <= job.failed + 1
      BY <2>1, <2>5, <2>6, <2>7, OneMore
    <2>9. Cardinality(PodsOf(job.gen)') <= BackoffLimit + 1
      <3>1. Cardinality(PodsOf(job.gen)') \in Nat
        BY <2>6, <2>7, OneMore
      <3> QED BY <2>1, <2>8, <3>1 DEF WheelAssumption
    <2>10. p.gen = job.gen
      BY DEF p
    <2>11. pc = "create" => PodsOf(gen)' = {}
      BY <2>1, <2>10 DEF PodsOf
    <2> QED BY <2>1, <2>3, <2>4, <2>9, <2>10, <2>11
  <1>6. CASE SyncStatus
    <2> DEFINE n == Cardinality(FailedPods(job.gen))
               won == \E p \in PodsOf(job.gen) : p.step = "succeeded"
    <2>1. /\ UNCHANGED <<pc, gen, result, pods, dest, newProcess, faults, crashes>>
          /\ job' = [job EXCEPT !.failed = n, !.succeeded = won] /\ job # NoJob
      BY <1>6 DEF SyncStatus
    <2>2. IsFiniteSet(PodsOf(job.gen)) /\ FailedPods(job.gen) \subseteq PodsOf(job.gen)
      BY FS_Subset DEF PodsOf, FailedPods
    <2>3. n <= Cardinality(PodsOf(job.gen)) /\ n \in Nat /\ Cardinality(PodsOf(job.gen)) \in Nat
      BY <2>2, FS_Subset, FS_CardinalityType
    <2>4. n \in 0..(BackoffLimit + 1)
      BY <2>3 DEF WheelAssumption
    <2>5. won \in BOOLEAN
      OBVIOUS
    <2> HIDE DEF n, won
    <2>6. /\ job' \in [gen : 0..MaxRefresh, failed : 0..(BackoffLimit + 1), succeeded : BOOLEAN]
          /\ job'.gen = job.gen
      BY <2>1, <2>4, <2>5
    <2>7. PodsOf(job.gen)' = PodsOf(job.gen) /\ PodsOf(gen)' = PodsOf(gen)
      BY <2>1, <2>6 DEF PodsOf
    <2> QED BY <2>1, <2>6, <2>7
  <1>7. CASE Expire
    <2>1. UNCHANGED <<pc, gen, result, pods, dest, newProcess, faults, crashes>>
          /\ job' = NoJob /\ pc = "idle"
      BY <1>7 DEF Expire
    <2>2. PodsOf(job.gen)' = {}
      BY <2>1, NoJobType DEF PodsOf, Pod
    <2>3. Cardinality(PodsOf(job.gen)') <= BackoffLimit + 1
      BY <2>2, FS_EmptySet DEF WheelAssumption
    <2>4. 0 \in 0..MaxRefresh /\ 0 \in 0..(BackoffLimit + 1) /\ FALSE \in BOOLEAN /\ 0 <= gen
      BY DEF WheelAssumption
    <2>5. /\ job' \in [gen : 0..MaxRefresh, failed : 0..(BackoffLimit + 1), succeeded : BOOLEAN]
          /\ job'.gen = 0
      BY <2>1, <2>4, NoJobType
    <2> QED BY <2>1, <2>3, <2>4, <2>5
  <1>8. CASE PodStep
    BY <1>8, BoundPodStep
  <1> QED BY <1>1, <1>2, <1>3, <1>4, <1>5, <1>6, <1>7, <1>8
          DEF Next, Refresh, Controller

LEMMA InitBound == Init => TypeOK /\ BoundInv
  <1> SUFFICES ASSUME Init PROVE TypeOK /\ BoundInv
    OBVIOUS
  <1>1. 0 \in 0..MaxRefresh /\ 0 \in 0..(BackoffLimit + 1) /\ FALSE \in BOOLEAN
        /\ 0 \in 0..MaxFault /\ 0 \in 0..MaxCrash
    BY WheelAssumption DEF WheelAssumption
  <1>2. PodsOf(job.gen) = {}
    BY DEF PodsOf, Init
  <1>3. Cardinality(PodsOf(job.gen)) <= BackoffLimit + 1 /\ IsFiniteSet({})
    BY <1>2, FS_EmptySet, WheelAssumption DEF WheelAssumption
  <1>4. /\ job \in [gen : 0..MaxRefresh, failed : 0..(BackoffLimit + 1), succeeded : BOOLEAN]
        /\ job.gen = 0
    BY <1>1, NoJobType DEF Init
  <1> QED BY <1>1, <1>3, <1>4 DEF Init, TypeOK, BoundInv

(* The fields of pods, Jobs and counters stay in their ranges: in          *)
(* particular a Job never has more failed pods than its limit allows.      *)
THEOREM WheelTypeCorrect == Spec => []TypeOK
  <1>1. Init => TypeOK /\ BoundInv
    BY InitBound
  <1>2. TypeOK /\ BoundInv /\ [Next]_vars => TypeOK' /\ BoundInv'
    BY BoundStep, WheelAssumption
  <1> QED BY <1>1, <1>2, PTL DEF Spec

-----------------------------------------------------------------------------
(* Without an error or a new process one pod at most is at work, it is one *)
(* of the latest refresh, and the directory is as far as that pod is.      *)

Uninterrupted == faults = 0 /\ crashes = 0
Working == {p \in pods : p.step \in Alive}

CleanInv ==
    /\ newProcess => pc = "idle" /\ pods = {} /\ result = "none"
    /\ pc \in {"idle", "create"} => job = NoJob
    /\ pc = "create" => Working = {}
    /\ pc = "idle" /\ result = "ok" => Working = {}
    /\ \A p \in Working : p.gen = gen
    /\ \A p, q \in Working : p = q
    /\ Finished(gen) => Working = {}
    /\ \A p \in pods : p.step = "cleared" => dest = {}
    /\ \A p \in pods : p.gen = gen /\ p.step \in {"downloaded", "succeeded"} => dest = {gen}

UCleanInv == Uninterrupted => CleanInv

(* Counters only grow, so what is uninterrupted now always was. *)
LEMMA NotInterrupted ==
  ASSUME TypeOK, [Next]_vars, Uninterrupted'
  PROVE  Uninterrupted /\ faults' = faults /\ crashes' = crashes /\ ~Restart
  <1>1. faults \in Nat /\ crashes \in Nat
    BY DEF TypeOK
  <1>2. faults' \in {faults, faults + 1}
    <2>1. CASE Begin \/ Create
      BY <2>1 DEF Begin, Create, BestEffortDelete, Works, Fail
    <2>2. CASE Poll \/ Timeout \/ GiveUp \/ ReadList \/ Finish \/ Restart
      BY <2>2 DEF Poll, Timeout, GiveUp, ReadList, Finish, Restart, BestEffortDelete, Works, Fail
    <2>3. CASE StartPod \/ SyncStatus \/ Expire \/ PodStep \/ UNCHANGED vars
      BY <2>3 DEF StartPod, SyncStatus, Expire, PodStep, vars
    <2> QED BY <2>1, <2>2, <2>3 DEF Next, Refresh, Controller
  <1>3. (Restart /\ crashes' = crashes + 1) \/ crashes' = crashes
    BY DEF Next, Begin, Refresh, Create, Poll, Timeout, GiveUp, ReadList, Finish, Restart,
           Controller, StartPod, SyncStatus, Expire, PodStep, vars
  <1> QED BY <1>1, <1>2, <1>3 DEF Uninterrupted, Restart

LEMMA CleanPodStep ==
  ASSUME TypeOK, BoundInv, OwnInv, CleanInv, PodStep
  PROVE  CleanInv'
  <1> USE DEF CleanInv
  <1>1. PICK p \in pods : Clear(p) \/ Download(p) \/ List(p) \/ PodFails(p) \/ Collect(p)
    BY DEF PodStep
  <1>2. UNCHANGED <<pc, gen, result, job, newProcess, faults, crashes>>
    BY DEF PodStep
  <1>3. p \in Pod
    BY DEF TypeOK
  <1>4. CASE Collect(p)
    <2>1. pods' = pods \ {p} /\ UNCHANGED dest
      BY <1>4 DEF Collect
    <2> QED BY <1>2, <2>1 DEF Working, Finished
  <1>5. CASE ~Collect(p)
    <2>1. PICK step \in Alive \cup {"succeeded", "failed"} :
            /\ Becomes(p, step) /\ p \in Working
            /\ \/ p.step = "pending" /\ step = "cleared" /\ dest' = {}
               \/ p.step = "cleared" /\ step = "downloaded" /\ dest' = dest \cup {p.gen}
               \/ p.step = "downloaded" /\ step = "succeeded" /\ dest' = dest
               \/ step = "failed"
      BY <1>1, <1>5 DEF Clear, Download, List, PodFails, Alive, Working
    <2> DEFINE q == [p EXCEPT !.step = step]
    <2>2. pods' = (pods \ {p}) \cup {q}
      BY <2>1 DEF Becomes
    <2>3. q.step = step /\ q.gen = p.gen
      BY <1>3 DEF Pod
    <2> HIDE DEF q
    <2>4. p.gen = gen /\ Working = {p} /\ ~Finished(gen)
      BY <2>1
    <2>5. Working' = IF step \in Alive THEN {q} ELSE {}
      BY <2>2, <2>3, <2>4 DEF Working
    <2>6. \A r \in pods \ {p} : r.step \notin Alive /\ (r.step = "succeeded" => r.gen # gen)
      BY <2>4 DEF Working, Finished
    <2>7. Finished(gen)' <=> step = "succeeded"
      BY <2>2, <2>3, <2>4, <2>6, <1>2 DEF Finished
    <2>8. /\ newProcess' => pc' = "idle" /\ pods' = {} /\ result' = "none"
          /\ pc' = "create" => Working' = {}
          /\ pc' = "idle" /\ result' = "ok" => Working' = {}
      BY <2>4, <1>2
    <2>9. \A r \in Working' : r.gen = gen
      BY <2>3, <2>4, <2>5
    <2>10. \A r, r2 \in Working' : r = r2
      BY <2>5
    <2>11. \A r \in pods' : r.step = "cleared" => dest' = {}
      BY <2>1, <2>2, <2>3, <2>6 DEF Alive
    <2>12. \A r \in pods' :
             r.gen = gen /\ r.step \in {"downloaded", "succeeded"} => dest' = {gen}
      BY <2>1, <2>2, <2>3, <2>4, <2>6 DEF Alive
    <2>13. Finished(gen)' => Working' = {}
      BY <2>5, <2>7 DEF Alive
    <2> QED BY <1>2, <2>8, <2>9, <2>10, <2>11, <2>12, <2>13
  <1> QED BY <1>4, <1>5

(* refresh is only called with no pod of an earlier one at work, and only  *)
(* returns Ok with its own pod done.                                       *)
LEMMA CleanStep ==
  ASSUME TypeOK, BoundInv, Shape, OwnInv, UCleanInv, [Next]_vars
  PROVE  UCleanInv'
  <1> SUFFICES ASSUME Uninterrupted' PROVE CleanInv'
    BY DEF UCleanInv
  <1>1. Uninterrupted /\ faults' = faults /\ crashes' = crashes /\ ~Restart
    BY NotInterrupted
  <1>2. CleanInv
    BY <1>1 DEF UCleanInv
  <1>3. faults' # faults + 1
    BY <1>1 DEF Uninterrupted
  <1>4. CASE Begin
    <2>1. /\ pc = "idle" /\ gen' = gen + 1 /\ pc' = "create" /\ result' = "none"
          /\ UNCHANGED <<pods, dest>>
      BY <1>4 DEF Begin
    <2>2. job' = NoJob /\ job = NoJob
      BY <1>2, <1>3, <1>4 DEF Begin, BestEffortDelete, Fail, CleanInv
    <2>3. \A p \in pods : p.gen \in 1..gen
      BY DEF TypeOK, BoundInv, Pod
    <2>4. Working = {}
      <3>1. CASE newProcess
        BY <1>2, <3>1 DEF CleanInv, Working
      <3>2. CASE BackedOff
        <4>1. \A p \in pods : Orphan(p)
          BY <2>2, <2>3, NoJobType DEF Orphan
        <4> QED BY <3>2, <4>1 DEF BackedOff, Working
      <3>3. newProcess \/ BackedOff
        BY ONLY <1>4 DEF Begin
      <3> QED BY <3>1, <3>2, <3>3
    <2>5. Working' = {}
      BY <2>1, <2>4 DEF Working
    <2>6. \A p \in pods' : p.gen # gen' /\ p.step # "cleared"
      BY <2>1, <2>3, <2>4 DEF Working, Alive, TypeOK
    <2>7. ~newProcess'
      <3>1. newProcess' = FALSE
        BY ONLY <1>4 DEF Begin
      <3> QED BY ONLY <3>1
    <2> QED BY <2>1, <2>2, <2>5, <2>6, <2>7 DEF CleanInv
  <1>5. CASE Create \/ Poll \/ Timeout \/ ReadList
    <2>1. UNCHANGED <<gen, pods, dest, newProcess>>
      BY <1>5 DEF Create, Poll, Timeout, ReadList
    <2>2. Working' = Working /\ (Finished(gen)' <=> Finished(gen))
      BY <2>1 DEF Working, Finished
    <2>3. pc' # "idle"
      <3>1. CASE Create
        BY <1>2, <1>3, <3>1 DEF Create, Fail, CleanInv, Return
      <3>2. CASE Poll \/ Timeout
        BY <1>3, <3>2 DEF Poll, Timeout, Fail
      <3>3. CASE ReadList
        <4>1. \A p \in pods : p.step # "pending"
          BY <1>2, <3>3 DEF ReadList, OwnInv, CleanInv, Working, Alive
        <4> QED BY <1>3, <3>3, <4>1 DEF ReadList, Fail
      <3> QED BY <1>5, <3>1, <3>2, <3>3
    <2>4. pc' # "create" /\ pc # "idle"
      BY <1>5 DEF Create, Poll, Timeout, ReadList, Return
    <2>5. ~newProcess'
      <3>1. ~newProcess
        BY <1>2, <2>4 DEF CleanInv
      <3> QED BY ONLY <2>1, <3>1
    <2> QED BY <1>2, <2>1, <2>2, <2>3, <2>4, <2>5 DEF CleanInv
  <1>6. CASE GiveUp \/ Finish
    <2>1. UNCHANGED <<gen, pods, dest, newProcess>> /\ pc' = "idle" /\ job' = NoJob
      BY <1>3, <1>6 DEF GiveUp, Finish, BestEffortDelete, Fail, Return
    <2>2. Working' = Working /\ (Finished(gen)' <=> Finished(gen))
      BY <2>1 DEF Working, Finished
    <2>3. result' = "ok" => Working = {}
      BY <1>2, <1>6 DEF GiveUp, Finish, Return, OwnInv, CleanInv
    <2>4. ~newProcess'
      <3>1. pc # "idle"
        BY <1>6 DEF GiveUp, Finish
      <3>2. ~newProcess
        BY <1>2, <3>1 DEF CleanInv
      <3> QED BY ONLY <2>1, <3>2
    <2> QED BY <1>2, <2>1, <2>2, <2>3, <2>4 DEF CleanInv
  <1>7. CASE StartPod
    <2> DEFINE p == [gen |-> job.gen, nr |-> job.failed + 1, step |-> "pending"]
    <2>1. /\ UNCHANGED <<pc, gen, result, job, dest, newProcess>> /\ pods' = pods \cup {p}
          /\ job # NoJob /\ Active(job.gen) = {}
          /\ \A q \in PodsOf(job.gen) : q.step # "succeeded"
      BY <1>7 DEF StartPod
    <2>2. pc \notin {"idle", "create"} /\ job.gen = gen
      BY <1>2, <2>1 DEF CleanInv, OwnInv, TypeOK
    <2>3. Working = {} /\ ~Finished(gen)
      BY <1>2, <2>1, <2>2 DEF CleanInv, Active, PodsOf, Working, Finished
    <2>4. p.step = "pending" /\ p.gen = gen
      BY <2>2
    <2> HIDE DEF p
    <2>5. Working' = {p} /\ ~Finished(gen)'
      BY <2>1, <2>3, <2>4 DEF Working, Finished, Alive
    <2>6. ~newProcess'
      <3>1. ~newProcess
        BY <1>2, <2>2 DEF CleanInv
      <3> QED BY ONLY <2>1, <3>1
    <2> QED BY <1>2, <2>1, <2>2, <2>4, <2>5, <2>6 DEF CleanInv
  <1>8. CASE SyncStatus \/ Expire \/ UNCHANGED vars
    <2>1. /\ UNCHANGED <<pc, gen, result, pods, dest, newProcess>>
          /\ job = NoJob => job' = NoJob
      BY <1>8 DEF SyncStatus, Expire, vars
    <2>2. Working' = Working /\ (Finished(gen)' <=> Finished(gen))
      BY <2>1 DEF Working, Finished
    <2>3. newProcess' => pc' = "idle" /\ pods' = {} /\ result' = "none"
      <3>1. newProcess => pc = "idle" /\ pods = {} /\ result = "none"
        BY <1>2 DEF CleanInv
      <3> QED BY ONLY <2>1, <3>1
    <2> QED BY <1>2, <2>1, <2>2, <2>3 DEF CleanInv
  <1>9. CASE PodStep
    BY <1>2, <1>9, CleanPodStep
  <1> QED BY <1>1, <1>4, <1>5, <1>6, <1>7, <1>8, <1>9 DEF Next, Refresh, Controller

(* All that is inductive here, together. *)
WheelInv == TypeOK /\ BoundInv /\ Shape /\ OwnInv /\ UCleanInv

LEMMA WheelInvHolds == Spec => []WheelInv
  <1>1. Init => UCleanInv
    BY DEF Init, UCleanInv, CleanInv, Working, Finished
  <1>2. Init => Shape /\ OwnInv
    BY FS_EmptySet DEF Init, Shape, OwnInv, NoJob, NewJob
  <1>3. Shape /\ OwnInv /\ [Next]_vars => Shape' /\ OwnInv'
    BY OwnStep
  <1>4. TypeOK /\ BoundInv /\ [Next]_vars => TypeOK' /\ BoundInv'
    BY BoundStep, WheelAssumption
  <1>5. TypeOK /\ BoundInv /\ Shape /\ OwnInv /\ UCleanInv /\ [Next]_vars => UCleanInv'
    BY CleanStep
  <1> QED BY <1>1, <1>2, <1>3, <1>4, <1>5, InitBound, PTL DEF Spec, WheelInv

(* What refresh is for: the wheels in place when it returns Ok are those   *)
(* it downloaded, for any number of refreshes and of tries of their pods,  *)
(* as long as nothing interrupted one.                                     *)
THEOREM CleanRefresh == Spec => []CleanUnlessInterrupted
  <1>1. WheelInv => CleanUnlessInterrupted
    BY DEF WheelInv, UCleanInv, Uninterrupted, CleanInv, OwnInv, Finished,
           CleanUnlessInterrupted, CleanEveryTime
  <1> QED BY <1>1, WheelInvHolds, PTL

-----------------------------------------------------------------------------
(* The refinement: every step of the protocol is one of the contract. *)

Interrupted == faults > 0 \/ crashes > 0
Holds == IF dest = {gen} THEN "own" ELSE "other"

LEMMA HoldsEither == Holds \in {"own", "other"} /\ Holds' \in {"own", "other"}
  BY DEF Holds

(* An interruption is never forgotten. *)
LEMMA StaysInterrupted ==
  ASSUME TypeOK, TypeOK', [Next]_vars
  PROVE  Interrupted' \in {Interrupted, TRUE}
  <1>1. CASE ~Uninterrupted'
    <2>1. Interrupted' = TRUE
      BY <1>1 DEF Interrupted, Uninterrupted, TypeOK
    <2> QED BY <2>1
  <1>2. CASE Uninterrupted'
    <2>1. faults' = faults /\ crashes' = crashes
      BY <1>2, NotInterrupted
    <2>2. Interrupted' = Interrupted
      BY <2>1 DEF Interrupted
    <2> QED BY <2>2
  <1> QED BY <1>1, <1>2

LEMMA ContractStep ==
  ASSUME WheelInv, WheelInv', [Next]_vars
  PROVE  [Contract!Next]_(Contract!vars)
  <1>1. Interrupted' \in {Interrupted, TRUE}
    BY StaysInterrupted DEF WheelInv
  <1>2. Contract!Interruptible
    BY <1>1 DEF Contract!Interruptible, Interrupted
  <1>3. CASE Begin
    <2>1. pc = "idle" /\ pc' = "create" /\ result' = "none" /\ gen' = gen + 1 /\ dest' = dest
      BY <1>3 DEF Begin
    <2>2. dest' # {gen'}
      BY <2>1 DEF WheelInv, TypeOK, BoundInv
    <2>3. Contract!Call
      BY <1>2, <2>1, <2>2 DEF Contract!Call
    <2> QED BY <2>3 DEF Contract!Next
  <1>4. CASE Create \/ Poll \/ Timeout \/ GiveUp \/ ReadList
    <2>1. UNCHANGED <<gen, dest>> /\ pc # "idle"
      BY <1>4 DEF Create, Poll, Timeout, GiveUp, ReadList
    <2>2. (pc' # "idle" /\ result' = result) \/ (pc' = "idle" /\ result' = "err")
      BY <1>4 DEF Create, Poll, Timeout, GiveUp, ReadList, Return
    <2>3. Contract!Work \/ Contract!Fail
      <3>1. CASE pc' # "idle" /\ result' = result
        BY <1>2, <2>1, <3>1, HoldsEither DEF Contract!Work, Holds
      <3>2. CASE pc' = "idle" /\ result' = "err"
        BY <1>2, <2>1, <3>2 DEF Contract!Fail
      <3> QED BY <2>2, <3>1, <3>2
    <2> QED BY <2>3 DEF Contract!Next
  <1>5. CASE Finish
    <2>1. UNCHANGED <<gen, dest>> /\ pc = "finish" /\ pc' = "idle" /\ result' = "ok"
      BY <1>5 DEF Finish, Return
    <2>2. dest = {gen} \/ Interrupted
      BY <2>1 DEF WheelInv, TypeOK, UCleanInv, Uninterrupted, CleanInv, OwnInv, Finished,
                  Interrupted
    <2>3. Contract!Succeed
      BY <1>2, <2>1, <2>2 DEF Contract!Succeed, Interrupted
    <2> QED BY <2>3 DEF Contract!Next
  <1>6. CASE Restart
    <2>1. UNCHANGED <<gen, dest>> /\ pc' = "idle" /\ result' = "none" /\ crashes' = crashes + 1
      BY <1>6 DEF Restart, Return
    <2>2. Interrupted'
      BY <2>1 DEF Interrupted, WheelInv, TypeOK
    <2>3. Contract!Abort
      BY <2>1, <2>2 DEF Contract!Abort, Interrupted
    <2> QED BY <2>3 DEF Contract!Next
  <1>7. CASE StartPod \/ SyncStatus \/ Expire
    <2>1. UNCHANGED <<pc, result, gen, dest>>
      BY <1>7 DEF StartPod, SyncStatus, Expire
    <2>2. Contract!Work
      BY <1>2, <2>1, HoldsEither DEF Contract!Work, Holds
    <2> QED BY <2>2 DEF Contract!Next
  <1>8. CASE PodStep
    <2>1. UNCHANGED <<pc, result, gen>>
      BY <1>8 DEF PodStep
    <2>2. pc = "idle" /\ result = "ok" /\ ~Interrupted => dest' = dest
      <3> SUFFICES ASSUME pc = "idle", result = "ok", ~Interrupted PROVE dest' = dest
        OBVIOUS
      <3>1. Working = {}
        BY DEF WheelInv, TypeOK, UCleanInv, Uninterrupted, CleanInv, Interrupted
      <3>2. PICK p \in pods : Clear(p) \/ Download(p) \/ List(p) \/ PodFails(p) \/ Collect(p)
        BY <1>8 DEF PodStep
      <3> QED BY <3>1, <3>2 DEF Working, Alive, Clear, Download, List, PodFails, Collect
    <2>3. Contract!Work
      BY <1>2, <2>1, <2>2, HoldsEither DEF Contract!Work, Holds, Interrupted
    <2> QED BY <2>3 DEF Contract!Next
  <1>9. CASE UNCHANGED vars
    BY <1>9 DEF vars, Contract!vars
  <1> QED BY <1>3, <1>4, <1>5, <1>6, <1>7, <1>8, <1>9 DEF Next, Refresh, Controller

(* wheelcache::refresh, with its Job, pods and deletes in the background,  *)
(* implements the contract, for any bounds.                                *)
THEOREM RefreshImplementsContract == Spec => KeepsContract
  <1>1. Init => Contract!Init
    BY DEF Init, Contract!Init
  <1>2. WheelInv /\ WheelInv' /\ [Next]_vars => [Contract!Next]_(Contract!vars)
    BY ContractStep
  <1> QED BY <1>1, <1>2, WheelInvHolds, PTL DEF Spec, KeepsContract, Contract!Spec
=============================================================================
