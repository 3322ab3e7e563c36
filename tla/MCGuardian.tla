----------------------------- MODULE MCGuardian -----------------------------
(* Guardian on small instances. *)
EXTENDS Guardian, TLC

CONSTANTS unifi, generic    \* the drivers of the instance

MCTwoDrivers == {<<unifi, generic>>}
MCOneDriver == {<<generic>>}
MCChangingDrivers == {<<unifi, generic>>, <<unifi>>}
MCImages == Permutations(Image)   \* no action tells images apart

(* What the next steps and the safety properties depend on. The rest is    *)
(* never read again (what a pod imports, whose text a rendering is, what a *)
(* pod lists that is not Ready), or overwritten before it is (the text and *)
(* the template read last, after their use; the gauges between repairs).   *)
MCView ==
    <<[f \in File |-> conf[f].edits], tmpl, rollout, secrets, wheels, late,
      pod.phase, IF PodReady THEN pod.listed ELSE {}, upgrading, helms, restarts,
      pc, idx, tries, backing, drivers, dryRun, faults, crashes,
      snap.image, HasInjection(snap), InjectionIsCurrent(snap),
      IF pc \in {"applyPatch", "postCheck"} THEN view ELSE NoTemplate,
      IF pc \in {"ml2Patch", "logPatch", "scriptPatch", "revertMl2", "revertLog", "revertScript"}
      THEN buf.edits ELSE {},
      pc \in RepairSteps \cup PostSteps /\ cur \in gauge>>
=============================================================================
