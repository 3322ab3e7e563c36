------------------------------ MODULE Cluster ------------------------------
(***************************************************************************)
(* The Kubernetes objects the guardian reads and patches, and what the     *)
(* rest of the cluster does to them on its own: a Helm upgrade of the      *)
(* `neutron' release, the Deployment controller, the kubelet.              *)
(*                                                                         *)
(* The three texts the guardian edits (ml2_conf.ini and logging.conf in    *)
(* the Secret neutron-etc, neutron-server.sh in the ConfigMap neutron-bin) *)
(* are abstracted to the Helm rendering they derive from (`gen') and the   *)
(* guardian's edits present in them (`edits').                             *)
(***************************************************************************)
EXTENDS Naturals, FiniteSets

CONSTANTS
    Driver,      \* names of drivers: those configured, now or by an earlier guardian
    Managed,     \* those with inline extra config: the guardian writes the Secret
    External,    \* those with extra_config_secret_ref: somebody else's Secret
    Pinned,      \* those whose wheels only fit the image they were built for
    Image,       \* neutron-server images PCD ships
    NoImage,     \* "no container" / "no wheels"
    MaxHelm,     \* bound: Helm upgrades of the neutron release
    MaxRestart   \* bound: pod evictions nobody asked for

ConfigDir == "config-dir"        \* the one edit made to neutron-server.sh

ASSUME ClusterAssumption ==
    /\ NoImage \notin Image
    /\ ConfigDir \notin Driver
    /\ Managed \subseteq Driver /\ External \subseteq Driver /\ Pinned \subseteq Driver
    /\ Managed \cap External = {}
    /\ MaxHelm \in Nat /\ MaxRestart \in Nat

VARIABLES
    conf,        \* the three texts
    tmpl,        \* the pod template of the neutron-server Deployment
    rollout,     \* TRUE: the template changed and its pod has not been replaced yet
    secrets,     \* drivers whose extra-config Secret exists
    wheels,      \* the image each driver's cached wheels were downloaded with
    late,        \* wheel Jobs that nobody waits for any more: <<driver, image>>
    pod,         \* the neutron-server pod (one replica, maxUnavailable 1)
    upgrading,   \* TRUE: a Helm upgrade has yet to come to the Deployment
    helms, restarts

clusterVars == <<conf, tmpl, rollout, secrets, wheels, late, pod, upgrading, helms, restarts>>

(* A driver needs something mounted in EXTRA_CONF_DIR. *)
ExtraConf == Managed \cup External

File == {"ml2", "log", "script"}

(* What the guardian may have added to a file. *)
Entries(f) == IF f = "script" THEN {ConfigDir} ELSE Driver

Text == [gen : 0..MaxHelm, edits : SUBSET (Driver \cup {ConfigDir})]
Rendered(g) == [gen |-> g, edits |-> {}]

Template == [image : Image, injector : Image \cup {NoImage},
             pythonpath : BOOLEAN, depJobs : BOOLEAN, mounts : SUBSET ExtraConf]

(* What the neutron chart itself renders. depJobs: the dependency-wait     *)
(* init container still names Jobs, which Helm deletes once they are done. *)
Vanilla(img) == [image |-> img, injector |-> NoImage,
                 pythonpath |-> FALSE, depJobs |-> TRUE, mounts |-> {}]

Pod == [phase : {"init", "ready", "crashed"},
        listed : SUBSET Driver, imports : SUBSET Driver]
NewPod == [phase |-> "init", listed |-> {}, imports |-> {}]

(* K8s::has_injection: the injector initContainer is there, by name. *)
HasInjection(t) == t.injector # NoImage

(* K8s::injection_is_current: wired up, not waiting for Jobs, and the      *)
(* injector runs the main container's image.                               *)
InjectionIsCurrentByImage(t) == ~t.depJobs /\ t.injector = t.image   \* mutant: no PYTHONPATH check
InjectionIsCurrent(t) ==
    /\ t.pythonpath
    /\ ~t.depJobs
    /\ t.injector = t.image

-----------------------------------------------------------------------------
(* The patches of k8s/mod.rs, as functions of the live template: each      *)
(* touches only the fields it names. The first is a server-side apply: what *)
(* it applied before for other drivers than ds, and does not name now, goes. *)
(* The second deletes by name.                                             *)
Injected(t, img, ds) == [t EXCEPT !.injector = img, !.pythonpath = TRUE,
                                  !.depJobs = FALSE, !.mounts = ExtraConf \cap ds]
UninjectedKeepsEnv(t, ds) == [t EXCEPT !.injector = NoImage]  \* mutant: env and mounts left
Uninjected(t, ds) == [t EXCEPT !.injector = NoImage, !.pythonpath = FALSE,
                               !.mounts = @ \ ds]

-----------------------------------------------------------------------------
(* What a new pod can import: the injector installs every cached wheel it  *)
(* can; wheels pinned to another image than the pod's may or may not work. *)
Fits(d, t) == \/ wheels[d] = t.image /\ t.injector = t.image
              \/ d \notin Pinned /\ wheels[d] # NoImage
Misfits(t) == {d \in Pinned : wheels[d] # NoImage /\ ~Fits(d, t)}
Importable(t) ==
    IF HasInjection(t) /\ t.pythonpath
    THEN {{d \in Driver : Fits(d, t)} \cup S : S \in SUBSET Misfits(t)}
    ELSE {{}}

(* --config-dir names a directory no volume creates: oslo.config refuses   *)
(* to start (ConfigDirNotFound).                                           *)
NoConfigDir == ConfigDir \in conf["script"].edits /\ tmpl.mounts = {}

(* neutron-server with these plugins. Whether a process one of whose       *)
(* drivers cannot be imported still becomes Ready is left open: both have  *)
(* been seen.                                                              *)
Phases(imports) ==
    IF NoConfigDir THEN {"crashed"}
    ELSE IF conf["ml2"].edits \subseteq imports THEN {"ready"}
    ELSE {"ready", "crashed"}

(* The kubelet starts the new pod, once the Secrets it mounts exist. The   *)
(* texts are subPath mounts: the pod keeps what it was started with.       *)
PodStart ==
    /\ pod.phase = "init"
    /\ ~rollout
    /\ tmpl.mounts \subseteq secrets
    /\ \E imports \in Importable(tmpl) : \E phase \in Phases(imports) :
          pod' = [phase |-> phase, listed |-> conf["ml2"].edits, imports |-> imports]
    /\ UNCHANGED <<conf, tmpl, rollout, secrets, wheels, late, upgrading, helms, restarts>>

(* Starting is certain unless the dependency-wait container waits for Jobs *)
(* that are gone, or the injector's pip rejects a wheel.                   *)
PodStartHealthy ==
    /\ ~tmpl.depJobs
    /\ HasInjection(tmpl) => Misfits(tmpl) = {}
    /\ PodStart

(* The Deployment controller replaces the pod after a template change.     *)
Rollout ==
    /\ rollout
    /\ rollout' = FALSE
    /\ pod' = NewPod
    /\ UNCHANGED <<conf, tmpl, secrets, wheels, late, upgrading, helms, restarts>>

(* A node drain, an eviction: the pod is recreated from the template. *)
PodRestart ==
    /\ restarts < MaxRestart
    /\ pod.phase # "init"
    /\ restarts' = restarts + 1
    /\ pod' = NewPod
    /\ UNCHANGED <<conf, tmpl, rollout, secrets, wheels, late, upgrading, helms>>

(* What the template may look like after a Helm upgrade to image img: Helm *)
(* never knew of the injection, and its merge has been seen to keep it, to *)
(* keep the initContainer but drop PYTHONPATH, and to drop everything.     *)
Rerendered(img) ==
    {Vanilla(img)} \cup
    {[tmpl EXCEPT !.image = img, !.depJobs = waits, !.pythonpath = FALSE, !.mounts = mounts] :
        waits \in {tmpl.depJobs, TRUE}, mounts \in {tmpl.mounts, {}}} \cup
    {[tmpl EXCEPT !.image = img, !.depJobs = waits] : waits \in {tmpl.depJobs, TRUE}}

(* A Helm upgrade renders the texts anew (Secrets and ConfigMaps come      *)
(* first) ...                                                              *)
HelmTexts ==
    /\ ~upgrading /\ helms < MaxHelm
    /\ upgrading' = TRUE /\ helms' = helms + 1
    /\ conf' = [f \in File |-> Rendered(helms + 1)]
    /\ UNCHANGED <<tmpl, rollout, secrets, wheels, late, pod, restarts>>

(* ... and merges the template.                                            *)
HelmTemplate ==
    /\ upgrading /\ upgrading' = FALSE
    /\ \E img \in Image : tmpl' \in Rerendered(img)
    /\ rollout' \in {TRUE} \cup (IF tmpl' = tmpl THEN {rollout} ELSE {})
    /\ UNCHANGED <<conf, secrets, wheels, late, pod, helms, restarts>>

(* A pod of the wheel Job of driver d: it empties the driver's directory,  *)
(* then downloads for img. A Job may have two pods, one after the other.   *)
JobPod(d, img) ==
    /\ \E w \in {NoImage, img} : wheels' = [wheels EXCEPT ![d] = w]
    /\ UNCHANGED <<conf, tmpl, rollout, secrets, late, pod, upgrading, helms, restarts>>

(* A Job whose creator gave up on it, or ended, works on ...               *)
LateJob == \E d \in Driver, img \in Image : <<d, img>> \in late /\ JobPod(d, img)

(* ... until it is done, or the deletion in the background gets to it.     *)
LateJobEnds ==
    /\ \E job \in late : late' = late \ {job}
    /\ UNCHANGED <<conf, tmpl, rollout, secrets, wheels, pod, upgrading, helms, restarts>>

Environment == \/ HelmTexts \/ HelmTemplate \/ Rollout \/ PodRestart \/ PodStart
               \/ LateJob \/ LateJobEnds

ClusterInit ==
    /\ conf = [f \in File |-> Rendered(0)]
    /\ tmpl \in {Vanilla(img) : img \in Image}
    /\ rollout = FALSE
    /\ secrets = External
    /\ wheels = [d \in Driver |-> NoImage]
    /\ late = {}
    /\ pod = [phase |-> "ready", listed |-> {}, imports |-> {}]
    /\ upgrading = FALSE /\ helms = 0
    /\ restarts = 0

ClusterTypeOK ==
    /\ conf \in [File -> Text]
    /\ \A f \in File : conf[f].edits \subseteq Entries(f)
    /\ tmpl \in Template
    /\ rollout \in BOOLEAN
    /\ secrets \subseteq Driver
    /\ wheels \in [Driver -> Image \cup {NoImage}]
    /\ late \subseteq Driver \X Image
    /\ pod \in Pod
    /\ upgrading \in BOOLEAN
    /\ helms \in 0..MaxHelm
    /\ restarts \in 0..MaxRestart
=============================================================================
