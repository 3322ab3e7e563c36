------------------------------ MODULE ConfEdit ------------------------------
(***************************************************************************)
(* The three texts under the edits of one guardian after the other: each   *)
(* reads its configuration (config.rs), then repairs or, with DRY_RUN set, *)
(* reverts. Edits are steps of their own, in any order and any number, as  *)
(* runs that fail half-way, retries and restarts leave them; Helm renders  *)
(* everything anew in between.                                             *)
(***************************************************************************)
EXTENDS Texts

CONSTANTS
    Driver,       \* names of drivers
    DriverLists,  \* what drivers.yaml may hold: sequences of DriverSpec
    Renderings    \* the texts the neutron chart may render

DriverSpec == [name : Driver, data : BOOLEAN, ref : BOOLEAN, sole : BOOLEAN]
ConfigDir == "config-dir"

ASSUME ConfEditAssumption ==
    /\ DriverLists \subseteq Seq(DriverSpec)
    /\ ConfigDir \notin Driver
    /\ Driver \subseteq Name
    \* the name of a section that is not a logger's
    /\ "loggers" \in Name \ Driver
    /\ Renderings \subseteq [ml2 : AnyText, log : AnyText, script : AnyText]
    \* the chart itself knows none of the drivers, nor does it add the flag
    /\ \A r \in Renderings :
          /\ \A i \in DriversLines(r.ml2) : Names(r.ml2.lines[i]) \cap Driver = {}
          /\ \A i \in LoggerKeys(r.log) : Names(r.log.lines[i]) \cap Driver = {}
          /\ \A d \in Driver : ~HasLogger(r.log, d)
          /\ ~HasFlag(r.script)
          \* no lists in a script, and only the guardian has continued this line
          /\ \A i \in DOMAIN r.script.lines :
                LET line == r.script.lines[i]
                IN  line = Plain(line.kind) /\ line.kind # "ml2_conf \\"

VARIABLES
    drivers,      \* cfg.drivers
    dryRun,       \* cfg.dry_run
    rendered,     \* the rendering the texts derive from
    ml2, log, script

texts == <<ml2, log, script>>
vars == <<drivers, dryRun, rendered, ml2, log, script>>

-----------------------------------------------------------------------------
(* Config::from_env. Anything but a parsable DRY_RUN is a dry run; no file *)
(* is no drivers; two sole drivers, or two sources for one driver's extra  *)
(* config, end the process before it does anything.                        *)

ParsedDryRun(env) == env # "false"

Loaded(list, exists) == IF exists THEN list ELSE <<>>

ValidSoleDrivers(ds) ==
    \A i, j \in DOMAIN ds : ds[i].sole /\ ds[j].sole => i = j
ValidExtraConfig(ds) == \A i \in DOMAIN ds : ~(ds[i].data /\ ds[i].ref)

HasExtraConfig(spec) == spec.data \/ spec.ref

ConfigureUnchecked ==                        \* mutant: validated too early
    \E list \in DriverLists, exists \in BOOLEAN, env \in {"unset", "garbage", "true", "false"} :
        /\ ValidSoleDrivers(drivers) /\ ValidExtraConfig(drivers)
        /\ drivers' = Loaded(list, exists)
        /\ dryRun' = ParsedDryRun(env)
Configure ==
    \E list \in DriverLists, exists \in BOOLEAN, env \in {"unset", "garbage", "true", "false"} :
        /\ drivers' = Loaded(list, exists)
        /\ dryRun' = ParsedDryRun(env)
        /\ ValidSoleDrivers(drivers') /\ ValidExtraConfig(drivers')

Restart == Configure /\ UNCHANGED <<rendered, texts>>

-----------------------------------------------------------------------------
(* repair, for the driver at position i of the list. An Err of the first   *)
(* edit ends the repair, one of the others is logged: no change either way. *)

RepairMl2(i) ==
    /\ ~dryRun
    /\ CanAddDriver(ml2)
    /\ ml2' = AddDriver(ml2, drivers[i].name)
    /\ UNCHANGED <<drivers, dryRun, rendered, log, script>>

RepairLog(i) ==
    /\ ~dryRun
    /\ CanAddLogger(log, drivers[i].name)
    /\ log' = AddLogger(log, drivers[i].name)
    /\ UNCHANGED <<drivers, dryRun, rendered, ml2, script>>

RepairScript(i) ==
    /\ ~dryRun
    /\ HasExtraConfig(drivers[i])
    /\ CanAddFlag(script)
    /\ script' = AddFlag(script)
    /\ UNCHANGED <<drivers, dryRun, rendered, ml2, log>>

(* revert_or_preview: for all drivers in order, then one patch. *)
ForDrivers(TakeOut(_, _), text) ==
    LET after[i \in 0..Len(drivers)] ==
            IF i = 0 THEN text ELSE TakeOut(after[i - 1], drivers[i].name)
    IN  after[Len(drivers)]

RevertFirstMl2 ==                            \* mutant: one driver only
    /\ dryRun /\ drivers # <<>>
    /\ ml2' = RemoveDriver(ml2, drivers[1].name)
    /\ UNCHANGED <<drivers, dryRun, rendered, log, script>>
RevertMl2 ==
    /\ dryRun
    /\ ml2' = ForDrivers(RemoveDriver, ml2)
    /\ UNCHANGED <<drivers, dryRun, rendered, log, script>>

RevertLog ==
    /\ dryRun
    /\ log' = ForDrivers(RemoveLogger, log)
    /\ UNCHANGED <<drivers, dryRun, rendered, ml2, script>>

RevertScript ==
    /\ dryRun
    /\ script' = RemoveFlag(script)
    /\ UNCHANGED <<drivers, dryRun, rendered, ml2, log>>

HelmUpgrade ==
    /\ rendered' \in Renderings
    /\ ml2' = rendered'.ml2 /\ log' = rendered'.log /\ script' = rendered'.script
    /\ UNCHANGED <<drivers, dryRun>>

Next ==
    \/ \E i \in DOMAIN drivers : RepairMl2(i) \/ RepairLog(i) \/ RepairScript(i)
    \/ RevertMl2 \/ RevertLog \/ RevertScript
    \/ Restart \/ HelmUpgrade

Init ==
    /\ \E list \in DriverLists :
          /\ ValidSoleDrivers(list) /\ ValidExtraConfig(list)
          /\ drivers = list
    /\ dryRun \in BOOLEAN
    /\ rendered \in Renderings
    /\ ml2 = rendered.ml2 /\ log = rendered.log /\ script = rendered.script

Spec == Init /\ [][Next]_vars

-----------------------------------------------------------------------------
Added(text) == {d \in Driver : Includes(text, d)}
Logged(text) == {d \in Driver : HasLogger(text, d)}
Flagged(text) == IF HasFlag(text) THEN {ConfigDir} ELSE {}

TypeOK ==
    /\ drivers \in Seq(DriverSpec)
    /\ ValidSoleDrivers(drivers) /\ ValidExtraConfig(drivers)
    /\ dryRun \in BOOLEAN
    /\ rendered \in Renderings
    /\ ml2 \in AnyText /\ log \in AnyText /\ script \in AnyText

(* What is not the guardian's, in its order: the lines without blank ones, *)
(* the names on them, and the sections of other loggers.                   *)
Own(text) ==
    {i \in DOMAIN text.lines :
        \/ text.lines[i].kind \in {"blank", "flag", "confs+=flag"}
        \/ \E d \in Driver : InSection(text, i, d)}
Bare(text, i) ==
    LET line == text.lines[i]
        listing == line.kind = "mechanism_drivers" \/ InSection(text, i, "loggers")
    IN  Line(IF line.kind = "ml2_conf \\" THEN "ml2_conf" ELSE line.kind,
             IF listing THEN Dropping(line.names, Driver) ELSE line.names)
Foreign(text) == Without([i \in DOMAIN text.lines |-> Bare(text, i)], Own(text))

(* However many guardians edit a text, in whatever order and however often *)
(* they stop half-way, every line and name that PCD rendered is still      *)
(* there, in place.                                                        *)
ForeignKept ==
    /\ Foreign(ml2) = Foreign(rendered.ml2)
    /\ Foreign(log) = Foreign(rendered.log)
    /\ Foreign(script) = Foreign(rendered.script)

(* logging.config refuses a key without its section, so neutron-server     *)
(* would not start; and a section without a key is a logger that is never  *)
(* configured. Each driver has both, once, or neither.                     *)
LoggersMatch ==
    \A d \in Driver :
        LET keyed == {i \in LoggerKeys(log) : d \in Names(log.lines[i])}
            sections == {h \in Headers(log) : log.lines[h] = Header(d)}
        IN  \/ keyed = {} /\ sections = {}
            \/ \E h \in Headers(log) : sections = {h} /\ keyed = LoggerKeys(log)

(* The script stays one that a shell runs as it is meant: an argument on a *)
(* line of its own exactly after a continued line.                         *)
ScriptWellFormed ==
    \A i \in DOMAIN script.lines :
        /\ script.lines[i].kind = "ml2_conf \\" =>
              i < Len(script.lines) /\ script.lines[i + 1].kind = "flag"
        /\ script.lines[i].kind = "flag" =>
              i > 1 /\ script.lines[i - 1].kind = "ml2_conf \\"

(* A text as it came from the chart, when written the way the chart writes *)
(* them: lists without spaces, a newline at the end, no blank last line.   *)
AsWritten(text) ==
    /\ text.newline /\ Last(text.lines) # Blank
    /\ \A i \in DOMAIN text.lines : text.lines[i].tidy

(* Adding and removing are inverse, byte for byte, in whatever order the   *)
(* drivers were added: once the configured drivers are out of a text and   *)
(* no other guardian's is in, the text is the rendered one.                *)
RoundTrip ==
    /\ AsWritten(rendered.ml2) /\ Added(ml2) = {} => ml2 = rendered.ml2
    /\ AsWritten(rendered.log) /\ Logged(log) = {} => log = rendered.log
    /\ ~HasFlag(script) => script = rendered.script

(* Line by line the edits are what the reconcile loop takes them for.      *)
Contract == INSTANCE EditContract
    WITH edits <- [ml2 |-> Added(ml2), log |-> Logged(log), script |-> Flagged(script)],
         configured <- {drivers[i].name : i \in DOMAIN drivers}
EditsAsEntries == Contract!Spec
=============================================================================
