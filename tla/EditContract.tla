---------------------------- MODULE EditContract ----------------------------
(***************************************************************************)
(* The three texts as Cluster and Guardian take them: the set of entries   *)
(* the guardian has added to each. A repair adds one entry to one text, a  *)
(* revert takes those of the configured drivers out of one text, a Helm    *)
(* upgrade leaves none.                                                    *)
(***************************************************************************)
CONSTANTS Driver, ConfigDir

VARIABLES
    edits,       \* the entries of each text
    configured   \* the drivers of the running guardian

vars == <<edits, configured>>

File == {"ml2", "log", "script"}
Entries(f) == IF f = "script" THEN {ConfigDir} ELSE Driver

Add(f, e) ==
    /\ edits' = [edits EXCEPT ![f] = @ \cup {e}]
    /\ UNCHANGED configured

Remove(f) ==
    /\ edits' = [edits EXCEPT ![f] = @ \ (configured \cup {ConfigDir})]
    /\ UNCHANGED configured

Render == edits' = [f \in File |-> {}] /\ UNCHANGED configured

Reconfigure == configured' \in SUBSET Driver /\ UNCHANGED edits

Init == configured \in SUBSET Driver /\ edits = [f \in File |-> {}]

Next ==
    \/ \E f \in File : \E e \in Entries(f) \cap (configured \cup {ConfigDir}) : Add(f, e)
    \/ \E f \in File : Remove(f)
    \/ Render \/ Reconfigure

Spec == Init /\ [][Next]_vars
=============================================================================
