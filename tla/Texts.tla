------------------------------- MODULE Texts --------------------------------
(***************************************************************************)
(* The line edits of reconcile.rs: a driver's name in mechanism_drivers    *)
(* (ml2_conf.ini), its logger (logging.conf), --config-dir                 *)
(* (neutron-server.sh).                                                    *)
(*                                                                         *)
(* A text is what `lines' makes of it, and whether it ends with a newline. *)
(* A line is its kind and the names on it. `tidy' is FALSE for a list not  *)
(* written the way the guardian writes one ("a, b" for "a,b"); the         *)
(* driver's name stands for its import_module too.                         *)
(***************************************************************************)
EXTENDS Integers, Sequences, FiniteSets, SequencesExt

CONSTANT Name    \* what may stand on a line: drivers, other plugins, sections ...

Line(kind, names) == [kind |-> kind, names |-> names, tidy |-> TRUE]
Plain(kind) == Line(kind, <<>>)
Untidy(line) == [line EXCEPT !.tidy = FALSE]
Blank == Plain("blank")
Header(name) == Line("header", <<name>>)     \* "[logger_<name>]", "[loggers]" ...

(* The kinds of line that the edits look for or write, and all the others. *)
Kind == {"mechanism_drivers", "header", "keys", "logger", "ml2_conf", "ml2_conf \\",
         "confs+=ml2_conf", "flag", "confs+=flag", "blank", "other"}

AnyLine == [kind : Kind, names : Seq(Name), tidy : BOOLEAN]
AnyText == [lines : Seq(AnyLine), newline : BOOLEAN]

Names(line) == {line.names[i] : i \in DOMAIN line.names}
HasName(names, d) == \E i \in DOMAIN names : names[i] = d

(* The items at the positions `at', in order: the j-th of these positions  *)
(* is the one with j of them up to it. (SelectSeq says so by recursion,    *)
(* which the proofs cannot use.)                                           *)
Rank(at, i) == Cardinality({k \in at : k <= i})
Position(at, j) == CHOOSE i \in at : Rank(at, i) = j
Selected(seq, at) == [j \in 1..Cardinality(at) |-> seq[Position(at, j)]]

(* The lines whose number is not in drop; the names that are not in drop.  *)
Without(lines, drop) == Selected(lines, DOMAIN lines \ drop)
Dropping(names, drop) == Selected(names, {i \in DOMAIN names : names[i] \notin drop})

(* Every result of an edit is joined and formatted anew, changed or not.   *)
AddName(line, d) ==
    [line EXCEPT !.names = IF HasName(@, d) THEN @ ELSE Append(@, d), !.tidy = TRUE]
RemoveName(line, d) ==
    [line EXCEPT !.names = Dropping(@, {d}), !.tidy = TRUE]

-----------------------------------------------------------------------------
(* ml2_conf.ini *)

DriversLines(text) == {i \in DOMAIN text.lines : text.lines[i].kind = "mechanism_drivers"}

(* mechanism_drivers_line_includes: the first such line decides. *)
Includes(text, d) ==
    \E i \in DriversLines(text) :
        (\A j \in DriversLines(text) : i <= j) /\ d \in Names(text.lines[i])

(* add_driver_to_ml2_conf; FALSE of CanAddDriver: it is an Err.            *)
CanAddDriver(text) == DriversLines(text) # {}
AddDriver(text, d) ==
    [text EXCEPT !.lines = [i \in DOMAIN @ |->
        IF i \in DriversLines(text) THEN AddName(@[i], d) ELSE @[i]]]

(* remove_driver_from_ml2_conf *)
RemoveDriverFromFirst(text, d) ==            \* mutant: first line only, like the check
    [text EXCEPT !.lines = [i \in DOMAIN @ |->
        IF i \in DriversLines(text) /\ (\A j \in DriversLines(text) : i <= j)
        THEN RemoveName(@[i], d) ELSE @[i]]]
RemoveDriver(text, d) ==
    [text EXCEPT !.lines = [i \in DOMAIN @ |->
        IF i \in DriversLines(text) THEN RemoveName(@[i], d) ELSE @[i]]]

-----------------------------------------------------------------------------
(* logging.conf *)

Headers(text) == {i \in DOMAIN text.lines : text.lines[i].kind = "header"}

(* Line i belongs to section `name': no other header in between. *)
InSection(text, i, name) ==
    \E h \in Headers(text) :
        /\ h <= i /\ text.lines[h] = Header(name)
        /\ \A k \in Headers(text) : k <= h \/ k > i

HasLogger(text, d) == \E i \in Headers(text) : text.lines[i] = Header(d)

(* The `keys' line of [loggers]: [handlers] and [formatters] have one too. *)
KeysAnywhere(text) == {i \in DOMAIN text.lines : text.lines[i].kind = "keys"}    \* mutant
LoggerKeys(text) ==
    {i \in DOMAIN text.lines : text.lines[i].kind = "keys" /\ InSection(text, i, "loggers")}

(* add_driver_logger_to_logging_conf. The joined lines only get a newline  *)
(* if they do not end with one, which they do after a blank last line.     *)
CanAddLogger(text, d) == HasLogger(text, d) \/ LoggerKeys(text) # {}
AddLogger(text, d) ==
    IF HasLogger(text, d) THEN text
    ELSE LET keyed == [i \in DOMAIN text.lines |->
                          IF i \in LoggerKeys(text) THEN AddName(text.lines[i], d)
                          ELSE text.lines[i]]
             gap == IF Last(keyed) = Blank THEN <<>> ELSE <<Blank>>
         IN  [lines |-> keyed \o gap \o <<Header(d), Plain("logger")>>, newline |-> TRUE]

(* remove_driver_logger_from_logging_conf: the section, and one blank line *)
(* before it.                                                              *)
RemoveLoggerOnly(text, d) ==                 \* mutant: the section stays
    [text EXCEPT !.lines = [i \in DOMAIN @ |->
        IF i \in LoggerKeys(text) THEN RemoveName(@[i], d) ELSE @[i]]]
RemoveLogger(text, d) ==
    LET section == {i \in DOMAIN text.lines : InSection(text, i, d)}
        gaps == {i \in DOMAIN text.lines \ section :
                    /\ text.lines[i] = Blank
                    /\ i + 1 \in Headers(text) \cap section}
        unkeyed == [i \in DOMAIN text.lines |->
                       IF i \in LoggerKeys(text) THEN RemoveName(text.lines[i], d)
                       ELSE text.lines[i]]
    IN  [text EXCEPT !.lines = Without(unkeyed, section \cup gaps)]

-----------------------------------------------------------------------------
(* neutron-server.sh: the flag is an argument of its own after a line that *)
(* is continued (until 2026.8), or appended to $confs.                     *)

Flags(text) == {i \in DOMAIN text.lines : text.lines[i].kind \in {"flag", "confs+=flag"}}
HasFlag(text) == Flags(text) # {}

(* `found': only the first line that is one of the anchors. *)
Anchors(text) == {i \in DOMAIN text.lines : text.lines[i].kind \in {"ml2_conf", "confs+=ml2_conf"}}
FirstAnchor(text) == CHOOSE i \in Anchors(text) : \A j \in Anchors(text) : i <= j

(* add_config_dir_flag *)
CanAddFlag(text) == HasFlag(text) \/ Anchors(text) # {}
AddFlag(text) ==
    IF HasFlag(text) THEN text
    ELSE LET i == FirstAnchor(text)
         IN  [text EXCEPT !.lines =
                IF @[i].kind = "ml2_conf"
                THEN InsertAt(ReplaceAt(@, i, Plain("ml2_conf \\")), i + 1, Plain("flag"))
                ELSE InsertAt(@, i + 1, Plain("confs+=flag"))]

(* remove_config_dir_flag *)
RemoveFlagKeepsContinuation(text) ==         \* mutant: " \" stays
    [text EXCEPT !.lines = Without(@, Flags(text))]
RemoveFlag(text) ==
    LET ended == [i \in DOMAIN text.lines |->
                     IF /\ text.lines[i].kind = "ml2_conf \\"
                        /\ i + 1 \in Flags(text) /\ text.lines[i + 1].kind = "flag"
                     THEN Plain("ml2_conf") ELSE text.lines[i]]
    IN  [text EXCEPT !.lines = Without(ended, Flags(text))]
=============================================================================
