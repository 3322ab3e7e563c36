----------------------------- MODULE MCConfEdit -----------------------------
(* ConfEdit with the texts PCD has been seen to render, and odd ones. *)
EXTENDS ConfEdit

CONSTANTS unifi, generic    \* the drivers of the instance

MCName == Driver \cup
    {"ovn", "sriov", "handlers", "stdout", "loggers", "root", "neutron"}

Spec1(name, data, ref, sole) == [name |-> name, data |-> data, ref |-> ref, sole |-> sole]

(* One driver, two in either order, the same one twice, and the two that   *)
(* are refused.                                                            *)
MCDriverLists == {
    <<Spec1(unifi, FALSE, TRUE, TRUE)>>,
    <<Spec1(unifi, TRUE, FALSE, FALSE), Spec1(generic, FALSE, FALSE, TRUE)>>,
    <<Spec1(generic, FALSE, FALSE, FALSE), Spec1(unifi, FALSE, TRUE, FALSE)>>,
    <<Spec1(generic, FALSE, FALSE, FALSE), Spec1(generic, TRUE, FALSE, FALSE)>>,
    <<Spec1(unifi, FALSE, FALSE, TRUE), Spec1(generic, FALSE, FALSE, TRUE)>>,
    <<Spec1(unifi, TRUE, TRUE, FALSE)>>}

Drivers1 == Line("mechanism_drivers", <<"ovn">>)
Drivers2 == Line("mechanism_drivers", <<"ovn", "sriov">>)
Keys(names) == Line("keys", names)

Ml2Tidy == [lines |-> <<Plain("other"), Drivers2, Plain("other")>>, newline |-> TRUE]
Ml2Twice == [lines |-> <<Drivers1, Plain("other"), Drivers2>>, newline |-> TRUE]
Ml2Untidy == [lines |-> <<Plain("other"), Untidy(Drivers2)>>, newline |-> FALSE]
Ml2None == [lines |-> <<Plain("other")>>, newline |-> TRUE]

Loggers == <<Header("handlers"), Keys(<<"stdout">>), Blank,
             Header("loggers"), Keys(<<"root", "neutron">>), Blank,
             Header("neutron"), Plain("logger")>>
LogTidy == [lines |-> Loggers, newline |-> TRUE]
LogBlank == [lines |-> Loggers \o <<Blank>>, newline |-> TRUE]
LogOpen == [lines |-> <<Header("loggers"), Untidy(Keys(<<"root">>))>>, newline |-> FALSE]
LogNone == [lines |-> <<Header("handlers"), Keys(<<"stdout">>)>>, newline |-> TRUE]

Legacy == [lines |-> <<Plain("other"), Plain("ml2_conf")>>, newline |-> TRUE]
Uwsgi == [lines |-> <<Plain("confs+=ml2_conf"), Plain("other")>>, newline |-> TRUE]
Unknown == [lines |-> <<Plain("other")>>, newline |-> TRUE]

MCRenderings == {
    [ml2 |-> Ml2Tidy, log |-> LogTidy, script |-> Legacy],
    [ml2 |-> Ml2Twice, log |-> LogBlank, script |-> Uwsgi],
    [ml2 |-> Ml2Untidy, log |-> LogOpen, script |-> Uwsgi],
    [ml2 |-> Ml2None, log |-> LogNone, script |-> Unknown]}
=============================================================================
