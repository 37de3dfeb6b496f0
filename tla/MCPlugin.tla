------------------------------ MODULE MCPlugin ------------------------------
(* OutDaap with at least one item for every way through process(): texts   *)
(* of every code, with markers of others, with a metric of their own,      *)
(* malformed, empty, and holding the word that makes them JSON; children   *)
(* of every name, with every message.                                      *)
EXTENDS OutDaap

CONSTANTS j1, j2

MCJobs == {j1, j2}

Text(c, s, m, p, o) == [code |-> c, sep |-> s, marks |-> m, parts |-> p, own |-> o]
Good(c, m) == Text(c, Separator(c), m, "good", "")
MCTexts ==
    {Good(c, {}) : c \in Codes}
    \cup {Good("xrage", {"sap"}), Good("mcatk", {"jayenne"}), Good("other", {"sap"}),
          Good("sap", {"caliper"}), Good("lap", {"caliper"}), Good("mcatk", {"caliper"}),
          Good("sap", {"fields"}),
          Text("other", " ", {"sap"}, "good", ""), Text("sap", ",", {}, "good", "xrage_metrics"),
          Text("poisson-metrics", ",", {}, "good", ""), Text("sap", ",", {}, "bad", ""),
          Text("sap", ",", {}, "none", ""), Text("xrage", ",", {}, "none", "")}

Child(n, i, f, w) == [name |-> n, info |-> i, job |-> j1, flag |-> f, what |-> w, age |-> 0]
Mem(j, w, a) == [name |-> "mem", info |-> "job", job |-> j, flag |-> FALSE, what |-> w, age |-> a]
MCChildren ==
    {Child(n, "job", FALSE, "message") : n \in Names \ {"mem"}}
    \cup {Child("daap", "job", TRUE, m) : m \in {"heartbeat", "jobstart", "jobduration", "mesh", "zones"}}
    \cup {Child("daap", "job", FALSE, m) : m \in {"jobend", "jobduration"}}
    \cup {Child("cpu", "none", FALSE, "message"), Child("cpu", "nojob", FALSE, "message"),
          Child("snap_pavilion_parser", "job", FALSE, "daap_pavilion_parser")}
    \cup {Mem(j1, 1, 0), Mem(j1, 2, 0), Mem(j1, -1, 0), Mem(j2, 1, 0), Mem(j2, 2, 2)}

MCItems == MCTexts \cup MCChildren
=============================================================================
