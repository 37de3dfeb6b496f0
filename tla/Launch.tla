------------------------------- MODULE Launch -------------------------------
(***************************************************************************)
(* The launch scripts, scripts/daap-launch/telegraf_run.sh and             *)
(* telegraf_run_chicoma.sh: launch_telegraf() starts a Telegraf on every   *)
(* node of a job, the first nodes as aggregators, the others as clients of *)
(* an aggregator chosen at random; kill_telegraf() ends them.              *)
(*                                                                         *)
(* Telegraf is started by an ssh in the background, which arrives at the   *)
(* node at any later time and reads its configuration file then.  On       *)
(* chicoma the job script removes the directory of the files before it     *)
(* calls kill_telegraf(); in telegraf_run.sh kill_telegraf() removes it,   *)
(* when the last node is done.                                             *)
(***************************************************************************)
EXTENDS Integers, Sequences, FiniteSets

CONSTANTS
    MaxNodes,    \* bound: nodes of a job
    NoAddress    \* the address of a node is not found

ASSUME LaunchAssumption == MaxNodes \in Nat \ {0} /\ NoAddress \notin Nat

VARIABLES
    script,       \* which of the scripts it is
    n,            \* nodes of the job: 1 .. n, a node is also its address
    num_servers,
    servers,      \* addresses of the aggregators
    h,            \* the node whose turn it is in a loop over the nodes
    phase,        \* "launch", "job", "kill" or "done"
    tmp,          \* TELEGRAF_TMP exists
    conf,         \* telegraf-client-<index>.conf files: the server in each
    role,         \* what each node was told to be: "none", "agg" or "client"
    index,        \* the aggregator each client was given
    agent,        \* Telegraf on each node: "none", "ssh" on its way, "up" or "down"
    missed,       \* history: nodes whose ssh was on its way when they were visited
    unreached     \* history: nodes whose Telegraf the ssh that kills did not reach

history == <<missed, unreached>>
vars == <<script, n, num_servers, servers, h, phase, tmp, conf, role, index, agent, history>>
fixed == <<script, n>>

Nodes == 1 .. n

(* bc and awk: a quarter of the nodes, plus 0.5, cut to an integer.        *)
Quarter(k) == (k + 2) \div 4

Init ==
    /\ script \in {"telegraf_run", "chicoma"}
    /\ n \in 1 .. MaxNodes
    /\ num_servers = Quarter(n)
    /\ servers = <<>>
    /\ h = 1
    /\ phase = "launch"
    /\ tmp = TRUE
    /\ conf = [x \in {} |-> NoAddress]
    /\ role = [x \in Nodes |-> "none"]
    /\ index = [x \in Nodes |-> 0]
    /\ agent = [x \in Nodes |-> "none"]
    /\ missed = {}
    /\ unreached = {}

-----------------------------------------------------------------------------
(* Faulty variants of the operators below: one aggregator, whatever the    *)
(* number of nodes, and a random index that may be one too large.          *)
WantedOne == 1
IndicesToLen == 0 .. Len(servers)

(* telegraf_run.sh corrects zero aggregators to one, inside the loop.      *)
Wanted == IF script = "telegraf_run" /\ num_servers = 0 THEN 1 ELSE num_servers

(* ${servers[$index]}, empty for an index beyond the array.                *)
ServerAt(i) == IF i < Len(servers) THEN servers[i + 1] ELSE NoAddress

(* awk's random index: zero if there are no servers.                       *)
Indices == IF servers = <<>> THEN {0} ELSE 0 .. Len(servers) - 1

(* Faulty variants: the loop that kills stops before the last node, ...    *)
KillEarly ==
    /\ phase = "kill" /\ h <= n
    /\ h' = h + 1
    /\ missed' = IF agent[h] = "ssh" THEN missed \cup {h} ELSE missed
    /\ \/ /\ agent' = [agent EXCEPT ![h] = IF @ = "up" /\ h < n THEN "down" ELSE @]
          /\ UNCHANGED unreached
       \/ /\ unreached' = IF agent[h] = "up" THEN unreached \cup {h} ELSE unreached
          /\ UNCHANGED agent
    /\ UNCHANGED <<fixed, num_servers, servers, phase, tmp, conf, role, index>>

(* ... and an aggregator is recorded under its number.                     *)
LaunchAggregatorByNumber ==
    /\ phase = "launch" /\ h <= n
    /\ Len(servers) # Wanted
    /\ num_servers' = Wanted
    /\ servers' = Append(servers, MaxNodes + Len(servers))
    /\ role' = [role EXCEPT ![h] = "agg"]
    /\ agent' = [agent EXCEPT ![h] = "ssh"]
    /\ h' = h + 1
    /\ UNCHANGED <<fixed, phase, tmp, conf, index, history>>

-----------------------------------------------------------------------------
(* One round of launch_telegraf(): an aggregator as long as more are       *)
(* wanted.  Its address may not be found in /etc/hosts or by nslookup.     *)
LaunchAggregator ==
    /\ phase = "launch" /\ h <= n
    /\ Len(servers) # Wanted
    /\ num_servers' = Wanted
    /\ \E ip \in {h, NoAddress} : servers' = Append(servers, ip)
    /\ role' = [role EXCEPT ![h] = "agg"]
    /\ agent' = [agent EXCEPT ![h] = "ssh"]
    /\ h' = h + 1
    /\ UNCHANGED <<fixed, phase, tmp, conf, index, history>>

(* A client otherwise.  Clients of one aggregator share a file, which the  *)
(* first of them writes.                                                   *)
LaunchClient ==
    /\ phase = "launch" /\ h <= n
    /\ Len(servers) = Wanted
    /\ num_servers' = Wanted
    /\ \E i \in Indices :
         /\ index' = [index EXCEPT ![h] = i]
         /\ conf' = [x \in DOMAIN conf \cup {i} |->
                 IF x \in DOMAIN conf THEN conf[x] ELSE ServerAt(x)]
    /\ role' = [role EXCEPT ![h] = "client"]
    /\ agent' = [agent EXCEPT ![h] = "ssh"]
    /\ h' = h + 1
    /\ UNCHANGED <<fixed, servers, phase, tmp, history>>

LaunchEnd ==
    /\ phase = "launch" /\ h > n
    /\ phase' = "job"
    /\ UNCHANGED <<fixed, num_servers, servers, h, tmp, conf, role, index, agent, history>>

(* ssh arrives: Telegraf runs if its file is there.  ssh may also fail.    *)
Arrive(x) ==
    /\ agent[x] = "ssh"
    /\ \/ tmp /\ agent' = [agent EXCEPT ![x] = "up"]
       \/ agent' = [agent EXCEPT ![x] = "down"]
    /\ UNCHANGED <<fixed, num_servers, servers, h, phase, tmp, conf, role, index, history>>

(* The job is over.                                                        *)
JobEnd ==
    /\ phase = "job"
    /\ h' = 1
    /\ tmp' = (script # "chicoma")
    /\ phase' = "kill"
    /\ UNCHANGED <<fixed, num_servers, servers, conf, role, index, agent, history>>

(* kill_telegraf(): killall on one node after the other.  The ssh that     *)
(* runs it may fail, which the loop does not look at ...                   *)
Kill ==
    /\ phase = "kill" /\ h <= n
    /\ h' = h + 1
    /\ missed' = IF agent[h] = "ssh" THEN missed \cup {h} ELSE missed
    /\ \/ /\ agent' = [agent EXCEPT ![h] = IF @ = "up" THEN "down" ELSE @]
          /\ UNCHANGED unreached
       \/ /\ unreached' = IF agent[h] = "up" THEN unreached \cup {h} ELSE unreached
          /\ UNCHANGED agent
    /\ UNCHANGED <<fixed, num_servers, servers, phase, tmp, conf, role, index>>

(* ... and, in telegraf_run.sh, the files are removed.                     *)
KillEnd ==
    /\ phase = "kill" /\ h > n
    /\ tmp' = FALSE
    /\ phase' = "done"
    /\ UNCHANGED <<fixed, num_servers, servers, h, conf, role, index, agent, history>>

Next ==
    \/ LaunchAggregator \/ LaunchClient \/ LaunchEnd \/ JobEnd \/ Kill \/ KillEnd
    \/ \E x \in Nodes : Arrive(x)

Spec == Init /\ [][Next]_vars

-----------------------------------------------------------------------------
Aggregators == {x \in Nodes : role[x] = "agg"}
Clients == {x \in Nodes : role[x] = "client"}

TypeOK ==
    /\ num_servers \in 0 .. MaxNodes
    /\ servers \in Seq(Nodes \cup {NoAddress})
    /\ h \in 1 .. n + 1
    /\ phase \in {"launch", "job", "kill", "done"}
    /\ tmp \in BOOLEAN
    /\ DOMAIN conf \subseteq 0 .. MaxNodes
    /\ role \in [Nodes -> {"none", "agg", "client"}]
    /\ index \in [Nodes -> 0 .. MaxNodes]
    /\ agent \in [Nodes -> {"none", "ssh", "up", "down"}]
    /\ missed \subseteq Nodes
    /\ unreached \subseteq Nodes

(* Every client is sent to an aggregator of its job that was started       *)
(* before it, though clients share files; except where the address was not *)
(* found, and on chicoma for a job of one node, which has no aggregator    *)
(* (telegraf_run.sh:39-81, telegraf_run_chicoma.sh:30-66).                 *)
ClientsHaveAggregators ==
    \A c \in Clients :
        LET server == conf[index[c]] IN
        \/ server \in Aggregators /\ server < c
        \/ server = NoAddress /\ \E i \in DOMAIN servers : servers[i] = NoAddress
        \/ server = NoAddress /\ script = "chicoma" /\ n = 1

(* Once launch_telegraf() is over every node was told its part, and the    *)
(* aggregators are a quarter of the nodes, rounded, and at least one,      *)
(* except on chicoma for a job of one node (telegraf_run.sh:34-48,         *)
(* telegraf_run_chicoma.sh:24, 32).                                        *)
QuarterAggregates ==
    phase # "launch" =>
        LET a == Cardinality(Aggregators) IN
        /\ Aggregators \cup Clients = Nodes
        /\ n - 2 < 4 * a /\ (4 * a <= n + 2 \/ a = 1)
        /\ a = 0 => script = "chicoma" /\ n = 1

(* A Telegraf that outlives kill_telegraf(), or comes up after it, was     *)
(* running on a node that the ssh of kill_telegraf() did not reach, or it  *)
(* had been on its way when its node was visited; the latter cannot be     *)
(* where the job script removes the files first (telegraf_run.sh:92-99,    *)
(* telegraf_run_chicoma.sh:76-81, snap_run_charliecloud_chicoma.sh:47-48). *)
OrphansWereLate ==
    phase = "done" => \A x \in Nodes : agent[x] = "up" =>
        \/ x \in unreached
        \/ x \in missed /\ script = "telegraf_run"
=============================================================================
