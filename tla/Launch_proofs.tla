--------------------------- MODULE Launch_proofs ---------------------------
(***************************************************************************)
(* Proofs about the launch scripts, for jobs of any number of nodes.       *)
(***************************************************************************)
EXTENDS Launch, FiniteSetTheorems, SequenceTheorems, TLAPS

(* The number of aggregators the loop ends with.                           *)
Target == IF script = "telegraf_run" /\ Quarter(n) = 0 THEN 1 ELSE Quarter(n)

IJob ==
    /\ TypeOK
    /\ script \in {"telegraf_run", "chicoma"}
    /\ n \in 1 .. MaxNodes
    /\ num_servers \in {Quarter(n), Target}

(* The aggregators are the first nodes, the clients those after them, and  *)
(* no client is launched before the last aggregator.                       *)
IRoles ==
    /\ Len(servers) <= Target
    /\ phase = "launch" => Len(servers) < h
    /\ phase = "launch" /\ Len(servers) # Target => h = Len(servers) + 1
    /\ phase # "launch" => Len(servers) = Target
    /\ \A i \in 1 .. Len(servers) : servers[i] \in {i, NoAddress}
    /\ \A x \in Nodes :
           role[x] = IF x <= Len(servers) THEN "agg"
                     ELSE IF phase # "launch" \/ x < h THEN "client" ELSE "none"

(* A client's file exists, and names the aggregator of its index.          *)
IConf ==
    /\ conf = [i \in DOMAIN conf |-> conf[i]]
    /\ \A i \in DOMAIN conf :
           /\ Len(servers) = Target
           /\ i < Len(servers) \/ Len(servers) = 0
           /\ conf[i] = ServerAt(i)
    /\ \A x \in Nodes : role[x] = "client" => index[x] \in DOMAIN conf

(* On a node that was visited, Telegraf is on its way only if it was then, *)
(* and up only if killall did not get there or it was on its way then;     *)
(* without the files it does not come up.                                  *)
Visited(x) == phase = "done" \/ (phase = "kill" /\ x < h)
IKill ==
    /\ phase \in {"kill", "done"} /\ script = "chicoma" => ~tmp
    /\ \A x \in Nodes : Visited(x) =>
           /\ agent[x] = "ssh" => x \in missed
           /\ agent[x] = "up" => x \in unreached \/ (x \in missed /\ script = "telegraf_run")

LaunchInv == IJob /\ IRoles /\ IConf /\ IKill

-----------------------------------------------------------------------------
(* A quarter of the nodes, rounded (bc and awk in the scripts).            *)
LEMMA QuarterBounds ==
    ASSUME NEW k \in Nat
    PROVE  Quarter(k) \in Nat /\ 4 * Quarter(k) <= k + 2 /\ k - 2 < 4 * Quarter(k)
BY DEF Quarter

(* The loop never wants more aggregators than there are nodes, and none    *)
(* only on chicoma for one node.                                           *)
LEMMA TargetBounds ==
    ASSUME script \in {"telegraf_run", "chicoma"}, n \in Nat, n >= 1
    PROVE  /\ Target \in 0 .. n
           /\ n - 2 < 4 * Target
           /\ 4 * Target <= n + 2 \/ Target = 1
           /\ Target = 0 => script = "chicoma" /\ n = 1
<1>1. Quarter(n) \in Nat /\ 4 * Quarter(n) <= n + 2 /\ n - 2 < 4 * Quarter(n)
  BY QuarterBounds
<1>2. CASE Quarter(n) = 0
  BY <1>1, <1>2 DEF Target
<1>3. CASE Quarter(n) # 0
  <2>1. Target = Quarter(n)
    BY <1>3 DEF Target
  <2>2. QED
    BY <1>1, <1>3, <2>1
<1>4. QED
  BY <1>2, <1>3

(* The correction of zero aggregators to one does not change the target.   *)
LEMMA WantedIsTarget == IJob => Wanted = Target
BY DEF IJob, Wanted, Target
(* Before the loop nothing is launched.                                    *)
LEMMA LaunchInit == Init => LaunchInv
<1> SUFFICES ASSUME Init PROVE LaunchInv
  OBVIOUS
<1> USE LaunchAssumption DEF Init
<1>1. n \in Nat /\ n >= 1 /\ Target \in 0 .. n /\ Quarter(n) \in Nat /\ Quarter(n) <= n
  <2>1. n \in Nat /\ n >= 1
    OBVIOUS
  <2>2. Quarter(n) \in Nat /\ 4 * Quarter(n) <= n + 2
    BY <2>1, QuarterBounds
  <2>3. QED
    BY <2>1, <2>2, TargetBounds
<1>2. Len(servers) = 0 /\ servers \in Seq(Nodes \cup {NoAddress})
  BY EmptySeq
<1>3. TypeOK
  BY <1>1, <1>2 DEF TypeOK, Nodes
<1>4. IRoles
  BY <1>1, <1>2 DEF IRoles, Nodes
<1>5. IConf /\ IKill
  BY DEF IConf, IKill, Visited
<1>6. QED
  BY <1>3, <1>4, <1>5 DEF LaunchInv, IJob

(* The rounds of launch_telegraf().                                        *)
LEMMA AggregatorStep ==
    ASSUME LaunchInv, LaunchAggregator
    PROVE  LaunchInv'
<1> USE LaunchAssumption
<1>1. Wanted = Target /\ Target \in 0 .. n /\ n \in 1 .. MaxNodes /\ MaxNodes \in Nat
  BY WantedIsTarget, TargetBounds DEF LaunchInv, IJob
<1>2. /\ phase = "launch" /\ phase' = "launch" /\ h <= n /\ h' = h + 1 /\ h \in 1 .. n
      /\ UNCHANGED <<script, n, tmp, conf, index, history>>
      /\ num_servers' = Target /\ Target' = Target /\ Nodes' = Nodes
  BY <1>1 DEF LaunchAggregator, LaunchInv, IJob, TypeOK, fixed, history, Target, Nodes, Quarter
<1>3. Len(servers) # Target /\ h = Len(servers) + 1 /\ Len(servers) < Target /\ Len(servers) \in Nat
  BY <1>1, <1>2 DEF LaunchAggregator, LaunchInv, IRoles, IJob, TypeOK
<1>4. PICK ip \in {h, NoAddress} : servers' = Append(servers, ip)
  BY DEF LaunchAggregator
<1>5. /\ servers' \in Seq(Nodes \cup {NoAddress}) /\ Len(servers') = Len(servers) + 1
      /\ \A i \in 1 .. Len(servers) : servers'[i] = servers[i]
      /\ servers'[Len(servers) + 1] = ip
  BY <1>2, <1>4 DEF LaunchInv, IJob, TypeOK, Nodes
<1>6. h \in Nodes
  BY <1>2, <1>1 DEF Nodes
<1>7. \A x \in Nodes : /\ role'[x] = IF x = h THEN "agg" ELSE role[x]
                       /\ agent'[x] = IF x = h THEN "ssh" ELSE agent[x]
  BY <1>6 DEF LaunchAggregator, LaunchInv, IJob, TypeOK
<1>8. IJob'
  <2>1. /\ role' \in [Nodes -> {"none", "agg", "client"}]
        /\ agent' \in [Nodes -> {"none", "ssh", "up", "down"}]
    BY DEF LaunchAggregator, LaunchInv, IJob, TypeOK
  <2>2. h' \in 1 .. n + 1 /\ num_servers' \in 0 .. MaxNodes
    BY <1>1, <1>2
  <2>3. TypeOK'
    BY <2>1, <2>2, <1>2, <1>5 DEF LaunchInv, IJob, TypeOK, history
  <2>4. QED
    BY <2>3, <1>2 DEF LaunchInv, IJob, Quarter
<1>9. IRoles'
  <2>1. \A i \in 1 .. Len(servers') : servers'[i] \in {i, NoAddress}
    BY <1>3, <1>4, <1>5 DEF LaunchInv, IRoles
  <2>2. \A x \in Nodes :
            role'[x] = IF x <= Len(servers') THEN "agg" ELSE IF x < h' THEN "client" ELSE "none"
    BY <1>1, <1>2, <1>3, <1>5, <1>7 DEF LaunchInv, IRoles, Nodes
  <2>3. QED
    BY <1>1, <1>2, <1>3, <1>5, <2>1, <2>2 DEF IRoles
<1>10. IConf'
  <2>1. DOMAIN conf = {}
    BY <1>3 DEF LaunchInv, IConf
  <2>2. \A x \in Nodes : role[x] # "client"
    BY <2>1 DEF LaunchInv, IConf
  <2>3. QED
    BY <1>2, <1>7, <2>1, <2>2 DEF LaunchInv, IConf
<1>11. IKill'
  BY <1>2 DEF LaunchInv, IKill, Visited, history
<1>12. QED
  BY <1>8, <1>9, <1>10, <1>11 DEF LaunchInv

(* A client is given one aggregator, and the file that says so is written  *)
(* by the first client that needs it (telegraf_run.sh:63-81).              *)
LEMMA ClientStep ==
    ASSUME LaunchInv, LaunchClient
    PROVE  LaunchInv'
<1> USE LaunchAssumption
<1>1. Wanted = Target /\ Target \in 0 .. n /\ n \in 1 .. MaxNodes /\ MaxNodes \in Nat
  BY WantedIsTarget, TargetBounds DEF LaunchInv, IJob
<1>2. /\ phase = "launch" /\ phase' = "launch" /\ h <= n /\ h' = h + 1 /\ h \in 1 .. n
      /\ UNCHANGED <<script, n, tmp, servers, history>>
      /\ num_servers' = Target /\ Target' = Target /\ Nodes' = Nodes
      /\ Len(servers) = Target /\ Len(servers) < h
  BY <1>1 DEF LaunchClient, LaunchInv, IJob, IRoles, TypeOK, fixed, history, Target, Nodes, Quarter
<1>3. PICK i \in Indices :
         /\ index' = [index EXCEPT ![h] = i]
         /\ conf' = [x \in DOMAIN conf \cup {i} |->
                IF x \in DOMAIN conf THEN conf[x] ELSE ServerAt(x)]
  BY DEF LaunchClient
<1>4. i \in 0 .. MaxNodes /\ (i < Len(servers) \/ Len(servers) = 0)
  BY <1>1, <1>2 DEF Indices, LaunchInv, IJob, TypeOK
<1>5. /\ DOMAIN conf' = DOMAIN conf \cup {i}
      /\ conf' = [x \in DOMAIN conf' |-> conf'[x]]
      /\ \A x \in DOMAIN conf' : conf'[x] = ServerAt(x)
  BY <1>3 DEF LaunchInv, IConf
<1>6. h \in Nodes
  BY <1>2, <1>1 DEF Nodes
<1>7. \A x \in Nodes : /\ role'[x] = IF x = h THEN "client" ELSE role[x]
                       /\ agent'[x] = IF x = h THEN "ssh" ELSE agent[x]
                       /\ index'[x] = IF x = h THEN i ELSE index[x]
  BY <1>3, <1>6 DEF LaunchClient, LaunchInv, IJob, TypeOK
<1>8. IJob'
  <2>1. /\ role' \in [Nodes -> {"none", "agg", "client"}]
        /\ agent' \in [Nodes -> {"none", "ssh", "up", "down"}]
    BY DEF LaunchClient, LaunchInv, IJob, TypeOK
  <2>2. index' \in [Nodes -> 0 .. MaxNodes]
    BY <1>3, <1>4 DEF LaunchInv, IJob, TypeOK
  <2>3. h' \in 1 .. n + 1 /\ num_servers' \in 0 .. MaxNodes /\ DOMAIN conf' \subseteq 0 .. MaxNodes
    BY <1>1, <1>2, <1>4, <1>5 DEF LaunchInv, IJob, TypeOK
  <2>4. TypeOK'
    BY <2>1, <2>2, <2>3, <1>2 DEF LaunchInv, IJob, TypeOK, history
  <2>5. QED
    BY <2>4, <1>2 DEF LaunchInv, IJob, Quarter
<1>9. IRoles'
  <2>1. \A x \in Nodes :
            role'[x] = IF x <= Len(servers) THEN "agg" ELSE IF x < h' THEN "client" ELSE "none"
    BY <1>1, <1>2, <1>7 DEF LaunchInv, IRoles, Nodes
  <2>2. QED
    BY <1>1, <1>2, <2>1 DEF LaunchInv, IRoles
<1>10. IConf'
  <2>1. \A x \in Nodes : role'[x] = "client" => index'[x] \in DOMAIN conf'
    BY <1>5, <1>7 DEF LaunchInv, IConf
  <2>2. \A x \in DOMAIN conf' : x < Len(servers) \/ Len(servers) = 0
    BY <1>4, <1>5 DEF LaunchInv, IConf
  <2>3. \A x \in DOMAIN conf' : conf'[x] = ServerAt(x)'
    BY <1>2, <1>5 DEF ServerAt
  <2>4. QED
    BY <1>2, <1>5, <2>1, <2>2, <2>3 DEF IConf
<1>11. IKill'
  BY <1>2 DEF LaunchInv, IKill, Visited, history
<1>12. QED
  BY <1>8, <1>9, <1>10, <1>11 DEF LaunchInv

(* The steps after the loop, and the ssh commands that arrive meanwhile,   *)
(* change neither the parts of the nodes nor the files.                    *)
LEMMA RolesKept ==
    ASSUME IJob, IRoles, IConf, UNCHANGED <<script, n, servers, conf, role, index>>,
           \/ UNCHANGED <<phase, h>>
           \/ phase = "launch" /\ phase' # "launch" /\ h > n
           \/ phase # "launch" /\ phase' # "launch"
    PROVE  IRoles' /\ IConf'
<1>1. Target' = Target /\ Nodes' = Nodes
  BY DEF Target, Nodes
<1>2. Target \in 0 .. n /\ n \in Nat /\ h \in Nat /\ Len(servers) \in Nat
  BY TargetBounds, LaunchAssumption DEF IJob, TypeOK
<1>3. IConf'
  BY <1>1 DEF IConf, ServerAt
<1>4. CASE UNCHANGED <<phase, h>>
  BY <1>1, <1>3, <1>4 DEF IRoles
<1>5. CASE phase = "launch" /\ phase' # "launch" /\ h > n
  <2>1. Len(servers) = Target
    BY <1>2, <1>5 DEF IRoles
  <2>2. QED
    BY <1>1, <1>2, <1>3, <1>5, <2>1 DEF IRoles, Nodes
<1>6. CASE phase # "launch" /\ phase' # "launch"
  BY <1>1, <1>3, <1>6 DEF IRoles
<1>7. QED
  BY <1>3, <1>4, <1>5, <1>6

(* Every step keeps the invariant.                                         *)
LEMMA LaunchStep == LaunchInv /\ [Next]_vars => LaunchInv'
<1> SUFFICES ASSUME LaunchInv, [Next]_vars PROVE LaunchInv'
  OBVIOUS
<1> USE LaunchAssumption DEF LaunchInv, fixed, history
<1>1. CASE LaunchAggregator
  BY <1>1, AggregatorStep
<1>2. CASE LaunchClient
  BY <1>2, ClientStep
<1>3. CASE LaunchEnd
  <2>1. IJob'
    BY <1>3 DEF LaunchEnd, IJob, TypeOK, Target, Nodes
  <2>2. IRoles' /\ IConf'
    BY <1>3, RolesKept DEF LaunchEnd, IJob, TypeOK
  <2>3. IKill'
    BY <1>3 DEF LaunchEnd, IKill, Visited
  <2>4. QED
    BY <2>1, <2>2, <2>3
<1>4. CASE JobEnd
  <2>1. IJob'
    BY <1>4 DEF JobEnd, IJob, TypeOK, Target, Nodes
  <2>2. IRoles' /\ IConf'
    BY <1>4, RolesKept DEF JobEnd
  <2>3. IKill'
    <3>1. script' = "chicoma" => ~tmp'
      BY <1>4 DEF JobEnd
    <3>2. \A x \in Nodes' : ~Visited(x)'
      BY <1>4 DEF JobEnd, Visited, Nodes, IJob
    <3>3. QED
      BY <3>1, <3>2 DEF IKill
  <2>4. QED
    BY <2>1, <2>2, <2>3
<1>5. CASE Kill
  <2>1. IJob'
    <3>1. h \in Nodes /\ h + 1 \in 1 .. n + 1
      BY <1>5 DEF Kill, IJob, TypeOK, Nodes
    <3>2. /\ agent' \in [Nodes -> {"none", "ssh", "up", "down"}]
          /\ missed' \subseteq Nodes /\ unreached' \subseteq Nodes
      BY <1>5, <3>1 DEF Kill, IJob, TypeOK
    <3>3. QED
      BY <1>5, <3>1, <3>2 DEF Kill, IJob, TypeOK, Target, Nodes
  <2>2. IRoles' /\ IConf'
    BY <1>5, RolesKept DEF Kill
  <2>3. IKill'
    <3>1. \A x \in Nodes : /\ x < h' => x < h \/ x = h
                           /\ x # h => agent'[x] = agent[x]
      BY <1>5 DEF Kill, IJob, TypeOK, Nodes
    <3>2. /\ agent'[h] = "ssh" => h \in missed'
          /\ agent'[h] = "up" => h \in unreached'
      BY <1>5 DEF Kill, IJob, TypeOK, Nodes
    <3>3. /\ UNCHANGED <<script, n, phase, tmp>> /\ phase = "kill"
          /\ missed \subseteq missed' /\ unreached \subseteq unreached'
      BY <1>5 DEF Kill
    <3>4. QED
      BY <3>1, <3>2, <3>3 DEF IKill, Visited, Nodes
  <2>4. QED
    BY <2>1, <2>2, <2>3
<1>6. CASE KillEnd
  <2>1. IJob'
    BY <1>6 DEF KillEnd, IJob, TypeOK, Target, Nodes
  <2>2. IRoles' /\ IConf'
    BY <1>6, RolesKept DEF KillEnd
  <2>3. IKill'
    BY <1>6 DEF KillEnd, IKill, Visited, IJob, TypeOK, Nodes
  <2>4. QED
    BY <2>1, <2>2, <2>3
<1>7. ASSUME NEW x \in Nodes, Arrive(x) PROVE LaunchInv'
  <2>1. IJob'
    BY <1>7 DEF Arrive, IJob, TypeOK, Target, Nodes
  <2>2. IRoles' /\ IConf'
    BY <1>7, RolesKept DEF Arrive
  <2>3. IKill'
    <3>1. \A y \in Nodes : agent'[y] = IF y = x THEN agent'[x] ELSE agent[y]
      BY <1>7 DEF Arrive, IJob, TypeOK
    <3>2. agent'[x] \in {"up", "down"} /\ (agent'[x] = "up" => tmp) /\ agent[x] = "ssh"
      BY <1>7 DEF Arrive, IJob, TypeOK
    <3>3. UNCHANGED <<script, n, h, phase, tmp, history>>
      BY <1>7 DEF Arrive
    <3>4. QED
      BY <3>1, <3>2, <3>3 DEF IKill, IJob, Visited, Nodes
  <2>4. QED
    BY <2>1, <2>2, <2>3
<1>8. CASE UNCHANGED vars
  <2>1. IJob' /\ IKill'
    BY <1>8 DEF vars, history, IJob, TypeOK, Target, Nodes, IKill, Visited
  <2>2. QED
    BY <1>8, <2>1, RolesKept DEF vars
<1>9. QED
  BY <1>1, <1>2, <1>3, <1>4, <1>5, <1>6, <1>7, <1>8 DEF Next

(* The invariant holds throughout, for any number of nodes.                *)
THEOREM LaunchInvariance == Spec => []LaunchInv
BY LaunchInit, LaunchStep, PTL DEF Spec

(* The types.                                                              *)
THEOREM LaunchTypeCorrect == Spec => []TypeOK
<1>1. LaunchInv => TypeOK
  BY DEF LaunchInv, IJob
<1>2. QED
  BY <1>1, LaunchInvariance, PTL

(* Every client is sent to an aggregator of its job launched before it,    *)
(* apart from the exceptions the property names.                           *)
THEOREM ClientsAreServed == Spec => []ClientsHaveAggregators
<1>1. LaunchInv => ClientsHaveAggregators
  <2> SUFFICES ASSUME LaunchInv, NEW c \in Clients
               PROVE  \/ conf[index[c]] \in Aggregators /\ conf[index[c]] < c
                      \/ conf[index[c]] = NoAddress /\ \E i \in DOMAIN servers : servers[i] = NoAddress
                      \/ conf[index[c]] = NoAddress /\ script = "chicoma" /\ n = 1
    BY DEF ClientsHaveAggregators
  <2>1. c \in Nodes /\ role[c] = "client" /\ index[c] \in 0 .. MaxNodes /\ index[c] \in DOMAIN conf
    BY DEF Clients, LaunchInv, IJob, TypeOK, IConf
  <2>2. /\ conf[index[c]] = ServerAt(index[c]) /\ Len(servers) = Target
        /\ index[c] < Len(servers) \/ Len(servers) = 0
    BY <2>1 DEF LaunchInv, IConf
  <2>3. c > Len(servers) /\ Len(servers) \in 0 .. n /\ n \in Nat /\ DOMAIN servers = 1 .. Len(servers)
    BY <2>1, <2>2, TargetBounds, LaunchAssumption DEF LaunchInv, IJob, IRoles, TypeOK, Nodes
  <2>4. CASE index[c] < Len(servers)
    <3>1. conf[index[c]] = servers[index[c] + 1] /\ index[c] + 1 \in 1 .. Len(servers)
      BY <2>1, <2>2, <2>3, <2>4 DEF ServerAt
    <3>2. servers[index[c] + 1] \in {index[c] + 1, NoAddress}
      BY <3>1 DEF LaunchInv, IRoles
    <3>3. index[c] + 1 \in Aggregators /\ index[c] + 1 < c
      BY <2>1, <2>3, <3>1 DEF Aggregators, Nodes, LaunchInv, IRoles
    <3>4. QED
      BY <2>3, <3>1, <3>2, <3>3
  <2>5. CASE Len(servers) = 0
    <3>1. conf[index[c]] = NoAddress
      BY <2>1, <2>2, <2>5 DEF ServerAt
    <3>2. script = "chicoma" /\ n = 1
      BY <2>2, <2>5, TargetBounds, LaunchAssumption DEF LaunchInv, IJob
    <3>3. QED
      BY <3>1, <3>2
  <2>6. QED
    BY <2>2, <2>4, <2>5
<1>2. QED
  BY <1>1, LaunchInvariance, PTL

(* After the loop a quarter of the nodes, rounded, are aggregators and all *)
(* others are clients.                                                     *)
THEOREM AggregatorsAreAQuarter == Spec => []QuarterAggregates
<1>1. LaunchInv => QuarterAggregates
  <2> SUFFICES ASSUME LaunchInv, phase # "launch"
               PROVE  /\ Aggregators \cup Clients = Nodes
                      /\ n - 2 < 4 * Cardinality(Aggregators)
                      /\ 4 * Cardinality(Aggregators) <= n + 2 \/ Cardinality(Aggregators) = 1
                      /\ Cardinality(Aggregators) = 0 => script = "chicoma" /\ n = 1
    BY DEF QuarterAggregates
  <2>1. Len(servers) = Target /\ n \in Nat /\ n >= 1 /\ Target \in 0 .. n
    BY TargetBounds, LaunchAssumption DEF LaunchInv, IJob, IRoles
  <2>2. Aggregators = 1 .. Target /\ Aggregators \cup Clients = Nodes
    BY <2>1 DEF LaunchInv, IRoles, Aggregators, Clients, Nodes
  <2>3. Cardinality(1 .. Target) = Target
    BY <2>1, FS_Interval
  <2>4. Cardinality(Aggregators) = Target
    BY <2>2, <2>3
  <2>5. QED
    BY <2>1, <2>2, <2>4, TargetBounds DEF LaunchInv, IJob
<1>2. QED
  BY <1>1, LaunchInvariance, PTL

(* A Telegraf that outlives kill_telegraf() is on a node whose ssh failed, *)
(* or was on its way when its node was visited, and the latter not where   *)
(* the files are removed first.                                            *)
THEOREM OrphansAreLate == Spec => []OrphansWereLate
<1>1. LaunchInv => OrphansWereLate
  BY DEF LaunchInv, IKill, Visited, OrphansWereLate
<1>2. QED
  BY <1>1, LaunchInvariance, PTL
=============================================================================
