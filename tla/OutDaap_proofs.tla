--------------------------- MODULE OutDaap_proofs ---------------------------
(***************************************************************************)
(* Proofs about the Fluentd output plugin, for batches of any length, any  *)
(* items and any number of jobs.                                           *)
(***************************************************************************)
EXTENDS OutDaap, FlattenTheorems

Records == [metric : MetricNames, flag : BOOLEAN]

(* The items of the batch that are done, and what each of them gave.       *)
Done == Len(batch) - Len(todo)
Given == [j \in 1 .. Done |-> MetricsOf(batch[j])]

(* What is left to do is the rest of the batch; what is done did not raise *)
(* and gave the metrics gathered so far.                                   *)
IGathered ==
    /\ Len(todo) <= Len(batch)
    /\ phase = "running" =>
         /\ \A j \in 1 .. Len(todo) : todo[j] = batch[Done + j]
         /\ \A j \in 1 .. Done : ~Raises(batch[j])
         /\ metrics = FlattenSeq(Given)
         /\ out = <<>>
    /\ phase # "running" => todo = <<>> /\ metrics = <<>>

(* What a call that has returned emitted.                                  *)
IReturned ==
    /\ phase = "returned" =>
         \/ out = <<>> /\ \E i \in ToSet(batch) : Raises(i)
         \/ out = FlattenSeq(Given) /\ \A j \in DOMAIN batch : ~Raises(batch[j])
    /\ phase = "idle" => batch = <<>> /\ out = <<>>

(* The samples of an entry; a job without entry has none.                  *)
ISamples ==
    /\ MaxIsMax
    /\ \A k \in Jobs : k \notin DOMAIN jobs => taken[k] = {}
    /\ jobs = [k \in DOMAIN jobs |-> jobs[k]]
    /\ \A k \in DOMAIN jobs : jobs[k] = [age |-> jobs[k].age, max_mem |-> jobs[k].max_mem]

PluginInv == TypeOK /\ IGathered /\ IReturned /\ ISamples

-----------------------------------------------------------------------------
(* An item is a text or a child, never both.                               *)
LEMMA ItemCases ==
    ASSUME NEW i \in Items
    PROVE  \/ IsText(i) /\ i \in Texts
           \/ /\ ~IsText(i) /\ DOMAIN i = {"name", "info", "job", "flag", "what", "age"}
              /\ i.name \in Names /\ i.info \in {"none", "nojob", "job"}
              /\ i.job \in Jobs /\ i.flag \in BOOLEAN /\ i.age \in Nat
              /\ i.name = "mem" => i.what \in Nat \cup {-1}
              /\ i.name # "mem" => i.what \in Messages
BY PluginAssumption DEF IsText

(* The branch process() takes is the first whose text is included.         *)
LEMMA BranchFacts ==
    ASSUME NEW i \in Texts
    PROVE  /\ BranchOf(i) \in 0 .. 7
           /\ BranchOf(i) = 0 => \A j \in 1 .. 7 : Branches[j] \notin Marks(i)
           /\ BranchOf(i) # 0 => /\ Branches[BranchOf(i)] \in Marks(i)
                                 /\ \A j \in 1 .. 7 : Branches[j] \in Marks(i) => BranchOf(i) <= j
<1> DEFINE I == {j \in 1 .. 7 : Branches[j] \in Marks(i)}
<1>1. Len(Branches) = 7
  BY DEF Branches
<1>2. BranchOf(i) = IF I # {} THEN Min(I) ELSE 0
  BY <1>1 DEF BranchOf, SelectInSeq
<1>3. ASSUME I # {} PROVE Min(I) \in I /\ \A j \in I : Min(I) <= j
  <2>1. PICK m \in I : \A j \in I : m <= j
    BY <1>3, LeastNat
  <2> HIDE DEF I
  <2>2. QED
    BY <2>1 DEF Min
<1>4. QED
  BY <1>2, <1>3

(* The names of the branches.                                              *)
LEMMA BranchNames ==
    /\ Branches[1] = "caliper" /\ Branches[2] = "lap-metrics" /\ Branches[3] = "poisson-metrics"
    /\ Branches[4] = "jayenne" /\ Branches[5] = "mcatk" /\ Branches[6] = "sap"
    /\ Branches[7] = "xrage"
    /\ ToSet(Branches) = {"caliper", "lap-metrics", "poisson-metrics", "jayenne", "mcatk", "sap",
                          "xrage"}
BY DEF Branches, ToSet

(* What a text becomes, branch by branch.                                  *)
LEMMA TextMetricsIs ==
    ASSUME NEW i \in Texts
    PROVE  \/ TextMetrics(i) = <<>>
           \/ i.own # "" /\ TextMetrics(i) = <<Metric(i.own)>>
           \/ i.code \in Alnum /\ TextMetrics(i) = <<Metric(CaliperMetric(i.code))>>
           \/ /\ BranchOf(i) \in 2 .. 7
              /\ TextMetrics(i) = <<Metric(CodeMetric(Branches[BranchOf(i)]))>>
<1>1. BranchOf(i) \in 0 .. 7
  BY BranchFacts
<1> DEFINE b == BranchOf(i)
<1>0. Handled(i) => b > 1 \/ (b = 1 /\ i.code \in Alnum)
  BY DEF Handled
<1>2. CASE ~Handled(i) \/ (BranchOf(i) = Len(Branches) /\ i.parts = "none")
  BY <1>2 DEF TextMetrics
<1>3. CASE Handled(i) /\ ~(BranchOf(i) = Len(Branches) /\ i.parts = "none")
  <2>1. CASE i.own # ""
    BY <1>3, <2>1 DEF TextMetrics
  <2>2. CASE i.own = "" /\ BranchOf(i) = 1
    <3>1. i.code \in Alnum
      <4> HIDE DEF b
      <4>1. b = 1 /\ (b > 1 \/ (b = 1 /\ i.code \in Alnum))
        BY <1>0, <1>3, <2>2, Zenon DEF b
      <4>2. QED
        BY <4>1
    <3>2. QED
      BY <1>3, <2>2, <3>1 DEF TextMetrics
  <2>3. CASE i.own = "" /\ BranchOf(i) # 1
    <3>1. BranchOf(i) \in 2 .. 7
      <4> HIDE DEF b
      <4>1. b \in 0 .. 7 /\ b # 1 /\ (b > 1 \/ (b = 1 /\ i.code \in Alnum))
        BY <1>0, <1>1, <1>3, <2>3, Zenon DEF b
      <4>2. b \in 2 .. 7
        BY <4>1
      <4>3. QED
        BY <4>2 DEF b
    <3>2. QED
      BY <1>3, <2>3, <3>1 DEF TextMetrics
  <2>4. QED
    BY <2>1, <2>2, <2>3
<1>4. QED
  BY <1>2, <1>3

(* The names of the metrics, code by code.                                 *)
LEMMA CodeMetricIs ==
    /\ CodeMetric("lap-metrics") = "lap_metrics" /\ CodeMetric("poisson-metrics") = "ristra_metrics"
    /\ CodeMetric("jayenne") = "jayenne_metrics" /\ CodeMetric("mcatk") = "mcatk_metrics"
    /\ CodeMetric("sap") = "sap_metrics" /\ CodeMetric("xrage") = "xrage_metrics"
BY DEF CodeMetric

(* The same of caliper reports.                                            *)
LEMMA CaliperMetricIs ==
    /\ CaliperMetric("lap") = "lap_caliper_metrics"
    /\ CaliperMetric("jayenne") = "jayenne_caliper_metrics"
    /\ CaliperMetric("mcatk") = "mcatk_caliper_metrics"
    /\ CaliperMetric("sap") = "sap_caliper_metrics"
    /\ CaliperMetric("xrage") = "xrage_caliper_metrics"
    /\ CaliperMetric("other") = "other_caliper_metrics"
BY DEF CaliperMetric

(* The metrics of the children that have one each.                         *)
LEMMA ChildMetricsIs ==
    ASSUME NEW i \in Items, ~IsText(i)
    PROVE  \/ ChildMetrics(i) = <<>>
           \/ /\ ChildMetrics(i) = <<[metric |-> "infiniband_errors", flag |-> i.flag],
                                     [metric |-> "infiniband_metrics", flag |-> i.flag]>>
              /\ i.name = "infiniband"
           \/ \E name \in {"heartbeat", "job_state", "job_duration", "mesh_info", "zones",
                           "cpu_usage", "mem_usage", "temp"} :
                /\ ChildMetrics(i) = <<[metric |-> name, flag |-> i.flag]>>
                /\ i.name = "daap" /\ i.what = "jobduration" => name = "job_duration"
                /\ name \in {"mesh_info", "zones"} => i.flag
           \/ \E name \in {"", "snap_pavilion_parser", "pre_team", "pre_team_hpl"} :
                /\ ChildMetrics(i) = <<[metric |-> name, flag |-> FALSE]>>
                /\ ~(i.name = "daap" /\ i.what = "jobduration")
<1> USE ItemCases DEF ChildMetrics, Metric
<1>1. CASE i.name = "other" \/ i.info # "job"
  <2>1. ChildMetrics(i) = <<>>
    BY <1>1
  <2>2. QED
    BY <2>1
<1>2. CASE i.info = "job" /\ i.name = "daap"
  <2>0. i.what \in Messages
    BY <1>2
  <2>1. CASE i.what = "heartbeat"
    BY <1>2, <2>1
  <2>2. CASE i.what \in {"jobstart", "jobend"}
    BY <1>2, <2>2
  <2>3. CASE i.what = "jobduration"
    BY <1>2, <2>3
  <2>4. CASE i.what = "mesh" /\ i.flag
    BY <1>2, <2>4
  <2>5. CASE i.what = "zones" /\ i.flag
    BY <1>2, <2>5
  <2>6. CASE i.what \in {"mesh", "zones"} /\ ~i.flag
    BY <1>2, <2>6
  <2>7. CASE i.what \in {"daap_pavilion_parser", "message"}
    BY <1>2, <2>7
  <2>8. QED
    BY <2>0, <2>1, <2>2, <2>3, <2>4, <2>5, <2>6, <2>7 DEF Messages
<1>3. CASE i.info = "job" /\ i.name \in {"infiniband", "cpu", "mem", "temp"}
  BY <1>3
<1>4. CASE /\ i.info = "job"
           /\ i.name \in {"snap_pavilion_parser", "pre_team_pavilion_parser",
                          "pre_team_pavilion_hpl_parser"}
  BY <1>4
<1>5. QED
  BY <1>1, <1>2, <1>3, <1>4 DEF Names

(* The elements of short sequences.                                        *)
LEMMA ToSetOfFew ==
    /\ ToSet(<<>>) = {}
    /\ \A x : ToSet(<<x>>) = {x}
    /\ \A x, y : ToSet(<<x, y>>) = {x, y}
BY DEF ToSet

(* An element of a sequence of one element is that element.                *)
LEMMA OnlyElement ==
    ASSUME NEW s, NEW x, s = <<x>>, NEW m \in ToSet(s)
    PROVE  m = x
BY ToSetOfFew

(* An element of a sequence of S is in S, as are its values.               *)
LEMMA ElementType ==
    ASSUME NEW S, NEW s \in Seq(S)
    PROVE  (\A x \in ToSet(s) : x \in S) /\ \A j \in DOMAIN s : s[j] \in S
BY DEF ToSet

(* A record of one or two known fields is a sequence of records.           *)
LEMMA RecordsType ==
    ASSUME NEW name \in MetricNames, NEW flag \in BOOLEAN
    PROVE  /\ [metric |-> name, flag |-> flag] \in Records
           /\ <<[metric |-> name, flag |-> flag]>> \in Seq(Records)
<1>1. [metric |-> name, flag |-> flag] \in Records
  BY DEF Records
<1>2. QED
  BY <1>1

(* Every item becomes a sequence of records.                               *)
LEMMA MetricsType ==
    ASSUME NEW i \in Items
    PROVE  MetricsOf(i) \in Seq(Records)
<1>1. CASE IsText(i)
  <2>1. i \in Texts /\ MetricsOf(i) = TextMetrics(i)
    BY <1>1, ItemCases DEF MetricsOf
  <2>2. ASSUME NEW j \in 2 .. 7 PROVE CodeMetric(Branches[j]) \in MetricNames
    <3>1. j = 2 \/ j = 3 \/ j = 4 \/ j = 5 \/ j = 6 \/ j = 7
      BY <2>2
    <3>2. Branches[j] \in ToSet(Branches) \ {"caliper"}
      BY <3>1, BranchNames
    <3>3. QED
      BY <3>2 DEF MetricNames
  <2>3. \A c \in Alnum : CaliperMetric(c) \in MetricNames
    BY DEF MetricNames
  <2>4. CASE TextMetrics(i) = <<>>
    BY <2>1, <2>4
  <2>5. CASE i.code \in Alnum /\ TextMetrics(i) = <<Metric(CaliperMetric(i.code))>>
    BY <2>1, <2>3, <2>5, RecordsType DEF Metric
  <2>6. CASE /\ BranchOf(i) \in 2 .. 7
             /\ TextMetrics(i) = <<Metric(CodeMetric(Branches[BranchOf(i)]))>>
    BY <2>1, <2>2, <2>6, RecordsType DEF Metric
  <2>7. CASE TextMetrics(i) = <<Metric(i.own)>>
    <3>1. i.own \in MetricNames
      BY <2>1 DEF Texts
    <3>2. QED
      BY <2>1, <2>7, <3>1, RecordsType DEF Metric
  <2>8. QED
    BY <2>1, <2>4, <2>5, <2>6, <2>7, TextMetricsIs
<1>2. CASE ~IsText(i)
  <2>1. MetricsOf(i) = ChildMetrics(i) /\ i.flag \in BOOLEAN
    BY <1>2, ItemCases DEF MetricsOf
  <2>2. CASE ChildMetrics(i) = <<>>
    BY <2>1, <2>2
  <2>3. CASE ChildMetrics(i) = <<[metric |-> "infiniband_errors", flag |-> i.flag],
                                 [metric |-> "infiniband_metrics", flag |-> i.flag]>>
    <3>1. /\ [metric |-> "infiniband_errors", flag |-> i.flag] \in Records
          /\ [metric |-> "infiniband_metrics", flag |-> i.flag] \in Records
      BY <2>1 DEF Records, MetricNames
    <3>2. QED
      BY <2>1, <2>3, <3>1
  <2>4. CASE \E name \in MetricNames, flag \in BOOLEAN :
               ChildMetrics(i) = <<[metric |-> name, flag |-> flag]>>
    BY <2>1, <2>4, RecordsType
  <2>5. QED
    <3>1. /\ {"heartbeat", "job_state", "job_duration", "mesh_info", "zones",
               "cpu_usage", "mem_usage", "temp"} \subseteq MetricNames
          /\ {"", "snap_pavilion_parser", "pre_team", "pre_team_hpl"} \subseteq MetricNames
          /\ i.flag \in BOOLEAN /\ FALSE \in BOOLEAN
      BY <2>1 DEF MetricNames
    <3>2. QED
      BY <1>2, <3>1, <2>2, <2>3, <2>4, ChildMetricsIs
<1>3. QED
  BY <1>1, <1>2

-----------------------------------------------------------------------------
(* The types of @jobs and of its history, and of the rest.                 *)
JobsOK ==
    /\ DOMAIN jobs \subseteq Jobs
    /\ \A k \in DOMAIN jobs : jobs[k].age \in Nat /\ jobs[k].max_mem \in Nat
    /\ taken \in [Jobs -> SUBSET Nat]
BatchOK ==
    /\ batch \in Seq(Items) /\ todo \in Seq(Items)
    /\ metrics \in Seq(Records) /\ out \in Seq(Records)
    /\ phase \in {"idle", "running", "returned"}

(* What the done items gave is a sequence of metric sequences.             *)
LEMMA GivenFacts ==
    ASSUME BatchOK, Len(todo) <= Len(batch)
    PROVE  /\ Done \in Nat /\ Done <= Len(batch)
           /\ Given \in Seq(Seq(Records)) /\ Len(Given) = Done
           /\ FlattenSeq(Given) \in Seq(Records)
<1>1. Done \in Nat /\ Done <= Len(batch)
  BY DEF Done, BatchOK
<1>2. \A j \in 1 .. Done : MetricsOf(batch[j]) \in Seq(Records)
  BY <1>1, MetricsType DEF BatchOK
<1>3. Given \in Seq(Seq(Records)) /\ Len(Given) = Done
  BY <1>1, <1>2 DEF Given
<1>4. QED
  BY <1>1, <1>3, FlattenType

(* Push and PushMem hand over one item: what was given is given still, and *)
(* the metrics of the item come after it.                                  *)
LEMMA GatherStep ==
    ASSUME BatchOK, IGathered, IReturned, phase = "running", todo # <<>>, ~Raises(Head(todo)),
           metrics' = metrics \o MetricsOf(Head(todo)), todo' = Tail(todo),
           UNCHANGED <<batch, out, phase>>
    PROVE  BatchOK' /\ IGathered' /\ IReturned'
<1> DEFINE x == MetricsOf(Head(todo))
<1>1. /\ Done \in Nat /\ Done <= Len(batch) /\ Given \in Seq(Seq(Records)) /\ Len(Given) = Done
      /\ FlattenSeq(Given) \in Seq(Records)
  BY GivenFacts DEF IGathered
<1>2. /\ Len(todo') = Len(todo) - 1 /\ Len(todo) \in Nat /\ Len(todo) > 0
      /\ todo' \in Seq(Items) /\ \A j \in 1 .. Len(todo') : todo'[j] = todo[j + 1]
  BY DEF BatchOK
<1>3. Head(todo) = batch[Done + 1] /\ Head(todo) \in Items /\ Done + 1 <= Len(batch)
  BY <1>2 DEF IGathered, BatchOK, Done
<1>4. Done' = Done + 1
  BY <1>2 DEF Done, BatchOK
<1>5. x \in Seq(Records)
  BY <1>3, MetricsType
<1>6. Given' = Append(Given, x)
  <2>1. Given' = [j \in 1 .. Done + 1 |-> MetricsOf(batch[j])]
    BY <1>4 DEF Given
  <2>2. /\ Append(Given, x) \in Seq(Seq(Records)) /\ Len(Append(Given, x)) = Done + 1
        /\ \A j \in 1 .. Done : Append(Given, x)[j] = Given[j]
        /\ Append(Given, x)[Done + 1] = x
    <3> DEFINE g == Given
    <3> HIDE DEF g, x
    <3>1. g \in Seq(Seq(Records)) /\ Len(g) = Done /\ x \in Seq(Records)
      BY <1>1, <1>5 DEF g
    <3>2. /\ Append(g, x) \in Seq(Seq(Records)) /\ Len(Append(g, x)) = Done + 1
          /\ \A j \in 1 .. Done : Append(g, x)[j] = g[j]
          /\ Append(g, x)[Done + 1] = x
      BY <3>1
    <3>3. QED
      BY <3>2 DEF g
  <2>3. ASSUME NEW j \in 1 .. Done + 1 PROVE Given'[j] = Append(Given, x)[j]
    <3>1. CASE j \in 1 .. Done
      <4>1. Given'[j] = MetricsOf(batch[j]) /\ Given[j] = MetricsOf(batch[j])
        BY <2>1, <3>1 DEF Given
      <4>2. QED
        BY <2>2, <3>1, <4>1
    <3>2. CASE j = Done + 1
      BY <1>3, <2>1, <2>2, <3>2
    <3>3. QED
      BY <1>1, <3>1, <3>2
  <2> HIDE DEF x
  <2>4. Given' \in Seq(Seq(Records)) /\ Len(Given') = Done + 1
    <3>1. \A j \in 1 .. Done + 1 : MetricsOf(batch[j]) \in Seq(Records)
      BY <1>1, <1>3, MetricsType DEF BatchOK
    <3>2. QED
      BY <1>1, <2>1, <3>1
  <2>5. QED
    BY <2>2, <2>3, <2>4, SeqEqual
<1>7. metrics' = FlattenSeq(Given')
  <2> HIDE DEF x
  <2>1. FlattenSeq(Append(Given, x)) = FlattenSeq(Given) \o x
    BY <1>1, <1>5, FlattenAppend
  <2>2. metrics = FlattenSeq(Given)
    BY DEF IGathered
  <2>3. QED
    BY <1>6, <2>1, <2>2 DEF x
<1>8. metrics' \in Seq(Records)
  BY <1>5 DEF BatchOK
<1>9. \A j \in 1 .. Len(todo') : todo'[j] = batch[Done' + j]
  <2> SUFFICES ASSUME NEW j \in 1 .. Len(todo') PROVE todo'[j] = batch[Done' + j]
    OBVIOUS
  <2>1. todo'[j] = todo[j + 1] /\ j + 1 \in 1 .. Len(todo)
    BY <1>2
  <2>2. todo[j + 1] = batch[Done + (j + 1)]
    BY <2>1 DEF IGathered
  <2>3. Done + (j + 1) = Done' + j
    BY <1>1, <1>4
  <2>4. QED
    BY <2>1, <2>2, <2>3
<1>10. \A j \in 1 .. Done' : ~Raises(batch[j])
  <2> SUFFICES ASSUME NEW j \in 1 .. Done' PROVE ~Raises(batch[j])
    OBVIOUS
  <2>1. j \in 1 .. Done \/ j = Done + 1
    BY <1>1, <1>4
  <2>2. QED
    BY <1>3, <2>1 DEF IGathered
<1>11. BatchOK'
  BY <1>2, <1>8 DEF BatchOK
<1>12. IGathered'
  <2>1. /\ batch' = batch /\ phase' = "running" /\ out' = <<>> /\ Len(todo') <= Len(batch')
    BY <1>2 DEF IGathered, BatchOK
  <2>2. QED
    BY <1>7, <1>9, <1>10, <2>1 DEF IGathered
<1>13. IReturned'
  BY DEF IReturned
<1>14. QED
  BY <1>11, <1>12, <1>13

(* A sample makes or updates the entry of its job and no other.            *)
LEMMA SampledIs ==
    ASSUME JobsOK, ISamples, NEW i, i.job \in Jobs, i.age \in Nat, i.what \in Nat
    PROVE  LET f == Sampled(i)
               old == IF i.job \in DOMAIN jobs THEN jobs[i.job].max_mem ELSE 0
           IN  /\ DOMAIN f = DOMAIN jobs \cup {i.job}
               /\ f = [k \in DOMAIN f |-> f[k]]
               /\ \A k \in DOMAIN jobs : k # i.job => f[k] = jobs[k]
               /\ f[i.job] = [age |-> i.age, max_mem |-> IF i.what > old THEN i.what ELSE old]
               /\ old \in Nat
BY DEF Sampled, JobsOK

(* PushMem keeps the maximum.                                              *)
LEMMA SampleStep ==
    ASSUME JobsOK, ISamples, NEW i, i.job \in Jobs, i.age \in Nat, i.what \in Nat,
           jobs' = Sampled(i), taken' = [taken EXCEPT ![i.job] = @ \cup {i.what}]
    PROVE  JobsOK' /\ ISamples'
<1> DEFINE old == IF i.job \in DOMAIN jobs THEN jobs[i.job].max_mem ELSE 0
<1>1. /\ DOMAIN jobs' = DOMAIN jobs \cup {i.job}
      /\ jobs' = [k \in DOMAIN jobs' |-> jobs'[k]]
      /\ \A k \in DOMAIN jobs : k # i.job => jobs'[k] = jobs[k]
      /\ jobs'[i.job] = [age |-> i.age, max_mem |-> IF i.what > old THEN i.what ELSE old]
      /\ old \in Nat
  BY SampledIs
<1>2. /\ taken' \in [Jobs -> SUBSET Nat]
      /\ taken'[i.job] = taken[i.job] \cup {i.what}
      /\ \A k \in Jobs : k # i.job => taken'[k] = taken[k]
  BY DEF JobsOK
<1>3. /\ old \in taken[i.job] \cup {0}
      /\ \A v \in taken[i.job] : v \in Nat /\ v <= old
  BY DEF ISamples, MaxIsMax, JobsOK
<1> HIDE DEF old
<1>4. /\ jobs'[i.job].age \in Nat /\ jobs'[i.job].max_mem \in Nat
      /\ jobs'[i.job].max_mem \in taken'[i.job] \cup {0}
      /\ \A v \in taken'[i.job] : v <= jobs'[i.job].max_mem
      /\ jobs'[i.job] = [age |-> jobs'[i.job].age, max_mem |-> jobs'[i.job].max_mem]
  BY <1>1, <1>2, <1>3
<1>5. JobsOK'
  BY <1>1, <1>2, <1>4 DEF JobsOK
<1>6. MaxIsMax'
  <2> SUFFICES ASSUME NEW k \in DOMAIN jobs'
               PROVE  /\ jobs'[k].max_mem \in taken'[k] \cup {0}
                      /\ \A v \in taken'[k] : v <= jobs'[k].max_mem
    BY DEF MaxIsMax
  <2>1. CASE k = i.job
    BY <1>4, <2>1
  <2>2. CASE k # i.job
    <3>1. k \in DOMAIN jobs /\ k \in Jobs /\ jobs'[k] = jobs[k] /\ taken'[k] = taken[k]
      BY <1>1, <1>2, <2>2 DEF JobsOK
    <3>2. QED
      BY <3>1 DEF ISamples, MaxIsMax
  <2>3. QED
    BY <2>1, <2>2
<1>7. \A k \in Jobs : k \notin DOMAIN jobs' => taken'[k] = {}
  BY <1>1, <1>2 DEF ISamples
<1>8. \A k \in DOMAIN jobs' : jobs'[k] = [age |-> jobs'[k].age, max_mem |-> jobs'[k].max_mem]
  BY <1>1, <1>4 DEF ISamples
<1>9. QED
  BY <1>1, <1>5, <1>6, <1>7, <1>8 DEF ISamples

(* Raise may leave a new entry without a sample.                           *)
LEMMA NewEntryStep ==
    ASSUME JobsOK, ISamples, NEW i, i.job \in Jobs \ DOMAIN jobs, i.age \in Nat, i.what = 0,
           jobs' = Sampled(i), taken' = taken
    PROVE  JobsOK' /\ ISamples'
<1>1. /\ DOMAIN jobs' = DOMAIN jobs \cup {i.job}
      /\ jobs' = [k \in DOMAIN jobs' |-> jobs'[k]]
      /\ \A k \in DOMAIN jobs : k # i.job => jobs'[k] = jobs[k]
      /\ jobs'[i.job] = [age |-> i.age, max_mem |-> 0]
  BY SampledIs
<1>2. taken[i.job] = {}
  BY DEF ISamples
<1>3. JobsOK'
  BY <1>1 DEF JobsOK
<1>4. MaxIsMax'
  BY <1>1, <1>2 DEF ISamples, MaxIsMax
<1>5. QED
  BY <1>1, <1>3, <1>4 DEF ISamples

(* Emit drops the old entries and their samples.                           *)
LEMMA CleanedStep ==
    ASSUME JobsOK, ISamples, jobs' = Cleaned,
           taken' = [k \in Jobs |-> IF k \in DOMAIN jobs' THEN taken[k] ELSE {}]
    PROVE  JobsOK' /\ ISamples'
<1>1. /\ DOMAIN jobs' \subseteq DOMAIN jobs
      /\ jobs' = [k \in DOMAIN jobs' |-> jobs'[k]]
      /\ \A k \in DOMAIN jobs' : jobs'[k] = jobs[k]
  BY DEF Cleaned
<1>2. \A k \in Jobs : taken'[k] = IF k \in DOMAIN jobs' THEN taken[k] ELSE {}
  OBVIOUS
<1>3. taken' \in [Jobs -> SUBSET Nat]
  BY DEF JobsOK
<1>4. JobsOK'
  BY <1>1, <1>3 DEF JobsOK
<1>5. MaxIsMax'
  BY <1>1, <1>2 DEF ISamples, MaxIsMax, JobsOK
<1>6. \A k \in DOMAIN jobs' : jobs'[k] = [age |-> jobs'[k].age, max_mem |-> jobs'[k].max_mem]
  BY <1>1 DEF ISamples
<1>7. QED
  BY <1>1, <1>2, <1>4, <1>5, <1>6 DEF ISamples

(* Tick makes the entries older.                                           *)
LEMMA TickStep ==
    ASSUME JobsOK, ISamples, Tick
    PROVE  JobsOK' /\ ISamples'
<1>1. DOMAIN jobs' = DOMAIN jobs /\ taken' = taken /\ jobs' = [k \in DOMAIN jobs' |-> jobs'[k]]
  BY DEF Tick
<1>2. ASSUME NEW k \in DOMAIN jobs
      PROVE  /\ jobs'[k] = [age |-> jobs'[k].age, max_mem |-> jobs'[k].max_mem]
             /\ jobs'[k].max_mem = jobs[k].max_mem /\ jobs'[k].age \in Nat
  <2>1. jobs'[k] = [jobs[k] EXCEPT !.age = IF @ > MaxAge THEN @ ELSE @ + 1]
    BY DEF Tick
  <2>2. /\ jobs[k] = [age |-> jobs[k].age, max_mem |-> jobs[k].max_mem]
        /\ jobs[k].age \in Nat
    BY DEF ISamples, JobsOK
  <2>3. QED
    BY <2>1, <2>2
<1>3. JobsOK'
  BY <1>1, <1>2 DEF JobsOK
<1>4. MaxIsMax'
  BY <1>1, <1>2 DEF ISamples, MaxIsMax
<1>5. QED
  BY <1>1, <1>2, <1>3, <1>4 DEF ISamples

(* The two halves of the type invariant.                                   *)
LEMMA TypeSplit == TypeOK <=> BatchOK /\ JobsOK
BY DEF TypeOK, BatchOK, JobsOK, Records

(* A call that is done has handled all of its batch.                       *)
LEMMA AllDone ==
    ASSUME BatchOK, todo = <<>>
    PROVE  Done = Len(batch) /\ DOMAIN batch = 1 .. Done
BY DEF BatchOK, Done

(* What an action does to the batch and what is gathered, action by        *)
(* action.                                                                 *)
LEMMA BatchStep ==
    ASSUME BatchOK, IGathered, IReturned, [Next]_vars
    PROVE  BatchOK' /\ IGathered' /\ IReturned'
<1>1. CASE process
  <2>1. PICK n \in 1 .. MaxBatch : \E b \in [1 .. n -> Items] : batch' = b /\ todo' = b
    BY <1>1 DEF process
  <2>2. n \in Nat /\ batch' \in [1 .. n -> Items] /\ todo' = batch'
    BY <2>1, PluginAssumption
  <2>3. batch' \in Seq(Items) /\ Len(todo') = n /\ Len(batch') = n
    BY <2>2
  <2>4. /\ metrics = <<>> /\ out = <<>> /\ phase' = "running"
        /\ metrics' = metrics /\ out' = out
    BY <1>1 DEF process, IGathered, IReturned
  <2>5. BatchOK'
    BY <2>2, <2>3, <2>4 DEF BatchOK
  <2>6. Done' = 0
    BY <2>2, <2>3 DEF Done
  <2>7. Given' = <<>>
    BY <2>6 DEF Given
  <2>8. FlattenSeq(Given') = <<>>
    BY <2>7, FlattenEmpty
  <2>9. IGathered'
    <3>1. \A j \in 1 .. Len(todo') : todo'[j] = batch'[Done' + j]
      BY <2>2, <2>3, <2>6
    <3>2. QED
      BY <2>2, <2>3, <2>4, <2>6, <2>8, <3>1 DEF IGathered
  <2>10. QED
    BY <2>4, <2>5, <2>9 DEF IReturned
<1>2. CASE Push
  <2>1. /\ phase = "running" /\ todo # <<>> /\ ~Raises(Head(todo))
        /\ metrics' = metrics \o MetricsOf(Head(todo)) /\ todo' = Tail(todo)
        /\ UNCHANGED <<batch, out, phase>>
    BY <1>2 DEF Push
  <2>2. QED
    BY <2>1, GatherStep
<1>3. CASE PushMem
  <2>1. /\ phase = "running" /\ todo # <<>> /\ ~Raises(Head(todo))
        /\ metrics' = metrics \o MetricsOf(Head(todo)) /\ todo' = Tail(todo)
        /\ UNCHANGED <<batch, out, phase>>
    BY <1>3 DEF PushMem
  <2>2. QED
    BY <2>1, GatherStep
<1>4. CASE Raise
  <2>1. /\ phase = "running" /\ todo # <<>> /\ Raises(Head(todo)) /\ phase' = "returned"
        /\ todo' = <<>> /\ metrics' = <<>> /\ batch' = batch /\ out' = out
    BY <1>4 DEF Raise
  <2>2. Head(todo) \in ToSet(batch) /\ out = <<>>
    <3>1. Len(todo) \in Nat /\ Len(todo) > 0 /\ Head(todo) = todo[1]
      BY <2>1 DEF BatchOK
    <3>2. todo[1] = batch[Done + 1] /\ Done + 1 \in DOMAIN batch
      BY <2>1, <3>1 DEF BatchOK, IGathered, Done
    <3>3. QED
      BY <2>1, <3>1, <3>2 DEF IGathered, ToSet
  <2>3. BatchOK' /\ IGathered'
    BY <2>1 DEF BatchOK, IGathered
  <2>4. QED
    BY <2>1, <2>2, <2>3 DEF IReturned
<1>5. CASE ReturnEarly \/ Emit
  <2>1. /\ phase = "running" /\ todo = <<>> /\ phase' = "returned" /\ batch' = batch
        /\ todo' = todo /\ out' = metrics /\ metrics' = <<>>
    BY <1>5 DEF ReturnEarly, Emit, IGathered
  <2>2. Given' = Given
    BY <2>1 DEF Given, Done
  <2>3. metrics = FlattenSeq(Given) /\ \A j \in DOMAIN batch : ~Raises(batch[j])
    BY <2>1, AllDone DEF IGathered
  <2>4. BatchOK' /\ IGathered'
    BY <2>1 DEF BatchOK, IGathered
  <2>5. QED
    BY <2>1, <2>2, <2>3, <2>4 DEF IReturned
<1>6. CASE Return
  <2>1. /\ phase' = "idle" /\ batch' = <<>> /\ out' = <<>> /\ todo' = todo /\ metrics' = metrics
        /\ todo = <<>> /\ metrics = <<>>
    BY <1>6 DEF Return, IGathered
  <2>2. QED
    BY <2>1 DEF BatchOK, IGathered, IReturned
<1>7. CASE Tick \/ UNCHANGED vars
  <2>1. UNCHANGED <<batch, todo, metrics, out, phase>>
    BY <1>7 DEF Tick, vars
  <2>2. Done' = Done /\ Given' = Given
    BY <2>1 DEF Done, Given
  <2>3. QED
    BY <2>1, <2>2 DEF BatchOK, IGathered, IReturned
<1>8. QED
  BY <1>1, <1>2, <1>3, <1>4, <1>5, <1>6, <1>7 DEF Next

(* A memory sample that does not raise is a number.                        *)
LEMMA MemItem ==
    ASSUME NEW i \in Items, IsMem(i)
    PROVE  /\ i.job \in Jobs /\ i.age \in Nat /\ (~Raises(i) => i.what \in Nat)
           /\ LET z == [i EXCEPT !.what = 0] IN z.job = i.job /\ z.age = i.age /\ z.what = 0
<1>1. /\ ~IsText(i) /\ i.name = "mem" /\ i.info = "job" /\ i.job \in Jobs /\ i.age \in Nat
      /\ i.what \in Nat \cup {-1} /\ DOMAIN i = {"name", "info", "job", "flag", "what", "age"}
  BY ItemCases DEF IsMem
<1>2. ~Raises(i) => i.what # -1
  BY <1>1 DEF Raises, ChildRaises
<1>3. QED
  BY <1>1, <1>2

(* What an action does to @jobs and its history.                           *)
LEMMA SamplesStep ==
    ASSUME BatchOK, JobsOK, ISamples, [Next]_vars
    PROVE  JobsOK' /\ ISamples'
<1>1. CASE UNCHANGED <<jobs, taken>>
  BY <1>1 DEF JobsOK, ISamples, MaxIsMax
<1>2. CASE PushMem
  <2> DEFINE i == Head(todo)
  <2>1. /\ i \in Items /\ IsMem(i) /\ ~Raises(i) /\ jobs' = Sampled(i)
        /\ taken' = [taken EXCEPT ![i.job] = @ \cup {i.what}]
    BY <1>2 DEF PushMem, BatchOK
  <2> HIDE DEF i
  <2>2. i.job \in Jobs /\ i.age \in Nat /\ i.what \in Nat
    BY <2>1, MemItem
  <2>3. QED
    BY <2>1, <2>2, SampleStep
<1>3. CASE Raise
  <2> DEFINE i == Head(todo)
             z == [i EXCEPT !.what = 0]
  <2>1. CASE IsMem(i) /\ i.job \notin DOMAIN jobs
    <3>1. i \in Items /\ jobs' = Sampled(z) /\ taken' = taken
      BY <1>3, <2>1 DEF Raise, BatchOK
    <3> HIDE DEF i
    <3>2. z.job \in Jobs \ DOMAIN jobs /\ z.age \in Nat /\ z.what = 0
      BY <2>1, <3>1, MemItem
    <3> HIDE DEF z
    <3>3. QED
      BY <3>1, <3>2, NewEntryStep
  <2>2. CASE ~(IsMem(i) /\ i.job \notin DOMAIN jobs)
    <3>1. UNCHANGED <<jobs, taken>>
      BY <1>3, <2>2 DEF Raise
    <3>2. QED
      BY <1>1, <3>1
  <2>3. QED
    BY <2>1, <2>2
<1>4. CASE Emit
  BY <1>4, CleanedStep DEF Emit
<1>5. CASE Tick
  BY <1>5, TickStep
<1>6. CASE process \/ Push \/ ReturnEarly \/ Return \/ UNCHANGED vars
  <2>1. UNCHANGED <<jobs, taken>>
    BY <1>6 DEF process, Push, ReturnEarly, Return, vars
  <2>2. QED
    BY <1>1, <2>1
<1>7. QED
  BY <1>2, <1>3, <1>4, <1>5, <1>6 DEF Next

(* The inductive invariant of the plugin.                                  *)
THEOREM PluginInvariance == Spec => []PluginInv
<1>1. Init => PluginInv
  <2> SUFFICES ASSUME Init PROVE PluginInv
    OBVIOUS
  <2>1. BatchOK /\ IGathered /\ IReturned
    BY DEF Init, BatchOK, IGathered, IReturned
  <2>2. JobsOK /\ ISamples
    BY DEF Init, JobsOK, ISamples, MaxIsMax
  <2>3. QED
    BY <2>1, <2>2, TypeSplit DEF PluginInv
<1>2. PluginInv /\ [Next]_vars => PluginInv'
  <2> SUFFICES ASSUME PluginInv, [Next]_vars PROVE PluginInv'
    OBVIOUS
  <2>1. BatchOK /\ JobsOK /\ IGathered /\ IReturned /\ ISamples
    BY TypeSplit DEF PluginInv
  <2>2. BatchOK' /\ IGathered' /\ IReturned'
    BY <2>1, BatchStep
  <2>3. JobsOK' /\ ISamples'
    BY <2>1, SamplesStep
  <2>4. TypeOK'
    BY <2>2, <2>3 DEF TypeOK, BatchOK, JobsOK, Records
  <2>5. QED
    BY <2>2, <2>3, <2>4 DEF PluginInv
<1>3. QED
  BY <1>1, <1>2, PTL DEF Spec

(* What is gathered, sampled and emitted has its type (out_daap.rb:55-678).*)
THEOREM PluginTypeCorrect == Spec => []TypeOK
BY PluginInvariance, PTL DEF PluginInv

(* max_mem is the largest sample of the entry, for any number of jobs and  *)
(* samples (out_daap.rb:607-619, 680-686).                                 *)
THEOREM MaximumIsKept == Spec => []MaxIsMax
BY PluginInvariance, PTL DEF PluginInv, ISamples

-----------------------------------------------------------------------------
(* A call emits the metrics of all items or, if an item raises, nothing,   *)
(* for batches of any length (out_daap.rb:62-678).                         *)
THEOREM BatchesAreWhole == Spec => []EmitsWholeBatches
<1>1. PluginInv => EmitsWholeBatches
  <2> SUFFICES ASSUME PluginInv, phase = "returned"
               PROVE  out = IF \E i \in ToSet(batch) : Raises(i)
                            THEN <<>> ELSE FlattenSeq([n \in DOMAIN batch |-> MetricsOf(batch[n])])
    BY DEF EmitsWholeBatches
  <2>1. BatchOK /\ todo = <<>>
    BY TypeSplit DEF PluginInv, IGathered
  <2>2. [n \in DOMAIN batch |-> MetricsOf(batch[n])] = Given
    BY <2>1, AllDone DEF Given
  <2>3. (\A j \in DOMAIN batch : ~Raises(batch[j])) => ~\E i \in ToSet(batch) : Raises(i)
    BY DEF ToSet
  <2>4. QED
    BY <2>2, <2>3 DEF PluginInv, IReturned
<1>2. QED
  BY <1>1, PluginInvariance, PTL

-----------------------------------------------------------------------------
(* No two codes share a metric, and no caliper report or child has one of  *)
(* a code.                                                                 *)
LEMMA CodeMetricsApart ==
    ASSUME NEW c \in ToSet(Branches) \ {"caliper"}
    PROVE  /\ \A d \in ToSet(Branches) \ {"caliper"} : CodeMetric(d) = CodeMetric(c) => d = c
           /\ \A d \in Alnum : CaliperMetric(d) # CodeMetric(c)
           /\ CodeMetric(c) \notin
                {"", "heartbeat", "job_state", "job_duration", "mesh_info", "zones", "cpu_usage",
                 "mem_usage", "temp", "infiniband_errors", "infiniband_metrics",
                 "snap_pavilion_parser", "pre_team", "pre_team_hpl"}
<1>1. Alnum = {"lap", "jayenne", "mcatk", "sap", "xrage", "other"}
  BY DEF Alnum, Codes
<1>2. QED
  BY <1>1, BranchNames, CodeMetricIs, CaliperMetricIs

(* An item whose metrics include that of a code, and that does not raise,  *)
(* is a text that starts like those of the code, names the metric itself,  *)
(* or mentions the code after a name with a blank.                         *)
Excused(i, c) ==
    IsText(i) /\ (Titled(i, c) \/ i.own = CodeMetric(c) \/ (c \in i.marks /\ i.sep = " "))

LEMMA FiledUnder ==
    ASSUME NEW c \in ToSet(Branches) \ {"caliper"}, NEW i \in Items, ~Raises(i),
           Metric(CodeMetric(c)) \in ToSet(MetricsOf(i))
    PROVE  Excused(i, c)
<1>1. CASE ~IsText(i)
  <2> DEFINE T == {"heartbeat", "job_state", "job_duration", "mesh_info", "zones", "cpu_usage",
                   "mem_usage", "temp"}
             U == {"", "snap_pavilion_parser", "pre_team", "pre_team_hpl"}
  <2>1. MetricsOf(i) = ChildMetrics(i)
    BY <1>1 DEF MetricsOf
  <2>2. CASE ChildMetrics(i) = <<>>
    BY <2>1, <2>2, ToSetOfFew
  <2>3. CASE ChildMetrics(i) = <<[metric |-> "infiniband_errors", flag |-> i.flag],
                                 [metric |-> "infiniband_metrics", flag |-> i.flag]>>
    <3>1. /\ CodeMetric(c) # "infiniband_errors" /\ CodeMetric(c) # "infiniband_metrics"
          /\ Metric(CodeMetric(c)).metric = CodeMetric(c)
      BY CodeMetricsApart DEF Metric
    <3>2. Metric(CodeMetric(c)) \in {[metric |-> "infiniband_errors", flag |-> i.flag],
                                    [metric |-> "infiniband_metrics", flag |-> i.flag]}
      BY <2>1, <2>3, ToSetOfFew
    <3>3. QED
      BY <3>1, <3>2
  <2>4. CASE \E name \in T \cup U : \E flag \in BOOLEAN :
               ChildMetrics(i) = <<[metric |-> name, flag |-> flag]>>
    <3>1. PICK name \in T \cup U, flag \in BOOLEAN :
                 ChildMetrics(i) = <<[metric |-> name, flag |-> flag]>>
      BY <2>4
    <3>2. CodeMetric(c) # name /\ Metric(CodeMetric(c)).metric = CodeMetric(c)
      BY <3>1, CodeMetricsApart DEF Metric
    <3>3. Metric(CodeMetric(c)) = [metric |-> name, flag |-> flag]
      BY <2>1, <3>1, OnlyElement, Zenon
    <3>4. [metric |-> name, flag |-> flag].metric = name
      BY Zenon
    <3>5. QED
      BY <3>2, <3>3, <3>4, Zenon
  <2>5. QED
    <3>1. i.flag \in BOOLEAN
      BY <1>1, ItemCases
    <3>2. QED
      BY <1>1, <2>2, <2>3, <2>4, <3>1, ChildMetricsIs
<1>2. CASE IsText(i)
  <2>1. i \in Texts /\ MetricsOf(i) = TextMetrics(i) /\ ~TextRaises(i)
    BY <1>2, ItemCases DEF MetricsOf, Raises
  <2>2. CASE TextMetrics(i) = <<>>
    BY <2>1, <2>2, ToSetOfFew
  <2>3. CASE i.code \in Alnum /\ TextMetrics(i) = <<Metric(CaliperMetric(i.code))>>
    <3>1. Metric(CodeMetric(c)) = Metric(CaliperMetric(i.code))
      BY <2>1, <2>3, OnlyElement, Zenon
    <3>2. CodeMetric(c) = CaliperMetric(i.code)
      BY <3>1 DEF Metric
    <3>3. QED
      BY <2>3, <3>2, CodeMetricsApart
  <2>4. CASE /\ BranchOf(i) \in 2 .. 7
             /\ TextMetrics(i) = <<Metric(CodeMetric(Branches[BranchOf(i)]))>>
    <3>1. CodeMetric(Branches[BranchOf(i)]) = CodeMetric(c)
      BY <2>1, <2>4, ToSetOfFew DEF Metric
    <3>2. Branches[BranchOf(i)] \in ToSet(Branches) \ {"caliper"}
      <4>1. \A j \in 2 .. 7 : j = 2 \/ j = 3 \/ j = 4 \/ j = 5 \/ j = 6 \/ j = 7
        OBVIOUS
      <4>2. QED
        BY <2>4, <4>1, BranchNames
    <3>3. Branches[BranchOf(i)] = c
      BY <3>1, <3>2, CodeMetricsApart
    <3>4. c \in i.marks \/ Titled(i, c)
      BY <2>1, <2>4, <3>3, BranchFacts DEF Marks
    <3>5. Titled(i, c) \/ i.sep # ","
      <4>1. BranchOf(i) > 1 /\ BranchOf(i) # 1
        BY <2>4
      <4>2. Handled(i) /\ (Untitled(i) => Titled(i, c))
        BY <3>3, <4>1, Zenon DEF Handled, Untitled
      <4>3. QED
        BY <2>1, <4>2, Zenon DEF TextRaises
    <3>6. i.sep \in {",", " "}
      BY <2>1 DEF Texts
    <3>7. QED
      BY <1>2, <3>4, <3>5, <3>6 DEF Excused
  <2>5. CASE TextMetrics(i) = <<Metric(i.own)>>
    <3>1. Metric(CodeMetric(c)) = Metric(i.own)
      BY <2>1, <2>5, OnlyElement, Zenon
    <3>2. QED
      BY <1>2, <3>1 DEF Metric, Excused
  <2>6. QED
    BY <2>1, <2>2, <2>3, <2>4, <2>5, TextMetricsIs
<1>3. QED
  BY <1>1, <1>2

(* Every metric that goes out for a code comes from a text that starts     *)
(* like those of the code, that names the metric itself, or that mentions  *)
(* the code after a name with a blank (out_daap.rb:72-284).                *)
THEOREM FiledUnderItsCode == Spec => []NoTextUnderAnotherCode
<1>1. PluginInv => NoTextUnderAnotherCode
  <2> SUFFICES ASSUME PluginInv, NEW c \in ToSet(Branches) \ {"caliper"},
                      Metric(CodeMetric(c)) \in ToSet(out)
               PROVE  \E i \in ToSet(batch) : Excused(i, c)
    BY DEF NoTextUnderAnotherCode, Excused
  <2>1. BatchOK /\ Len(todo) <= Len(batch)
    BY TypeSplit DEF PluginInv, IGathered
  <2>2. out # <<>>
    BY DEF ToSet
  <2>3. /\ phase = "returned" /\ out = FlattenSeq(Given) /\ todo = <<>>
        /\ \A j \in DOMAIN batch : ~Raises(batch[j])
    BY <2>1, <2>2 DEF PluginInv, IGathered, IReturned, BatchOK
  <2>4. Given \in Seq(Seq(Records)) /\ Len(Given) = Done /\ DOMAIN batch = 1 .. Done
    BY <2>1, <2>3, GivenFacts, AllDone
  <2>5. PICK j \in 1 .. Done : Metric(CodeMetric(c)) \in ToSet(Given[j])
    <3>1. Metric(CodeMetric(c)) \in ToSet(FlattenSeq(Given))
      BY <2>3
    <3>2. QED
      BY <2>4, <3>1, FlattenElements
  <2>6. Given[j] = MetricsOf(batch[j]) /\ batch[j] \in Items /\ ~Raises(batch[j])
    <3>1. Given[j] = MetricsOf(batch[j]) /\ j \in DOMAIN batch
      BY <2>4 DEF Given
    <3>2. batch[j] \in Items
      BY <2>1, <3>1, ElementType DEF BatchOK
    <3>3. QED
      BY <2>3, <3>1, <3>2
  <2>7. Excused(batch[j], c)
    BY <2>5, <2>6, FiledUnder
  <2>8. QED
    <3>1. batch[j] \in ToSet(batch)
      BY <2>4 DEF ToSet
    <3>2. QED
      BY <2>7, <3>1
<1>2. QED
  BY <1>1, PluginInvariance, PTL

(* The rules of appdata-sn.conf for the metrics of children.               *)
LEMMA RenamedIs ==
    ASSUME NEW name \in {"heartbeat", "job_state", "job_duration", "cpu_usage", "mem_usage",
                         "temp", "infiniband_errors", "infiniband_metrics",
                         "snap_pavilion_parser", "pre_team", "pre_team_hpl"}
    PROVE  name \in DOMAIN Renamed /\ Renamed[name] # "null"
<1>1. name \in DOMAIN Renamed
  BY DEF Renamed
<1>2. /\ Renamed["cpu_usage"] = "acceptance.general.cpu" /\ Renamed["mem_usage"] = "memory"
      /\ Renamed["infiniband_errors"] = "acceptance.infiniband.errors"
      /\ Renamed["infiniband_metrics"] = "acceptance.infiniband.metrics"
      /\ Renamed["heartbeat"] = "heartbeat" /\ Renamed["job_state"] = "acceptance_job_state"
      /\ Renamed["temp"] = "acceptance.temp"
      /\ Renamed["snap_pavilion_parser"] = "acceptance_pavilion.snap_pavilion_run"
      /\ Renamed["job_duration"] = "acceptance_job_duration"
      /\ Renamed["pre_team"] = "pre_team.job" /\ Renamed["pre_team_hpl"] = "pre_team.hpl"
  BY DEF Renamed
<1>3. QED
  BY <1>1, <1>2

(* Every metric of a Telegraf child has a store, and the durations of flag *)
(* jobs their own (appdata-sn.conf:40-62).                                 *)
THEOREM TelegrafIsRouted == Spec => []TelegrafMetricsArrive
<1>1. PluginInv => TelegrafMetricsArrive
  <2> SUFFICES ASSUME PluginInv, NEW i \in ToSet(batch), ~IsText(i),
                      NEW m \in ToSet(ChildMetrics(i)), m.metric # ""
               PROVE  /\ Route(m) # "null"
                      /\ i.name = "daap" /\ i.what = "jobduration" /\ i.flag =>
                           Route(m) = "flag_duration"
    BY DEF TelegrafMetricsArrive
  <2>1. i \in Items /\ i.flag \in BOOLEAN
    <3>1. i \in Items
      BY ElementType DEF PluginInv, TypeOK
    <3>2. QED
      BY <3>1, ItemCases
  <2>2. ASSUME NEW name \in {"heartbeat", "job_state", "job_duration", "mesh_info", "zones",
                             "cpu_usage", "mem_usage", "temp", "infiniband_errors",
                             "infiniband_metrics", "snap_pavilion_parser", "pre_team",
                             "pre_team_hpl"},
               NEW flag \in BOOLEAN, name \in {"mesh_info", "zones"} => flag,
               m = [metric |-> name, flag |-> flag]
        PROVE  Route(m) # "null" /\ (flag /\ name = "job_duration" => Route(m) = "flag_duration")
    <3>1. CASE flag
      BY <2>2, <3>1 DEF Route
    <3>2. CASE ~flag
      <4>1. name \in DOMAIN Renamed /\ Renamed[name] # "null"
        BY <2>2, <3>2, RenamedIs
      <4>2. m.metric = name /\ ~m.flag /\ name \notin SameName /\ name # ""
        BY <2>2, <3>2 DEF SameName
      <4>3. Route(m) = Renamed[name]
        BY <4>1, <4>2 DEF Route
      <4>4. QED
        BY <3>2, <4>1, <4>3
    <3>3. QED
      BY <3>1, <3>2
  <2>3. CASE ChildMetrics(i) = <<>>
    BY <2>3, ToSetOfFew
  <2>4. CASE /\ ChildMetrics(i) = <<[metric |-> "infiniband_errors", flag |-> i.flag],
                                    [metric |-> "infiniband_metrics", flag |-> i.flag]>>
             /\ i.name = "infiniband"
    <3>1. \/ m = [metric |-> "infiniband_errors", flag |-> i.flag]
          \/ m = [metric |-> "infiniband_metrics", flag |-> i.flag]
      <4>1. ToSet(ChildMetrics(i)) = {[metric |-> "infiniband_errors", flag |-> i.flag],
                                      [metric |-> "infiniband_metrics", flag |-> i.flag]}
        BY <2>4, ToSetOfFew, Zenon
      <4>2. QED
        BY <4>1, Zenon
    <3>2. QED
      BY <2>1, <2>2, <2>4, <3>1
  <2>5. CASE \E name \in {"heartbeat", "job_state", "job_duration", "mesh_info", "zones",
                          "cpu_usage", "mem_usage", "temp"} :
               /\ ChildMetrics(i) = <<[metric |-> name, flag |-> i.flag]>>
               /\ i.name = "daap" /\ i.what = "jobduration" => name = "job_duration"
               /\ name \in {"mesh_info", "zones"} => i.flag
    <3>1. PICK name \in {"heartbeat", "job_state", "job_duration", "mesh_info", "zones",
                         "cpu_usage", "mem_usage", "temp"} :
                 /\ ChildMetrics(i) = <<[metric |-> name, flag |-> i.flag]>>
                 /\ i.name = "daap" /\ i.what = "jobduration" => name = "job_duration"
                 /\ name \in {"mesh_info", "zones"} => i.flag
      BY <2>5
    <3>2. m = [metric |-> name, flag |-> i.flag]
      BY <3>1, OnlyElement, Zenon
    <3>3. QED
      BY <2>1, <2>2, <3>1, <3>2
  <2>6. CASE \E name \in {"", "snap_pavilion_parser", "pre_team", "pre_team_hpl"} :
               /\ ChildMetrics(i) = <<[metric |-> name, flag |-> FALSE]>>
               /\ ~(i.name = "daap" /\ i.what = "jobduration")
    <3>1. PICK name \in {"", "snap_pavilion_parser", "pre_team", "pre_team_hpl"} :
                 /\ ChildMetrics(i) = <<[metric |-> name, flag |-> FALSE]>>
                 /\ ~(i.name = "daap" /\ i.what = "jobduration")
      BY <2>6
    <3>2. m = [metric |-> name, flag |-> FALSE]
      BY <3>1, OnlyElement, Zenon
    <3>3. name # ""
      BY <3>2
    <3>4. QED
      BY <2>2, <3>1, <3>2, <3>3
  <2>7. QED
    BY <2>1, <2>3, <2>4, <2>5, <2>6, ChildMetricsIs
<1>2. QED
  BY <1>1, PluginInvariance, PTL
=============================================================================
