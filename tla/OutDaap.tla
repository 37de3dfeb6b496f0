------------------------------ MODULE OutDaap ------------------------------
(***************************************************************************)
(* The Fluentd output plugin, process() of                                 *)
(* plugins/fluent-plugin-daap/lib/fluent/plugin/out_daap.rb, and the       *)
(* rules of appdata-sn.conf that route what it emits.                      *)
(*                                                                         *)
(* process() gets a batch of events.  The children of a Telegraf event are *)
(* handled one after the other like events of their own, so a batch is a   *)
(* sequence of items: texts that codes have logged, and children.  Fluentd *)
(* calls process() from one thread; an exception ends it, and the batch is *)
(* gone.  The rows of one child that differ in type only are one row.      *)
(***************************************************************************)
EXTENDS Integers, Sequences, FiniteSets, SequencesExt

CONSTANTS
    Jobs,      \* job keys
    Items,     \* items a batch can hold
    MaxBatch,  \* bound: items of a batch
    MaxAge     \* 30 minutes, in ticks

(* The names a text can start with.                                        *)
Codes == {"lap", "lap-metrics", "poisson-metrics", "jayenne", "mcatk", "sap", "xrage", "other"}

(* The branches of process(), in their order, by the text they look for,   *)
(* which ends in the character after the name; "fields" makes it parse the *)
(* text as JSON, before any of them.                                       *)
Branches == <<"caliper", "lap-metrics", "poisson-metrics", "jayenne", "mcatk", "sap", "xrage">>
Markers == ToSet(Branches) \cup {"fields"}
Separator(c) == IF c \in {"mcatk", "poisson-metrics"} THEN " " ELSE ","

(* The caliper branch knows a code by letters and digits up to a comma.    *)
Alnum == Codes \ {"lap-metrics", "poisson-metrics"}

(* The metric of a code: its texts, and their caliper reports, which are   *)
(* named after the code.                                                   *)
CodeMetric(c) ==
    CASE c = "lap-metrics" -> "lap_metrics"
      [] c = "poisson-metrics" -> "ristra_metrics"
      [] c = "jayenne" -> "jayenne_metrics"
      [] c = "mcatk" -> "mcatk_metrics"
      [] c = "sap" -> "sap_metrics"
      [] c = "xrage" -> "xrage_metrics"
CaliperMetric(c) ==
    CASE c = "lap" -> "lap_caliper_metrics"
      [] c = "jayenne" -> "jayenne_caliper_metrics"
      [] c = "mcatk" -> "mcatk_caliper_metrics"
      [] c = "sap" -> "sap_caliper_metrics"
      [] c = "xrage" -> "xrage_caliper_metrics"
      [] c = "other" -> "other_caliper_metrics"

(* The metrics process() knows, "" for a marker it does not.               *)
MetricNames ==
    {CodeMetric(c) : c \in ToSet(Branches) \ {"caliper"}}
    \cup {CaliperMetric(c) : c \in Alnum}
    \cup {"", "heartbeat", "job_state", "job_duration", "mesh_info", "zones", "cpu_usage",
          "mem_usage", "temp", "infiniband_errors", "infiniband_metrics",
          "snap_pavilion_parser", "pre_team", "pre_team_hpl"}

(* A text starts with the name code, followed by sep, and includes the     *)
(* markers marks besides.  parts: after that name it is comma separated    *)
(* parts that are all name=value (and its caliper row, if any, is whole),  *)
(* or some are not, or there are none.  own: the value of a part that is   *)
(* called metric, "" if there is none.                                     *)
Texts ==
    {t \in [code : Codes, sep : {",", " "}, marks : SUBSET Markers,
            parts : {"good", "bad", "none"}, own : MetricNames] :
        t.parts = "none" => t.own = "" /\ "caliper" \notin t.marks}

(* A child has a name, fields and tags.  info: its jobinfo tag is absent,  *)
(* names no job, or names one; flag: it names a flag_perf_tests_ job.      *)
(* what: its message, or used_percent, with -1 for what is not a number.   *)
(* age: how long ago its event was, when it is handled.                    *)
Names == {"infiniband", "cpu", "mem", "temp", "daap", "snap_pavilion_parser",
          "pre_team_pavilion_parser", "pre_team_pavilion_hpl_parser", "other"}
Messages == {"heartbeat", "jobstart", "jobend", "jobduration", "mesh", "zones",
             "daap_pavilion_parser", "message"}

IsText(i) == "code" \in DOMAIN i
IsMem(i) == ~IsText(i) /\ i.name = "mem" /\ i.info = "job"

ASSUME PluginAssumption ==
    /\ MaxBatch \in Nat /\ MaxAge \in Nat
    /\ \A i \in Items :
         \/ IsText(i) /\ i \in Texts
         \/ /\ DOMAIN i = {"name", "info", "job", "flag", "what", "age"}
            /\ i.name \in Names /\ i.info \in {"none", "nojob", "job"}
            /\ i.job \in Jobs /\ i.flag \in BOOLEAN /\ i.age \in Nat
            /\ i.what \in IF i.name = "mem" THEN Nat \cup {-1} ELSE Messages

VARIABLES
    batch,    \* the events of the call
    todo,     \* those not handled yet
    metrics,  \* what they have been turned into
    jobs,     \* @jobs: the age of each entry and its max_mem
    out,      \* what the call has emitted
    phase,    \* process() is "idle", "running" or has "returned"
    taken     \* history: the samples taken into each entry

vars == <<batch, todo, metrics, jobs, out, phase, taken>>

Init ==
    /\ batch = <<>> /\ todo = <<>> /\ metrics = <<>> /\ out = <<>>
    /\ jobs = [k \in {} |-> 0]
    /\ taken = [k \in Jobs |-> {}]
    /\ phase = "idle"

-----------------------------------------------------------------------------
Metric(name) == [metric |-> name, flag |-> FALSE]

(* The text starts the way the texts of code c do.                         *)
Titled(i, c) == i.code = c /\ i.sep = Separator(c)

(* The first branch whose marker is in the text.                           *)
Marks(i) == i.marks \cup {c \in ToSet(Branches) : Titled(i, c)}
BranchOf(i) == SelectInSeq(Branches, LAMBDA b : b \in Marks(i))

(* A branch takes the text.  The caliper branch goes to the next event     *)
(* where it finds no code.                                                 *)
Handled(i) == BranchOf(i) > 1 \/ (BranchOf(i) = 1 /\ i.code \in Alnum /\ i.sep = ",")

(* It takes the name of the code off; another name stays where it is.      *)
Untitled(i) == BranchOf(i) = 1 \/ Titled(i, Branches[BranchOf(i)])

(* What a text becomes: a part called metric overwrites the metric of the  *)
(* branch.  The xrage branch, the last, skips a text with no parts.        *)
TextMetrics(i) ==
    IF ~Handled(i) \/ (BranchOf(i) = Len(Branches) /\ i.parts = "none") THEN <<>>
    ELSE <<Metric(IF i.own # "" THEN i.own
                  ELSE IF BranchOf(i) = 1 THEN CaliperMetric(i.code)
                  ELSE CodeMetric(Branches[BranchOf(i)]))>>

(* Faulty variants of the operators below: a text of another code is       *)
(* handled as far as it goes, ...                                          *)
TextRaisesLess(i) == "fields" \in i.marks \/ (Handled(i) /\ i.parts = "bad")

(* ... a value that is no number counts as a small one, ...                *)
ChildRaisesLess(i) == i.name # "other" /\ i.info = "none"

(* ... a new sample replaces the maximum, ...                              *)
SampledLast(i) ==
    [k \in DOMAIN jobs \cup {i.job} |->
        IF k = i.job THEN [age |-> i.age, max_mem |-> i.what] ELSE jobs[k]]

(* ... and no entry is ever deleted.                                       *)
CleanedNever == jobs

(* JSON.parse() raises for a text that is not JSON; v.strip! raises for a  *)
(* part with no value.  A name that the branch has not taken off is such a *)
(* part, unless a blank makes it one with the first pair.                  *)
TextRaises(i) ==
    \/ "fields" \in i.marks
    \/ Handled(i) /\ i.parts = "bad"
    \/ Handled(i) /\ ~Untitled(i) /\ (i.sep = "," \/ i.parts = "none")

(* What a child becomes.  Its jobinfo tag is used before it is known to be *)
(* there.                                                                  *)
ChildRaises(i) ==
    /\ i.name # "other"
    /\ i.info = "none" \/ (i.name = "mem" /\ i.info = "job" /\ i.what = -1)

ChildMetrics(i) ==
    LET M(name) == [metric |-> name, flag |-> i.flag]
        marker ==
            CASE i.what = "heartbeat" -> <<M("heartbeat")>>
              [] i.what \in {"jobstart", "jobend"} -> <<M("job_state")>>
              [] i.what = "jobduration" -> <<M("job_duration")>>
              [] i.what = "mesh" /\ i.flag -> <<M("mesh_info")>>
              [] i.what = "zones" /\ i.flag -> <<M("zones")>>
              [] OTHER -> <<Metric("")>>
    IN  IF i.info # "job" THEN <<>> ELSE
        CASE i.name = "other" -> <<>>
          [] i.name = "infiniband" -> <<M("infiniband_errors"), M("infiniband_metrics")>>
          [] i.name = "cpu" -> <<M("cpu_usage")>>
          [] i.name = "mem" -> <<M("mem_usage")>>
          [] i.name = "temp" -> <<M("temp")>>
          [] i.name = "daap" -> marker
          [] i.name = "snap_pavilion_parser" ->
               IF i.what = "daap_pavilion_parser" THEN <<Metric("snap_pavilion_parser")>> ELSE <<>>
          [] i.name = "pre_team_pavilion_parser" -> <<Metric("pre_team")>>
          [] i.name = "pre_team_pavilion_hpl_parser" -> <<Metric("pre_team_hpl")>>

Raises(i) == IF IsText(i) THEN TextRaises(i) ELSE ChildRaises(i)
MetricsOf(i) == IF IsText(i) THEN TextMetrics(i) ELSE ChildMetrics(i)

(* @jobs after a sample of used_percent.                                   *)
Sampled(i) ==
    LET max_mem == IF i.job \in DOMAIN jobs THEN jobs[i.job].max_mem ELSE 0
        entry == [age |-> i.age, max_mem |-> IF i.what > max_mem THEN i.what ELSE max_mem]
    IN  [k \in DOMAIN jobs \cup {i.job} |-> IF k = i.job THEN entry ELSE jobs[k]]

(* @jobs after the entries older than max_age are deleted.                 *)
Cleaned == [k \in {k \in DOMAIN jobs : jobs[k].age <= MaxAge} |-> jobs[k]]

-----------------------------------------------------------------------------
(* Faulty variants: the exception is caught and the rest is sent, ...      *)
RaiseRescued ==
    /\ phase = "running" /\ todo # <<>>
    /\ Raises(Head(todo))
    /\ todo' = Tail(todo)
    /\ UNCHANGED <<batch, metrics, jobs, out, phase, taken>>

(* ... and the general rule for flag jobs comes first.                     *)
RouteFlagFirst(m) ==
    IF m.flag THEN "flag_daap"
    ELSE IF m.metric = "mem_usage" THEN "memory" ELSE m.metric

-----------------------------------------------------------------------------
(* Fluentd calls process().                                                *)
process ==
    /\ phase = "idle"
    /\ \E n \in 1 .. MaxBatch : \E b \in [1 .. n -> Items] : batch' = b /\ todo' = b
    /\ phase' = "running"
    /\ UNCHANGED <<metrics, jobs, out, taken>>

(* One item that is skipped or pushed.                                     *)
Push ==
    /\ phase = "running" /\ todo # <<>>
    /\ ~Raises(Head(todo)) /\ ~IsMem(Head(todo))
    /\ metrics' = metrics \o MetricsOf(Head(todo))
    /\ todo' = Tail(todo)
    /\ UNCHANGED <<batch, jobs, out, phase, taken>>

(* A sample of a job's memory also updates its entry.                      *)
PushMem ==
    /\ phase = "running" /\ todo # <<>>
    /\ ~Raises(Head(todo)) /\ IsMem(Head(todo))
    /\ metrics' = metrics \o MetricsOf(Head(todo))
    /\ jobs' = Sampled(Head(todo))
    /\ taken' = [taken EXCEPT ![Head(todo).job] = @ \cup {Head(todo).what}]
    /\ todo' = Tail(todo)
    /\ UNCHANGED <<batch, out, phase>>

(* An exception: what was gathered is lost, what was sampled is not.  A    *)
(* new entry is made before the sample is compared.                        *)
Raise ==
    /\ phase = "running" /\ todo # <<>>
    /\ Raises(Head(todo))
    /\ jobs' = IF IsMem(Head(todo)) /\ Head(todo).job \notin DOMAIN jobs
                 THEN Sampled([Head(todo) EXCEPT !.what = 0]) ELSE jobs
    /\ todo' = <<>> /\ metrics' = <<>>
    /\ phase' = "returned"
    /\ UNCHANGED <<batch, out, taken>>

(* Nothing to send: return, without a look at @jobs.                       *)
ReturnEarly ==
    /\ phase = "running" /\ todo = <<>> /\ metrics = <<>>
    /\ phase' = "returned"
    /\ UNCHANGED <<batch, todo, metrics, jobs, out, taken>>

(* Emit all metrics as one stream, then clean @jobs.                       *)
Emit ==
    /\ phase = "running" /\ todo = <<>> /\ metrics # <<>>
    /\ out' = metrics
    /\ metrics' = <<>>
    /\ jobs' = Cleaned
    /\ taken' = [k \in Jobs |-> IF k \in DOMAIN jobs' THEN taken[k] ELSE {}]
    /\ phase' = "returned"
    /\ UNCHANGED <<batch, todo>>

(* The call is over; nothing of it is kept but @jobs.                      *)
Return ==
    /\ phase = "returned"
    /\ phase' = "idle"
    /\ batch' = <<>> /\ out' = <<>>
    /\ UNCHANGED <<todo, metrics, jobs, taken>>

(* Time passes.  Entries older than MaxAge are alike.                      *)
Tick ==
    /\ jobs' = [k \in DOMAIN jobs |->
         [jobs[k] EXCEPT !.age = IF @ > MaxAge THEN @ ELSE @ + 1]]
    /\ UNCHANGED <<batch, todo, metrics, out, phase, taken>>

Next == process \/ Push \/ PushMem \/ Raise \/ ReturnEarly \/ Emit \/ Return \/ Tick

Spec == Init /\ [][Next]_vars
FairSpec == Spec /\ WF_vars(Tick)

-----------------------------------------------------------------------------
(* appdata-sn.conf, the rules of daap_parsed that send a metric on under   *)
(* another tag: the first that matches decides.  A record with no metric   *)
(* matches none.                                                           *)
Renamed == [cpu_usage |-> "acceptance.general.cpu", mem_usage |-> "memory",
            infiniband_errors |-> "acceptance.infiniband.errors",
            infiniband_metrics |-> "acceptance.infiniband.metrics",
            heartbeat |-> "heartbeat", job_state |-> "acceptance_job_state",
            temp |-> "acceptance.temp",
            snap_pavilion_parser |-> "acceptance_pavilion.snap_pavilion_run",
            job_duration |-> "acceptance_job_duration",
            pre_team |-> "pre_team.job", pre_team_hpl |-> "pre_team.hpl", jayenne |-> "jayenne_metrics"]
SameName == {"xrage_metrics", "sap_metrics", "lap_metrics", "ristra_metrics",
             "xrage_caliper_metrics", "sap_caliper_metrics", "lap_caliper_metrics"}

Route(m) ==
    CASE m.metric = "" -> "none"
      [] m.metric # "" /\ m.flag ->
           IF m.metric = "job_duration" THEN "flag_duration" ELSE "flag_daap"
      [] ~m.flag /\ m.metric \in DOMAIN Renamed -> Renamed[m.metric]
      [] ~m.flag /\ m.metric \in SameName -> m.metric
      [] OTHER -> "null"

(* The stores of appdata-sn.conf that are named after a code's metric.     *)
CodeStores == SameName \cup {"jayenne_metrics"}

-----------------------------------------------------------------------------
TypeOK ==
    /\ batch \in Seq(Items) /\ todo \in Seq(Items)
    /\ metrics \in Seq([metric : MetricNames, flag : BOOLEAN])
    /\ out \in Seq([metric : MetricNames, flag : BOOLEAN])
    /\ DOMAIN jobs \subseteq Jobs
    /\ \A k \in DOMAIN jobs : jobs[k].age \in Nat /\ jobs[k].max_mem \in Nat
    /\ phase \in {"idle", "running", "returned"}
    /\ taken \in [Jobs -> SUBSET Nat]

(* A call of process() emits the metrics of all items of its batch, in     *)
(* their order and once each, or nothing at all, and nothing only if one   *)
(* of them raises or none of them has a metric (out_daap.rb:62-678): of    *)
(* the many ways to the next item none loses or repeats a neighbour, and   *)
(* nothing of an earlier call, whatever became of it, comes with it.       *)
EmitsWholeBatches ==
    phase = "returned" =>
        out = IF \E i \in ToSet(batch) : Raises(i)
              THEN <<>> ELSE FlattenSeq([n \in DOMAIN batch |-> MetricsOf(batch[n])])

(* A text that mentions another code is not filed under that code, though  *)
(* the branches look for their markers anywhere in it                      *)
(* (out_daap.rb:72-284).  Every metric of a code comes from a text that    *)
(* starts like the texts of that code, unless a text says so itself, with  *)
(* a part called metric, or mentions the code and starts with a name that  *)
(* a blank hides.                                                          *)
NoTextUnderAnotherCode ==
    \A c \in ToSet(Branches) \ {"caliper"} :
        Metric(CodeMetric(c)) \in ToSet(out) =>
            \E i \in ToSet(batch) : IsText(i) /\
                \/ Titled(i, c)
                \/ i.own = CodeMetric(c)
                \/ c \in i.marks /\ i.sep = " "

(* max_mem of an entry is the largest sample since the entry was made,     *)
(* whatever other jobs, exceptions and expiries came in between            *)
(* (out_daap.rb:607-619, 680-686).                                         *)
MaxIsMax ==
    \A k \in DOMAIN jobs :
        /\ jobs[k].max_mem \in taken[k] \cup {0}
        /\ \A v \in taken[k] : v <= jobs[k].max_mem

(* While metrics keep being emitted, a job that sends no more samples is   *)
(* forgotten: @jobs does not grow with every job ever seen.  Batches with  *)
(* nothing to emit return before the expiry (out_daap.rb:659), so they do  *)
(* not count.                                                              *)
SilentJobsForgotten ==
    []<><<Emit>>_vars =>
        \A k \in Jobs :
            \/ []<>(k \notin DOMAIN jobs)
            \/ []<>(\E i \in ToSet(batch) : IsMem(i) /\ i.job = k)

(* Every metric made from a Telegraf child is routed to a store, and the   *)
(* durations of flag jobs to their own, though a more general rule matches *)
(* them too (appdata-sn.conf:40-62).                                       *)
TelegrafMetricsArrive ==
    \A i \in ToSet(batch) : ~IsText(i) =>
        \A m \in ToSet(out) \cap ToSet(ChildMetrics(i)) : m.metric # "" =>
            /\ Route(m) # "null"
            /\ i.name = "daap" /\ i.what = "jobduration" /\ i.flag => Route(m) = "flag_duration"

(* appdata-sn.conf:58 and the store of the same name: "rewriterule19       *)
(* metric ^jayenne$ jayenne_metrics".  A metric that has a store of its    *)
(* own name is routed to it.                                               *)
CodeMetricsReachTheirStores ==
    \A m \in ToSet(out) : m.metric \in CodeStores => Route(m) = m.metric
=============================================================================
