\* Expected to fail: the rule for jayenne in appdata-sn.conf.
CONSTANTS
    j1 = j1
    j2 = j2
    Jobs <- MCJobs
    Items <- MCItems
    MaxBatch = 1
    MaxAge = 1
SPECIFICATION Spec
INVARIANTS CodeMetricsReachTheirStores
