\* Batches of one and two items; 30 minutes are one tick.
CONSTANTS
    j1 = j1
    j2 = j2
    Jobs <- MCJobs
    Items <- MCItems
    MaxBatch = 2
    MaxAge = 1
SPECIFICATION FairSpec
INVARIANTS TypeOK EmitsWholeBatches NoTextUnderAnotherCode MaxIsMax TelegrafMetricsArrive
PROPERTIES SilentJobsForgotten
