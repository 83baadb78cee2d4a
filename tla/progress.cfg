SPECIFICATION ProgressFairSpec
CONSTANTS
    Job = {1, 2}
    NoJob = 0
    Size = 1
    report_period = 2
    MaxFailures = 1
INVARIANTS
    CountedOnce
    ReportsTruthful
PROPERTIES
    
    ReportsContinue
CHECK_DEADLOCK FALSE
