SPECIFICATION FairSpec
CONSTANTS
    COUNT = 2
    MaxLate = 2
CHECK_DEADLOCK FALSE
INVARIANT InStep
INVARIANT SampleOfRun
INVARIANT TornDown
PROPERTY BenchEnds
