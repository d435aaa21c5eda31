\* Three leaders, any delivery order, any start: the barrier and its refinement, the pipeline, and progress.
CONSTANTS
    s1 = s1
    s2 = s2
    s3 = s3
    NoCSM = NoCSM
    Shard <- ThreeShards
    MaxView = 9
    StartSkewBounded = FALSE
SPECIFICATION FairSpec
INVARIANTS LockStepInv ViewSkew PipelineRounds NoCrash
PROPERTIES FinishedKept HashChain RefinesLockStep AllReachLastView
CHECK_DEADLOCK FALSE
