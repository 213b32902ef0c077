CONSTANTS
    Kp = 50
    Ki = 2
    Kd = 100
    DefaultLimit = 45
    FullFactor = 20
    Temperatures <- Readings
    CurrentCounts = {10}
    LimitCounts = {10}
    Failed = Failed
SPECIFICATION FairSpec
INVARIANT TypeOK
PROPERTIES RateLimited CriticalDrops HotSettles CoolRecovers
