SPECIFICATION FairSpec
CONSTANTS
    main = main  watch = watch  control = control  NoOne = NoOne
    Caller = {main, watch, control}
    Methods <- Goroutines
    MaxBackends = 2
    MaxPSK = 3
INVARIANT ClientInv
PROPERTIES NewestPSK Returns StatusAnswered
