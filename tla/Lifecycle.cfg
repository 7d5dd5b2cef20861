SPECIFICATION FairSpec
INVARIANTS ScannerSafe AdvertisingEnds
PROPERTIES LastRound ShutdownCompletes
CHECK_DEADLOCK FALSE
