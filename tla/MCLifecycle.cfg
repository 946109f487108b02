SPECIFICATION LifecycleSpec
INVARIANTS NoOrphans OfflineAtEnd
PROPERTY GatewayEnds
