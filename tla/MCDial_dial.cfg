SPECIFICATION DialFairSpec
CONSTANTS
    Records <- SomeRecords
INVARIANTS
    DialTypeOK
    BestAddressFirst
    FallbackUnlessRefused
    PasswordOnlyToVerified
PROPERTIES
    AddressPhaseEnds
CHECK_DEADLOCK FALSE
