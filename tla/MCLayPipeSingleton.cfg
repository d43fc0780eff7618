\* Two traders and the owner; five LAYPIPE at two to the unit, one PipeDog per
\* transfer, two PIPEDOG of fees at a precision of two.
SPECIFICATION Spec
CONSTANTS
    h1 = h1
    h2 = h2
    InitialSupplyOwner = owner
    Launcher = launcher
    Hook = hook
    PoolManager = poolManager
    Router = router
    Accounts <- MCAccounts
    Recipients <- MCRecipients
    ACC_PRECISION = 2
    MaxUint64 = 100
    NFT_UNIT = 2
    INITIAL_SUPPLY = 5
    MAX_AUTOMATIC_NFT_DELTA = 1
    MaxLaunchDust = 1
    MaxFees = 2
SYMMETRY Symmetric
INVARIANTS
    UnitsMatchBalances
    VaultBacked
    CustodyHolds
PROPERTIES
    NewUnitsEarnNothing
