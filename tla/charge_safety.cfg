SPECIFICATION Spec
CONSTANTS
    Txs = {t1}
    ChargeIds = {1, 2}
    Workers = {r1, r2}
    Kinds <- ThreeKinds
    MaxOtps = 2
    MaxFaults = 1
    FaultKinds = {"error", "crash", "shutdown"}
SYMMETRY Symmetry
INVARIANTS
    TypeOK
    SingleSuccess
    SuccessIsPaid
    OpenTxHasOneCharge
    OtpInStep
    EventsAgree
    MomoServed
    ChannelFollowsCharge
PROPERTIES
    MomoUsesCurrentOtp
    StuckOnlyIfMissed
    KeepsPromise
CHECK_DEADLOCK FALSE
