\* The emitter instance of emitter_safety, checked against the spec's throttle.
CONSTANTS
    DecimalUnit <- MCDecimalUnit
    MetricModulus <- MCModulus
    BlockModulus <- MCModulus
    ScalarUpdMetricF <- MCScalarUpdMetricF
    EventMetricF <- MCEventMetricF
    Validators = {"v1", "v2"}
    Weight <- MCWeight
    TotalWeight <- MCTotalWeight
    Self = "v1"
    IntervalMin = 1000
    IntervalConfirming = 2000
    IntervalMax = 3000
    EmergencyThreshold = 2
    NoTxsThreshold = 4
    SlackValues = {10}
    GasValues = {1, 2, 3}
    NoParent = NoParent
    TickSize = 1000
    MaxTime = 3000
    MaxBlock = 1
    MaxSeq = 3
SPECIFICATION Spec
PROPERTY MinIntervalRespected
