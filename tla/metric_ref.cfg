\* The metric operators over every seq distance up to five units; the emitter
\* around them runs a five-event epoch on a one-tick clock.
CONSTANTS
    DecimalUnit <- MCDecimalUnit
    MetricModulus <- MCModulus
    BlockModulus <- MCModulus
    ScalarUpdMetricF <- MCScalarUpdMetricF
    EventMetricF <- MCEventMetricF
    Validators = {"v1", "v2"}
    Weight <- MCWeight
    TotalWeight <- MCTotalWeight
    Self = "v1"
    IntervalMin = 1000
    IntervalConfirming = 2000
    IntervalMax = 3000
    EmergencyThreshold = 2
    NoTxsThreshold = 4
    SlackValues = {10}
    GasValues = {5}
    NoParent = NoParent
    TickSize = 1000
    MaxTime = 1000
    MaxBlock = 0
    MaxSeq = 5
SPECIFICATION Spec
INVARIANT UpdMetricBounded EventMetricBounded UpdMetricMonotoneInSeq
