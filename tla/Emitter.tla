------------------------------- MODULE Emitter -------------------------------
(***************************************************************************)
(* The event emitter's admission controller of go-opera's emitter package *)
(* (src/unnamed/part_001, package emitter): the progress metric helpers    *)
(* scalarUpdMetric, updMetric, kickStartMetric and eventMetric, the        *)
(* decision isAllowedToEmit, the idle-time bookkeeping recheckIdleTime,    *)
(* and the emitter state they read and write.                              *)
(*                                                                         *)
(* Time is a bounded integer clock (nanoseconds, scaled); an event's       *)
(* creation time is the clock at the attempt.  The world around the       *)
(* emitter (new blocks, peers' progress, the tx pool, epoch changes with   *)
(* new rules) moves by actions of its own.  Every attempt is recorded in   *)
(* 'last' so that properties can talk about what the decision saw.        *)
(***************************************************************************)
EXTENDS Integers

CONSTANTS
    DecimalUnit,          \* piecefunc.DecimalUnit
    MetricModulus,        \* 2^64: ancestor.Metric is a uint64
    BlockModulus,         \* 2^64: idx.Block is a uint64
    ScalarUpdMetricF(_),  \* the piecewise function scalarUpdMetricF (lachesis-base)
    EventMetricF(_),      \* the piecewise function eventMetricF (lachesis-base)
    Validators,           \* the epoch's validator IDs
    Weight,               \* pos.Validators: ID -> stake
    TotalWeight,          \* validators.TotalWeight()
    Self,                 \* em.config.Validator.ID
    IntervalMin, IntervalConfirming, IntervalMax,  \* em.intervals
    EmergencyThreshold, NoTxsThreshold,            \* em.config thresholds
    SlackValues,          \* values of rules.Economy.BlockMissedSlack over epochs
    GasValues,            \* values of e.GasPowerLeft().Min() of a candidate
    NoParent,             \* selfParent == nil
    TickSize,             \* how far one clock step moves
    MaxTime, MaxBlock, MaxSeq  \* bounds on the clock, block index and seq

ASSUME ConstAssumption ==
    /\ DecimalUnit \in Nat /\ DecimalUnit > 0 /\ DecimalUnit % 100 = 0
    /\ MetricModulus \in Nat /\ MetricModulus > 2 * DecimalUnit
    /\ BlockModulus \in Nat /\ BlockModulus > 4 * MaxBlock + 10
    /\ MaxSeq \in Nat /\ MaxTime \in Nat /\ MaxBlock \in Nat
    /\ \A x \in 0..(MaxSeq * DecimalUnit) :
          /\ ScalarUpdMetricF(x) \in 0..DecimalUnit
          /\ \A y \in 0..x : ScalarUpdMetricF(y) <= ScalarUpdMetricF(x)
    /\ \A x \in 0..DecimalUnit : EventMetricF(x) \in 0..DecimalUnit
    /\ Weight \in [Validators -> Nat] /\ Self \in Validators
    /\ TotalWeight \in Nat /\ TotalWeight > 0
    /\ \A v \in Validators : Weight[v] <= TotalWeight
    /\ IntervalMin \in Nat /\ IntervalConfirming \in Nat /\ IntervalMax \in Nat
    /\ EmergencyThreshold \in Nat /\ NoTxsThreshold \in Nat
    /\ (NoTxsThreshold + EmergencyThreshold) \div 2 > 0
    /\ SlackValues \subseteq 0..(BlockModulus - 1) /\ SlackValues # {}
    /\ GasValues \subseteq Nat /\ GasValues # {}
    /\ NoParent \notin Nat
    /\ TickSize \in Nat /\ TickSize > 0

VARIABLES
    now,                \* wall clock; creation time of the next candidate
    latestBlock,        \* em.world.GetLatestBlockIndex()
    slack,              \* em.world.GetRules().Economy.BlockMissedSlack
    idle,               \* em.idle(): no originated txs awaiting confirmation
    median,             \* median of the validators' observed seqs
    seq,                \* seq of this validator's last own event (0: none)
    parentGas,          \* GasPowerLeft().Min() of the self-parent, or NoParent
    prevEmittedAtTime,  \* em.prevEmittedAtTime
    prevIdleTime,       \* em.prevIdleTime
    prevEmittedAtBlock, \* em.prevEmittedAtBlock
    last                \* what the last isAllowedToEmit call saw and returned

vars == <<now, latestBlock, slack, idle, median, seq, parentGas,
          prevEmittedAtTime, prevIdleTime, prevEmittedAtBlock, last>>

NoAttempt == [allowed |-> TRUE, emergency |-> FALSE]

-----------------------------------------------------------------------------
(* Progress metric (lines 520-548).                                         *)

\* scalarUpdMetric: piecefunc of the scaled seq distance, times the stake share
scalarUpdMetric(diff, weight, totalWeight) ==
    (ScalarUpdMetricF(diff * DecimalUnit) * weight) \div totalWeight

\* mutant of updMetric: the early return tests only the median
updMetricNoCurGuard(median_, cur, upd, weight, totalWeight) ==
    IF upd <= median_ THEN 0
    ELSE IF median_ < cur
         THEN (scalarUpdMetric(upd - median_, weight, totalWeight)
                 - scalarUpdMetric(cur - median_, weight, totalWeight)) % MetricModulus
         ELSE scalarUpdMetric(upd - median_, weight, totalWeight)

\* updMetric: the marginal gain of raising a validator's seq from cur to upd;
\* the subtraction is on uint64 and wraps modulo 2^64
updMetric(median_, cur, upd, weight, totalWeight) ==
    IF upd <= median_ \/ upd <= cur THEN 0
    ELSE IF median_ < cur
         THEN (scalarUpdMetric(upd - median_, weight, totalWeight)
                 - scalarUpdMetric(cur - median_, weight, totalWeight)) % MetricModulus
         ELSE scalarUpdMetric(upd - median_, weight, totalWeight)

\* mutant of kickStartMetric: the second boost tests the first threshold
kickStartMetricLoose(metric, s) ==
    LET m1 == IF s <= 2 /\ metric < (9 * DecimalUnit) \div 10
              THEN metric + DecimalUnit \div 10 ELSE metric
    IN  IF s <= 1 /\ m1 < (9 * DecimalUnit) \div 10
        THEN m1 + (2 * DecimalUnit) \div 10 ELSE m1

\* kickStartMetric: the boosts applied to the first two events of an epoch
kickStartMetric(metric, s) ==
    LET m1 == IF s <= 2 /\ metric < (9 * DecimalUnit) \div 10
              THEN metric + DecimalUnit \div 10 ELSE metric
    IN  IF s <= 1 /\ m1 <= (8 * DecimalUnit) \div 10
        THEN m1 + (2 * DecimalUnit) \div 10 ELSE m1

eventMetric(orig, s) == kickStartMetric(EventMetricF(orig), s)

\* em.stakeRatio, set on each epoch: stake * DecimalUnit / totalWeight
stakeRatio == [v \in Validators |-> (Weight[v] * DecimalUnit) \div TotalWeight]

-----------------------------------------------------------------------------
(* isAllowedToEmit (lines 570-677), split into the quantities it derives   *)
(* and the branches it takes, in the code's order.                         *)

Clamp(d) == IF d < 0 THEN 0 ELSE d

\* passedTimeIdle after the stake-tier blending and the clamp (lines 595-604)
BlendIdle(passedTimeIdle, passedTime, ratio) ==
    LET b == IF ratio < (35 * DecimalUnit) \div 100 THEN passedTime
             ELSE IF ratio < (70 * DecimalUnit) \div 100
                  THEN (passedTimeIdle + passedTime) \div 2
                  ELSE passedTimeIdle
    IN  IF b > passedTime THEN passedTime ELSE b

\* maxBlocks of the liveness override (lines 621-624), uint64 arithmetic
MaxBlocks(slack_) ==
    LET m0 == slack_ \div 2 + 1
        low == (slack_ - 5) % BlockModulus
    IN  IF slack_ > m0 /\ m0 < low THEN low ELSE m0

\* the emergency defer (lines 606-617): low power and falling below the self-parent
EmergencyDefer(g) ==
    /\ g <= EmergencyThreshold
    /\ parentGas # NoParent
    /\ g < parentGas

\* the liveness override (lines 619-630)
LivenessOverride(passedTime, passedBlocks, maxBlocks, metric) ==
    \/ passedTime >= IntervalMax
    \/ /\ passedBlocks >= ((maxBlocks * 4) % BlockModulus) \div 5
       /\ metric >= DecimalUnit \div 2
    \/ passedBlocks >= maxBlocks

\* the low-power slowdown (lines 632-644):
\* passedTime < Duration(maxT - (maxT-minT)*gas/threshold), truncated
LowPowerWait(passedTime, g) ==
    LET threshold == (NoTxsThreshold + EmergencyThreshold) \div 2
    IN  /\ g <= threshold
        /\ (passedTime + 1) * threshold
             <= IntervalMax * threshold - (IntervalMax - IntervalMin) * g

\* the no-txs slowdown (lines 646-652)
NoTxsWait(passedTime, eTxs) == passedTime < IntervalMax /\ idle /\ ~eTxs

\* the efficiency-metric throttle (lines 654-667)
MetricWait(passedTime, adjustedPassedTime, adjustedPassedIdleTime, eTxs) ==
    \/ passedTime < IntervalMin
    \/ adjustedPassedTime < IntervalMin /\ ~idle
    \/ adjustedPassedIdleTime < IntervalConfirming /\ ~idle /\ ~eTxs

\* mutant of IsAllowedToEmit: the no-txs slowdown defers, as upstream go-opera
IsAllowedToEmitNoTxsDefers(supermajority, emergency, liveness, lowPower, noTxs, byMetric, passedTime) ==
    IF supermajority
    THEN IF emergency THEN FALSE
         ELSE IF liveness THEN TRUE
         ELSE IF lowPower THEN TRUE
         ELSE IF noTxs THEN FALSE
         ELSE IF byMetric THEN TRUE
         ELSE TRUE
    ELSE passedTime >= IntervalMax

\* the value isAllowedToEmit returns, branch by branch in the code's order;
\* supermajority is forced to TRUE (lines 585-592), so the else is dead
IsAllowedToEmit(supermajority, emergency, liveness, lowPower, noTxs, byMetric, passedTime) ==
    IF supermajority
    THEN IF emergency THEN FALSE
         ELSE IF liveness THEN TRUE
         ELSE IF lowPower THEN TRUE
         ELSE IF noTxs THEN TRUE
         ELSE IF byMetric THEN TRUE
         ELSE TRUE
    ELSE passedTime >= IntervalMax

\* one call of isAllowedToEmit (lines 570-677) for a candidate with gas g,
\* eTxs and metric: what it derives and what it returns
Decide(g, eTxs, metric) ==
    LET passedTime == Clamp(now - prevEmittedAtTime)
        passedTimeIdle == Clamp(now - prevIdleTime)
        adjustedPassedTime == (passedTime \div DecimalUnit) * metric
        adjustedPassedIdleTime == (passedTimeIdle \div DecimalUnit) * metric
        passedBlocks == (latestBlock - prevEmittedAtBlock) % BlockModulus
        \* blended but never read again: the adjusted times are taken before
        blended == BlendIdle(passedTimeIdle, passedTime, stakeRatio[Self])
        maxBlocks == MaxBlocks(slack)
        emergency == EmergencyDefer(g)
        liveness == LivenessOverride(passedTime, passedBlocks, maxBlocks, metric)
    IN  [slack |-> slack, passedTime |-> passedTime, passedBlocks |-> passedBlocks,
         maxBlocks |-> maxBlocks, metric |-> metric, emergency |-> emergency,
         liveness |-> liveness,
         allowed |-> IsAllowedToEmit(TRUE, emergency, liveness,
                                     LowPowerWait(passedTime, g),
                                     NoTxsWait(passedTime, eTxs),
                                     MetricWait(passedTime, adjustedPassedTime,
                                                adjustedPassedIdleTime, eTxs),
                                     passedTime)]

\* the metric of this validator's next event: its own term of the quorum
\* metric (updMetric from seq to seq+1 against the median), then eventMetric
CandidateMetric ==
    eventMetric(updMetric(median, seq, seq + 1, Weight[Self], TotalWeight), seq + 1)

-----------------------------------------------------------------------------
(* Actions of the emitter.                                                  *)

\* An attempt to emit: isAllowedToEmit, then (when allowed) the emission
\* commit, which records the time, the block and the new self-parent.
TryEmit ==
    /\ seq < MaxSeq
    /\ \E g \in GasValues, eTxs \in BOOLEAN :
         LET d == Decide(g, eTxs, CandidateMetric)
         IN  /\ last' = d
             /\ IF d.allowed
                THEN /\ prevEmittedAtTime' = now
                     /\ prevEmittedAtBlock' = latestBlock
                     /\ parentGas' = g
                     /\ seq' = seq + 1
                ELSE UNCHANGED <<prevEmittedAtTime, prevEmittedAtBlock, parentGas, seq>>
    /\ UNCHANGED <<now, latestBlock, slack, idle, median, prevIdleTime>>

\* recheckIdleTime: under the world lock, an idle emitter restarts its idle time
RecheckIdleTime ==
    /\ idle
    /\ prevIdleTime' = now
    /\ UNCHANGED <<now, latestBlock, slack, idle, median, seq, parentGas,
                   prevEmittedAtTime, prevEmittedAtBlock, last>>

-----------------------------------------------------------------------------
(* The environment.                                                         *)

\* the wall clock moves forward, or is set back (NTP adjustment)
ClockForward ==
    /\ now + TickSize <= MaxTime
    /\ now' = now + TickSize
    /\ UNCHANGED <<latestBlock, slack, idle, median, seq, parentGas,
                   prevEmittedAtTime, prevIdleTime, prevEmittedAtBlock, last>>

ClockBack ==
    /\ now >= TickSize
    /\ now' = now - TickSize
    /\ UNCHANGED <<latestBlock, slack, idle, median, seq, parentGas,
                   prevEmittedAtTime, prevIdleTime, prevEmittedAtBlock, last>>

\* consensus finalises a block
NewBlock ==
    /\ latestBlock < MaxBlock
    /\ latestBlock' = latestBlock + 1
    /\ UNCHANGED <<now, slack, idle, median, seq, parentGas,
                   prevEmittedAtTime, prevIdleTime, prevEmittedAtBlock, last>>

\* peers' events raise the median observed seq
PeerProgress ==
    /\ median < MaxSeq
    /\ median' = median + 1
    /\ UNCHANGED <<now, latestBlock, slack, idle, seq, parentGas,
                   prevEmittedAtTime, prevIdleTime, prevEmittedAtBlock, last>>

\* txs are originated or confirmed: the emitter leaves or enters idleness
ToggleIdle ==
    /\ idle' = ~idle
    /\ UNCHANGED <<now, latestBlock, slack, median, seq, parentGas,
                   prevEmittedAtTime, prevIdleTime, prevEmittedAtBlock, last>>

\* a new epoch: new rules, seqs restart and the next event has no self-parent
NewEpoch ==
    /\ \E s \in SlackValues : slack' = s
    /\ seq' = 0
    /\ median' = 0
    /\ parentGas' = NoParent
    /\ UNCHANGED <<now, latestBlock, idle, prevEmittedAtTime, prevIdleTime,
                   prevEmittedAtBlock, last>>

Init ==
    /\ now = 0
    /\ latestBlock = 0
    /\ slack \in SlackValues
    /\ idle = TRUE
    /\ median = 0
    /\ seq = 0
    /\ parentGas = NoParent
    /\ prevEmittedAtTime = 0
    /\ prevIdleTime = 0
    /\ prevEmittedAtBlock = 0
    /\ last = NoAttempt

Next ==
    \/ TryEmit
    \/ RecheckIdleTime
    \/ ClockForward
    \/ ClockBack
    \/ NewBlock
    \/ PeerProgress
    \/ ToggleIdle
    \/ NewEpoch

Spec == Init /\ [][Next]_vars

-----------------------------------------------------------------------------
(* Properties.                                                              *)

\* The values a call of isAllowedToEmit derives and returns.
Decision ==
    [slack : SlackValues, passedTime : Nat, passedBlocks : Nat,
     maxBlocks : Nat, metric : 0..DecimalUnit, emergency : BOOLEAN,
     liveness : BOOLEAN, allowed : BOOLEAN]

\* The type of every variable.
TypeOK ==
    /\ now \in 0..MaxTime
    /\ latestBlock \in 0..MaxBlock
    /\ slack \in SlackValues
    /\ idle \in BOOLEAN
    /\ median \in 0..MaxSeq
    /\ seq \in 0..MaxSeq
    /\ parentGas \in GasValues \cup {NoParent}
    /\ prevEmittedAtTime \in 0..MaxTime
    /\ prevIdleTime \in 0..MaxTime
    /\ prevEmittedAtBlock \in 0..MaxBlock
    /\ last \in Decision \cup {NoAttempt}

\* In this build isAllowedToEmit defers exactly when the emergency check
\* fires: every slowdown branch (low power, no txs, efficiency metric) returns
\* true, so no other state of the emitter can hold an event back.
DecisionOnlyEmergencyDefers == last.allowed = ~last.emergency

\* updMetric, called with the median and seq the emitter has reached, for
\* every candidate seq and every weight share the quorum indexer can pass,
\* returns a metric in [0, DecimalUnit]: its uint64 subtraction never wraps.
UpdMetricBounded ==
    \A u \in 0..MaxSeq, w \in 0..TotalWeight :
        updMetric(median, seq, u, w, TotalWeight) \in 0..DecimalUnit

\* Spec section 8: at the median and seq of every reachable state and for
\* every weight share, updMetric (lines 524-533) is non-decreasing in the
\* candidate's seq: a larger seq never yields a smaller marginal gain, not
\* below the early-return guard, nor through a wrapped uint64 subtraction.
UpdMetricMonotoneInSeq ==
    \A u1, u2 \in 0..MaxSeq, w \in 0..TotalWeight :
        u1 <= u2 => updMetric(median, seq, u1, w, TotalWeight)
                    <= updMetric(median, seq, u2, w, TotalWeight)

\* eventMetric at the seq the emitter has reached (in particular the
\* kick-started first two of an epoch) maps every metric in range into range.
EventMetricBounded ==
    \A orig \in 0..DecimalUnit : eventMetric(orig, seq) \in 0..DecimalUnit

\* Spec section 8: at the median and seq the emitter has reached, the metric
\* of its next event is non-decreasing in the validator's weight.
UpdMetricMonotoneInWeight ==
    \A w1, w2 \in 0..TotalWeight :
        w1 <= w2 => updMetric(median, seq, seq + 1, w1, TotalWeight)
                      <= updMetric(median, seq, seq + 1, w2, TotalWeight)

\* Spec section 4.3, step 7: an event is not emitted sooner than
\* intervals.Min after the previous one, unless the liveness override fires.
MinIntervalRespected ==
    [][seq' = seq + 1 => last'.passedTime >= IntervalMin \/ last'.liveness]_vars

\* Spec section 4.3, step 4: the block-count trigger of the liveness
\* override is bounded by the slack window: maxBlocks never exceeds
\* BlockMissedSlack (or 1, when the slack is 0).
MaxBlocksWithinSlack ==
    "maxBlocks" \in DOMAIN last =>
        last.maxBlocks <= IF last.slack >= 1 THEN last.slack ELSE 1

=============================================================================
