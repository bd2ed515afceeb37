---------------------------- MODULE EmitterProofs ----------------------------
(***************************************************************************)
(* Proofs about the Emitter model, for every value of its constants that  *)
(* satisfies ConstAssumption:                                              *)
(*  - the metric handed to isAllowedToEmit lies in [0, DecimalUnit]        *)
(*    (updMetric's uint64 subtraction never wraps, kickStartMetric stays  *)
(*    within one unit), which is what makes TypeOK inductive;             *)
(*  - TypeOK is an invariant;                                              *)
(*  - isAllowedToEmit defers exactly when the emergency check fires;       *)
(*  - updMetric is non-decreasing in the candidate's seq (spec section 8). *)
(***************************************************************************)
EXTENDS Emitter, TLAPS

-----------------------------------------------------------------------------
(* Arithmetic lemmas.                                                       *)

\* Integer division by a positive divisor is monotone.
LEMMA DivMonotone ==
    ASSUME NEW x \in Nat, NEW y \in Nat, NEW d \in Nat \ {0}, x <= y
    PROVE  x \div d <= y \div d
  BY SMT

\* Scaling a bounded value by a share w/W, w <= W, does not increase it.
LEMMA ShareBounded ==
    ASSUME NEW a \in Nat, NEW w \in Nat, NEW d \in Nat \ {0}, w <= d
    PROVE  (a * w) \div d \in 0..a
  <1>1. a * w <= a * d
    BY SMT
  <1>2. (a * d) \div d = a
    BY SMT
  <1>3. (a * w) \div d <= (a * d) \div d
    BY <1>1, DivMonotone
  <1>4. (a * w) \div d >= 0
    BY SMT
  <1> QED
    BY <1>2, <1>3, <1>4

\* Scaling by the same share preserves the order of two values.
LEMMA ShareMonotone ==
    ASSUME NEW a \in Nat, NEW b \in Nat, NEW w \in Nat, NEW d \in Nat \ {0},
           b <= a
    PROVE  (b * w) \div d <= (a * w) \div d
  <1>1. b * w <= a * w
    BY SMT
  <1> QED
    BY <1>1, DivMonotone

-----------------------------------------------------------------------------
(* The metric.                                                              *)

\* scalarUpdMetric of a seq distance within the model's range, for a share
\* w/W of the stake, is a metric in [0, DecimalUnit].
LEMMA ScalarInRange ==
    ASSUME NEW diff \in 0..MaxSeq, NEW w \in 0..TotalWeight
    PROVE  scalarUpdMetric(diff, w, TotalWeight) \in 0..DecimalUnit
  <1> DEFINE X == ScalarUpdMetricF(diff * DecimalUnit)
  <1>1. diff * DecimalUnit \in 0..(MaxSeq * DecimalUnit)
    BY ConstAssumption, SMT
  <1>2. X \in 0..DecimalUnit
    BY <1>1, ConstAssumption
  <1> HIDE DEF X
  <1>3. TotalWeight \in Nat \ {0} /\ w \in Nat /\ w <= TotalWeight
    BY ConstAssumption
  <1>4. (X * w) \div TotalWeight \in 0..X
    BY <1>2, <1>3, ShareBounded
  <1>5. (X * w) \div TotalWeight \in 0..DecimalUnit
    BY <1>2, <1>4, ConstAssumption, SMT
  <1> QED
    BY <1>5 DEF scalarUpdMetric, X

\* scalarUpdMetric is monotone in the seq distance.
LEMMA ScalarMonotone ==
    ASSUME NEW d1 \in 0..MaxSeq, NEW d2 \in 0..MaxSeq, d1 <= d2,
           NEW w \in 0..TotalWeight
    PROVE  scalarUpdMetric(d1, w, TotalWeight) <= scalarUpdMetric(d2, w, TotalWeight)
  <1> DEFINE X1 == ScalarUpdMetricF(d1 * DecimalUnit)
             X2 == ScalarUpdMetricF(d2 * DecimalUnit)
  <1>1. /\ d1 * DecimalUnit \in 0..(d2 * DecimalUnit)
        /\ d2 * DecimalUnit \in 0..(MaxSeq * DecimalUnit)
    BY ConstAssumption, SMT
  <1>2. X1 <= X2 /\ X1 \in Nat /\ X2 \in Nat
    BY <1>1, ConstAssumption
  <1> HIDE DEF X1, X2
  <1>3. TotalWeight \in Nat \ {0} /\ w \in Nat
    BY ConstAssumption
  <1>4. (X1 * w) \div TotalWeight <= (X2 * w) \div TotalWeight
    BY <1>2, <1>3, ShareMonotone
  <1> QED
    BY <1>4 DEF scalarUpdMetric, X1, X2

\* updMetric for a raise of one validator's seq from cur to upd, all within
\* the model's range, is a metric in [0, DecimalUnit]: the uint64
\* subtraction does not wrap.
LEMMA UpdMetricInRange ==
    ASSUME NEW m \in 0..MaxSeq, NEW c \in 0..MaxSeq, NEW u \in 0..MaxSeq,
           NEW w \in 0..TotalWeight
    PROVE  updMetric(m, c, u, w, TotalWeight) \in 0..DecimalUnit
  <1>1. CASE u <= m \/ u <= c
    BY <1>1, ConstAssumption DEF updMetric
  <1>2. CASE ~(u <= m \/ u <= c) /\ m < c
    <2> DEFINE A == scalarUpdMetric(u - m, w, TotalWeight)
               B == scalarUpdMetric(c - m, w, TotalWeight)
    <2> HIDE DEF A, B
    <2>0. u - m \in 0..MaxSeq /\ c - m \in 0..MaxSeq /\ c - m <= u - m
      BY <1>2, ConstAssumption, SMT
    <2>1. A \in 0..DecimalUnit /\ B \in 0..DecimalUnit
      BY <2>0, ScalarInRange DEF A, B
    <2>2. B <= A
      BY <2>0, ScalarMonotone DEF A, B
    <2>3. (A - B) % MetricModulus = A - B
      BY <2>1, <2>2, ConstAssumption, SMT
    <2>4. updMetric(m, c, u, w, TotalWeight) = (A - B) % MetricModulus
      BY <1>2 DEF updMetric, A, B
    <2>5. A - B \in 0..DecimalUnit
      BY <2>1, <2>2, ConstAssumption, SMT
    <2> QED
      BY <2>3, <2>4, <2>5, Zenon
  <1>3. CASE ~(u <= m \/ u <= c) /\ ~(m < c)
    <2>1. updMetric(m, c, u, w, TotalWeight) = scalarUpdMetric(u - m, w, TotalWeight)
      BY <1>3 DEF updMetric
    <2>2. u - m \in 0..MaxSeq
      BY <1>3, ConstAssumption, SMT
    <2> QED
      BY <2>1, <2>2, ScalarInRange
  <1> QED
    BY <1>1, <1>2, <1>3

\* updMetric is non-decreasing in the candidate's seq: for u1 <= u2, either
\* u1 is cut off by the guard (metric 0), or both lie past it and take the
\* same branch, where scalarUpdMetric is monotone and nothing wraps.
LEMMA UpdMetricMonotone ==
    ASSUME NEW m \in 0..MaxSeq, NEW c \in 0..MaxSeq,
           NEW u1 \in 0..MaxSeq, NEW u2 \in 0..MaxSeq, u1 <= u2,
           NEW w \in 0..TotalWeight
    PROVE  updMetric(m, c, u1, w, TotalWeight) <= updMetric(m, c, u2, w, TotalWeight)
  <1>0. updMetric(m, c, u2, w, TotalWeight) \in 0..DecimalUnit
    BY UpdMetricInRange
  <1>1. CASE u1 <= m \/ u1 <= c
    <2>1. updMetric(m, c, u1, w, TotalWeight) = 0
      BY <1>1 DEF updMetric
    <2> QED
      BY <1>0, <2>1, SMT
  <1>2. CASE ~(u1 <= m \/ u1 <= c) /\ m < c
    <2> DEFINE A1 == scalarUpdMetric(u1 - m, w, TotalWeight)
               A2 == scalarUpdMetric(u2 - m, w, TotalWeight)
               B == scalarUpdMetric(c - m, w, TotalWeight)
    <2> HIDE DEF A1, A2, B
    <2>0. /\ u1 - m \in 0..MaxSeq /\ u2 - m \in 0..MaxSeq /\ c - m \in 0..MaxSeq
          /\ c - m <= u1 - m /\ u1 - m <= u2 - m
      BY <1>2, ConstAssumption, SMT
    <2>1. A1 \in 0..DecimalUnit /\ A2 \in 0..DecimalUnit /\ B \in 0..DecimalUnit
      BY <2>0, ScalarInRange DEF A1, A2, B
    <2>2. B <= A1 /\ A1 <= A2
      BY <2>0, ScalarMonotone DEF A1, A2, B
    <2>3. /\ updMetric(m, c, u1, w, TotalWeight) = (A1 - B) % MetricModulus
          /\ updMetric(m, c, u2, w, TotalWeight) = (A2 - B) % MetricModulus
      BY <1>2 DEF updMetric, A1, A2, B
    <2>4. (A1 - B) % MetricModulus <= (A2 - B) % MetricModulus
      BY <2>1, <2>2, ConstAssumption, SMT
    <2> QED
      BY <2>3, <2>4
  <1>3. CASE ~(u1 <= m \/ u1 <= c) /\ ~(m < c)
    <2>0. u1 - m \in 0..MaxSeq /\ u2 - m \in 0..MaxSeq /\ u1 - m <= u2 - m
      BY <1>3, ConstAssumption, SMT
    <2>1. /\ updMetric(m, c, u1, w, TotalWeight) = scalarUpdMetric(u1 - m, w, TotalWeight)
          /\ updMetric(m, c, u2, w, TotalWeight) = scalarUpdMetric(u2 - m, w, TotalWeight)
      BY <1>3 DEF updMetric
    <2> QED
      BY <2>0, <2>1, ScalarMonotone
  <1> QED
    BY <1>1, <1>2, <1>3

\* kickStartMetric keeps a metric in [0, DecimalUnit] within it.
LEMMA KickStartInRange ==
    ASSUME NEW x \in 0..DecimalUnit, NEW s \in Int
    PROVE  kickStartMetric(x, s) \in 0..DecimalUnit
  BY ConstAssumption, SMT DEF kickStartMetric

\* The metric of this validator's next event, while it can still emit, is in
\* [0, DecimalUnit].
LEMMA CandidateMetricInRange ==
    ASSUME TypeOK, seq < MaxSeq
    PROVE  CandidateMetric \in 0..DecimalUnit
  <1>1. seq + 1 \in 0..MaxSeq /\ Weight[Self] \in 0..TotalWeight
    BY ConstAssumption DEF TypeOK
  <1>2. updMetric(median, seq, seq + 1, Weight[Self], TotalWeight) \in 0..DecimalUnit
    BY <1>1, UpdMetricInRange DEF TypeOK
  <1>3. EventMetricF(updMetric(median, seq, seq + 1, Weight[Self], TotalWeight))
          \in 0..DecimalUnit
    BY <1>2, ConstAssumption
  <1>4. seq + 1 \in Int
    BY DEF TypeOK
  <1>5. kickStartMetric(EventMetricF(updMetric(median, seq, seq + 1, Weight[Self],
                                              TotalWeight)), seq + 1)
          \in 0..DecimalUnit
    BY <1>3, <1>4, KickStartInRange
  <1> QED
    BY <1>5 DEF CandidateMetric, eventMetric

-----------------------------------------------------------------------------
(* The decision.                                                            *)

\* A call of isAllowedToEmit records values of TypeOK's decision type.
LEMMA DecideType ==
    ASSUME TypeOK, NEW g \in GasValues, NEW eTxs \in BOOLEAN,
           NEW metric \in 0..DecimalUnit
    PROVE  Decide(g, eTxs, metric)
             \in Decision
  <1>1. Clamp(now - prevEmittedAtTime) \in Nat
    BY DEF TypeOK, Clamp
  <1>2. (latestBlock - prevEmittedAtBlock) % BlockModulus \in Nat
    BY ConstAssumption DEF TypeOK
  <1>3. MaxBlocks(slack) \in Nat
    BY ConstAssumption DEF TypeOK, MaxBlocks
  <1> QED
    BY <1>1, <1>2, <1>3 DEF Decide, TypeOK, EmergencyDefer, LivenessOverride,
                            IsAllowedToEmit, Decision

\* isAllowedToEmit, with the top-50 filter disabled, returns the negation
\* of the emergency check whatever the other branches compute.
LEMMA AllowedIffNotEmergency ==
    ASSUME NEW e \in BOOLEAN, NEW l, NEW lp, NEW nt, NEW bm, NEW pt
    PROVE  IsAllowedToEmit(TRUE, e, l, lp, nt, bm, pt) = ~e
  BY DEF IsAllowedToEmit

-----------------------------------------------------------------------------
(* Invariants.                                                              *)

\* TypeOK is an invariant of the emitter.
THEOREM TypeCorrect == Spec => []TypeOK
  <1>1. Init => TypeOK
    BY ConstAssumption DEF Init, TypeOK, NoAttempt
  <1>2. TypeOK /\ [Next]_vars => TypeOK'
    <2> SUFFICES ASSUME TypeOK, [Next]_vars PROVE TypeOK'
      OBVIOUS
    <2>1. CASE TryEmit
      <3>1. PICK g \in GasValues, eTxs \in BOOLEAN :
                 LET d == Decide(g, eTxs, CandidateMetric)
                 IN  /\ last' = d
                     /\ IF d.allowed
                        THEN /\ prevEmittedAtTime' = now
                             /\ prevEmittedAtBlock' = latestBlock
                             /\ parentGas' = g
                             /\ seq' = seq + 1
                        ELSE UNCHANGED <<prevEmittedAtTime, prevEmittedAtBlock,
                                         parentGas, seq>>
        BY <2>1 DEF TryEmit
      <3>2. CandidateMetric \in 0..DecimalUnit
        BY <2>1, CandidateMetricInRange DEF TryEmit
      <3>3. last' \in Decision
        BY <3>1, <3>2, DecideType
      <3>4. seq + 1 \in 0..MaxSeq
        BY <2>1, ConstAssumption DEF TryEmit, TypeOK
      <3> QED
        BY <2>1, <3>1, <3>3, <3>4 DEF TryEmit, TypeOK
    <2>2. CASE RecheckIdleTime
      BY <2>2 DEF RecheckIdleTime, TypeOK
    <2>3. CASE ClockForward
      BY <2>3, ConstAssumption DEF ClockForward, TypeOK
    <2>4. CASE ClockBack
      BY <2>4, ConstAssumption DEF ClockBack, TypeOK
    <2>5. CASE NewBlock
      BY <2>5, ConstAssumption DEF NewBlock, TypeOK
    <2>6. CASE PeerProgress
      BY <2>6, ConstAssumption DEF PeerProgress, TypeOK
    <2>7. CASE ToggleIdle
      BY <2>7 DEF ToggleIdle, TypeOK
    <2>8. CASE NewEpoch
      BY <2>8, ConstAssumption DEF NewEpoch, TypeOK
    <2>9. CASE UNCHANGED vars
      BY <2>9 DEF vars, TypeOK
    <2> QED
      BY <2>1, <2>2, <2>3, <2>4, <2>5, <2>6, <2>7, <2>8, <2>9 DEF Next
  <1> QED
    BY <1>1, <1>2, PTL DEF Spec

\* In this build isAllowedToEmit defers exactly when the emergency check
\* fires (DecisionOnlyEmergencyDefers): the invariant is inductive as it
\* stands, since every step either leaves 'last' alone or sets it to a
\* fresh decision.
THEOREM OnlyEmergencyDefers == Spec => []DecisionOnlyEmergencyDefers
  <1>1. Init => DecisionOnlyEmergencyDefers
    <2>1. NoAttempt.allowed = TRUE /\ NoAttempt.emergency = FALSE
      BY DEF NoAttempt
    <2> QED
      BY <2>1 DEF Init, DecisionOnlyEmergencyDefers
  <1>2. DecisionOnlyEmergencyDefers /\ [Next]_vars => DecisionOnlyEmergencyDefers'
    <2> SUFFICES ASSUME DecisionOnlyEmergencyDefers, [Next]_vars
                 PROVE  DecisionOnlyEmergencyDefers'
      OBVIOUS
    <2>1. CASE TryEmit
      <3>1. PICK g \in GasValues, eTxs \in BOOLEAN :
                 last' = Decide(g, eTxs, CandidateMetric)
        BY <2>1 DEF TryEmit
      <3>2. EmergencyDefer(g) \in BOOLEAN
        BY DEF EmergencyDefer
      <3> QED
        BY <3>1, <3>2, AllowedIffNotEmergency
        DEF Decide, DecisionOnlyEmergencyDefers
    <2>2. CASE ~TryEmit
      <3>1. last' = last
        BY <2>2 DEF Next, vars, RecheckIdleTime, ClockForward, ClockBack,
                    NewBlock, PeerProgress, ToggleIdle, NewEpoch
      <3> QED
        BY <3>1 DEF DecisionOnlyEmergencyDefers
    <2> QED
      BY <2>1, <2>2
  <1> QED
    BY <1>1, <1>2, PTL DEF Spec

\* updMetric never wraps its uint64 subtraction (UpdMetricBounded): at the
\* median and seq of every reachable state, for every candidate seq and
\* weight share, lines 524-533 return a metric in [0, DecimalUnit].
THEOREM UpdMetricNeverWraps == Spec => []UpdMetricBounded
  <1>1. TypeOK => UpdMetricBounded
    <2> SUFFICES ASSUME TypeOK, NEW u \in 0..MaxSeq, NEW w \in 0..TotalWeight
                 PROVE  updMetric(median, seq, u, w, TotalWeight) \in 0..DecimalUnit
      BY DEF UpdMetricBounded
    <2> QED
      BY UpdMetricInRange DEF TypeOK
  <1> QED
    BY <1>1, TypeCorrect, PTL

\* updMetric is non-decreasing in the candidate's seq (UpdMetricMonotoneInSeq,
\* spec section 8): at the median and seq of every reachable state, for every
\* weight share, lines 524-533 never give a larger seq a smaller gain.
THEOREM UpdMetricSeqMonotone == Spec => []UpdMetricMonotoneInSeq
  <1>1. TypeOK => UpdMetricMonotoneInSeq
    <2> SUFFICES ASSUME TypeOK, NEW u1 \in 0..MaxSeq, NEW u2 \in 0..MaxSeq,
                        NEW w \in 0..TotalWeight, u1 <= u2
                 PROVE  updMetric(median, seq, u1, w, TotalWeight)
                          <= updMetric(median, seq, u2, w, TotalWeight)
      BY DEF UpdMetricMonotoneInSeq
    <2> QED
      BY UpdMetricMonotone DEF TypeOK
  <1> QED
    BY <1>1, TypeCorrect, PTL

\* kickStartMetric never lifts a metric past one unit (EventMetricBounded):
\* at the seq of every reachable state, eventMetric (lines 535-548) maps
\* every metric in [0, DecimalUnit] into [0, DecimalUnit].
THEOREM EventMetricStaysInUnit == Spec => []EventMetricBounded
  <1>1. TypeOK => EventMetricBounded
    <2> SUFFICES ASSUME TypeOK, NEW orig \in 0..DecimalUnit
                 PROVE  eventMetric(orig, seq) \in 0..DecimalUnit
      BY DEF EventMetricBounded
    <2>1. EventMetricF(orig) \in 0..DecimalUnit
      BY ConstAssumption
    <2>2. seq \in Int
      BY DEF TypeOK
    <2> QED
      BY <2>1, <2>2, KickStartInRange DEF eventMetric
  <1> QED
    BY <1>1, TypeCorrect, PTL

=============================================================================
