----------------------------- MODULE MC_Emitter -----------------------------
(***************************************************************************)
(* Instances of Emitter for TLC.  DecimalUnit is scaled down from 10^6 to  *)
(* 10^3 and the uint64 moduli from 2^64 to 2^20: every value the model     *)
(* computes without wrapping stays far below 2^20, and a wrapped value     *)
(* (a negative difference taken modulo 2^20) is still far above           *)
(* DecimalUnit and any block bound, exactly as with 2^64.                  *)
(***************************************************************************)
EXTENDS Emitter

MCDecimalUnit == 1000
MCModulus == 2^20

\* The dots of scalarUpdMetricF: seq distance 0..5 (in units) -> metric,
\* piecewise linear between them and saturated after the last one.
ScalarDots == <<0, 660, 800, 990, 999, 1000>>

MCScalarUpdMetricF(x) ==
    LET d == x \div MCDecimalUnit
        r == x % MCDecimalUnit
    IN  IF d >= 5 THEN ScalarDots[6]
        ELSE ScalarDots[d + 1]
               + ((ScalarDots[d + 2] - ScalarDots[d + 1]) * r) \div MCDecimalUnit

\* eventMetricF: a concave ramp through (0,0), (250,850) and (1000,1000),
\* saturated above one unit.
MCEventMetricF(x) ==
    IF x >= MCDecimalUnit THEN MCDecimalUnit
    ELSE IF x <= 250 THEN (x * 850) \div 250
    ELSE 850 + ((x - 250) * 150) \div 750

MCWeight == [v \in {"v1", "v2"} |-> IF v = "v1" THEN 2 ELSE 4]

MCTotalWeight == MCWeight["v1"] + MCWeight["v2"]

=============================================================================
