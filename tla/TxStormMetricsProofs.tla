------------------------- MODULE TxStormMetricsProofs -------------------------
(***************************************************************************)
(* Proof that tx-storm's Prometheus endpoint exports what the tool counted *)
(* (ExportedMetersCount), for every bound on the updates and every set of *)
(* endpoints.                                                              *)
(***************************************************************************)
EXTENDS TxStormMetrics, TLAPS

\* The names of lines 19-21 are distinct, so each is registered to the
\* meter declared with it.
LEMMA RegisteredOwnMeter ==
    /\ Registered \in [Names -> Meters]
    /\ \A m \in Meters : Registered[MeterName[m]] = m
  <1> USE MetricsAssumption
  <1> DEFINE First(n) == {i \in 1..3 : MeterName[MeterOrder[i]] = n
                                      /\ \A j \in 1..(i - 1) : MeterName[MeterOrder[j]] # n}
  <1>1. /\ MeterName["txCountSent"] = "tx_count_sent"
        /\ MeterName["txCountGot"] = "tx_count_got"
        /\ MeterName["txLatency"] = "tx_latency"
    BY DEF MeterName
  <1>0. /\ MeterOrder[1] = "txCountSent" /\ MeterOrder[2] = "txCountGot"
        /\ MeterOrder[3] = "txLatency" /\ 1..3 = {1, 2, 3}
        /\ 1..0 = {} /\ 1..1 = {1} /\ 1..2 = {1, 2}
    BY DEF MeterOrder
  <1>2. /\ First("tx_count_sent") = {1}
        /\ First("tx_count_got") = {2}
        /\ First("tx_latency") = {3}
    BY <1>0, <1>1
  <1>3. /\ Registered["tx_count_sent"] = MeterOrder[CHOOSE i \in {1} : TRUE]
        /\ Registered["tx_count_got"] = MeterOrder[CHOOSE i \in {2} : TRUE]
        /\ Registered["tx_latency"] = MeterOrder[CHOOSE i \in {3} : TRUE]
    BY <1>2 DEF Registered, Names
  <1>5. /\ Registered["tx_count_sent"] = "txCountSent"
        /\ Registered["tx_count_got"] = "txCountGot"
        /\ Registered["tx_latency"] = "txLatency"
    BY <1>0, <1>3
  <1>6. \A n \in Names : Registered[n] \in Meters
    BY <1>5 DEF Names
  <1>7. Registered \in [Names -> Meters]
    <2> HIDE DEF Names
    <2> QED
      BY <1>6, Zenon DEF Registered
  <1>8. \A m \in Meters : Registered[MeterName[m]] = m
    BY <1>1, <1>5
  <1> QED
    BY <1>7, <1>8

LEMMA MetricsInvInit == Init => MetricsInv
  <1> SUFFICES ASSUME Init PROVE MetricsInv
    OBVIOUS
  <1>1. MaxUpdates \in Nat
    BY MetricsAssumption
  <1>2. 0 \in 0..MaxUpdates
    BY <1>1
  <1>3. TypeOK
    BY <1>2, Zenon DEF Init, TypeOK
  <1> QED
    BY <1>3 DEF Init, MetricsInv

LEMMA MetricsInvStep == MetricsInv /\ [Next]_vars => MetricsInv'
  <1> SUFFICES ASSUME MetricsInv, [Next]_vars PROVE MetricsInv'
    OBVIOUS
  <1> USE MetricsAssumption DEF MetricsInv, TypeOK
  <1>1. CASE MetricsPkgInit
    BY <1>1 DEF MetricsPkgInit
  <1>2. CASE DeclareMeters
    BY <1>2, RegisteredOwnMeter DEF DeclareMeters
  <1>3. CASE \E m \in Meters : Update(m)
    <2>1. PICK m \in Meters : Update(m)
      BY <1>3
    <2>2. phase = "main" /\ kind[m] = IF enabled THEN "live" ELSE "stub"
      BY <2>1 DEF Update
    <2>3. CASE enabled
      BY <2>1, <2>2, <2>3 DEF Update
    <2>4. CASE ~enabled
      BY <2>1, <2>2, <2>4 DEF Update
    <2> QED
      BY <2>3, <2>4
  <1>4. CASE \E given \in Endpoints \cup {NoFlag} : SetupPrometheus(given)
    <2>1. PICK given \in Endpoints \cup {NoFlag} : SetupPrometheus(given)
      BY <1>4
    <2>2. EndpointFlagValue(given) \in Endpoints \cup {":19090"}
      BY DEF EndpointFlagValue
    <2> QED
      BY <2>1, <2>2 DEF SetupPrometheus
  <1>5. CASE UNCHANGED vars
    BY <1>5 DEF vars
  <1> QED
    BY <1>1, <1>2, <1>3, <1>4, <1>5 DEF Next

\* Whenever SetupPrometheus serves reg, every name of lines 19-21 is bound
\* to its own meter and that meter has counted every update the tool made,
\* for every bound on the updates and every endpoint flag: the meters are
\* never stubs built before metrics.Enabled was read, and no name clashes.
THEOREM ExportedMetersCorrect == Spec => []ExportedMetersCount
  <1>1. Init => MetricsInv
    BY MetricsInvInit
  <1>2. MetricsInv /\ [Next]_vars => MetricsInv'
    BY MetricsInvStep
  <1>3. MetricsInv => ExportedMetersCount
    BY RegisteredOwnMeter DEF MetricsInv, ExportedMetersCount
  <1> QED
    BY <1>1, <1>2, <1>3, PTL DEF Spec

=============================================================================
