--------------------------- MODULE TxStormMetrics ---------------------------
(***************************************************************************)
(* The tx-storm tool's metrics (src/cmd/tx-storm/metrics.go).              *)
(*                                                                         *)
(* Go initialises a program in a fixed order: the imported go-ethereum     *)
(* metrics package first (its init() sets metrics.Enabled from the         *)
(* command line), then main's package variables (lines 16-22: the registry *)
(* and the three meters), then main, which calls SetupPrometheus.  The     *)
(* metric constructors return no-op stubs when metrics.Enabled is false at *)
(* the moment they run, and NewRegistered* ignores the error Register      *)
(* returns for a name already taken, so which meter a name exports is      *)
(* fixed by the order of lines 19-21.  The tool's updates of the meters    *)
(* (tx sent, tx got, latency samples) come from code outside this file and *)
(* are the environment here.                                               *)
(***************************************************************************)
EXTENDS Naturals

CONSTANTS
    Meters,      \* the meter variables of lines 19-21
    NoMeter,     \* a registry slot that holds no meter
    Endpoints,   \* endpoint strings the flag may be given
    NoFlag,      \* the flag not given on the command line
    MaxUpdates   \* bound on the tool's updates of one meter

ASSUME MetricsAssumption ==
    /\ Meters = {"txCountSent", "txCountGot", "txLatency"}
    /\ NoMeter \notin Meters
    /\ NoFlag \notin Endpoints
    /\ MaxUpdates \in Nat

VARIABLES
    phase,     \* "pkginit", "vars" or "main": where program initialisation is
    enabled,   \* metrics.Enabled
    kind,      \* each meter object: "none" (not yet made), "live" or "stub"
    registry,  \* reg: the meter each name is registered to
    value,     \* the count (or sample count) each meter object holds
    updates,   \* the updates the tool made to each meter
    endpoint   \* the endpoint prometheus.ListenTo serves, or "none"

vars == <<phase, enabled, kind, registry, value, updates, endpoint>>

\* Mutant of MeterName: a copy-pasted registration name.
MeterNameCopyPaste ==
    [m \in Meters |-> IF m = "txCountGot" THEN "tx_count_sent"
                      ELSE IF m = "txCountSent" THEN "tx_count_sent" ELSE "tx_latency"]

\* The names lines 19-21 register the meters under.
MeterName ==
    [m \in Meters |-> IF m = "txCountSent" THEN "tx_count_sent"
                      ELSE IF m = "txCountGot" THEN "tx_count_got" ELSE "tx_latency"]

\* The order of the declarations of lines 19-21.
MeterOrder == <<"txCountSent", "txCountGot", "txLatency">>

Names == {"tx_count_sent", "tx_count_got", "tx_latency"}

\* The flag's value: the given string, or its default (lines 10-14, 29).
EndpointFlagValue(given) == IF given = NoFlag THEN ":19090" ELSE given

\* What reg holds after lines 19-21: each name bound to the first meter
\* declared with it (Register's duplicate error is ignored), or nothing.
Registered ==
    [n \in Names |->
        LET first == {i \in 1..3 : MeterName[MeterOrder[i]] = n
                                   /\ \A j \in 1..(i - 1) : MeterName[MeterOrder[j]] # n}
        IN  IF first = {} THEN NoMeter ELSE MeterOrder[CHOOSE i \in first : TRUE]]

Init ==
    /\ phase = "pkginit"
    /\ enabled = FALSE
    /\ kind = [m \in Meters |-> "none"]
    /\ registry = [n \in Names |-> NoMeter]
    /\ value = [m \in Meters |-> 0]
    /\ updates = [m \in Meters |-> 0]
    /\ endpoint = "none"

\* go-ethereum's metrics init(): metrics.Enabled from the command line.
MetricsPkgInit ==
    /\ phase = "pkginit"
    /\ \E flagged \in BOOLEAN : enabled' = flagged
    /\ phase' = "vars"
    /\ UNCHANGED <<kind, registry, value, updates, endpoint>>

\* Lines 16-22: reg = NewRegistry(); each NewRegistered* makes a live meter,
\* or a stub when metrics are disabled, and registers it (Registered).
DeclareMeters ==
    /\ phase = "vars"
    /\ kind' = [m \in Meters |-> IF enabled THEN "live" ELSE "stub"]
    /\ registry' = Registered
    /\ phase' = "main"
    /\ UNCHANGED <<enabled, value, updates, endpoint>>

\* The tool counts a tx sent or got, or records a latency; a stub ignores it.
Update(m) ==
    /\ phase = "main"
    /\ updates[m] < MaxUpdates
    /\ updates' = [updates EXCEPT ![m] = @ + 1]
    /\ value' = IF kind[m] = "live" THEN [value EXCEPT ![m] = @ + 1] ELSE value
    /\ UNCHANGED <<phase, enabled, kind, registry, endpoint>>

\* Mutant of SetupPrometheus: the metrics.Enabled early return dropped.
SetupPrometheusNoGuard(given) ==
    /\ phase = "main"
    /\ endpoint' = EndpointFlagValue(given)
    /\ UNCHANGED <<phase, enabled, kind, registry, value, updates>>

\* Lines 24-31: return when metrics are disabled, else serve reg on the
\* endpoint of the flag.
SetupPrometheus(given) ==
    /\ phase = "main"
    /\ endpoint' = IF enabled THEN EndpointFlagValue(given) ELSE endpoint
    /\ UNCHANGED <<phase, enabled, kind, registry, value, updates>>

Next ==
    \/ MetricsPkgInit
    \/ DeclareMeters
    \/ \E m \in Meters : Update(m)
    \/ \E given \in Endpoints \cup {NoFlag} : SetupPrometheus(given)

Spec == Init /\ [][Next]_vars

-----------------------------------------------------------------------------
(* Properties *)

\* Every variable holds a value of its kind.
TypeOK ==
    /\ phase \in {"pkginit", "vars", "main"}
    /\ enabled \in BOOLEAN
    /\ kind \in [Meters -> {"none", "live", "stub"}]
    /\ registry \in [Names -> Meters \cup {NoMeter}]
    /\ value \in [Meters -> 0..MaxUpdates]
    /\ updates \in [Meters -> 0..MaxUpdates]
    /\ endpoint \in Endpoints \cup {":19090", "none"}

\* What the Prometheus endpoint exports is what the tool counted: whenever
\* SetupPrometheus serves reg, each name of lines 19-21 is registered to its
\* own meter and that meter holds every update the tool made (no meter is a
\* stub made before metrics were enabled, none lost to a name clash).
ExportedMetersCount ==
    endpoint # "none" =>
        \A m \in Meters : /\ registry[MeterName[m]] = m
                          /\ value[m] = updates[m]

\* The inductive invariant behind ExportedMetersCount, about Go's
\* initialisation order: before main nothing is counted or served; from main
\* on reg holds Registered (lines 19-21) and every meter is live or a stub by
\* the metrics.Enabled it was built under; a live meter has every update the
\* tool made; SetupPrometheus serves an endpoint only when metrics are enabled.
MetricsInv ==
    /\ TypeOK
    /\ phase # "main" => /\ value = [m \in Meters |-> 0]
                         /\ updates = [m \in Meters |-> 0]
                         /\ endpoint = "none"
    /\ phase = "main" => /\ registry = Registered
                         /\ kind = [m \in Meters |-> IF enabled THEN "live" ELSE "stub"]
    /\ phase = "main" /\ enabled => value = updates
    /\ endpoint # "none" => enabled /\ phase = "main"

=============================================================================
