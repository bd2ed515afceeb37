\* Both command lines (metrics on and off), the flag absent or given, and
\* two updates of each meter.
CONSTANTS
    Meters = {"txCountSent", "txCountGot", "txLatency"}
    NoMeter = NoMeter
    Endpoints = {":9100"}
    NoFlag = NoFlag
    MaxUpdates = 2
SPECIFICATION Spec
INVARIANTS ExportedMetersCount 
